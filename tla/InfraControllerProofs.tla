------------------------ MODULE InfraControllerProofs ------------------------
(***************************************************************************)
(* The work queue invariant, the type invariant and the safety properties  *)
(* of the Infrastructure controller, for any kinds, workers, replica       *)
(* counts, faults, restarts and redeployments.                             *)
(*                                                                         *)
(* The controller only touches the queue through the queue's operations,   *)
(* so QueueInv is inherited from WorkQueueProofs; a restart is the one     *)
(* exception.  TypeOK alone is not inductive: a worker in syncHandler      *)
(* indexes the API server's state by its key, so that it holds one         *)
(* (WorkersHold) is needed too.                                            *)
(*                                                                         *)
(* None of the safety properties is inductive.  StatusWriteKeepsSpec rests *)
(* on CopiesAreOld: whatever copy a worker took, the stored Infrastructure *)
(* carries the same UID and resource version only if it is equal to it.    *)
(* PrerequisitesFirst rests on BundleInOrder: what a worker has passed in  *)
(* a create function is there, and a worker that updates has seen a        *)
(* deployment.  Both need OwnersKnown or the numbering of the UIDs.        *)
(* SeenForeignKept rests on SeenOwn: a worker that updates keeps the copy  *)
(* of a deployment that its Infrastructure owns.                           *)
(***************************************************************************)
EXTENDS InfraController, WorkQueueProofs

-----------------------------------------------------------------------------
(* Types of the values the actions build.                                  *)

(* The records for "absent" have the types of the others. *)
LEMMA AbsentTypes == NoInfra \in InfraRecord /\ NoDep \in DepRecord
  <1>1. "" \in States /\ "" \in Messages
    BY DEF States, Messages
  <1> QED
    BY <1>1 DEF NoInfra, NoDep, InfraRecord, DepRecord, Owner

(* The fields of an Infrastructure, and what the writes make of it. *)
LEMMA InfraFields ==
    ASSUME NEW i \in InfraRecord
    PROVE  /\ i.uid \in Nat /\ i.rv \in Nat /\ i.replicas \in Nat /\ i.avail \in Nat
           /\ i.state \in States /\ i.message \in Messages
  BY DEF InfraRecord

(* The writes to the spec and to the version keep the type. *)
LEMMA InfraSpecEdit ==
    ASSUME NEW i \in InfraRecord, NEW u \in Nat, NEW r \in Nat, NEW n \in Nat
    PROVE  /\ [i EXCEPT !.uid = u, !.rv = r, !.replicas = n] \in InfraRecord
           /\ [i EXCEPT !.replicas = n, !.rv = r] \in InfraRecord
           /\ [i EXCEPT !.rv = r] \in InfraRecord
  BY DEF InfraRecord

(* The writes to the status keep the type. *)
LEMMA InfraStatusEdit ==
    ASSUME NEW i \in InfraRecord, NEW a \in Nat, NEW s \in States, NEW m \in Messages
    PROVE  [i EXCEPT !.avail = a, !.state = s, !.message = m] \in InfraRecord
  BY DEF InfraRecord

(* What the create and update functions create are objects. *)
LEMMA BundleTypes ==
    ASSUME NEW k \in Keys
    PROVE  bundleCreate[k] \in Seq(Objects) /\ bundleUpdate[k] \in Seq(Objects)
  <1>1. createDashboard \in Seq(Objects)
    BY DEF createDashboard, DashboardAccess, Objects
  <1>2. createLonghorn \in Seq(Objects)
    BY DEF createLonghorn, LonghornAccess, LonghornBackend, Objects
  <1>3. createRancherVM \in Seq(Objects)
    BY DEF createRancherVM, RancherVMAccess, RancherVMBackend, Objects
  <1>4. updateLonghorn \in Seq(Objects) /\ updateRancherVM \in Seq(Objects)
    BY DEF updateLonghorn, updateRancherVM, Objects
  <1>5. << >> \in Seq(Objects)
    OBVIOUS
  <1>6. CASE k = "Dashboard"
    BY <1>1, <1>5, <1>6 DEF bundleCreate, bundleUpdate
  <1>7. CASE k = "Longhorn"
    BY <1>2, <1>4, <1>7 DEF bundleCreate, bundleUpdate
  <1>8. CASE k = "RancherVM"
    BY <1>3, <1>4, <1>8 DEF bundleCreate, bundleUpdate
  <1> QED
    BY <1>6, <1>7, <1>8, KeysAreKinds DEF Kinds

(* Writing an Infrastructure keeps the types. *)
LEMMA PutInfraType ==
    ASSUME TypeOK, NEW k \in Keys, NEW i \in InfraRecord, PutInfra(k, i)
    PROVE  infra' \in [Keys -> InfraRecord] /\ infraEv' \in [Keys -> Seq(InfraRecord)]
  <1>1. Append(infraEv[k], i) \in Seq(InfraRecord)
    BY DEF TypeOK, EventTypeOK
  <1> QED
    BY <1>1 DEF PutInfra, TypeOK, StoreTypeOK, EventTypeOK

(* Writing a deployment keeps the types. *)
LEMMA PutDepType ==
    ASSUME TypeOK, NEW k \in Keys, NEW d \in DepRecord, PutDep(k, d)
    PROVE  dep' \in [Keys -> DepRecord] /\ depEv' \in [Keys -> Seq(DepRecord)]
  <1>1. Append(depEv[k], d) \in Seq(DepRecord)
    BY DEF TypeOK, EventTypeOK
  <1> QED
    BY <1>1 DEF PutDep, TypeOK, StoreTypeOK, EventTypeOK

(* Writing another object keeps the types. *)
LEMMA PutPrereqType ==
    ASSUME TypeOK, NEW k \in Keys, NEW o \in Objects, NEW u \in Nat, PutPrereq(k, o, u)
    PROVE  prereq' \in [Keys -> [Objects -> Owner]] /\ svcEv' \in [Keys -> Seq(BOOLEAN)]
  <1>1. Append(svcEv[k], u # 0) \in Seq(BOOLEAN)
    BY DEF TypeOK, EventTypeOK
  <1>2. prereq' \in [Keys -> [Objects -> Owner]]
    BY DEF PutPrereq, TypeOK, StoreTypeOK, Owner
  <1> QED
    BY <1>1, <1>2 DEF PutPrereq, TypeOK, EventTypeOK

(* The three ways syncHandler goes on keep the types of its variables. *)
LEMMA SyncTypes ==
    ASSUME TypeOK, NEW w \in Workers, NEW d \in DepRecord, NEW e \in BOOLEAN,
           Judge(w, d) \/ Updated(w, d) \/ Return(w, e)
    PROVE  SyncTypeOK'
  <1> USE DEF TypeOK, SyncTypeOK
  <1>1. CASE Judge(w, d)
    <2>1. pc' \in [Workers -> Steps]
      BY <1>1 DEF Judge, Steps
    <2>2. failed' \in [Workers -> BOOLEAN]
      BY <1>1 DEF Judge
    <2> QED
      BY <1>1, <2>1, <2>2 DEF Judge
  <1>2. CASE Updated(w, d)
    BY <1>2 DEF Updated, Steps
  <1>3. CASE Return(w, e)
    BY <1>3 DEF Return, Steps
  <1> QED
    BY <1>1, <1>2, <1>3

(* Spending keeps the type of spent. *)
LEMMA SpendType ==
    ASSUME TypeOK, NEW c \in Costs, Spend(c)
    PROVE  spent' \in [Costs -> Nat]
  BY DEF Spend, TypeOK

-----------------------------------------------------------------------------
(* The controller drives the work queue by the queue's own operations; a   *)
(* restart alone replaces it, by one that satisfies its invariant too.     *)

(* Every step but a restart is a step of the work queue or leaves it alone. *)
LEMMA QueueSteps ==
    ASSUME [Next]_vars, ~Restart
    PROVE  QNext \/ UNCHANGED queueVars
  <1>1. ASSUME NEW k \in Keys, Environment(k) PROVE UNCHANGED queueVars
    BY <1>1 DEF Environment, InfrastructureDeploy, InfrastructureDelete, Scale,
                AvailabilityChanges, AdminDeletes, AdminCreates
  <1>2. ASSUME NEW k \in Keys, Collect(k) PROVE UNCHANGED queueVars
    BY <1>2 DEF Collect, CollectDep, CollectPrereq
  <1>3. ASSUME NEW k \in Keys, Informer(k) PROVE QNext \/ UNCHANGED queueVars
    BY <1>3 DEF Informer, DeliverInfra, DeliverDep, DeliverSvc, Resync, KeyReady,
                handleObject, enqueueInfra, QNext
  <1>4. ASSUME NEW w \in Workers, processNextWorkItem(w) PROVE QNext
    BY <1>4 DEF processNextWorkItem, QNext
  <1>5. ASSUME NEW w \in Workers, Sync(w) PROVE QNext \/ UNCHANGED queueVars
    BY <1>5 DEF Sync, LookupInfra, LookupDeployment, EnsureNamespace,
                CreatePrerequisite, CreateDeployment, updateDashboard,
                detectService, updateInfra, FinishWorkItem, QNext
  <1>6. CASE Stop
    BY <1>6 DEF Stop, QNext
  <1>7. CASE UNCHANGED vars
    BY <1>7 DEF vars
  <1> QED
    BY <1>1, <1>2, <1>3, <1>4, <1>5, <1>6, <1>7 DEF Next

(* A restart leaves a queue in which nothing is processed. *)
LEMMA RestartQueue ==
    ASSUME Restart
    PROVE  QInv'
  <1>1. QTypeOK'
    <2>1. queue' \in Seq(Keys)
      BY DEF Restart
    <2>2. shuttingDown' \in BOOLEAN
      BY DEF Restart
    <2>3. holding' \in [Workers -> Keys \union {NoKey}]
      BY DEF Restart
    <2>4. waiting' \subseteq Keys /\ dirty' = {} /\ processing' = {}
      BY DEF Restart
    <2> QED
      BY <2>1, <2>2, <2>3, <2>4 DEF QTypeOK
  <1>2. MutualExclusion' /\ ProcessingIsHeld'
    BY DEF Restart, MutualExclusion, ProcessingIsHeld
  <1>3. QueueDistinct' /\ QueuedAreDirtyAndFree'
    BY DEF Restart, QueueDistinct, QueuedAreDirtyAndFree, Queued
  <1> QED
    BY <1>1, <1>2, <1>3 DEF QInv, QueueInv

(* Every step of the controller keeps the invariant of the queue. *)
LEMMA QueueStep ==
    ASSUME QInv, [Next]_vars
    PROVE  QInv'
  <1>1. CASE Restart
    BY <1>1, RestartQueue
  <1>2. CASE ~Restart
    BY <1>2, QueueSteps, QNextInv
  <1> QED
    BY <1>1, <1>2

(* No two workers ever sync the same Infrastructure, also across restarts, *)
(* for any kinds, any number of workers and any behaviour of the cluster.  *)
THEOREM QueueCorrectInController == Spec => []QueueInv
  <1>1. Init => QInv
    BY QInitInv DEF Init
  <1>2. QInv /\ [Next]_vars => QInv'
    BY QueueStep
  <1> QED
    BY <1>1, <1>2, PTL DEF Spec, QInv

-----------------------------------------------------------------------------
(* Type correctness, one lemma for each group of actions.  The type of the *)
(* queue is part of QInv.                                                  *)

(* The requests, edits and pods around the controller keep the types. *)
LEMMA EnvironmentType ==
    ASSUME TypeOK, NEW k \in Keys, Environment(k)
    PROVE  /\ StoreTypeOK' /\ CacheTypeOK' /\ EventTypeOK' /\ SyncTypeOK'
           /\ running' \in BOOLEAN /\ spent' \in [Costs -> Nat]
  <1> USE DEF storeVars, cacheVars, eventVars, syncVars
  <1>1. /\ infra[k] \in InfraRecord /\ dep[k] \in DepRecord /\ lives[k] \in Nat
        /\ NoInfra \in InfraRecord /\ NoDep \in DepRecord
    BY AbsentTypes DEF TypeOK, StoreTypeOK
  <1>2. CASE InfrastructureDeploy(k)
    <2>1. [NoInfra EXCEPT !.uid = lives[k] + 1, !.rv = 1, !.replicas = 1] \in InfraRecord
      <3>1. lives[k] + 1 \in Nat /\ 1 \in Nat
        BY <1>1
      <3> QED
        BY <1>1, <3>1, InfraSpecEdit
    <2>2. infra' \in [Keys -> InfraRecord] /\ infraEv' \in [Keys -> Seq(InfraRecord)]
      BY <1>2, <2>1, PutInfraType DEF InfrastructureDeploy
    <2>3. spent' \in [Costs -> Nat]
      BY <1>2, SpendType DEF InfrastructureDeploy, Costs
    <2>4. lives' \in [Keys -> Nat]
      BY <1>2 DEF InfrastructureDeploy, TypeOK, StoreTypeOK
    <2> QED
      BY <1>2, <2>2, <2>3, <2>4
      DEF InfrastructureDeploy, TypeOK, StoreTypeOK, CacheTypeOK, EventTypeOK, SyncTypeOK
  <1>3. CASE InfrastructureDelete(k)
    <2>1. infra' \in [Keys -> InfraRecord] /\ infraEv' \in [Keys -> Seq(InfraRecord)]
      BY <1>3, <1>1, PutInfraType DEF InfrastructureDelete
    <2>2. spent' \in [Costs -> Nat]
      BY <1>3, SpendType DEF InfrastructureDelete, Costs
    <2> QED
      BY <1>3, <2>1, <2>2
      DEF InfrastructureDelete, TypeOK, StoreTypeOK, CacheTypeOK, EventTypeOK, SyncTypeOK
  <1>4. ASSUME NEW n \in Replicas, Scale(k, n)
        PROVE  /\ StoreTypeOK' /\ CacheTypeOK' /\ EventTypeOK' /\ SyncTypeOK'
               /\ running' \in BOOLEAN /\ spent' \in [Costs -> Nat]
    <2>1. [infra[k] EXCEPT !.replicas = n, !.rv = @ + 1] \in InfraRecord
      <3>1. infra[k].rv + 1 \in Nat /\ n \in Nat
        BY <1>1, InfraFields, ReplicasAssumption
      <3> QED
        BY <1>1, <3>1, InfraSpecEdit
    <2>2. infra' \in [Keys -> InfraRecord] /\ infraEv' \in [Keys -> Seq(InfraRecord)]
      BY <1>4, <2>1, PutInfraType DEF Scale
    <2>3. spent' \in [Costs -> Nat]
      BY <1>4, SpendType DEF Scale, Costs
    <2> QED
      BY <1>4, <2>2, <2>3
      DEF Scale, TypeOK, StoreTypeOK, CacheTypeOK, EventTypeOK, SyncTypeOK
  <1>5. ASSUME NEW n \in 0 .. dep[k].replicas, AvailabilityChanges(k, n)
        PROVE  /\ StoreTypeOK' /\ CacheTypeOK' /\ EventTypeOK' /\ SyncTypeOK'
               /\ running' \in BOOLEAN /\ spent' \in [Costs -> Nat]
    <2>1. [dep[k] EXCEPT !.avail = n] \in DepRecord
      BY <1>1 DEF DepRecord
    <2>2. dep' \in [Keys -> DepRecord] /\ depEv' \in [Keys -> Seq(DepRecord)]
      BY <1>5, <2>1, PutDepType DEF AvailabilityChanges
    <2>3. spent' \in [Costs -> Nat]
      BY <1>5, SpendType DEF AvailabilityChanges, Costs
    <2> QED
      BY <1>5, <2>2, <2>3
      DEF AvailabilityChanges, TypeOK, StoreTypeOK, CacheTypeOK, EventTypeOK, SyncTypeOK
  <1>6. CASE AdminDeletes(k) \/ AdminCreates(k)
    <2>1. \A n \in Replicas :
            [NoDep EXCEPT !.owner = Foreign, !.replicas = n] \in DepRecord
      BY <1>1, ReplicasAssumption DEF DepRecord, Owner
    <2>2. dep' \in [Keys -> DepRecord] /\ depEv' \in [Keys -> Seq(DepRecord)]
      BY <1>1, <1>6, <2>1, PutDepType DEF AdminDeletes, AdminCreates
    <2>3. spent' \in [Costs -> Nat]
      BY <1>6, SpendType DEF AdminDeletes, AdminCreates, Costs
    <2> QED
      BY <1>6, <2>2, <2>3
      DEF AdminDeletes, AdminCreates, TypeOK, StoreTypeOK, CacheTypeOK, EventTypeOK,
          SyncTypeOK
  <1> QED
    BY <1>2, <1>3, <1>4, <1>5, <1>6 DEF Environment

(* The garbage collector keeps the types. *)
LEMMA CollectType ==
    ASSUME TypeOK, NEW k \in Keys, Collect(k)
    PROVE  /\ StoreTypeOK' /\ CacheTypeOK' /\ EventTypeOK' /\ SyncTypeOK'
           /\ running' \in BOOLEAN /\ spent' \in [Costs -> Nat]
  <1> USE DEF storeVars, cacheVars, eventVars, syncVars
  <1>1. CASE CollectDep(k)
    <2>1. dep' \in [Keys -> DepRecord] /\ depEv' \in [Keys -> Seq(DepRecord)]
      BY <1>1, AbsentTypes, PutDepType DEF CollectDep
    <2> QED
      BY <1>1, <2>1
      DEF CollectDep, TypeOK, StoreTypeOK, CacheTypeOK, EventTypeOK, SyncTypeOK
  <1>2. ASSUME NEW i \in 1 .. Len(bundleCreate[k]), CollectPrereq(k, i)
        PROVE  /\ StoreTypeOK' /\ CacheTypeOK' /\ EventTypeOK' /\ SyncTypeOK'
               /\ running' \in BOOLEAN /\ spent' \in [Costs -> Nat]
    <2>1. bundleCreate[k][i] \in Objects
      BY BundleTypes
    <2>2. prereq' \in [Keys -> [Objects -> Owner]] /\ svcEv' \in [Keys -> Seq(BOOLEAN)]
      BY <1>2, <2>1, PutPrereqType DEF CollectPrereq
    <2> QED
      BY <1>2, <2>2
      DEF CollectPrereq, TypeOK, StoreTypeOK, CacheTypeOK, EventTypeOK, SyncTypeOK
  <1> QED
    BY <1>1, <1>2 DEF Collect

(* The informers and their handlers keep the types. *)
LEMMA InformerType ==
    ASSUME TypeOK, NEW k \in Keys, Informer(k)
    PROVE  /\ StoreTypeOK' /\ CacheTypeOK' /\ EventTypeOK' /\ SyncTypeOK'
           /\ running' \in BOOLEAN /\ spent' \in [Costs -> Nat]
  <1> USE DEF storeVars, cacheVars, eventVars, syncVars
  <1>1. CASE DeliverInfra(k)
    <2>1. Head(infraEv[k]) \in InfraRecord /\ Tail(infraEv[k]) \in Seq(InfraRecord)
      BY <1>1 DEF DeliverInfra, TypeOK, EventTypeOK
    <2> QED
      BY <1>1, <2>1
      DEF DeliverInfra, TypeOK, StoreTypeOK, CacheTypeOK, EventTypeOK, SyncTypeOK
  <1>2. CASE DeliverDep(k)
    <2>1. Head(depEv[k]) \in DepRecord /\ Tail(depEv[k]) \in Seq(DepRecord)
      BY <1>2 DEF DeliverDep, TypeOK, EventTypeOK
    <2> QED
      BY <1>2, <2>1
      DEF DeliverDep, TypeOK, StoreTypeOK, CacheTypeOK, EventTypeOK, SyncTypeOK
  <1>3. CASE DeliverSvc(k)
    <2>1. Head(svcEv[k]) \in BOOLEAN /\ Tail(svcEv[k]) \in Seq(BOOLEAN)
      BY <1>3 DEF DeliverSvc, TypeOK, EventTypeOK
    <2> QED
      BY <1>3, <2>1
      DEF DeliverSvc, TypeOK, StoreTypeOK, CacheTypeOK, EventTypeOK, SyncTypeOK
  <1>4. CASE Resync(k) \/ KeyReady(k)
    BY <1>4
    DEF Resync, KeyReady, TypeOK, StoreTypeOK, CacheTypeOK, EventTypeOK, SyncTypeOK
  <1> QED
    BY <1>1, <1>2, <1>3, <1>4 DEF Informer

(* A worker in syncHandler holds a key. *)
WorkersHold == \A w \in Workers : pc[w] # "idle" => holding[w] \in Keys

(* The steps of syncHandler keep the types. *)
LEMMA SyncType ==
    ASSUME TypeOK, WorkersHold, NEW w \in Workers, Sync(w)
    PROVE  /\ StoreTypeOK' /\ CacheTypeOK' /\ EventTypeOK' /\ SyncTypeOK'
           /\ running' \in BOOLEAN /\ spent' \in [Costs -> Nat]
  <1> USE DEF storeVars, cacheVars, eventVars, syncVars
  <1> DEFINE k == holding[w]
  <1>k. pc[w] # "idle" => k \in Keys
    BY DEF WorkersHold
  <1>w. snap[w] \in InfraRecord /\ view[w] \in DepRecord /\ step[w] \in Nat
    BY DEF TypeOK, SyncTypeOK
  <1>n. NoInfra \in InfraRecord /\ NoDep \in DepRecord
    BY AbsentTypes
  <1>e. TRUE \in BOOLEAN /\ FALSE \in BOOLEAN /\ "fault" \in Costs
    BY DEF Costs
  <1>1. CASE LookupInfra(w)
    <2>1. infraCache[k] \in InfraRecord
      BY <1>1, <1>k DEF LookupInfra, TypeOK, CacheTypeOK
    <2>2. SyncTypeOK'
      <3>1. CASE Return(w, FALSE)
        BY <3>1, <1>n, <1>e, SyncTypes
      <3>2. CASE ~Return(w, FALSE)
        BY <1>1, <3>2, <2>1 DEF LookupInfra, TypeOK, SyncTypeOK, Steps
      <3> QED
        BY <3>1, <3>2
    <2> QED
      BY <1>1, <2>2 DEF LookupInfra, TypeOK, StoreTypeOK, CacheTypeOK, EventTypeOK
  <1>2. CASE LookupDeployment(w)
    <2>1. depCache[k] \in DepRecord
      BY <1>2, <1>k DEF LookupDeployment, TypeOK, CacheTypeOK
    <2>2. SyncTypeOK'
      <3>1. CASE Judge(w, depCache[k])
        BY <3>1, <2>1, <1>e, SyncTypes
      <3>2. CASE ~Judge(w, depCache[k])
        BY <1>2, <3>2 DEF LookupDeployment, TypeOK, SyncTypeOK, Steps
      <3> QED
        BY <3>1, <3>2
    <2> QED
      BY <1>2, <2>2 DEF LookupDeployment, TypeOK, StoreTypeOK, CacheTypeOK, EventTypeOK
  <1>3. CASE EnsureNamespace(w)
    <2>1. SyncTypeOK' /\ spent' \in [Costs -> Nat]
      <3>1. CASE Spend("fault") /\ Return(w, TRUE)
        BY <3>1, <1>n, <1>e, SyncTypes, SpendType
      <3>2. CASE /\ step' = [step EXCEPT ![w] = 1]
                 /\ UNCHANGED <<pc, snap, view, healthy, failed, spent>>
        BY <3>2 DEF TypeOK, SyncTypeOK
      <3> QED
        BY <1>3, <3>1, <3>2 DEF EnsureNamespace
    <2> QED
      BY <1>3, <2>1 DEF EnsureNamespace, TypeOK, StoreTypeOK, CacheTypeOK, EventTypeOK
  <1>4. CASE CreatePrerequisite(w)
    <2> DEFINE o == Creates(w)[step[w]]
    <2>1. k \in Keys /\ o \in Objects
      <3>1. k \in Keys
        BY <1>4, <1>k DEF CreatePrerequisite
      <3>2. Creates(w) \in Seq(Objects)
        BY <3>1, BundleTypes DEF Creates
      <3> QED
        BY <1>4, <3>1, <3>2 DEF CreatePrerequisite
    <2>2. prereq' \in [Keys -> [Objects -> Owner]] /\ svcEv' \in [Keys -> Seq(BOOLEAN)]
      <3>1. CASE UNCHANGED <<prereq, svcEv>>
        BY <3>1 DEF TypeOK, StoreTypeOK, EventTypeOK
      <3>2. CASE PutPrereq(k, o, snap[w].uid)
        BY <3>2, <2>1, <1>w, InfraFields, PutPrereqType
      <3> QED
        BY <1>4, <3>1, <3>2 DEF CreatePrerequisite, CreateObject
    <2>3. SyncTypeOK' /\ spent' \in [Costs -> Nat]
      <3>1. CASE CallFails(w)
        BY <3>1, <1>n, <1>e, SyncTypes, SpendType DEF CallFails
      <3>2. CASE Updated(w, NoDep) /\ UNCHANGED spent
        BY <3>2, <1>n, <1>e, SyncTypes DEF TypeOK
      <3>3. CASE /\ step' = [step EXCEPT ![w] = @ + 1]
                 /\ UNCHANGED <<pc, snap, view, healthy, failed, spent>>
        BY <3>3 DEF TypeOK, SyncTypeOK
      <3> QED
        BY <1>4, <3>1, <3>2, <3>3 DEF CreatePrerequisite
    <2> QED
      BY <1>4, <2>2, <2>3
      DEF CreatePrerequisite, TypeOK, StoreTypeOK, CacheTypeOK, EventTypeOK
  <1>5. CASE CreateDeployment(w)
    <2> DEFINE new == [owner |-> snap[w].uid, replicas |-> snap[w].replicas, avail |-> 0]
    <2> DEFINE d == IF dep[k] = NoDep THEN new ELSE NoDep
    <2>1. k \in Keys
      BY <1>5, <1>k DEF CreateDeployment
    <2>2. new \in DepRecord /\ d \in DepRecord
      BY <1>w, <1>n, InfraFields DEF DepRecord, Owner
    <2>3. dep' \in [Keys -> DepRecord] /\ depEv' \in [Keys -> Seq(DepRecord)]
      <3>1. CASE UNCHANGED <<dep, depEv>>
        BY <3>1 DEF TypeOK, StoreTypeOK, EventTypeOK
      <3>2. CASE PutDep(k, new)
        BY <3>2, <2>1, <2>2, PutDepType
      <3> QED
        BY <1>5, <3>1, <3>2 DEF CreateDeployment
    <2>4. SyncTypeOK' /\ spent' \in [Costs -> Nat]
      <3>1. CASE CallFails(w)
        BY <3>1, <1>n, <1>e, SyncTypes, SpendType DEF CallFails
      <3>2. CASE (Judge(w, d) \/ Updated(w, d)) /\ UNCHANGED spent
        BY <3>2, <2>2, <1>e, SyncTypes DEF TypeOK
      <3> QED
        BY <1>5, <3>1, <3>2 DEF CreateDeployment
    <2> QED
      BY <1>5, <2>3, <2>4
      DEF CreateDeployment, TypeOK, StoreTypeOK, CacheTypeOK, EventTypeOK
  <1>6. CASE updateDashboard(w)
    <2> DEFINE new == [dep[k] EXCEPT !.owner = snap[w].uid, !.replicas = snap[w].replicas]
    <2>1. k \in Keys
      BY <1>6, <1>k DEF updateDashboard
    <2>2. new \in DepRecord
      <3>1. dep[k] \in DepRecord
        BY <2>1 DEF TypeOK, StoreTypeOK
      <3>2. snap[w].uid \in Owner /\ snap[w].replicas \in Nat
        BY <1>w, InfraFields DEF Owner
      <3> QED
        BY <3>1, <3>2 DEF DepRecord
    <2>3. dep' \in [Keys -> DepRecord] /\ depEv' \in [Keys -> Seq(DepRecord)]
      <3>1. CASE UNCHANGED <<dep, depEv>>
        BY <3>1 DEF TypeOK, StoreTypeOK, EventTypeOK
      <3>2. CASE PutDep(k, new)
        BY <3>2, <2>1, <2>2, PutDepType
      <3> QED
        BY <1>6, <3>1, <3>2 DEF updateDashboard
    <2>4. SyncTypeOK' /\ spent' \in [Costs -> Nat]
      <3>1. CASE CallFails(w)
        BY <3>1, <1>n, <1>e, SyncTypes, SpendType DEF CallFails
      <3>2. CASE (Updated(w, new) \/ Return(w, TRUE)) /\ UNCHANGED spent
        BY <3>2, <2>2, <1>e, SyncTypes DEF TypeOK
      <3> QED
        BY <1>6, <3>1, <3>2 DEF updateDashboard
    <2> QED
      BY <1>6, <2>3, <2>4
      DEF updateDashboard, TypeOK, StoreTypeOK, CacheTypeOK, EventTypeOK
  <1>7. CASE detectService(w)
    <2>1. svcCache[k] \in BOOLEAN
      BY <1>7, <1>k DEF detectService, TypeOK, CacheTypeOK
    <2>2. healthy' \in [Workers -> BOOLEAN]
      BY <1>7, <2>1 DEF detectService, TypeOK, SyncTypeOK
    <2>3. pc' \in [Workers -> Steps]
      BY <1>7 DEF detectService, TypeOK, SyncTypeOK, Steps
    <2> QED
      BY <1>7, <2>2, <2>3
      DEF detectService, TypeOK, StoreTypeOK, CacheTypeOK, EventTypeOK, SyncTypeOK
  <1>8. CASE updateInfra(w)
    <2>1. k \in Keys
      BY <1>8, <1>k DEF updateInfra
    <2>2. InfraCopy(w) \in InfraRecord
      <3>1. view[w].avail \in Nat
        BY <1>w DEF DepRecord
      <3>2. (IF healthy[w] /\ view[w].avail > 0 THEN "Healthy" ELSE "UnHealthy") \in States
        BY DEF States
      <3>3. (IF healthy[w] THEN snap[w].message ELSE "not found") \in Messages
        BY <1>w, InfraFields DEF Messages
      <3> QED
        BY <1>w, <3>1, <3>2, <3>3, InfraStatusEdit DEF InfraCopy
    <2>3. [InfraCopy(w) EXCEPT !.rv = @ + 1] \in InfraRecord
      <3>1. InfraCopy(w).rv + 1 \in Nat
        BY <2>2, InfraFields
      <3> QED
        BY <3>1, <2>2, InfraSpecEdit
    <2>4. infra' \in [Keys -> InfraRecord] /\ infraEv' \in [Keys -> Seq(InfraRecord)]
      <3>1. CASE UNCHANGED <<infra, infraEv>>
        BY <3>1 DEF TypeOK, StoreTypeOK, EventTypeOK
      <3>2. CASE PutInfra(k, [InfraCopy(w) EXCEPT !.rv = @ + 1])
        BY <3>2, <2>1, <2>3, PutInfraType
      <3> QED
        BY <1>8, <3>1, <3>2 DEF updateInfra, Store
    <2>5. SyncTypeOK' /\ spent' \in [Costs -> Nat]
      <3>1. CASE CallFails(w)
        BY <3>1, <1>n, <1>e, SyncTypes, SpendType DEF CallFails
      <3>2. CASE (Return(w, FALSE) \/ Return(w, TRUE)) /\ UNCHANGED spent
        BY <3>2, <1>n, <1>e, SyncTypes DEF TypeOK
      <3> QED
        BY <1>8, <3>1, <3>2 DEF updateInfra
    <2> QED
      BY <1>8, <2>4, <2>5
      DEF updateInfra, TypeOK, StoreTypeOK, CacheTypeOK, EventTypeOK
  <1>9. CASE FinishWorkItem(w)
    <2>1. SyncTypeOK'
      BY <1>9, <1>n DEF FinishWorkItem, TypeOK, SyncTypeOK, Steps
    <2> QED
      BY <1>9, <2>1 DEF FinishWorkItem, TypeOK, StoreTypeOK, CacheTypeOK, EventTypeOK
  <1> QED
    BY <1>1, <1>2, <1>3, <1>4, <1>5, <1>6, <1>7, <1>8, <1>9 DEF Sync

(* How a step of Next changes pc and holding: only a worker's own steps    *)
(* and a restart do.                                                       *)
LEMMA SyncFrame ==
    ASSUME TypeOK, NEW w \in Workers, Sync(w)
    PROVE  /\ pc[w] # "idle"
           /\ \A v \in Workers \ {w} : /\ pc'[v] = pc[v] /\ step'[v] = step[v]
                                       /\ snap'[v] = snap[v]
                                       /\ holding'[v] = holding[v]
           /\ pc'[w] # "idle" => holding'[w] = holding[w]
  <1> USE DEF queueVars, TypeOK, SyncTypeOK, QTypeOK
  <1>1. CASE LookupInfra(w)
    BY <1>1 DEF LookupInfra, Return
  <1>2. CASE LookupDeployment(w)
    BY <1>2 DEF LookupDeployment, Judge
  <1>3. CASE EnsureNamespace(w)
    BY <1>3 DEF EnsureNamespace, Return
  <1>4. CASE CreatePrerequisite(w)
    BY <1>4 DEF CreatePrerequisite, Updated, CallFails, Return
  <1>5. CASE CreateDeployment(w)
    BY <1>5 DEF CreateDeployment, Judge, Updated, CallFails, Return
  <1>6. CASE updateDashboard(w)
    BY <1>6 DEF updateDashboard, Updated, CallFails, Return
  <1>7. CASE detectService(w)
    BY <1>7 DEF detectService
  <1>8. CASE updateInfra(w)
    BY <1>8 DEF updateInfra, CallFails, Return
  <1>9. CASE FinishWorkItem(w)
    BY <1>9 DEF FinishWorkItem, Done
  <1> QED
    BY <1>1, <1>2, <1>3, <1>4, <1>5, <1>6, <1>7, <1>8, <1>9 DEF Sync

(* Nothing but a worker's own step or a restart changes where it is. *)
LEMMA OutsideFrame ==
    ASSUME \/ \E k \in Keys : Environment(k) \/ Collect(k) \/ Informer(k)
           \/ Stop
           \/ UNCHANGED vars
    PROVE  UNCHANGED <<syncVars, holding>>
  <1>1. ASSUME NEW k \in Keys, Environment(k) PROVE UNCHANGED <<syncVars, holding>>
    BY <1>1 DEF Environment, InfrastructureDeploy, InfrastructureDelete, Scale,
                AvailabilityChanges, AdminDeletes, AdminCreates, queueVars
  <1>2. ASSUME NEW k \in Keys, Collect(k) PROVE UNCHANGED <<syncVars, holding>>
    BY <1>2 DEF Collect, CollectDep, CollectPrereq, queueVars
  <1>3. ASSUME NEW k \in Keys, Informer(k) PROVE UNCHANGED <<syncVars, holding>>
    BY <1>3 DEF Informer, DeliverInfra, DeliverDep, DeliverSvc, Resync, KeyReady,
                handleObject, enqueueInfra, AddRateLimited, WaitingReady, queueVars
  <1>4. CASE Stop
    BY <1>4 DEF Stop, ShutDown
  <1>5. CASE UNCHANGED vars
    BY <1>5 DEF vars, queueVars
  <1> QED
    BY <1>1, <1>2, <1>3, <1>4, <1>5

-----------------------------------------------------------------------------
TypeInv == QInv /\ TypeOK /\ WorkersHold

(* The type invariant holds when the program starts. *)
LEMMA TypeInit == Init => TypeInv
  <1> SUFFICES ASSUME Init PROVE TypeInv
    OBVIOUS
  <1>1. QInv
    BY QInitInv DEF Init
  <1>2. StoreTypeOK
    <2>1. infra \in [Keys -> InfraRecord] /\ dep \in [Keys -> DepRecord]
      BY AbsentTypes DEF Init
    <2>2. lives \in [Keys -> Nat]
      BY DEF Init
    <2>3. prereq \in [Keys -> [Objects -> Owner]]
      BY DEF Init, Owner
    <2> QED
      BY <2>1, <2>2, <2>3 DEF StoreTypeOK
  <1>3. CacheTypeOK
    BY <1>2 DEF Init, CacheTypeOK, StoreTypeOK
  <1>4. EventTypeOK
    BY DEF Init, EventTypeOK
  <1>5. SyncTypeOK
    <2>1. pc \in [Workers -> Steps] /\ step \in [Workers -> Nat]
      BY DEF Init, Steps
    <2>2. snap \in [Workers -> InfraRecord] /\ view \in [Workers -> DepRecord]
      BY AbsentTypes DEF Init
    <2>3. healthy \in [Workers -> BOOLEAN] /\ failed \in [Workers -> BOOLEAN]
      BY DEF Init
    <2> QED
      BY <2>1, <2>2, <2>3 DEF SyncTypeOK
  <1>6. running \in BOOLEAN /\ spent \in [Costs -> Nat]
    BY DEF Init
  <1>7. WorkersHold
    BY DEF Init, WorkersHold
  <1> QED
    BY <1>1, <1>2, <1>3, <1>4, <1>5, <1>6, <1>7 DEF TypeInv, TypeOK, QInv

(* A worker keeps its key from Get to Done. *)
LEMMA WorkersHoldStep ==
    ASSUME TypeInv, [Next]_vars
    PROVE  WorkersHold'
  <1> USE DEF TypeInv, WorkersHold
  <1>1. ASSUME NEW w \in Workers, Sync(w) PROVE WorkersHold'
    BY <1>1, SyncFrame
  <1>2. ASSUME NEW w \in Workers, processNextWorkItem(w) PROVE WorkersHold'
    <2>1. Head(queue) \in Keys
      BY <1>2 DEF processNextWorkItem, Get, QInv, QTypeOK
    <2> QED
      BY <1>2, <2>1 DEF processNextWorkItem, Get, TypeOK, SyncTypeOK, QTypeOK
  <1>3. CASE Restart
    BY <1>3 DEF Restart
  <1>4. CASE UNCHANGED <<syncVars, holding>>
    BY <1>4 DEF syncVars
  <1> QED
    BY <1>1, <1>2, <1>3, <1>4, OutsideFrame DEF Next

(* Every step keeps the type invariant. *)
LEMMA TypeStep ==
    ASSUME TypeInv, [Next]_vars
    PROVE  TypeInv'
  <1> DEFINE Rest == /\ StoreTypeOK /\ CacheTypeOK /\ EventTypeOK /\ SyncTypeOK
                     /\ running \in BOOLEAN /\ spent \in [Costs -> Nat]
  <1> USE DEF TypeInv
  <1>1. QInv'
    BY QueueStep
  <1>2. WorkersHold'
    BY WorkersHoldStep
  <1>3. ASSUME NEW k \in Keys, Environment(k) \/ Collect(k) \/ Informer(k) PROVE Rest'
    BY <1>3, EnvironmentType, CollectType, InformerType
  <1>4. ASSUME NEW w \in Workers, Sync(w) PROVE Rest'
    BY <1>4, SyncType
  <1>5. ASSUME NEW w \in Workers, processNextWorkItem(w) PROVE Rest'
    <2>1. SyncTypeOK'
      BY <1>5 DEF processNextWorkItem, TypeOK, SyncTypeOK, Steps
    <2> QED
      BY <1>5, <2>1 DEF processNextWorkItem, storeVars, cacheVars, eventVars, TypeOK,
                        StoreTypeOK, CacheTypeOK, EventTypeOK
  <1>6. ASSUME Stop PROVE Rest'
    <2>1. spent' \in [Costs -> Nat]
      BY <1>6, SpendType DEF Stop, Costs
    <2> QED
      BY <1>6, <2>1 DEF Stop, storeVars, cacheVars, eventVars, syncVars, TypeOK,
                        StoreTypeOK, CacheTypeOK, EventTypeOK, SyncTypeOK
  <1>7. ASSUME Restart PROVE Rest'
    <2>1. spent' \in [Costs -> Nat]
      BY <1>7, SpendType DEF Restart, Costs
    <2>2. StoreTypeOK' /\ running' \in BOOLEAN
      BY <1>7 DEF Restart, storeVars, TypeOK, StoreTypeOK
    <2>3. CacheTypeOK'
      <3>1. svcCache' \in [Keys -> BOOLEAN]
        BY <1>7 DEF Restart
      <3> QED
        BY <1>7, <3>1 DEF Restart, TypeOK, CacheTypeOK, StoreTypeOK
    <2>4. EventTypeOK'
      BY <1>7 DEF Restart, EventTypeOK
    <2>5. SyncTypeOK'
      <3>1. pc' \in [Workers -> Steps] /\ step' \in [Workers -> Nat]
        BY <1>7 DEF Restart, Steps
      <3>2. snap' \in [Workers -> InfraRecord] /\ view' \in [Workers -> DepRecord]
        BY <1>7, AbsentTypes DEF Restart
      <3>3. healthy' \in [Workers -> BOOLEAN] /\ failed' \in [Workers -> BOOLEAN]
        BY <1>7 DEF Restart
      <3> QED
        BY <3>1, <3>2, <3>3 DEF SyncTypeOK
    <2> QED
      BY <2>1, <2>2, <2>3, <2>4, <2>5
  <1>8. ASSUME UNCHANGED vars PROVE Rest'
    BY <1>8 DEF vars, storeVars, cacheVars, eventVars, syncVars, TypeOK,
                StoreTypeOK, CacheTypeOK, EventTypeOK, SyncTypeOK
  <1>9. Rest'
    BY <1>3, <1>4, <1>5, <1>6, <1>7, <1>8 DEF Next
  <1> QED
    BY <1>1, <1>2, <1>9 DEF TypeOK, QInv

(* Every variable of the controller keeps its type, for any kinds,         *)
(* workers, replica counts and budgets.                                    *)
THEOREM TypeCorrect == Spec => []TypeOK
  <1>1. TypeInv /\ [Next]_vars => TypeInv'
    BY TypeStep
  <1> QED
    BY TypeInit, <1>1, PTL DEF Spec, TypeInv

-----------------------------------------------------------------------------
(* How the stored Infrastructure i, the n-th, may change in one step. *)
Evolves(i, n, j, m) ==
    \/ j = i /\ m = n
    \/ j = NoInfra /\ m = n
    \/ j # NoInfra /\ j.uid = n + 1 /\ m = n + 1
    \/ i # NoInfra /\ j # NoInfra /\ j.uid = i.uid /\ j.rv = i.rv + 1 /\ m = n

(* A copy stays a copy. *)
LEMMA CopyStaysCopy ==
    ASSUME NEW c \in InfraRecord, NEW i \in InfraRecord, NEW j \in InfraRecord,
           NEW n \in Nat, NEW m \in Nat,
           i # NoInfra => i.uid = n /\ n > 0,
           IsCopy(c, i, n), Evolves(i, n, j, m)
    PROVE  IsCopy(c, j, m)
  <1> SUFFICES ASSUME c # NoInfra
               PROVE  /\ c.uid \in 1 .. m
                      /\ c.uid = j.uid => c.rv <= j.rv /\ (c.rv = j.rv => c = j)
    BY DEF IsCopy
  <1>1. /\ c.uid \in 1 .. n /\ c.uid \in Nat /\ c.rv \in Nat
        /\ i.uid \in Nat /\ i.rv \in Nat /\ j.uid \in Nat /\ j.rv \in Nat
        /\ c.uid = i.uid => c.rv <= i.rv /\ (c.rv = i.rv => c = i)
    BY InfraFields DEF IsCopy
  <1>2. CASE j = i /\ m = n
    BY <1>1, <1>2
  <1>3. CASE j = NoInfra /\ m = n
    <2>1. j.uid = 0
      BY <1>3 DEF NoInfra
    <2> QED
      BY <1>1, <1>3, <2>1
  <1>4. CASE j.uid = n + 1 /\ m = n + 1
    BY <1>1, <1>4
  <1>5. CASE i # NoInfra /\ j.uid = i.uid /\ j.rv = i.rv + 1 /\ m = n
    BY <1>1, <1>5
  <1> QED
    BY <1>2, <1>3, <1>4, <1>5 DEF Evolves

(* The stored Infrastructure is a copy of itself. *)
LEMMA StoredIsCopy ==
    ASSUME NEW i \in InfraRecord, NEW n \in Nat, i # NoInfra => i.uid = n /\ n > 0
    PROVE  IsCopy(i, i, n)
  <1>1. i.uid \in Nat /\ i.rv \in Nat
    BY InfraFields
  <1> QED
    BY <1>1 DEF IsCopy

(* A step moves an Infrastructure on as Evolves says, and the undelivered  *)
(* events are old ones or the new version.                                 *)
InfraMoves(k) ==
    /\ Evolves(infra[k], lives[k], infra'[k], lives'[k])
    /\ \A i \in 1 .. Len(infraEv'[k]) :
        \/ infraEv'[k][i] = infra'[k]
        \/ \E j \in 1 .. Len(infraEv[k]) : infraEv'[k][i] = infraEv[k][j]
    /\ \/ infraCache'[k] = infraCache[k]
       \/ infraCache'[k] = infra'[k]
       \/ \E j \in 1 .. Len(infraEv[k]) : infraCache'[k] = infraEv[k][j]

(* A write to one Infrastructure moves every Infrastructure on. *)
LEMMA PutInfraMoves ==
    ASSUME TypeOK, NEW k \in Keys, NEW q \in Keys, NEW i \in InfraRecord, PutInfra(q, i),
           UNCHANGED infraCache,
           Evolves(infra[q], lives[q], i, lives'[q]),
           \A p \in Keys \ {q} : lives'[p] = lives[p]
    PROVE  InfraMoves(k)
  <1>1. CASE k # q
    <2>1. infra'[k] = infra[k] /\ infraEv'[k] = infraEv[k] /\ lives'[k] = lives[k]
      BY <1>1 DEF PutInfra, TypeOK, StoreTypeOK, EventTypeOK
    <2> QED
      BY <2>1 DEF InfraMoves, Evolves
  <1>2. CASE k = q
    <2>1. infra'[k] = i /\ infraEv'[k] = Append(infraEv[k], i)
      BY <1>2 DEF PutInfra, TypeOK, StoreTypeOK, EventTypeOK
    <2>2. infraEv[k] \in Seq(InfraRecord)
      BY DEF TypeOK, EventTypeOK
    <2>3. ASSUME NEW j \in 1 .. Len(infraEv'[k])
          PROVE  \/ infraEv'[k][j] = infra'[k]
                 \/ \E l \in 1 .. Len(infraEv[k]) : infraEv'[k][j] = infraEv[k][l]
      <3>1. Len(infraEv'[k]) = Len(infraEv[k]) + 1 /\ Len(infraEv[k]) \in Nat
        BY <2>1, <2>2
      <3>2. CASE j = Len(infraEv[k]) + 1
        BY <3>2, <2>1, <2>2
      <3>3. CASE j # Len(infraEv[k]) + 1
        <4>1. j \in 1 .. Len(infraEv[k])
          BY <3>1, <3>3
        <4>2. infraEv'[k][j] = infraEv[k][j]
          BY <4>1, <2>1, <2>2
        <4> QED
          BY <4>1, <4>2
      <3> QED
        BY <3>2, <3>3
    <2> QED
      BY <1>2, <2>1, <2>3 DEF InfraMoves
  <1> QED
    BY <1>1, <1>2

(* What a worker about to write the status knows. *)
LEMMA WriterCopy ==
    ASSUME TypeInv, CopiesAreOld, NEW w \in Workers, pc[w] = "write"
    PROVE  /\ holding[w] \in Keys
           /\ InfraCopy(w) \in InfraRecord
           /\ InfraCopy(w).uid = snap[w].uid /\ InfraCopy(w).rv = snap[w].rv
           /\ InfraCopy(w).replicas = snap[w].replicas
           /\ snap[w] # NoInfra /\ snap[w].uid \in 1 .. lives[holding[w]]
           /\ IsCopy(snap[w], infra[holding[w]], lives[holding[w]])
  <1>1. holding[w] \in Keys
    BY DEF TypeInv, WorkersHold
  <1>2. snap[w] # NoInfra /\ IsCopy(snap[w], infra[holding[w]], lives[holding[w]])
    BY <1>1 DEF CopiesAreOld, Syncing
  <1>3. snap[w] \in InfraRecord /\ view[w] \in DepRecord
    BY DEF TypeInv, TypeOK, SyncTypeOK
  <1>4. InfraCopy(w) \in InfraRecord
    <2>1. view[w].avail \in Nat
      BY <1>3 DEF DepRecord
    <2>2. (IF healthy[w] /\ view[w].avail > 0 THEN "Healthy" ELSE "UnHealthy") \in States
      BY DEF States
    <2>3. (IF healthy[w] THEN snap[w].message ELSE "not found") \in Messages
      BY <1>3, InfraFields DEF Messages
    <2> QED
      BY <1>3, <2>1, <2>2, <2>3, InfraStatusEdit DEF InfraCopy
  <1>5. /\ InfraCopy(w).uid = snap[w].uid /\ InfraCopy(w).rv = snap[w].rv
        /\ InfraCopy(w).replicas = snap[w].replicas
    BY <1>3 DEF InfraCopy, InfraRecord
  <1> QED
    BY <1>1, <1>2, <1>4, <1>5 DEF IsCopy

(* Every step moves every Infrastructure on, as InfraMoves says. *)
LEMMA InfraMovesStep ==
    ASSUME TypeInv, CopiesAreOld, [Next]_vars, NEW k \in Keys
    PROVE  InfraMoves(k)
  <1> DEFINE Same == /\ UNCHANGED <<infra, lives>>
                     /\ UNCHANGED <<infraEv, infraCache>>
  <1>s. ASSUME Same PROVE InfraMoves(k)
    BY <1>s DEF InfraMoves, Evolves
  <1>t. TypeOK /\ \A q \in Keys : infra[q] \in InfraRecord /\ lives[q] \in Nat
    BY DEF TypeInv, TypeOK, StoreTypeOK
  <1>1. ASSUME NEW q \in Keys, InfrastructureDeploy(q) PROVE InfraMoves(k)
    <2> DEFINE i == [NoInfra EXCEPT !.uid = lives[q] + 1, !.rv = 1, !.replicas = 1]
    <2>1. i \in InfraRecord
      <3>1. lives[q] + 1 \in Nat /\ 1 \in Nat
        BY <1>t
      <3> QED
        BY <3>1, AbsentTypes, InfraSpecEdit
    <2>2. i.uid = lives[q] + 1 /\ i # NoInfra
      <3>1. i.uid = lives[q] + 1
        BY DEF NoInfra
      <3>2. NoInfra.uid = 0 /\ lives[q] + 1 # 0
        BY <1>t DEF NoInfra
      <3> QED
        BY <3>1, <3>2
    <2>3. Evolves(infra[q], lives[q], i, lives'[q])
      BY <1>1, <1>t, <2>2 DEF InfrastructureDeploy, Evolves, TypeOK, StoreTypeOK
    <2>4. \A p \in Keys \ {q} : lives'[p] = lives[p]
      BY <1>1, <1>t DEF InfrastructureDeploy, TypeOK, StoreTypeOK
    <2> QED
      BY <1>1, <1>t, <2>1, <2>3, <2>4, PutInfraMoves DEF InfrastructureDeploy, cacheVars
  <1>2. ASSUME NEW q \in Keys, InfrastructureDelete(q) PROVE InfraMoves(k)
    <2>1. Evolves(infra[q], lives[q], NoInfra, lives'[q])
      BY <1>2 DEF InfrastructureDelete, Evolves
    <2> QED
      BY <1>2, <1>t, <2>1, AbsentTypes, PutInfraMoves DEF InfrastructureDelete, cacheVars
  <1>3. ASSUME NEW q \in Keys, NEW n \in Replicas, Scale(q, n) PROVE InfraMoves(k)
    <2> DEFINE i == [infra[q] EXCEPT !.replicas = n, !.rv = @ + 1]
    <2>1. infra[q].rv + 1 \in Nat /\ n \in Nat
      BY <1>t, InfraFields, ReplicasAssumption
    <2>2. i \in InfraRecord
      BY <1>t, <2>1, InfraSpecEdit
    <2>3. i.uid = infra[q].uid /\ i.rv = infra[q].rv + 1
      BY <1>t DEF InfraRecord
    <2>4. infra[q] # NoInfra /\ i # NoInfra
      <3>1. infra[q] # NoInfra /\ infra[q].uid # 0
        BY <1>3, <1>t DEF Scale, CopiesAreOld
      <3> QED
        BY <3>1, <2>3 DEF NoInfra
    <2>5. Evolves(infra[q], lives[q], i, lives'[q])
      BY <1>3, <2>3, <2>4 DEF Scale, Evolves
    <2> QED
      BY <1>3, <1>t, <2>2, <2>5, PutInfraMoves DEF Scale, cacheVars
  <1>4. ASSUME NEW q \in Keys,
               \/ \E n \in 0 .. dep[q].replicas : AvailabilityChanges(q, n)
               \/ AdminDeletes(q) \/ AdminCreates(q) \/ Collect(q)
               \/ DeliverDep(q) \/ DeliverSvc(q) \/ Resync(q) \/ KeyReady(q)
        PROVE  InfraMoves(k)
    <2>1. Same
      BY <1>4 DEF AvailabilityChanges, AdminDeletes, AdminCreates, Collect, CollectDep,
                  CollectPrereq, DeliverDep, DeliverSvc, Resync, KeyReady, storeVars,
                  cacheVars, eventVars
    <2> QED
      BY <2>1, <1>s
  <1>5. ASSUME NEW q \in Keys, DeliverInfra(q) PROVE InfraMoves(k)
    <2>1. UNCHANGED <<infra, lives>>
      BY <1>5 DEF DeliverInfra, storeVars
    <2>2. CASE k # q
      <3>1. infraCache'[k] = infraCache[k] /\ infraEv'[k] = infraEv[k]
        BY <1>5, <2>2 DEF DeliverInfra, TypeInv, TypeOK, CacheTypeOK, EventTypeOK
      <3> QED
        BY <2>1, <3>1 DEF InfraMoves, Evolves
    <2>3. CASE k = q
      <3>1. /\ infraCache'[k] = Head(infraEv[k]) /\ infraEv'[k] = Tail(infraEv[k])
            /\ infraEv[k] \in Seq(InfraRecord) /\ infraEv[k] # << >>
        BY <1>5, <2>3 DEF DeliverInfra, TypeInv, TypeOK, CacheTypeOK, EventTypeOK
      <3>2. 1 \in 1 .. Len(infraEv[k]) /\ infraCache'[k] = infraEv[k][1]
        BY <3>1
      <3>3. \A i \in 1 .. Len(infraEv'[k]) :
                i + 1 \in 1 .. Len(infraEv[k]) /\ infraEv'[k][i] = infraEv[k][i + 1]
        BY <3>1
      <3> QED
        BY <2>1, <3>2, <3>3 DEF InfraMoves, Evolves
    <2> QED
      BY <2>2, <2>3
  <1>6. ASSUME NEW w \in Workers, updateInfra(w) PROVE InfraMoves(k)
    <2> DEFINE q == holding[w]
    <2> DEFINE i == [InfraCopy(w) EXCEPT !.rv = @ + 1]
    <2>1. CASE UNCHANGED <<infra, infraEv>>
      BY <1>6, <2>1, <1>s DEF updateInfra, cacheVars
    <2>2. CASE Accepts(q, InfraCopy(w)) /\ PutInfra(q, i)
      <3>1. /\ q \in Keys /\ InfraCopy(w) \in InfraRecord
            /\ InfraCopy(w).uid = infra[q].uid /\ InfraCopy(w).rv = infra[q].rv
            /\ infra[q].uid \in 1 .. lives[q]
        BY <1>6, <2>2, WriterCopy DEF updateInfra, Accepts
      <3>2. infra[q].rv + 1 \in Nat /\ infra[q].uid # 0
        BY <3>1, <1>t, InfraFields
      <3>3. i \in InfraRecord
        BY <3>1, <3>2, InfraSpecEdit
      <3>4. i.uid = infra[q].uid /\ i.rv = infra[q].rv + 1
        BY <3>1 DEF InfraRecord
      <3>5. infra[q] # NoInfra /\ i # NoInfra
        <4>1. NoInfra.uid = 0
          BY DEF NoInfra
        <4> QED
          BY <3>2, <3>4, <4>1
      <3>6. Evolves(infra[q], lives[q], i, lives'[q])
        BY <1>6, <3>4, <3>5 DEF updateInfra, Evolves
      <3> QED
        BY <1>6, <1>t, <2>2, <3>1, <3>3, <3>6, PutInfraMoves DEF updateInfra, cacheVars
    <2> QED
      BY <1>6, <2>1, <2>2 DEF updateInfra, Store
  <1>7. ASSUME NEW w \in Workers,
               \/ processNextWorkItem(w) \/ LookupInfra(w) \/ LookupDeployment(w)
               \/ EnsureNamespace(w) \/ CreatePrerequisite(w) \/ CreateDeployment(w)
               \/ updateDashboard(w) \/ detectService(w) \/ FinishWorkItem(w)
        PROVE  InfraMoves(k)
    <2>1. Same
      BY <1>7 DEF processNextWorkItem, LookupInfra, LookupDeployment, EnsureNamespace,
                  CreatePrerequisite, CreateDeployment, updateDashboard, detectService,
                  FinishWorkItem, storeVars, cacheVars, eventVars
    <2> QED
      BY <2>1, <1>s
  <1>8. CASE Stop
    BY <1>8, <1>s DEF Stop, storeVars, cacheVars, eventVars
  <1>9. CASE Restart
    <2>1. UNCHANGED <<infra, lives>> /\ infraCache' = infra /\ infraEv'[k] = << >>
      BY <1>9 DEF Restart, storeVars
    <2>2. Len(infraEv'[k]) = 0
      BY <2>1
    <2> QED
      BY <2>1, <2>2 DEF InfraMoves, Evolves
  <1>10. CASE UNCHANGED vars
    BY <1>10, <1>s DEF vars, storeVars, cacheVars, eventVars
  <1> QED
    BY <1>1, <1>2, <1>3, <1>4, <1>5, <1>6, <1>7, <1>8, <1>9, <1>10
    DEF Next, Environment, Informer, Sync

(* A worker in the middle of a sync has had its copy before the step, or   *)
(* takes it from the cache in this step.                                   *)
LEMMA SnapStep ==
    ASSUME TypeInv, [Next]_vars, NEW w \in Workers, pc'[w] \in Syncing
    PROVE  /\ holding'[w] = holding[w]
           /\ holding[w] \in Keys
           /\ \/ pc[w] \in Syncing /\ snap'[w] = snap[w]
              \/ /\ infraCache[holding[w]] # NoInfra
                 /\ snap'[w] = infraCache[holding[w]]
  <1> USE DEF Syncing, queueVars
  <1>t. /\ TypeOK /\ WorkersHold /\ pc \in [Workers -> Steps]
        /\ snap \in [Workers -> InfraRecord]
    BY DEF TypeInv, TypeOK, SyncTypeOK
  <1>1. ASSUME NEW v \in Workers, v # w, Sync(v) \/ processNextWorkItem(v)
        PROVE  pc'[w] = pc[w] /\ snap'[w] = snap[w] /\ holding'[w] = holding[w]
    <2>1. CASE Sync(v)
      BY <1>1, <1>t, <2>1, SyncFrame
    <2>2. CASE processNextWorkItem(v)
      BY <1>1, <1>t, <2>2 DEF processNextWorkItem, Get, TypeOK, QTypeOK
    <2> QED
      BY <1>1, <2>1, <2>2
  <1>2. CASE LookupInfra(w)
    BY <1>2, <1>t DEF LookupInfra, Return, WorkersHold
  <1>3. CASE LookupDeployment(w)
    BY <1>3, <1>t DEF LookupDeployment, Judge, WorkersHold
  <1>4. CASE EnsureNamespace(w)
    BY <1>4, <1>t DEF EnsureNamespace, Return, WorkersHold
  <1>5. CASE CreatePrerequisite(w)
    BY <1>5, <1>t DEF CreatePrerequisite, Updated, CallFails, Return, WorkersHold
  <1>6. CASE CreateDeployment(w)
    BY <1>6, <1>t DEF CreateDeployment, Judge, Updated, CallFails, Return, WorkersHold
  <1>7. CASE updateDashboard(w)
    BY <1>7, <1>t DEF updateDashboard, Updated, CallFails, Return, WorkersHold
  <1>8. CASE detectService(w)
    BY <1>8, <1>t DEF detectService, WorkersHold
  <1>9. CASE updateInfra(w) \/ FinishWorkItem(w) \/ processNextWorkItem(w)
    BY <1>9, <1>t DEF updateInfra, CallFails, Return, FinishWorkItem, processNextWorkItem
  <1>10. CASE Restart
    BY <1>10 DEF Restart
  <1>11. CASE UNCHANGED <<syncVars, holding>>
    BY <1>11, <1>t DEF syncVars, WorkersHold
  <1>12. ASSUME pc'[w] = pc[w], snap'[w] = snap[w], holding'[w] = holding[w]
         PROVE  /\ holding[w] \in Keys
                /\ pc[w] \in Syncing
    BY <1>12, <1>t DEF WorkersHold
  <1> QED
    BY <1>1, <1>2, <1>3, <1>4, <1>5, <1>6, <1>7, <1>8, <1>9, <1>10, <1>11, <1>12,
       OutsideFrame
    DEF Next, Sync

(* Every step keeps CopiesAreOld. *)
LEMMA CopiesAreOldStep ==
    ASSUME TypeInv, TypeInv', CopiesAreOld, [Next]_vars
    PROVE  CopiesAreOld'
  <1> SUFFICES ASSUME NEW k \in Keys
               PROVE  /\ infra'[k] # NoInfra => infra'[k].uid = lives'[k] /\ lives'[k] > 0
                      /\ IsCopy(infraCache'[k], infra'[k], lives'[k])
                      /\ \A i \in 1 .. Len(infraEv'[k]) :
                            IsCopy(infraEv'[k][i], infra'[k], lives'[k])
                      /\ \A w \in Workers : holding'[w] = k /\ pc'[w] \in Syncing =>
                            /\ snap'[w] # NoInfra
                            /\ IsCopy(snap'[w], infra'[k], lives'[k])
    BY DEF CopiesAreOld
  <1>1. InfraMoves(k)
    BY InfraMovesStep
  <1>2. /\ infra[k] \in InfraRecord /\ lives[k] \in Nat
        /\ infra'[k] \in InfraRecord /\ lives'[k] \in Nat
        /\ infraCache[k] \in InfraRecord
        /\ infraEv[k] \in Seq(InfraRecord)
    BY DEF TypeInv, TypeOK, StoreTypeOK, CacheTypeOK, EventTypeOK
  <1>3. /\ infra[k] # NoInfra => infra[k].uid = lives[k] /\ lives[k] > 0
        /\ IsCopy(infraCache[k], infra[k], lives[k])
        /\ \A i \in 1 .. Len(infraEv[k]) : IsCopy(infraEv[k][i], infra[k], lives[k])
    BY DEF CopiesAreOld
  <1>4. infra'[k] # NoInfra => infra'[k].uid = lives'[k] /\ lives'[k] > 0
    BY <1>1, <1>2, <1>3 DEF InfraMoves, Evolves
  <1>5. ASSUME NEW c \in InfraRecord, IsCopy(c, infra[k], lives[k])
        PROVE  IsCopy(c, infra'[k], lives'[k])
    BY <1>1, <1>2, <1>3, <1>5, CopyStaysCopy DEF InfraMoves
  <1>6. IsCopy(infra'[k], infra'[k], lives'[k])
    BY <1>2, <1>4, StoredIsCopy
  <1>7. \A j \in 1 .. Len(infraEv[k]) : infraEv[k][j] \in InfraRecord
    BY <1>2
  <1>8. IsCopy(infraCache'[k], infra'[k], lives'[k])
    BY <1>1, <1>2, <1>3, <1>5, <1>6, <1>7 DEF InfraMoves
  <1>9. ASSUME NEW i \in 1 .. Len(infraEv'[k])
        PROVE  IsCopy(infraEv'[k][i], infra'[k], lives'[k])
    BY <1>1, <1>3, <1>5, <1>6, <1>7 DEF InfraMoves
  <1>10. ASSUME NEW w \in Workers, holding'[w] = k, pc'[w] \in Syncing
         PROVE  snap'[w] # NoInfra /\ IsCopy(snap'[w], infra'[k], lives'[k])
    <2>1. holding[w] = k
      BY <1>10, SnapStep
    <2>2. CASE pc[w] \in Syncing /\ snap'[w] = snap[w]
      <3>1. snap[w] # NoInfra /\ IsCopy(snap[w], infra[k], lives[k])
        BY <2>1, <2>2 DEF CopiesAreOld
      <3>2. snap[w] \in InfraRecord
        BY DEF TypeInv, TypeOK, SyncTypeOK
      <3> QED
        BY <2>2, <3>1, <3>2, <1>5
    <2>3. CASE infraCache[k] # NoInfra /\ snap'[w] = infraCache[k]
      BY <2>3, <1>2, <1>3, <1>5
    <2> QED
      BY <1>10, <2>1, <2>2, <2>3, SnapStep
  <1> QED
    BY <1>4, <1>8, <1>9, <1>10

(* CopiesAreOld holds when the program starts. *)
LEMMA CopiesAreOldInit == Init => CopiesAreOld
  <1> SUFFICES ASSUME Init, NEW k \in Keys
               PROVE  /\ infra[k] = NoInfra /\ infraCache[k] = NoInfra
                      /\ Len(infraEv[k]) = 0
                      /\ \A w \in Workers : pc[w] \notin Syncing
    BY DEF CopiesAreOld, IsCopy
  <1> QED
    BY DEF Init, Syncing

(* Only updateInfra takes a worker from "write" to "done". *)
LEMMA WriteIsUpdateInfra ==
    ASSUME TypeInv, [Next]_vars, NEW w \in Workers, pc[w] = "write", pc'[w] = "done"
    PROVE  updateInfra(w)
  <1>t. TypeOK /\ pc \in [Workers -> Steps]
    BY DEF TypeInv, TypeOK, SyncTypeOK
  <1>1. ASSUME NEW v \in Workers, v # w, Sync(v) \/ processNextWorkItem(v) PROVE FALSE
    <2>1. CASE Sync(v)
      BY <1>1, <1>t, <2>1, SyncFrame
    <2>2. CASE processNextWorkItem(v)
      BY <1>1, <1>t, <2>2 DEF processNextWorkItem
    <2> QED
      BY <1>1, <2>1, <2>2
  <1>2. CASE Sync(w) \/ processNextWorkItem(w)
    BY <1>2 DEF Sync, processNextWorkItem, LookupInfra, LookupDeployment,
                EnsureNamespace, CreatePrerequisite, CreateDeployment, updateDashboard,
                detectService, FinishWorkItem
  <1>3. CASE Restart
    BY <1>3 DEF Restart
  <1>4. CASE UNCHANGED <<syncVars, holding>>
    BY <1>4 DEF syncVars
  <1> QED
    BY <1>1, <1>2, <1>3, <1>4, OutsideFrame DEF Next

(* A status write leaves the spec and the identity of every Infrastructure *)
(* as they are at the moment of the write.                                 *)
LEMMA StatusWriteStep ==
    ASSUME TypeInv, CopiesAreOld, [Next]_vars, NEW w \in Workers,
           pc[w] = "write", pc'[w] = "done", NEW k \in Keys
    PROVE  infra'[k].uid = infra[k].uid /\ infra'[k].replicas = infra[k].replicas
  <1>1. updateInfra(w)
    BY WriteIsUpdateInfra
  <1> DEFINE q == holding[w]
  <1> DEFINE i == [InfraCopy(w) EXCEPT !.rv = @ + 1]
  <1>2. CASE UNCHANGED infra
    BY <1>2
  <1>3. CASE Accepts(q, InfraCopy(w)) /\ PutInfra(q, i)
    <2>1. /\ q \in Keys /\ InfraCopy(w) \in InfraRecord
          /\ InfraCopy(w).uid = infra[q].uid
          /\ InfraCopy(w).replicas = infra[q].replicas
      BY <1>3, WriterCopy DEF Accepts, IsCopy
    <2>2. i.uid = infra[q].uid /\ i.replicas = infra[q].replicas
      BY <2>1 DEF InfraRecord
    <2>3. infra' = [infra EXCEPT ![q] = i] /\ infra \in [Keys -> InfraRecord]
      BY <1>3 DEF PutInfra, TypeInv, TypeOK, StoreTypeOK
    <2> QED
      BY <2>1, <2>2, <2>3
  <1> QED
    BY <1>1, <1>2, <1>3 DEF updateInfra, Store

(* Writing the status through Update never undoes a change of the spec and *)
(* never brings back a deleted Infrastructure, whatever happened since the *)
(* copy was taken from the cache.                                          *)
THEOREM StatusWriteSafe == Spec => StatusWriteKeepsSpec
  <1> DEFINE Inv == TypeInv /\ CopiesAreOld
  <1>1. Init => Inv
    BY TypeInit, CopiesAreOldInit
  <1>2. Inv /\ [Next]_vars => Inv'
    BY TypeStep, CopiesAreOldStep
  <1>3. Inv /\ [Next]_vars =>
            [\A w \in Workers : pc[w] = "write" /\ pc'[w] = "done" =>
                \A k \in Keys : /\ infra'[k].uid = infra[k].uid
                                /\ infra'[k].replicas = infra[k].replicas]_vars
    BY StatusWriteStep
  <1> QED
    BY <1>1, <1>2, <1>3, PTL DEF Spec, StatusWriteKeepsSpec

-----------------------------------------------------------------------------
(* Where the owner of a deployment, stored, cached or in an event, can     *)
(* come from in one step.                                                  *)
OwnerSource(k, u) ==
    \/ u = 0 \/ u = Foreign
    \/ u = dep[k].owner \/ u = depCache[k].owner
    \/ \E j \in 1 .. Len(depEv[k]) : u = depEv[k][j].owner
    \/ \E w \in Workers :
        /\ holding[w] = k /\ u = snap[w].uid
        /\ \/ pc[w] = "create" /\ step[w] = Len(bundleCreate[k]) + 1
           \/ pc[w] = "update"

DepMoves(k) ==
    /\ OwnerSource(k, dep'[k].owner)
    /\ OwnerSource(k, depCache'[k].owner)
    /\ \A i \in 1 .. Len(depEv'[k]) : OwnerSource(k, depEv'[k][i].owner)

(* A write to one deployment is a move of every deployment. *)
LEMMA PutDepMoves ==
    ASSUME TypeOK, NEW k \in Keys, NEW q \in Keys, NEW d \in DepRecord, PutDep(q, d),
           UNCHANGED depCache, OwnerSource(q, d.owner)
    PROVE  DepMoves(k)
  <1>0. OwnerSource(k, depCache'[k].owner) /\ OwnerSource(k, dep[k].owner)
        /\ \A j \in 1 .. Len(depEv[k]) : OwnerSource(k, depEv[k][j].owner)
    BY DEF OwnerSource
  <1>1. CASE k # q
    <2>1. dep'[k] = dep[k] /\ depEv'[k] = depEv[k]
      BY <1>1 DEF PutDep, TypeOK, StoreTypeOK, EventTypeOK
    <2> QED
      BY <1>0, <2>1 DEF DepMoves
  <1>2. CASE k = q
    <2>1. dep'[k] = d /\ depEv'[k] = Append(depEv[k], d)
      BY <1>2 DEF PutDep, TypeOK, StoreTypeOK, EventTypeOK
    <2>2. depEv[k] \in Seq(DepRecord)
      BY DEF TypeOK, EventTypeOK
    <2>3. ASSUME NEW j \in 1 .. Len(depEv'[k])
          PROVE  OwnerSource(k, depEv'[k][j].owner)
      <3>1. Len(depEv'[k]) = Len(depEv[k]) + 1 /\ Len(depEv[k]) \in Nat
        BY <2>1, <2>2
      <3>2. CASE j = Len(depEv[k]) + 1
        <4>1. depEv'[k][j] = d
          BY <3>2, <2>1, <2>2
        <4> QED
          BY <1>2, <4>1
      <3>3. CASE j # Len(depEv[k]) + 1
        <4>1. j \in 1 .. Len(depEv[k])
          BY <3>1, <3>3
        <4>2. depEv'[k][j] = depEv[k][j]
          BY <4>1, <2>1, <2>2
        <4> QED
          BY <1>0, <4>1, <4>2
      <3> QED
        BY <3>2, <3>3
    <2> QED
      BY <1>0, <1>2, <2>1, <2>3 DEF DepMoves
  <1> QED
    BY <1>1, <1>2

(* Every step moves every deployment as DepMoves says. *)
LEMMA DepMovesStep ==
    ASSUME TypeInv, [Next]_vars, NEW k \in Keys
    PROVE  DepMoves(k)
  <1> DEFINE Same == UNCHANGED <<dep, depCache, depEv>>
  <1>s. ASSUME Same PROVE DepMoves(k)
    BY <1>s DEF DepMoves, OwnerSource
  <1>t. /\ TypeOK /\ WorkersHold
        /\ \A q \in Keys : dep[q] \in DepRecord
        /\ \A w \in Workers : snap[w] \in InfraRecord
        /\ NoDep \in DepRecord /\ NoDep.owner = 0
    BY AbsentTypes DEF TypeInv, TypeOK, StoreTypeOK, SyncTypeOK, NoDep
  <1>1. ASSUME NEW q \in Keys, NEW n \in 0 .. dep[q].replicas, AvailabilityChanges(q, n)
        PROVE  DepMoves(k)
    <2> DEFINE d == [dep[q] EXCEPT !.avail = n]
    <2>1. d \in DepRecord /\ d.owner = dep[q].owner
      BY <1>t DEF DepRecord
    <2>2. OwnerSource(q, d.owner)
      BY <2>1 DEF OwnerSource
    <2> QED
      BY <1>1, <1>t, <2>1, <2>2, PutDepMoves DEF AvailabilityChanges, cacheVars
  <1>2. ASSUME NEW q \in Keys, AdminDeletes(q) \/ CollectDep(q) PROVE DepMoves(k)
    <2>1. OwnerSource(q, NoDep.owner)
      BY <1>t DEF OwnerSource
    <2> QED
      BY <1>2, <1>t, <2>1, PutDepMoves DEF AdminDeletes, CollectDep, cacheVars
  <1>3. ASSUME NEW q \in Keys, AdminCreates(q) PROVE DepMoves(k)
    <2>1. PICK n \in Replicas : PutDep(q, [NoDep EXCEPT !.owner = Foreign, !.replicas = n])
      BY <1>3 DEF AdminCreates
    <2> DEFINE d == [NoDep EXCEPT !.owner = Foreign, !.replicas = n]
    <2>2. d \in DepRecord /\ d.owner = Foreign
      BY <1>t, ReplicasAssumption DEF DepRecord, Owner
    <2>3. OwnerSource(q, d.owner)
      BY <2>2 DEF OwnerSource
    <2> QED
      BY <1>3, <1>t, <2>1, <2>2, <2>3, PutDepMoves DEF AdminCreates, cacheVars
  <1>4. ASSUME NEW q \in Keys,
               \/ InfrastructureDeploy(q) \/ InfrastructureDelete(q)
               \/ (\E n \in Replicas : Scale(q, n))
               \/ (\E i \in 1 .. Len(bundleCreate[q]) : CollectPrereq(q, i))
               \/ DeliverInfra(q) \/ DeliverSvc(q) \/ Resync(q) \/ KeyReady(q)
        PROVE  DepMoves(k)
    <2>1. Same
      BY <1>4 DEF InfrastructureDeploy, InfrastructureDelete, Scale, CollectPrereq,
                  DeliverInfra, DeliverSvc, Resync, KeyReady, storeVars, cacheVars,
                  eventVars
    <2> QED
      BY <2>1, <1>s
  <1>5. ASSUME NEW q \in Keys, DeliverDep(q) PROVE DepMoves(k)
    <2>1. UNCHANGED dep
      BY <1>5 DEF DeliverDep, storeVars
    <2>2. CASE k # q
      <3>1. depCache'[k] = depCache[k] /\ depEv'[k] = depEv[k]
        BY <1>5, <1>t, <2>2 DEF DeliverDep, TypeOK, CacheTypeOK, EventTypeOK
      <3> QED
        BY <2>1, <3>1 DEF DepMoves, OwnerSource
    <2>3. CASE k = q
      <3>1. /\ depCache'[k] = Head(depEv[k]) /\ depEv'[k] = Tail(depEv[k])
            /\ depEv[k] \in Seq(DepRecord) /\ depEv[k] # << >>
        BY <1>5, <1>t, <2>3 DEF DeliverDep, TypeOK, CacheTypeOK, EventTypeOK
      <3>2. 1 \in 1 .. Len(depEv[k]) /\ depCache'[k] = depEv[k][1]
        BY <3>1
      <3>3. \A i \in 1 .. Len(depEv'[k]) :
                i + 1 \in 1 .. Len(depEv[k]) /\ depEv'[k][i] = depEv[k][i + 1]
        BY <3>1
      <3> QED
        BY <2>1, <3>2, <3>3 DEF DepMoves, OwnerSource
    <2> QED
      BY <2>2, <2>3
  <1>6. ASSUME NEW w \in Workers, CreateDeployment(w) PROVE DepMoves(k)
    <2> DEFINE q == holding[w]
    <2> DEFINE new == [owner |-> snap[w].uid, replicas |-> snap[w].replicas, avail |-> 0]
    <2>1. q \in Keys
      BY <1>6, <1>t DEF CreateDeployment, WorkersHold
    <2>2. new \in DepRecord /\ new.owner = snap[w].uid
      BY <1>t, InfraFields DEF DepRecord, Owner
    <2>3. OwnerSource(q, new.owner)
      BY <1>6, <2>2 DEF CreateDeployment, OwnerSource, Creates
    <2>4. CASE PutDep(q, new)
      BY <1>6, <1>t, <2>1, <2>2, <2>3, <2>4, PutDepMoves DEF CreateDeployment, cacheVars
    <2>5. CASE UNCHANGED <<dep, depEv>>
      BY <1>6, <2>5, <1>s DEF CreateDeployment, cacheVars
    <2> QED
      BY <1>6, <2>4, <2>5 DEF CreateDeployment
  <1>7. ASSUME NEW w \in Workers, updateDashboard(w) PROVE DepMoves(k)
    <2> DEFINE q == holding[w]
    <2> DEFINE new == [dep[q] EXCEPT !.owner = snap[w].uid, !.replicas = snap[w].replicas]
    <2>1. q \in Keys
      BY <1>7, <1>t DEF updateDashboard, WorkersHold
    <2>2. new \in DepRecord /\ new.owner = snap[w].uid
      <3>1. snap[w].uid \in Owner /\ snap[w].replicas \in Nat
        BY <1>t, InfraFields DEF Owner
      <3> QED
        BY <1>t, <2>1, <3>1 DEF DepRecord
    <2>3. OwnerSource(q, new.owner)
      BY <1>7, <2>2 DEF updateDashboard, OwnerSource
    <2>4. CASE PutDep(q, new)
      BY <1>7, <1>t, <2>1, <2>2, <2>3, <2>4, PutDepMoves DEF updateDashboard, cacheVars
    <2>5. CASE UNCHANGED <<dep, depEv>>
      BY <1>7, <2>5, <1>s DEF updateDashboard, cacheVars
    <2> QED
      BY <1>7, <2>4, <2>5 DEF updateDashboard
  <1>8. ASSUME NEW w \in Workers,
               \/ processNextWorkItem(w) \/ LookupInfra(w) \/ LookupDeployment(w)
               \/ EnsureNamespace(w) \/ CreatePrerequisite(w) \/ updateInfra(w)
               \/ detectService(w) \/ FinishWorkItem(w)
        PROVE  DepMoves(k)
    <2>1. Same
      BY <1>8 DEF processNextWorkItem, LookupInfra, LookupDeployment, EnsureNamespace,
                  CreatePrerequisite, updateInfra, detectService, FinishWorkItem,
                  storeVars, cacheVars, eventVars
    <2> QED
      BY <2>1, <1>s
  <1>9. CASE Stop
    BY <1>9, <1>s DEF Stop, storeVars, cacheVars, eventVars
  <1>10. CASE Restart
    <2>1. UNCHANGED dep /\ depCache' = dep /\ depEv'[k] = << >>
      BY <1>10 DEF Restart, storeVars
    <2>2. Len(depEv'[k]) = 0
      BY <2>1
    <2> QED
      BY <2>1, <2>2 DEF DepMoves, OwnerSource
  <1>11. CASE UNCHANGED vars
    BY <1>11, <1>s DEF vars, storeVars, cacheVars, eventVars
  <1> QED
    BY <1>1, <1>2, <1>3, <1>4, <1>5, <1>6, <1>7, <1>8, <1>9, <1>10, <1>11
    DEF Next, Environment, Informer, Sync, Collect

(* What one step may do to a prerequisite. *)
PrereqMoves(k, o) ==
    \/ prereq'[k][o] = prereq[k][o]
    \/ prereq'[k][o] = 0 /\ Dangling(k, prereq[k][o])
    \/ /\ prereq[k][o] = 0
       /\ \E w \in Workers : /\ holding[w] = k /\ pc[w] \in {"create", "update"}
                             /\ prereq'[k][o] = snap[w].uid

(* Every step does to a prerequisite what PrereqMoves allows. *)
LEMMA PrereqMovesStep ==
    ASSUME TypeInv, [Next]_vars, NEW k \in Keys, NEW o \in Objects
    PROVE  PrereqMoves(k, o)
  <1>s. ASSUME UNCHANGED prereq PROVE PrereqMoves(k, o)
    BY <1>s DEF PrereqMoves
  <1>t. prereq \in [Keys -> [Objects -> Owner]]
    BY DEF TypeInv, TypeOK, StoreTypeOK
  <1>1. ASSUME NEW q \in Keys, Environment(q) \/ CollectDep(q) \/ Informer(q)
        PROVE  PrereqMoves(k, o)
    BY <1>1, <1>s DEF Environment, InfrastructureDeploy, InfrastructureDelete, Scale,
                AvailabilityChanges, AdminDeletes, AdminCreates, CollectDep, Informer,
                DeliverInfra, DeliverDep, DeliverSvc, Resync, KeyReady, storeVars
  <1>2. ASSUME NEW q \in Keys, NEW i \in 1 .. Len(bundleCreate[q]), CollectPrereq(q, i)
        PROVE  PrereqMoves(k, o)
    <2>1. prereq' = [prereq EXCEPT ![q][bundleCreate[q][i]] = 0]
      BY <1>2 DEF CollectPrereq, PutPrereq
    <2>2. CASE q = k /\ bundleCreate[q][i] = o
      BY <1>2, <1>t, <2>1, <2>2 DEF CollectPrereq, PrereqMoves
    <2>3. CASE ~(q = k /\ bundleCreate[q][i] = o)
      BY <1>t, <2>1, <2>3 DEF PrereqMoves
    <2> QED
      BY <2>2, <2>3
  <1>3. ASSUME NEW w \in Workers, CreatePrerequisite(w) PROVE PrereqMoves(k, o)
    <2> DEFINE q == holding[w]
    <2> DEFINE p == Creates(w)[step[w]]
    <2>1. CASE UNCHANGED prereq
      BY <2>1, <1>s
    <2>2. CASE prereq[q][p] = 0 /\ prereq' = [prereq EXCEPT ![q][p] = snap[w].uid]
      <3>1. CASE q = k /\ p = o
        BY <1>3, <1>t, <2>2, <3>1 DEF CreatePrerequisite, PrereqMoves
      <3>2. CASE ~(q = k /\ p = o)
        BY <1>t, <2>2, <3>2 DEF PrereqMoves
      <3> QED
        BY <3>1, <3>2
    <2> QED
      BY <1>3, <2>1, <2>2 DEF CreatePrerequisite, CreateObject, PutPrereq
  <1>4. ASSUME NEW w \in Workers, processNextWorkItem(w) \/ Sync(w), ~CreatePrerequisite(w)
        PROVE  PrereqMoves(k, o)
    BY <1>4, <1>s DEF processNextWorkItem, Sync, LookupInfra, LookupDeployment,
                EnsureNamespace, CreateDeployment, updateDashboard, updateInfra,
                detectService, FinishWorkItem, storeVars
  <1>5. CASE Stop \/ Restart \/ UNCHANGED vars
    BY <1>5, <1>s DEF Stop, Restart, vars, storeVars
  <1> QED
    BY <1>1, <1>2, <1>3, <1>4, <1>5 DEF Next, Collect

(* In the middle of a sync the UID of the copy is that of an Infrastructure *)
(* that exists or existed.                                                  *)
LEMMA SnapUid ==
    ASSUME TypeInv, CopiesAreOld, NEW w \in Workers, pc[w] \in Syncing
    PROVE  holding[w] \in Keys /\ snap[w].uid \in 1 .. lives[holding[w]]
  <1>1. holding[w] \in Keys
    BY DEF TypeInv, WorkersHold, Syncing
  <1> QED
    BY <1>1 DEF CopiesAreOld, IsCopy

(* Owners stay known. *)
LEMMA OwnersKnownStep ==
    ASSUME TypeInv, TypeInv', CopiesAreOld, OwnersKnown, [Next]_vars
    PROVE  OwnersKnown'
  <1> SUFFICES ASSUME NEW k \in Keys
               PROVE  /\ \A o \in Objects : prereq'[k][o] \in 0 .. lives'[k]
                      /\ dep'[k].owner = Foreign \/ dep'[k].owner \in 0 .. lives'[k]
                      /\ depCache'[k].owner = Foreign \/ depCache'[k].owner \in 0 .. lives'[k]
                      /\ \A i \in 1 .. Len(depEv'[k]) :
                            \/ depEv'[k][i].owner = Foreign
                            \/ depEv'[k][i].owner \in 0 .. lives'[k]
    BY DEF OwnersKnown, KnownOwner
  <1>1. lives[k] \in Nat /\ lives'[k] \in Nat /\ lives[k] <= lives'[k]
    <2>1. lives[k] \in Nat /\ lives'[k] \in Nat
      BY DEF TypeInv, TypeOK, StoreTypeOK
    <2>2. Evolves(infra[k], lives[k], infra'[k], lives'[k])
      BY InfraMovesStep DEF InfraMoves
    <2> QED
      BY <2>1, <2>2 DEF Evolves
  <1>2. \A w \in Workers : holding[w] = k /\ pc[w] \in {"create", "update"} =>
            snap[w].uid \in 1 .. lives[k]
    BY SnapUid DEF Syncing
  <1>3. ASSUME NEW u, OwnerSource(k, u) PROVE u = Foreign \/ u \in 0 .. lives'[k]
    BY <1>1, <1>2, <1>3 DEF OwnerSource, OwnersKnown, KnownOwner
  <1>4. ASSUME NEW o \in Objects PROVE prereq'[k][o] \in 0 .. lives'[k]
    <2>1. PrereqMoves(k, o)
      BY PrereqMovesStep
    <2> QED
      BY <1>1, <1>2, <2>1 DEF PrereqMoves, OwnersKnown
  <1>5. DepMoves(k)
    BY DepMovesStep
  <1> QED
    BY <1>3, <1>4, <1>5 DEF DepMoves

(* How a worker comes to be in a create function. *)
LEMMA CreateStep ==
    ASSUME TypeInv, CopiesAreOld, [Next]_vars, NEW w \in Workers, pc'[w] = "create"
    PROVE  LET k == holding[w]
           IN  /\ holding'[w] = k
               /\ \/ step'[w] \in {0, 1}
                  \/ pc[w] = "create" /\ step'[w] = step[w]
                  \/ /\ pc[w] = "create" /\ step'[w] = step[w] + 1
                     /\ step[w] \in 1 .. Len(bundleCreate[k])
                     /\ prereq'[k][bundleCreate[k][step[w]]] # 0
  <1> DEFINE k == holding[w]
  <1>t. /\ TypeOK /\ pc \in [Workers -> Steps] /\ step \in [Workers -> Nat]
        /\ prereq \in [Keys -> [Objects -> Owner]]
    BY DEF TypeInv, TypeOK, SyncTypeOK, StoreTypeOK
  <1>h. holding'[w] = holding[w]
    BY SnapStep DEF Syncing
  <1>1. ASSUME NEW v \in Workers, v # w, Sync(v) \/ processNextWorkItem(v)
        PROVE  pc'[w] = pc[w] /\ step'[w] = step[w]
    <2>1. CASE Sync(v)
      BY <1>1, <1>t, <2>1, SyncFrame
    <2>2. CASE processNextWorkItem(v)
      BY <1>1, <1>t, <2>2 DEF processNextWorkItem
    <2> QED
      BY <1>1, <2>1, <2>2
  <1>2. CASE LookupDeployment(w)
    BY <1>h, <1>2, <1>t DEF LookupDeployment, Judge
  <1>3. CASE EnsureNamespace(w)
    BY <1>h, <1>3, <1>t DEF EnsureNamespace, Return
  <1>4. CASE CreatePrerequisite(w)
    <2> DEFINE o == bundleCreate[k][step[w]]
    <2>1. /\ pc[w] = "create" /\ step'[w] = step[w] + 1
          /\ step[w] \in 1 .. Len(bundleCreate[k])
          /\ CreateObject(w, k, o)
      BY <1>4, <1>t DEF CreatePrerequisite, Updated, CallFails, Return, Creates
    <2>2. k \in Keys /\ snap[w].uid \in 1 .. lives[k] /\ lives[k] \in Nat
      BY <2>1, SnapUid DEF Syncing, TypeInv, TypeOK, StoreTypeOK
    <2>3. o \in Objects
      BY <2>1, <2>2, BundleTypes
    <2>4. prereq'[k][o] # 0
      <3>1. CASE prereq[k][o] = 0
        <4>1. prereq' = [prereq EXCEPT ![k][o] = snap[w].uid] /\ snap[w].uid # 0
          BY <2>1, <2>2, <3>1 DEF CreateObject, PutPrereq
        <4> QED
          BY <4>1, <1>t, <2>2, <2>3
      <3>2. CASE prereq[k][o] # 0
        BY <2>1, <3>2 DEF CreateObject
      <3> QED
        BY <3>1, <3>2
    <2> QED
      BY <1>h, <2>1, <2>4
  <1>5. ~LookupInfra(w) /\ ~CreateDeployment(w) /\ ~updateDashboard(w)
        /\ ~detectService(w) /\ ~updateInfra(w) /\ ~FinishWorkItem(w)
        /\ ~processNextWorkItem(w)
    <2>1. ~LookupInfra(w)
      BY <1>t DEF LookupInfra, Return
    <2>2. ~CreateDeployment(w)
      BY <1>t DEF CreateDeployment, Judge, Updated, CallFails, Return
    <2>3. ~updateDashboard(w)
      BY <1>t DEF updateDashboard, Updated, CallFails, Return
    <2>4. ~detectService(w) /\ ~FinishWorkItem(w) /\ ~processNextWorkItem(w)
      BY <1>t DEF detectService, FinishWorkItem, processNextWorkItem
    <2>5. ~updateInfra(w)
      BY <1>t DEF updateInfra, CallFails, Return
    <2> QED
      BY <2>1, <2>2, <2>3, <2>4, <2>5
  <1>6. ~Restart
    BY DEF Restart
  <1>7. CASE UNCHANGED <<syncVars, holding>>
    BY <1>7, <1>h DEF syncVars
  <1> QED
    BY <1>h, <1>1, <1>2, <1>3, <1>4, <1>5, <1>6, <1>7, OutsideFrame DEF Next, Sync

(* How a worker comes to be in an update function: with a deployment of    *)
(* this Infrastructure in the cache.                                       *)
LEMMA UpdateStep ==
    ASSUME TypeInv, CopiesAreOld, [Next]_vars, NEW w \in Workers, pc'[w] = "update"
    PROVE  /\ holding'[w] = holding[w]
           /\ \/ pc[w] = "update"
              \/ pc[w] = "deployment" /\ depCache[holding[w]].owner = snap[w].uid
  <1>t. TypeOK /\ pc \in [Workers -> Steps]
    BY DEF TypeInv, TypeOK, SyncTypeOK
  <1>h. holding'[w] = holding[w]
    BY SnapStep DEF Syncing
  <1>1. ASSUME NEW v \in Workers, v # w, Sync(v) \/ processNextWorkItem(v)
        PROVE  pc'[w] = pc[w]
    <2>1. CASE Sync(v)
      BY <1>1, <1>t, <2>1, SyncFrame
    <2>2. CASE processNextWorkItem(v)
      BY <1>1, <1>t, <2>2 DEF processNextWorkItem
    <2> QED
      BY <1>1, <2>1, <2>2
  <1>2. CASE LookupDeployment(w)
    BY <1>h, <1>2, <1>t DEF LookupDeployment, Judge
  <1>3. CASE EnsureNamespace(w) \/ CreatePrerequisite(w)
    BY <1>h, <1>3, <1>t
    DEF EnsureNamespace, CreatePrerequisite, Updated, CallFails, Return
  <1>4. CASE CreateDeployment(w)
    <2>1. CASE pc[w] = "update"
      BY <1>h, <2>1
    <2>2. CASE pc[w] # "update"
      <3> DEFINE new == [owner |-> snap[w].uid, replicas |-> snap[w].replicas, avail |-> 0]
      <3>1. pc[w] = "create" /\ (Judge(w, new) \/ Judge(w, NoDep) \/ Return(w, TRUE))
        BY <1>4, <2>2 DEF CreateDeployment, CallFails
      <3>2. snap[w].uid # 0
        <4>1. snap[w].uid \in 1 .. lives[holding[w]]
          BY <3>1, SnapUid DEF Syncing
        <4> QED
          BY <4>1
      <3>3. NoDep.owner = 0 /\ new.owner = snap[w].uid /\ new.replicas = snap[w].replicas
        BY DEF NoDep
      <3> QED
        BY <1>t, <3>1, <3>2, <3>3 DEF Judge, Return
    <2> QED
      BY <2>1, <2>2
  <1>5. ~LookupInfra(w) /\ ~updateDashboard(w)
        /\ ~detectService(w) /\ ~updateInfra(w) /\ ~FinishWorkItem(w)
        /\ ~processNextWorkItem(w)
    <2>1. ~LookupInfra(w)
      BY <1>t DEF LookupInfra, Return
    <2>2. ~updateDashboard(w)
      BY <1>t DEF updateDashboard, Updated, CallFails, Return
    <2>3. ~detectService(w) /\ ~FinishWorkItem(w) /\ ~processNextWorkItem(w)
      BY <1>t DEF detectService, FinishWorkItem, processNextWorkItem
    <2>4. ~updateInfra(w)
      BY <1>t DEF updateInfra, CallFails, Return
    <2> QED
      BY <2>1, <2>2, <2>3, <2>4
  <1>6. ~Restart
    BY DEF Restart
  <1>7. CASE UNCHANGED <<syncVars, holding>>
    BY <1>7, <1>h DEF syncVars
  <1> QED
    BY <1>h, <1>1, <1>2, <1>3, <1>4, <1>5, <1>6, <1>7, OutsideFrame DEF Next, Sync

(* The bundle of the first Infrastructure stays in order. *)
LEMMA BundleInOrderStep ==
    ASSUME TypeInv, TypeInv', CopiesAreOld, OwnersKnown, OwnersKnown', BundleInOrder,
           [Next]_vars
    PROVE  BundleInOrder'
  <1> SUFFICES ASSUME NEW k \in Keys, lives'[k] = 1, infra'[k] # NoInfra
               PROVE  /\ dep'[k].owner = 1 => Complete(k)'
                      /\ depCache'[k].owner = 1 => Complete(k)'
                      /\ \A i \in 1 .. Len(depEv'[k]) :
                            depEv'[k][i].owner = 1 => Complete(k)'
                      /\ \A w \in Workers : holding'[w] = k =>
                            /\ pc'[w] = "create" =>
                                \A i \in 1 .. Len(bundleCreate[k]) :
                                    i < step'[w] => prereq'[k][bundleCreate[k][i]] = 1
                            /\ pc'[w] = "update" => Complete(k)'
    BY DEF BundleInOrder, FirstLife
  <1>1. lives[k] \in Nat /\ infra[k] \in InfraRecord /\ infra'[k] \in InfraRecord
    BY DEF TypeInv, TypeOK, StoreTypeOK
  <1>2. \A i \in 1 .. Len(bundleCreate[k]) : bundleCreate[k][i] \in Objects
    BY BundleTypes
  <1>3. DepMoves(k)
    BY DepMovesStep
  <1>4. CASE FirstLife(k)
    <2>1. infra[k].uid = 1 /\ lives[k] = 1
      BY <1>4 DEF FirstLife, CopiesAreOld
    <2>2. ASSUME NEW o \in Objects, prereq[k][o] = 1 PROVE prereq'[k][o] = 1
      BY <2>1, <2>2, PrereqMovesStep DEF PrereqMoves, Dangling
    <2>3. Complete(k) => Complete(k)'
      BY <1>2, <2>2 DEF Complete, Needs
    <2>4. ASSUME NEW u, u = 1, OwnerSource(k, u) PROVE Complete(k)'
      <3>1. CASE dep[k].owner = 1 \/ depCache[k].owner = 1
        BY <1>4, <2>3, <3>1 DEF BundleInOrder
      <3>2. CASE \E j \in 1 .. Len(depEv[k]) : depEv[k][j].owner = 1
        BY <1>4, <2>3, <3>2 DEF BundleInOrder
      <3>3. ASSUME NEW w \in Workers, holding[w] = k,
                   \/ pc[w] = "create" /\ step[w] = Len(bundleCreate[k]) + 1
                   \/ pc[w] = "update"
            PROVE  Complete(k)'
        <4>1. CASE pc[w] = "update"
          BY <1>4, <2>3, <3>3, <4>1 DEF BundleInOrder
        <4>2. CASE pc[w] = "create" /\ step[w] = Len(bundleCreate[k]) + 1
          <5>1. Len(bundleCreate[k]) \in Nat
            BY BundleTypes
          <5>2. \A i \in 1 .. Len(bundleCreate[k]) : i < step[w]
            BY <4>2, <5>1
          <5>3. Complete(k)
            BY <1>4, <3>3, <4>2, <5>2 DEF BundleInOrder, Complete, Needs
          <5> QED
            BY <5>3, <2>3
        <4> QED
          BY <3>3, <4>1, <4>2
      <3>4. u # 0 /\ u # Foreign
        BY <2>4, ForeignAssumption
      <3> QED
        BY <2>4, <3>1, <3>2, <3>3, <3>4 DEF OwnerSource
    <2>5. ASSUME NEW w \in Workers, holding'[w] = k, pc'[w] = "create",
                 NEW i \in 1 .. Len(bundleCreate[k]), i < step'[w]
          PROVE  prereq'[k][bundleCreate[k][i]] = 1
      <3>1. holding[w] = k
        BY <2>5, CreateStep
      <3>2. CASE step'[w] \in {0, 1}
        BY <2>5, <3>2
      <3>3. CASE pc[w] = "create" /\ i < step[w]
        <4>1. prereq[k][bundleCreate[k][i]] = 1
          BY <1>4, <3>1, <3>3 DEF BundleInOrder
        <4> QED
          BY <1>2, <2>2, <4>1
      <3>4. CASE i = step[w] /\ prereq'[k][bundleCreate[k][i]] # 0
        <4>1. prereq'[k][bundleCreate[k][i]] \in 0 .. lives'[k]
          BY <1>2 DEF OwnersKnown
        <4> QED
          BY <3>4, <4>1
      <3>5. step[w] \in Nat /\ step'[w] \in Nat
        BY DEF TypeInv, TypeOK, SyncTypeOK
      <3> QED
        BY <2>5, <3>1, <3>2, <3>3, <3>4, <3>5, CreateStep
    <2>6. ASSUME NEW w \in Workers, holding'[w] = k, pc'[w] = "update"
          PROVE  Complete(k)'
      <3>1. holding[w] = k
        BY <2>6, UpdateStep
      <3>2. CASE pc[w] = "update"
        BY <1>4, <2>3, <3>1, <3>2 DEF BundleInOrder
      <3>3. CASE pc[w] = "deployment" /\ depCache[k].owner = snap[w].uid
        <4>1. snap[w].uid = 1
          BY <2>1, <3>1, <3>3, SnapUid DEF Syncing
        <4> QED
          BY <1>4, <2>3, <3>3, <4>1 DEF BundleInOrder
      <3> QED
        BY <2>6, <3>1, <3>2, <3>3, UpdateStep
    <2> QED
      BY <1>3, <2>4, <2>5, <2>6 DEF DepMoves
  <1>5. CASE ~FirstLife(k)
    <2>1. lives[k] = 0
      <3>1. Evolves(infra[k], lives[k], infra'[k], lives'[k])
        BY InfraMovesStep DEF InfraMoves
      <3> QED
        BY <1>1, <1>5, <3>1 DEF Evolves, FirstLife
    <2>2. ASSUME NEW w \in Workers, holding[w] = k PROVE pc[w] \notin Syncing
      BY <2>1, <2>2, SnapUid
    <2>3. ASSUME NEW u, OwnerSource(k, u) PROVE u # 1
      <3>1. \A w \in Workers : holding[w] = k => pc[w] # "create" /\ pc[w] # "update"
        BY <2>2 DEF Syncing
      <3> QED
        BY <2>1, <2>3, <3>1, ForeignAssumption DEF OwnerSource, OwnersKnown, KnownOwner
    <2>4. ASSUME NEW w \in Workers, holding'[w] = k, pc'[w] \in Syncing PROVE FALSE
      <3>1. holding[w] = k /\ infraCache[k] # NoInfra
        BY <2>2, <2>4, SnapStep
      <3>2. infraCache[k].uid \in 1 .. lives[k]
        BY <3>1 DEF CopiesAreOld, IsCopy
      <3> QED
        BY <2>1, <3>2
    <2> QED
      BY <1>3, <2>3, <2>4 DEF DepMoves, Syncing
  <1> QED
    BY <1>4, <1>5

(* SyncInv holds when the program starts. *)
LEMMA SyncInvInit == Init => SyncInv
  <1> SUFFICES ASSUME Init PROVE SyncInv
    OBVIOUS
  <1>1. OwnersKnown
    <2> SUFFICES ASSUME NEW k \in Keys
                 PROVE  /\ \A o \in Objects : prereq[k][o] \in 0 .. lives[k]
                        /\ dep[k].owner \in 0 .. lives[k]
                        /\ depCache[k].owner \in 0 .. lives[k]
                        /\ \A i \in 1 .. Len(depEv[k]) : KnownOwner(k, depEv[k][i])
      BY DEF OwnersKnown, KnownOwner
    <2>1. /\ lives[k] = 0 /\ \A o \in Objects : prereq[k][o] = 0
          /\ dep[k].owner = 0 /\ depCache[k].owner = 0
      BY DEF Init, NoDep
    <2>2. Len(depEv[k]) = 0
      BY DEF Init
    <2> QED
      BY <2>1, <2>2
  <1>2. BundleInOrder
    BY DEF Init, BundleInOrder, FirstLife
  <1> QED
    BY <1>1, <1>2, CopiesAreOldInit DEF SyncInv

(* The invariant behind both safety properties: workers, caches and events *)
(* hold old or current versions that the version number tells apart,       *)
(* owners are known, and the bundle is built in order.                     *)
THEOREM SyncInvariant == Spec => []SyncInv
  <1> DEFINE Inv == TypeInv /\ SyncInv
  <1>1. Init => Inv
    BY TypeInit, SyncInvInit
  <1>2. Inv /\ [Next]_vars => Inv'
    <2> SUFFICES ASSUME TypeInv, SyncInv, [Next]_vars PROVE Inv'
      OBVIOUS
    <2>1. TypeInv'
      BY TypeStep
    <2>2. CopiesAreOld'
      BY <2>1, CopiesAreOldStep DEF SyncInv
    <2>3. OwnersKnown'
      BY <2>1, OwnersKnownStep DEF SyncInv
    <2>4. BundleInOrder'
      BY <2>1, <2>3, BundleInOrderStep DEF SyncInv
    <2> QED
      BY <2>1, <2>2, <2>3, <2>4 DEF SyncInv
  <1> QED
    BY <1>1, <1>2, PTL DEF Spec

(* A deployment of the first Infrastructure of a kind is never without the *)
(* objects it needs, for any faults, restarts, workers and edits.          *)
THEOREM PrerequisitesBeforeDeployment == Spec => []PrerequisitesFirst
  <1>1. SyncInv => PrerequisitesFirst
    <2> SUFFICES ASSUME SyncInv, NEW k \in Keys, lives[k] = 1, infra[k] # NoInfra,
                        dep[k].owner = infra[k].uid, NEW o \in Needs(k)
                 PROVE  prereq[k][o] = infra[k].uid
      BY DEF PrerequisitesFirst
    <2>1. infra[k].uid = 1
      BY DEF SyncInv, CopiesAreOld
    <2> QED
      BY <2>1 DEF SyncInv, BundleInOrder, FirstLife, Complete
  <1> QED
    BY <1>1, SyncInvariant, PTL

-----------------------------------------------------------------------------
(* A worker that updates has seen a deployment that its Infrastructure owns. *)
SeenOwn == \A w \in Workers : pc[w] = "update" => view[w].owner = snap[w].uid

(* No step lets a worker update after it has seen a foreign deployment. *)
LEMMA SeenOwnStep ==
    ASSUME TypeInv, SeenOwn, [Next]_vars
    PROVE  SeenOwn'
  <1> SUFFICES ASSUME NEW v \in Workers, pc'[v] = "update"
               PROVE  view'[v].owner = snap'[v].uid
    BY DEF SeenOwn
  <1>1. TypeOK
    BY DEF TypeInv
  <1>2. ASSUME pc'[v] = pc[v], view'[v] = view[v], snap'[v] = snap[v]
        PROVE  view'[v].owner = snap'[v].uid
    BY <1>2 DEF SeenOwn
  <1>3. ASSUME NEW w \in Workers, processNextWorkItem(w)
        PROVE  view'[v].owner = snap'[v].uid
    <2>1. v # w /\ pc'[v] = pc[v] /\ view'[v] = view[v] /\ snap'[v] = snap[v]
      BY <1>1, <1>3 DEF processNextWorkItem, TypeOK, SyncTypeOK
    <2> QED
      BY <1>2, <2>1
  <1>4. ASSUME NEW w \in Workers, Sync(w)
        PROVE  view'[v].owner = snap'[v].uid
    <2> USE DEF TypeOK, SyncTypeOK
    <2>1. CASE LookupInfra(w)
      BY <1>1, <1>2, <2>1 DEF LookupInfra, Return
    <2>2. CASE LookupDeployment(w)
      BY <1>1, <1>2, <2>2 DEF LookupDeployment, Judge
    <2>3. CASE EnsureNamespace(w)
      BY <1>1, <1>2, <2>3 DEF EnsureNamespace, Return
    <2>4. CASE CreatePrerequisite(w)
      BY <1>1, <1>2, <2>4 DEF CreatePrerequisite, Updated, CallFails, Return
    <2>5. CASE CreateDeployment(w)
      <3>1. ASSUME NEW d, Judge(w, d) PROVE view'[v].owner = snap'[v].uid
        BY <1>1, <1>2, <3>1 DEF Judge
      <3>2. ASSUME NEW d, Updated(w, d) PROVE view'[v].owner = snap'[v].uid
        BY <1>1, <1>2, <3>2 DEF Updated
      <3>3. CASE CallFails(w)
        BY <1>1, <1>2, <3>3 DEF CallFails, Return
      <3> QED
        BY <2>5, <3>1, <3>2, <3>3 DEF CreateDeployment
    <2>6. CASE updateDashboard(w)
      BY <1>1, <1>2, <2>6 DEF updateDashboard, Updated, CallFails, Return
    <2>7. CASE detectService(w)
      BY <1>1, <1>2, <2>7 DEF detectService
    <2>8. CASE updateInfra(w)
      BY <1>1, <1>2, <2>8 DEF updateInfra, CallFails, Return
    <2>9. CASE FinishWorkItem(w)
      BY <1>1, <1>2, <2>9 DEF FinishWorkItem
    <2> QED
      BY <1>4, <2>1, <2>2, <2>3, <2>4, <2>5, <2>6, <2>7, <2>8, <2>9 DEF Sync
  <1>5. CASE Restart
    BY <1>5 DEF Restart
  <1>6. CASE UNCHANGED <<syncVars, holding>>
    BY <1>2, <1>6 DEF syncVars
  <1> QED
    BY <1>3, <1>4, <1>5, <1>6, OutsideFrame DEF Next

(* Only updateDashboard puts a deployment of an Infrastructure in the      *)
(* place of a foreign one: every other write finds no deployment, keeps    *)
(* the owner or leaves none.                                               *)
LEMMA ForeignReplaced ==
    ASSUME TypeInv, [Next]_vars, NEW k \in Keys,
           dep[k].owner = Foreign, dep'[k].owner \notin {Foreign, 0}
    PROVE  \E w \in Workers : holding[w] = k /\ pc[w] = "update"
  <1>1. dep \in [Keys -> DepRecord] /\ dep[k] # NoDep /\ dep' # dep
    BY ForeignAssumption DEF TypeInv, TypeOK, StoreTypeOK, NoDep
  <1>2. ASSUME NEW q \in Keys, NEW d, PutDep(q, d)
        PROVE  q = k /\ dep'[k] = d
    BY <1>1, <1>2 DEF PutDep
  <1>3. ASSUME NEW q \in Keys, Environment(q) PROVE FALSE
    <2>1. CASE InfrastructureDeploy(q) \/ InfrastructureDelete(q)
                 \/ \E n \in Replicas : Scale(q, n)
      BY <1>1, <2>1 DEF InfrastructureDeploy, InfrastructureDelete, Scale
    <2>2. ASSUME NEW n, AvailabilityChanges(q, n) PROVE FALSE
      <3>1. q = k /\ dep'[k] = [dep[k] EXCEPT !.avail = n]
        BY <1>2, <2>2 DEF AvailabilityChanges
      <3>2. dep'[k].owner = dep[k].owner
        BY <1>1, <3>1 DEF DepRecord
      <3> QED
        BY <3>2
    <2>3. CASE AdminDeletes(q)
      BY <1>2, <2>3 DEF AdminDeletes, NoDep
    <2>4. CASE AdminCreates(q)
      BY <1>1, <1>2, <2>4 DEF AdminCreates
    <2> QED
      BY <1>3, <2>1, <2>2, <2>3, <2>4 DEF Environment
  <1>4. ASSUME NEW q \in Keys, Collect(q) PROVE FALSE
    <2>1. CASE CollectDep(q)
      BY <1>2, <2>1 DEF CollectDep, NoDep
    <2>2. CASE \E i \in 1 .. Len(bundleCreate[q]) : CollectPrereq(q, i)
      BY <1>1, <2>2 DEF CollectPrereq
    <2> QED
      BY <1>4, <2>1, <2>2 DEF Collect
  <1>5. ASSUME NEW q \in Keys, Informer(q) PROVE FALSE
    BY <1>1, <1>5 DEF Informer, DeliverInfra, DeliverDep, DeliverSvc, Resync, KeyReady,
                      storeVars
  <1>6. ASSUME NEW w \in Workers, processNextWorkItem(w) PROVE FALSE
    BY <1>1, <1>6 DEF processNextWorkItem, storeVars
  <1>7. ASSUME NEW w \in Workers, Sync(w) PROVE holding[w] = k /\ pc[w] = "update"
    <2>1. holding[w] \in Keys
      BY <1>7, SyncFrame DEF TypeInv, WorkersHold
    <2>2. CASE LookupInfra(w) \/ LookupDeployment(w) \/ EnsureNamespace(w)
                 \/ detectService(w) \/ FinishWorkItem(w)
      BY <1>1, <2>2 DEF LookupInfra, LookupDeployment, EnsureNamespace, detectService,
                        FinishWorkItem, storeVars
    <2>3. CASE CreatePrerequisite(w)
      BY <1>1, <2>3 DEF CreatePrerequisite
    <2>4. CASE CreateDeployment(w)
      BY <1>1, <1>2, <2>1, <2>4 DEF CreateDeployment
    <2>5. CASE updateDashboard(w)
      BY <1>1, <1>2, <2>1, <2>5 DEF updateDashboard
    <2>6. CASE updateInfra(w)
      BY <1>1, <2>6 DEF updateInfra
    <2> QED
      BY <1>7, <2>2, <2>3, <2>4, <2>5, <2>6 DEF Sync
  <1>8. CASE Stop \/ Restart \/ UNCHANGED vars
    BY <1>1, <1>8 DEF Stop, Restart, vars, storeVars
  <1> QED
    BY <1>3, <1>4, <1>5, <1>6, <1>7, <1>8 DEF Next

(* A deployment of somebody else is replaced only by a worker that has     *)
(* seen one of its own Infrastructure under the name: what syncHandler has *)
(* seen to be foreign it leaves alone, whatever the caches missed.         *)
THEOREM ForeignDeploymentsKept == Spec => SeenForeignKept
  <1> DEFINE Inv == TypeInv /\ SeenOwn
  <1> DEFINE Kept ==
        \A k \in Keys : dep[k].owner = Foreign /\ dep'[k].owner \notin {Foreign, 0} =>
            \E w \in Workers : /\ holding[w] = k
                               /\ pc[w] = "update"
                               /\ view[w].owner = snap[w].uid
  <1>1. Init => Inv
    BY TypeInit DEF Init, SeenOwn
  <1>2. Inv /\ [Next]_vars => Inv'
    BY TypeStep, SeenOwnStep
  <1>3. Inv /\ [Next]_vars => [Kept]_vars
    BY ForeignReplaced DEF SeenOwn
  <1> QED
    BY <1>1, <1>2, <1>3, PTL DEF Spec, SeenForeignKept

=============================================================================
