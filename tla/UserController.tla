---------------------------- MODULE UserController ----------------------------
(***************************************************************************)
(* The User controller (controller/user_controller.go): its workers give   *)
(* every User a Principal, a ClusterRole and a ClusterRoleBinding, and add *)
(* the name of the Principal to the PrincipalIDs of the User.              *)
(*                                                                         *)
(* As in InfraController, the API server, the informer caches with their   *)
(* undelivered events, and the local variables of syncHandler are kept     *)
(* apart, and every read of a cache and every call is a step of its own.   *)
(*                                                                         *)
(* A key is the name of a User; all Users live in kube-system.  A role and *)
(* a binding carry the name of the User.  A Principal carries the "local." *)
(* name found in PrincipalIDs, or one derived from the name of the User,   *)
(* which the model writes as the key itself.                               *)
(***************************************************************************)
EXTENDS WorkQueue

CONSTANTS
    LocalIds,   \* the principal names a User may be created with
    NoId,       \* "PrincipalIDs names no local principal"
    Foreign,    \* the owner of an object that no User owns
    Budgets,    \* how often events outside the program's control happen together
    MaxLag      \* bound on the events the garbage collector may leave undelivered

Costs == {"user", "delete", "edit", "remove", "intrude", "fault", "crash", "stop"}

ASSUME LocalIdsAssumption == LocalIds \subseteq Keys /\ NoId \notin Keys
ASSUME ForeignAssumption == Foreign \notin Nat
ASSUME BudgetAssumption == Budgets \subseteq [Costs -> Nat]
ASSUME MaxLagAssumption == MaxLag \in Nat \ {0}

VARIABLES
    user,       \* API server: the User of each name
    born,       \* API server: the name of each User there was; a UID is a position
    obj,        \* API server: the owner of each object, by name and type
    userCache, objCache,    \* what the listers and indexers return
    userEv, objEv,          \* watch events not yet delivered
    pc,         \* where each worker is in syncHandler
    step,       \* the object of Rights that syncHandler has come to
    snap,       \* the local variable user
    failed,     \* syncHandler returns an error
    synced,     \* the last User of each name with the event SuccessSynced
    up,         \* the process runs
    spent       \* how often each event has happened

storeVars == <<user, born, obj>>
cacheVars == <<userCache, objCache>>
eventVars == <<userEv, objEv>>
syncVars == <<pc, step, snap, failed>>
vars == <<queueVars, storeVars, cacheVars, eventVars, syncVars, synced, up, spent>>

(* What syncHandler sees to, in its order. *)
Rights == <<"principal", "clusterRole", "clusterRoleBinding">>

Types == {"principal", "clusterRole", "clusterRoleBinding"}

(* data stands for the fields the controller does not touch. *)
NoUser == [uid |-> 0, rv |-> 0, data |-> 0, local |-> NoId]

(* GetLocalPrincipalID of the User u with the name k. *)
GetLocalPrincipalID(k, u) == IF u.local = NoId THEN k ELSE u.local

(* The name of the object of type o that belongs to u. *)
NameOf(k, u, o) == IF o = "principal" THEN GetLocalPrincipalID(k, u) ELSE k

Init ==
    /\ QInit
    /\ user = [k \in Keys |-> NoUser]
    /\ born = << >>
    /\ obj = [k \in Keys |-> [o \in Types |-> 0]]
    /\ userCache = user
    /\ objCache = obj
    /\ userEv = [k \in Keys |-> << >>]
    /\ objEv = [k \in Keys |-> [o \in Types |-> << >>]]
    /\ pc = [w \in Workers |-> "idle"]
    /\ step = [w \in Workers |-> 0]
    /\ snap = [w \in Workers |-> NoUser]
    /\ failed = [w \in Workers |-> FALSE]
    /\ synced = [k \in Keys |-> 0]
    /\ up = TRUE
    /\ spent = [c \in Costs |-> 0]

Spend(c) ==
    /\ spent' = [spent EXCEPT ![c] = @ + 1]
    /\ \E b \in Budgets : \A d \in Costs : spent'[d] <= b[d]

-----------------------------------------------------------------------------
(* The API server and who else writes to it.                               *)

PutUser(k, u) ==
    /\ user' = [user EXCEPT ![k] = u]
    /\ userEv' = [userEv EXCEPT ![k] = Append(@, u)]

PutObj(k, o, u) ==
    /\ obj' = [obj EXCEPT ![k][o] = u]
    /\ objEv' = [objEv EXCEPT ![k][o] = Append(@, u)]

(* A User is created: by InitCubeAdmin with its own local principal, by    *)
(* an administrator with any.                                              *)
CreateUser(k, id) ==
    /\ Spend("user")
    /\ user[k] = NoUser
    /\ born' = Append(born, k)
    /\ PutUser(k, [uid |-> Len(born) + 1, rv |-> 1, data |-> 0, local |-> id])
    /\ UNCHANGED <<queueVars, obj, cacheVars, objEv, syncVars, synced, up>>

DeleteUser(k) ==
    /\ Spend("delete")
    /\ user[k] # NoUser
    /\ PutUser(k, NoUser)
    /\ UNCHANGED <<queueVars, born, obj, cacheVars, objEv, syncVars, synced, up>>

(* Somebody edits the User, its password for example. *)
EditUser(k) ==
    /\ Spend("edit")
    /\ user[k] # NoUser
    /\ PutUser(k, [user[k] EXCEPT !.rv = @ + 1, !.data = @ + 1])
    /\ UNCHANGED <<queueVars, born, obj, cacheVars, objEv, syncVars, synced, up>>

(* An administrator deletes an object, or puts one of his own in its place. *)
AdminDeletes(k, o) ==
    /\ Spend("remove")
    /\ obj[k][o] # 0
    /\ PutObj(k, o, 0)
    /\ UNCHANGED <<queueVars, user, born, cacheVars, userEv, syncVars, synced, up>>

AdminCreates(k, o) ==
    /\ Spend("intrude")
    /\ obj[k][o] = 0
    /\ PutObj(k, o, Foreign)
    /\ UNCHANGED <<queueVars, user, born, cacheVars, userEv, syncVars, synced, up>>

(* The garbage collector removes an object whose owner is gone, at any     *)
(* later time or never: what it does to a cluster-scoped object with a     *)
(* namespaced owner is not defined.                                        *)
Alive(u) == \E k \in Keys : user[k].uid = u

CollectObj(k, o) ==
    /\ obj[k][o] \notin {0, Foreign}
    /\ ~Alive(obj[k][o])
    /\ Len(objEv[k][o]) < MaxLag
    /\ PutObj(k, o, 0)
    /\ UNCHANGED <<queueVars, user, born, cacheVars, userEv, syncVars, synced, up, spent>>

-----------------------------------------------------------------------------
(* The informers and the event handlers of NewUserController.              *)

(* Mutant of enqueueUser: no return after an error of the key function, so *)
(* the zero value of the key is queued.                                    *)
enqueueUserZeroKey(k) == k \in Keys /\ AddRateLimited(NoKey)

enqueueUser(k) == AddRateLimited(k)

(* handleObject looks the owner up by name in the namespace of the object. *)
(* A role or a binding has none, so its owner is never found.              *)
handleObject(o, u) ==
    IF o = "principal" /\ u \in 1 .. Len(born) /\ userCache[born[u]] # NoUser
    THEN enqueueUser(born[u]) ELSE UNCHANGED queueVars

(* There is no DeleteFunc for Users. *)
DeliverUser(k) ==
    /\ up
    /\ userEv[k] # << >>
    /\ userCache' = [userCache EXCEPT ![k] = Head(userEv[k])]
    /\ userEv' = [userEv EXCEPT ![k] = Tail(@)]
    /\ IF Head(userEv[k]) = NoUser THEN UNCHANGED queueVars ELSE enqueueUser(k)
    /\ UNCHANGED <<storeVars, objCache, objEv, syncVars, synced, up, spent>>

(* DeleteFunc is given the last known object. *)
DeliverObj(k, o) ==
    /\ up
    /\ objEv[k][o] # << >>
    /\ objCache' = [objCache EXCEPT ![k][o] = Head(objEv[k][o])]
    /\ objEv' = [objEv EXCEPT ![k][o] = Tail(@)]
    /\ handleObject(o, IF Head(objEv[k][o]) = 0 THEN objCache[k][o] ELSE Head(objEv[k][o]))
    /\ UNCHANGED <<storeVars, userCache, userEv, syncVars, synced, up, spent>>

(* Mutant of Resync: an unchanged User is skipped, as the other handlers    *)
(* skip an unchanged object.                                                *)
ResyncSkipped(k) == FALSE /\ UNCHANGED vars /\ k \in Keys

(* The periodic resync calls UpdateFunc for every cached User. *)
Resync(k) ==
    /\ up
    /\ userCache[k] # NoUser
    /\ enqueueUser(k)
    /\ UNCHANGED <<storeVars, cacheVars, eventVars, syncVars, synced, up, spent>>

KeyReady(k) ==
    /\ up
    /\ WaitingReady(k)
    /\ UNCHANGED <<storeVars, cacheVars, eventVars, syncVars, synced, up, spent>>

-----------------------------------------------------------------------------
(* syncHandler, one step for each read of a cache and each call.           *)

Return(w, err) ==
    /\ pc' = [pc EXCEPT ![w] = "done"]
    /\ failed' = [failed EXCEPT ![w] = err]
    /\ UNCHANGED <<step, snap>>

GoTo(w, s) ==
    /\ pc' = [pc EXCEPT ![w] = s]
    /\ UNCHANGED <<step, snap, failed>>

(* On to the next object, or after the last one to updateUser. *)
NextRight(w) ==
    /\ pc' = [pc EXCEPT ![w] = IF step[w] = Len(Rights) THEN "write" ELSE "find"]
    /\ step' = [step EXCEPT ![w] = @ + 1]
    /\ UNCHANGED <<snap, failed>>

(* A call that fails may have been carried out. *)
CallFails(w) == Spend("fault") /\ Return(w, TRUE)

Right(w) == Rights[step[w]]

RightName(w) == NameOf(holding[w], snap[w], Right(w))

Stored(w) == obj[RightName(w)][Right(w)]

(* Mutant of Judge: a Principal is taken without a look at its owner. *)
JudgeAnyPrincipal(w, u) ==
    CASE u # snap[w].uid /\ Right(w) # "principal" -> Return(w, TRUE)
      [] Right(w) = "principal" /\ snap[w].local = NoId -> GoTo(w, "update")
      [] OTHER -> NextRight(w)

(* How syncHandler goes on with an object whose owner is u: an object of   *)
(* somebody else, or the empty object that a client returns with           *)
(* AlreadyExists, is an error.  A Principal that PrincipalIDs does not     *)
(* name is updated first.                                                  *)
Judge(w, u) ==
    CASE u # snap[w].uid -> Return(w, TRUE)
      [] u = snap[w].uid /\ Right(w) = "principal" /\ snap[w].local = NoId ->
            GoTo(w, "update")
      [] OTHER -> NextRight(w)

processNextWorkItem(w) ==
    /\ up
    /\ pc[w] = "idle"
    /\ Get(w)
    /\ pc' = [pc EXCEPT ![w] = "lookup"]
    /\ UNCHANGED <<storeVars, cacheVars, eventVars, step, snap, failed, synced, up, spent>>

(* userLister.Get: a User that is gone is not an error. *)
LookupUser(w) ==
    /\ up
    /\ pc[w] = "lookup"
    /\ IF userCache[holding[w]] = NoUser
       THEN Return(w, FALSE)
       ELSE /\ pc' = [pc EXCEPT ![w] = "find"]
            /\ step' = [step EXCEPT ![w] = 1]
            /\ snap' = [snap EXCEPT ![w] = userCache[holding[w]]]
            /\ UNCHANGED failed
    /\ UNCHANGED <<queueVars, storeVars, cacheVars, eventVars, synced, up, spent>>

(* The object is looked up in the indexer by its name. *)
FindRight(w) ==
    /\ up
    /\ pc[w] = "find"
    /\ LET u == objCache[RightName(w)][Right(w)]
       IN  IF u = 0
           THEN GoTo(w, IF Right(w) = "principal" THEN "create" ELSE "get")
           ELSE Judge(w, u)
    /\ UNCHANGED <<queueVars, storeVars, cacheVars, eventVars, synced, up, spent>>

(* The Get of generateClusterRole and generateClusterRoleBinding.  After   *)
(* any error the object is created.  When there is one, the functions      *)
(* return nil and no error, and IsControlledBy dereferences the nil: the   *)
(* panic ends the process.                                                 *)
GetRight(w) ==
    /\ up
    /\ pc[w] = "get"
    /\ \/ /\ Stored(w) = 0
          /\ GoTo(w, "create")
          /\ UNCHANGED <<up, spent>>
       \/ /\ Stored(w) # 0
          /\ up' = FALSE
          /\ UNCHANGED <<syncVars, spent>>
       \/ /\ Spend("fault")
          /\ GoTo(w, "create")
          /\ UNCHANGED up
    /\ UNCHANGED <<queueVars, storeVars, cacheVars, eventVars, synced>>

(* Mutant of CreateRight: after AlreadyExists the object is taken for one   *)
(* of this User.                                                            *)
CreateRightAdopting(w) ==
    /\ up
    /\ pc[w] = "create"
    /\ \/ /\ IF Stored(w) = 0
             THEN PutObj(RightName(w), Right(w), snap[w].uid)
             ELSE UNCHANGED <<obj, objEv>>
          /\ Judge(w, snap[w].uid)
          /\ UNCHANGED spent
       \/ /\ CallFails(w)
          /\ UNCHANGED <<obj, objEv>>
    /\ UNCHANGED <<queueVars, user, born, cacheVars, userEv, synced, up>>

(* The Create call of createPrincipal, generateClusterRole and             *)
(* generateClusterRoleBinding.  createPrincipal ensures first that         *)
(* kube-system exists, which fails like the call itself.                   *)
CreateRight(w) ==
    /\ up
    /\ pc[w] = "create"
    /\ \/ /\ Stored(w) = 0
          /\ PutObj(RightName(w), Right(w), snap[w].uid)
          /\ Judge(w, snap[w].uid)
          /\ UNCHANGED spent
       \/ /\ Stored(w) # 0
          /\ Judge(w, 0)
          /\ UNCHANGED <<obj, objEv, spent>>
       \/ /\ CallFails(w)
          /\ \/ Stored(w) = 0 /\ PutObj(RightName(w), Right(w), snap[w].uid)
             \/ UNCHANGED <<obj, objEv>>
    /\ UNCHANGED <<queueVars, user, born, cacheVars, userEv, synced, up>>

(* updatePrincipal sends the Principal back with the owner it has, so it   *)
(* changes nothing; it fails when the Principal is gone or another one has *)
(* its name.                                                               *)
updatePrincipal(w) ==
    /\ up
    /\ pc[w] = "update"
    /\ \/ /\ Stored(w) = snap[w].uid
          /\ NextRight(w)
          /\ UNCHANGED spent
       \/ /\ Stored(w) # snap[w].uid
          /\ Return(w, TRUE)
          /\ UNCHANGED spent
       \/ CallFails(w)
    /\ UNCHANGED <<queueVars, storeVars, cacheVars, eventVars, synced, up>>

(* Mutant of UserCopy: the copy takes its resource version from a later    *)
(* read, as a retry after Conflict would.                                  *)
UserCopyFreshVersion(w) ==
    [snap[w] EXCEPT !.local = GetLocalPrincipalID(holding[w], snap[w]),
                    !.rv = user[holding[w]].rv]

(* The copy that updateUser sends. *)
UserCopy(w) == [snap[w] EXCEPT !.local = GetLocalPrincipalID(holding[w], snap[w])]

(* The API server's answer to an Update of a User: NotFound or Conflict     *)
(* unless the copy carries the stored UID and resource version.             *)
Accepts(k, u) == user[k].uid = u.uid /\ user[k].rv = u.rv

Store(k, u) ==
    IF u = user[k]
    THEN UNCHANGED <<user, userEv>>
    ELSE PutUser(k, [u EXCEPT !.rv = @ + 1])

(* updateUser, and the event that syncHandler records after it. *)
updateUser(w) ==
    LET k == holding[w]
    IN  /\ up
        /\ pc[w] = "write"
        /\ \/ /\ Accepts(k, UserCopy(w))
              /\ Store(k, UserCopy(w))
              /\ Return(w, FALSE)
              /\ synced' = [synced EXCEPT ![k] = snap[w].uid]
              /\ UNCHANGED spent
           \/ /\ ~Accepts(k, UserCopy(w))
              /\ Return(w, TRUE)
              /\ UNCHANGED <<user, userEv, synced, spent>>
           \/ /\ CallFails(w)
              /\ \/ Accepts(k, UserCopy(w)) /\ Store(k, UserCopy(w))
                 \/ UNCHANGED <<user, userEv>>
              /\ UNCHANGED synced
        /\ UNCHANGED <<queueVars, born, obj, cacheVars, objEv, up>>

(* The rest of processNextWorkItem.  After an error the key is not added   *)
(* again.                                                                  *)
FinishWorkItem(w) ==
    /\ up
    /\ pc[w] = "done"
    /\ Done(w)
    /\ pc' = [pc EXCEPT ![w] = "idle"]
    /\ step' = [step EXCEPT ![w] = 0]
    /\ snap' = [snap EXCEPT ![w] = NoUser]
    /\ failed' = [failed EXCEPT ![w] = FALSE]
    /\ UNCHANGED <<storeVars, cacheVars, eventVars, synced, up, spent>>

-----------------------------------------------------------------------------
(* The stop channel is closed: Run shuts the queue down and returns. *)
Stop ==
    /\ up
    /\ Spend("stop")
    /\ ShutDown
    /\ UNCHANGED <<storeVars, cacheVars, eventVars, syncVars, synced, up>>

(* The process is started again, after a panic or after it died at any     *)
(* other point: the informers list what is stored and AddFunc is called    *)
(* for every User.                                                         *)
Restart ==
    /\ \/ ~up /\ UNCHANGED spent
       \/ up /\ Spend("crash")
    /\ queue' = << >>
    /\ dirty' = {}
    /\ processing' = {}
    /\ waiting' = {k \in Keys : user[k] # NoUser}
    /\ shuttingDown' = FALSE
    /\ holding' = [w \in Workers |-> NoKey]
    /\ userCache' = user
    /\ objCache' = obj
    /\ userEv' = [k \in Keys |-> << >>]
    /\ objEv' = [k \in Keys |-> [o \in Types |-> << >>]]
    /\ pc' = [w \in Workers |-> "idle"]
    /\ step' = [w \in Workers |-> 0]
    /\ snap' = [w \in Workers |-> NoUser]
    /\ failed' = [w \in Workers |-> FALSE]
    /\ up' = TRUE
    /\ UNCHANGED <<storeVars, synced>>

Environment(k) ==
    \/ \E id \in LocalIds \union {NoId} : CreateUser(k, id)
    \/ DeleteUser(k)
    \/ EditUser(k)
    \/ \E o \in Types : AdminDeletes(k, o) \/ AdminCreates(k, o) \/ CollectObj(k, o)

Informer(k) ==
    \/ DeliverUser(k)
    \/ \E o \in Types : DeliverObj(k, o)
    \/ Resync(k)
    \/ KeyReady(k)

Sync(w) ==
    \/ LookupUser(w)
    \/ FindRight(w)
    \/ GetRight(w)
    \/ CreateRight(w)
    \/ updatePrincipal(w)
    \/ updateUser(w)
    \/ FinishWorkItem(w)

Next ==
    \/ \E k \in Keys : Environment(k) \/ Informer(k)
    \/ \E w \in Workers : processNextWorkItem(w) \/ Sync(w)
    \/ Stop
    \/ Restart

Spec == Init /\ [][Next]_vars

(* While the process runs, the informers, the waiting loop and the workers *)
(* go on and the resync period keeps expiring.  Nothing restarts it.       *)
Fairness ==
    /\ \A k \in Keys :
        /\ WF_vars(DeliverUser(k))
        /\ \A o \in Types : WF_vars(DeliverObj(k, o))
        /\ WF_vars(Resync(k))
        /\ WF_vars(KeyReady(k))
    /\ WF_vars(\E w \in Workers : processNextWorkItem(w))
    /\ \A w \in Workers : WF_vars(Sync(w))

LiveSpec == Spec /\ Fairness

-----------------------------------------------------------------------------
UserRecord == [uid : Nat, rv : Nat, data : Nat, local : Keys \union {NoId}]

Owner == Nat \union {Foreign}

Steps == {"idle", "lookup", "find", "get", "create", "update", "write", "done"}

TypeOK ==
    /\ QTypeOK
    /\ user \in [Keys -> UserRecord]
    /\ born \in Seq(Keys)
    /\ obj \in [Keys -> [Types -> Owner]]
    /\ userCache \in [Keys -> UserRecord]
    /\ objCache \in [Keys -> [Types -> Owner]]
    /\ userEv \in [Keys -> Seq(UserRecord)]
    /\ objEv \in [Keys -> [Types -> Seq(Owner)]]
    /\ pc \in [Workers -> Steps]
    /\ step \in [Workers -> 0 .. Len(Rights) + 1]
    /\ snap \in [Workers -> UserRecord]
    /\ failed \in [Workers -> BOOLEAN]
    /\ synced \in [Keys -> Nat]
    /\ up \in BOOLEAN
    /\ spent \in [Costs -> Nat]

(* The User u of the name k owns all it needs. *)
HasRights(k, u) == \A o \in Types : obj[NameOf(k, u, o)][o] = u.uid

(* Unless an administrator takes an object away: a User reported as synced *)
(* has its own Principal, role and binding for as long as it lives.  Two   *)
(* Users with the same principal are never both reported, whichever worker *)
(* creates it first and however old the caches are.                        *)
SyncedUserHasRights ==
    spent["remove"] = 0 =>
        \A k \in Keys :
            user[k] # NoUser /\ synced[k] = user[k].uid => HasRights(k, user[k])

(* Writing PrincipalIDs never revives a User deleted since it was read,    *)
(* undoes no edit made since, and replaces no principal already named.     *)
WriteKeepsUser ==
    [][\A w \in Workers : pc[w] = "write" /\ pc'[w] = "done" =>
        \A k \in Keys : /\ user'[k].uid = user[k].uid
                        /\ user'[k].data = user[k].data
                        /\ user[k].local # NoId => user'[k].local = user[k].local]_vars

(* No other User and nobody else has what the User u of the name k needs. *)
NamesFree(k, u) == \A o \in Types : obj[NameOf(k, u, o)][o] \in {0, u.uid}

(* A User that stays gets its rights and names its principal, provided     *)
(* that the names it needs stay free of others, and that the process is in *)
(* the end neither stopped nor killed by a panic any more.                 *)
UserGetsRights ==
    \A k \in Keys :
        <>[](up /\ ~shuttingDown /\ user[k] # NoUser /\ NamesFree(k, user[k]))
            => <>[](HasRights(k, user[k]) /\ user[k].local # NoId)

-----------------------------------------------------------------------------
(* What comments in the source say and the code does not do.               *)

(* "If the ClusterRole is not controlled by this User resource, we should  *)
(* log a warning to the event recorder and ret" (user_controller.go:436):  *)
(* whatever there is under the name, the worker goes on.                   *)
WorkerSurvives == up

=============================================================================
