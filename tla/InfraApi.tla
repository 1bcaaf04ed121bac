------------------------------- MODULE InfraApi -------------------------------
(***************************************************************************)
(* The infrastructure handlers of the API (api/infra.go, and BaseInfoGet   *)
(* of backend/infra.go, which api/baseinfo.go also calls from informer     *)
(* callbacks) and the package variables they share without a lock:         *)
(* configMap, status, state and Service.                                   *)
(*                                                                         *)
(* Every request runs in a goroutine of its own.  A step is one access to  *)
(* a shared variable or one call to the API server, which may fail.  Two   *)
(* goroutines that use a map at the same time, one of them to write, may   *)
(* go on in either order or be stopped by the runtime, which ends the      *)
(* process.                                                                *)
(*                                                                         *)
(* The text of the ConfigMap is abstracted to whether it is there: with an *)
(* empty ConfigMap every name that is looked up in it is the empty string, *)
(* which no call to the API server accepts.                                *)
(***************************************************************************)
EXTENDS Naturals, Sequences

CONSTANTS
    Requests,   \* the requests and callbacks
    KindSeq,    \* the infrastructures, in the order statusGet asks for them
    Unknown,    \* a kind that getInfra does not know
    None,       \* nil, an absent object, no answer
    Budget      \* bound on failed calls and other events from outside

Kinds == {KindSeq[i] : i \in 1 .. Len(KindSeq)}

ASSUME KindsAssumption ==
    /\ KindSeq \in Seq(STRING) /\ KindSeq # << >>
    /\ \A i, j \in 1 .. Len(KindSeq) : KindSeq[i] = KindSeq[j] => i = j
    /\ Unknown \notin Kinds \cup {None}
    /\ None \notin Kinds \cup {"", "Running", "real", "empty", "notFound", "error"}
ASSUME RequestsAssumption == None \notin Requests
ASSUME BudgetAssumption == Budget \in Nat

States == {"", "Running"}           \* Infrastructure.Status.State

VARIABLES
    stored,     \* API server: the ConfigMap exists
    namespaces, \* API server: the namespaces there are, by kind
    infra,      \* API server: the state of each Infrastructure, or None
    services,   \* the informer's cache: the kinds whose Service is known
    configMap,  \* None, or what the last Get of it returned: "real", "empty"
    status,     \* the two maps: the entry of each kind, or None
    state,
    Service,    \* the kind of the Service in the variable, or None
    pc,         \* where each request is
    req,        \* its local variables
    up,         \* the process runs
    budget,
    alone,      \* history: no other request was inside statusGet with it
    setBy,      \* history: the request that last assigned Service
    failed      \* history: the requests that had a call fail

storeVars == <<stored, namespaces, infra, services>>
globals == <<configMap, status, state, Service>>
history == <<alone, setBy, failed>>
vars == <<storeVars, globals, pc, req, up, budget, history>>

NoEntries == [k \in Kinds |-> None]

Start ==
    [op |-> None, kind |-> None,
     i |-> 0,               \* the position in KindSeq
     info |-> None,         \* the ConfigMap of the handler's own lookup
     inner |-> None,        \* and of the lookups inside statusGet
     got |-> None,          \* what the last call returned
     read |-> NoEntries,    \* history: the infrastructures it has read
     conflict |-> FALSE,    \* history: it asked for an absent, or created an existing one
     status |-> NoEntries, state |-> NoEntries, port |-> None, setBy |-> None]

Init ==
    /\ namespaces = {}
    /\ infra \in [Kinds -> {None, "Running"}]
    /\ \/ stored = TRUE
       \/ stored = FALSE /\ infra = NoEntries \* start-up failed to create it
    /\ services = {k \in Kinds : infra[k] # None}
    /\ configMap = None
    /\ status = NoEntries /\ state = NoEntries
    /\ Service = None
    /\ pc = [c \in Requests |-> "idle"]
    /\ req = [c \in Requests |-> Start]
    /\ up = TRUE
    /\ budget = Budget
    /\ alone = [c \in Requests |-> FALSE]
    /\ setBy = None
    /\ failed = {}

Spend ==
    /\ budget > 0
    /\ budget' = budget - 1

At(c, l) == up /\ pc[c] = l
GoTo(c, l) == pc' = [pc EXCEPT ![c] = l]

(* The request's call fails, and it goes on at l. *)
Fails(c, l) ==
    /\ Spend
    /\ failed' = failed \cup {c}
    /\ GoTo(c, l)
    /\ UNCHANGED <<globals, up, alone, setBy>>

-----------------------------------------------------------------------------
(* The world around the handlers.                                          *)

(* The controller reports the state of an infrastructure. *)
Report(k) ==
    /\ infra[k] = ""
    /\ infra' = [infra EXCEPT ![k] = "Running"]
    /\ UNCHANGED <<stored, namespaces, services, globals, pc, req, up, budget, history>>

(* The controller has created the Service, and the informer knows it. *)
ServiceAppears(k) ==
    /\ infra[k] # None
    /\ k \notin services
    /\ services' = services \cup {k}
    /\ UNCHANGED <<stored, namespaces, infra, globals, pc, req, up, budget, history>>

(* The Service of a deleted infrastructure is collected. *)
ServiceGone(k) ==
    /\ infra[k] = None
    /\ services' = services \ {k}
    /\ services' # services
    /\ UNCHANGED <<stored, namespaces, infra, globals, pc, req, up, budget, history>>

ConfigMapDeleted ==
    /\ stored
    /\ Spend
    /\ stored' = FALSE
    /\ UNCHANGED <<namespaces, infra, services, globals, pc, req, up, history>>

(* A request arrives; each of its handlers first asks for the ConfigMap,   *)
(* but the one that lists the infrastructures.                             *)
Arrive(c) ==
    /\ At(c, "idle")
    /\ \E o \in {"baseinfo", "list", "get", "create", "delete"} :
       \E k \in IF o \in {"baseinfo", "list"} THEN {None} ELSE Kinds \cup {Unknown} :
        /\ req' = [req EXCEPT ![c].op = o, ![c].kind = k]
        /\ GoTo(c, IF o = "list" THEN "list" ELSE "config")
    /\ UNCHANGED <<storeVars, globals, up, budget, history>>

-----------------------------------------------------------------------------
(* getConfigMapInfo.                                                       *)

(* Mutant of CheckConfigMap: the ConfigMap is asked for each time. *)
CheckConfigMapNever(c) ==
    /\ At(c, "config")
    /\ GoTo(c, "getConfig")
    /\ UNCHANGED <<storeVars, globals, req, up, budget, history>>

(* Is the variable nil? *)
CheckConfigMap(c) ==
    /\ At(c, "config")
    /\ GoTo(c, IF configMap = None THEN "getConfig" ELSE "haveConfig")
    /\ UNCHANGED <<storeVars, globals, req, up, budget, history>>

(* ConfigMapGet answers ... *)
CallConfigMapGet(c) ==
    /\ At(c, "getConfig")
    /\ req' = [req EXCEPT ![c].got = IF stored THEN "real" ELSE "notFound"]
    /\ GoTo(c, "setConfig")
    /\ UNCHANGED <<storeVars, globals, up, budget, history>>

CallConfigMapGetFails(c) ==
    /\ At(c, "getConfig")
    /\ Fails(c, "setConfig")
    /\ req' = [req EXCEPT ![c].got = "error"]
    /\ UNCHANGED storeVars

(* Where a request goes that got no ConfigMap: InfrastructureGet's error   *)
(* is an infrastructure that is not there to statusGet, and else the       *)
(* answer.                                                                 *)
NoConfig(c) == IF req[c].op = "baseinfo" /\ req[c].i > 0 THEN "setStatus" ELSE "error"

(* ... and its result is assigned, an error's empty object too. *)
AssignConfigMap(c) ==
    /\ At(c, "setConfig")
    /\ configMap' = IF req[c].got = "real" THEN "real" ELSE "empty"
    /\ GoTo(c, CASE req[c].got = "real" -> "haveConfig"
                 [] req[c].got = "notFound" -> "deployConfig"
                 [] req[c].got = "error" -> NoConfig(c))
    /\ req' = [req EXCEPT ![c].got = None]
    /\ UNCHANGED <<storeVars, status, state, Service, up, budget, history>>

(* Mutant of WithConfig: the nil pointer goes unnoticed. *)
WithConfigUnchecked(c) ==
    CASE req[c].op = "baseinfo" -> IF req[c].i = 0 THEN "resetStatus" ELSE "getInfra"
      [] req[c].op = "get" -> "getInfra"
      [] req[c].op = "create" -> "ensureNamespace"
      [] req[c].op = "delete" -> "delete"

(* What each handler does once it has a ConfigMap.  A kind that is not     *)
(* known is a nil pointer then, and the panic ends the request.            *)
WithConfig(c) ==
    IF req[c].kind = Unknown THEN "aborted"
    ELSE CASE req[c].op = "baseinfo" -> IF req[c].i = 0 THEN "resetStatus" ELSE "getInfra"
           [] req[c].op = "get" -> "getInfra"
           [] req[c].op = "create" -> "ensureNamespace"
           [] req[c].op = "delete" -> "delete"

Looked(c, cm) ==
    req' = IF req[c].i = 0 THEN [req EXCEPT ![c].info = cm] ELSE [req EXCEPT ![c].inner = cm]

(* ConfigMapDeploy, which leaves the variable empty, creates it ...        *)
ConfigMapDeploy(c) ==
    /\ At(c, "deployConfig")
    /\ ~stored
    /\ stored' = TRUE
    /\ Looked(c, "real")
    /\ GoTo(c, WithConfig(c))
    /\ UNCHANGED <<namespaces, infra, services, globals, up, budget, history>>

(* ... or, when somebody else has since, is told AlreadyExists ...         *)
ConfigMapExists(c) ==
    /\ At(c, "deployConfig")
    /\ stored
    /\ GoTo(c, "getAgain")
    /\ UNCHANGED <<storeVars, globals, req, up, budget, history>>

(* ... and asks for it once more, ...                                      *)
ConfigMapGetAgain(c) ==
    /\ At(c, "getAgain")
    /\ stored
    /\ Looked(c, "real")
    /\ GoTo(c, WithConfig(c))
    /\ UNCHANGED <<storeVars, globals, up, budget, history>>

(* ... when it may be gone again, which is an error.                       *)
ConfigMapGone(c) ==
    /\ At(c, "getAgain")
    /\ ~stored
    /\ req' = [req EXCEPT ![c].conflict = TRUE]
    /\ GoTo(c, NoConfig(c))
    /\ UNCHANGED <<storeVars, globals, up, budget, history>>

(* Either call may fail; the Create may have been carried out. *)
ConfigMapDeployFails(c) ==
    /\ At(c, "deployConfig") \/ At(c, "getAgain")
    /\ Fails(c, NoConfig(c))
    /\ stored' \in IF pc[c] = "deployConfig" THEN {stored, TRUE} ELSE {stored}
    /\ UNCHANGED <<namespaces, infra, services, req>>

(* The variable is read again to be returned. *)
ReturnConfigMap(c) ==
    /\ At(c, "haveConfig")
    /\ Looked(c, configMap)
    /\ GoTo(c, WithConfig(c))
    /\ UNCHANGED <<storeVars, globals, up, budget, history>>

-----------------------------------------------------------------------------
(* statusGet and the answer of BaseInfoGet.                                *)

UsingMaps == {"resetState", "setStatus", "setState", "readStatus", "readState"}

(* Inside statusGet, or between it and the answer. *)
InStatusGet(c) ==
    req[c].op = "baseinfo" /\ (pc[c] \in UsingMaps \/ req[c].i > 0)
    /\ pc[c] \notin {"done", "error"}

ResetStatus(c) ==
    /\ At(c, "resetStatus")
    /\ status' = NoEntries
    /\ alone' = [d \in Requests |->
                    IF d = c THEN \A e \in Requests \ {c} : ~InStatusGet(e)
                    ELSE alone[d] /\ ~InStatusGet(d)]
    /\ GoTo(c, "resetState")
    /\ UNCHANGED <<storeVars, configMap, state, Service, req, up, budget, setBy, failed>>

ResetState(c) ==
    /\ At(c, "resetState")
    /\ state' = NoEntries
    /\ req' = [req EXCEPT ![c].i = 1]
    /\ GoTo(c, "config")
    /\ UNCHANGED <<storeVars, configMap, status, Service, up, budget, history>>

Kind(c) == IF req[c].op = "baseinfo" THEN KindSeq[req[c].i] ELSE req[c].kind

(* The Get of InfrastructureGet; the empty name of an empty ConfigMap is   *)
(* refused.                                                                *)
GetInfra(c) ==
    LET cm == IF req[c].op = "baseinfo" THEN req[c].inner ELSE req[c].info
        item == IF cm = "real" THEN infra[Kind(c)] ELSE None
    IN  /\ At(c, "getInfra")
        /\ req' = [req EXCEPT ![c].got = item, ![c].read[Kind(c)] = item,
                              ![c].conflict = infra[Kind(c)] = None]
        /\ GoTo(c, CASE req[c].op = "baseinfo" -> "setStatus"
                     [] req[c].op = "get" /\ item # None -> "sync"
                     [] OTHER -> "error")
        /\ UNCHANGED <<storeVars, globals, up, budget, history>>

GetInfraFails(c) ==
    /\ At(c, "getInfra")
    /\ Fails(c, IF req[c].op = "baseinfo" THEN "setStatus" ELSE "error")
    /\ req' = [req EXCEPT ![c].got = None]
    /\ UNCHANGED storeVars

(* Mutant of SetStatus: an infrastructure that is not there has no entry. *)
SetStatusOfFound(c) ==
    /\ At(c, "setStatus")
    /\ status' = IF req[c].got = None THEN status ELSE [status EXCEPT ![Kind(c)] = "True"]
    /\ GoTo(c, "setState")
    /\ UNCHANGED <<storeVars, configMap, state, Service, req, up, budget, history>>

(* checkStatus fills the first map ... *)
SetStatus(c) ==
    /\ At(c, "setStatus")
    /\ status' = [status EXCEPT ![Kind(c)] = IF req[c].got = None THEN "False" ELSE "True"]
    /\ GoTo(c, "setState")
    /\ UNCHANGED <<storeVars, configMap, state, Service, req, up, budget, history>>

(* ... and the second; statusGet goes on with the next infrastructure. *)
SetState(c) ==
    LET last == req[c].i = Len(KindSeq)
    IN  /\ At(c, "setState")
        /\ state' = [state EXCEPT ![Kind(c)] = IF req[c].got = None THEN "" ELSE req[c].got]
        /\ req' = [req EXCEPT ![c].i = IF last THEN 1 ELSE @ + 1, ![c].got = None, ![c].inner = None]
        /\ GoTo(c, IF last THEN "readStatus" ELSE "config")
        /\ UNCHANGED <<storeVars, configMap, status, Service, up, budget, history>>

(* The answer looks each kind up under the name the ConfigMap has for it. *)
Lookup(c, map) == IF req[c].info = "real" THEN map[Kind(c)] ELSE None

ReadStatus(c) ==
    /\ At(c, "readStatus")
    /\ req' = [req EXCEPT ![c].status[Kind(c)] = Lookup(c, status)]
    /\ GoTo(c, "readState")
    /\ UNCHANGED <<storeVars, globals, up, budget, history>>

ReadState(c) ==
    LET last == req[c].i = Len(KindSeq)
    IN  /\ At(c, "readState")
        /\ req' = [req EXCEPT ![c].state[Kind(c)] = Lookup(c, state),
                              ![c].i = IF last THEN @ ELSE @ + 1]
        /\ GoTo(c, IF last THEN "done" ELSE "readStatus")
        /\ UNCHANGED <<storeVars, globals, up, budget, history>>

(* "concurrent map writes", or a read and a write: the runtime may end the *)
(* process.                                                                *)
ConcurrentMapAccess ==
    /\ up
    /\ \E c, d \in Requests :
        /\ c # d
        /\ \/ pc[c] = "setStatus" /\ pc[d] \in {"setStatus", "readStatus"}
           \/ pc[c] = "setState" /\ pc[d] \in {"setState", "readState"}
    /\ up' = FALSE
    /\ UNCHANGED <<storeVars, globals, pc, req, budget, history>>

-----------------------------------------------------------------------------
(* InfrastructureList, InfrastructureDeploy and InfrastructureDelete.      *)

InfrastructureList(c) ==
    /\ At(c, "list")
    /\ GoTo(c, "done")
    /\ UNCHANGED <<storeVars, globals, req, up, budget, history>>

(* Mutant of EnsureNamespaceExists: AlreadyExists is an error too. *)
EnsureNamespaceNew(c) ==
    /\ At(c, "ensureNamespace")
    /\ IF req[c].info = "real" /\ req[c].kind \notin namespaces
       THEN namespaces' = namespaces \cup {req[c].kind} /\ GoTo(c, "create")
       ELSE UNCHANGED namespaces /\ GoTo(c, "error")
    /\ UNCHANGED <<stored, infra, services, globals, req, up, budget, history>>

(* A namespace that is already there is fine. *)
EnsureNamespaceExists(c) ==
    /\ At(c, "ensureNamespace")
    /\ IF req[c].info = "real"
       THEN namespaces' = namespaces \cup {req[c].kind} /\ GoTo(c, "create")
       ELSE UNCHANGED namespaces /\ GoTo(c, "error")
    /\ UNCHANGED <<stored, infra, services, globals, req, up, budget, history>>

(* The infrastructures after the Create and after the Delete of a request. *)
Deployed(c) == IF infra[req[c].kind] = None THEN [infra EXCEPT ![req[c].kind] = ""] ELSE infra
Deleted(c) == IF req[c].info = "real" THEN [infra EXCEPT ![req[c].kind] = None] ELSE infra

InfrastructureDeploy(c) ==
    LET there == infra[req[c].kind] # None
    IN  /\ At(c, "create")
        /\ infra' = Deployed(c)
        /\ GoTo(c, IF there THEN "error" ELSE "sync")
        /\ req' = [req EXCEPT ![c].conflict = there]
        /\ UNCHANGED <<stored, namespaces, services, globals, up, budget, history>>

(* The engine images of Longhorn are deleted first, whatever becomes of    *)
(* the infrastructure; their deletion may fail unnoticed.                  *)
InfrastructureDelete(c) ==
    LET there == req[c].info = "real" /\ infra[req[c].kind] # None
    IN  /\ At(c, "delete")
        /\ infra' = Deleted(c)
        /\ GoTo(c, IF there THEN "done" ELSE "error")
        /\ req' = [req EXCEPT ![c].conflict = infra[req[c].kind] = None]
        /\ UNCHANGED <<stored, namespaces, services, globals, up, budget, history>>

(* Any of their calls may fail, and may have been carried out. *)
CallFails(c) ==
    /\ \E l \in {"list", "ensureNamespace", "create", "delete", "nodeIP"} :
        At(c, l) /\ Fails(c, "error")
    /\ \/ UNCHANGED <<namespaces, infra>>
       \/ /\ pc[c] = "ensureNamespace" /\ req[c].info = "real"
          /\ namespaces' = namespaces \cup {req[c].kind}
          /\ UNCHANGED infra
       \/ /\ pc[c] = "create"
          /\ infra' = Deployed(c)
          /\ UNCHANGED namespaces
       \/ /\ pc[c] = "delete"
          /\ infra' = Deleted(c)
          /\ UNCHANGED namespaces
    /\ UNCHANGED <<stored, services, req>>

-----------------------------------------------------------------------------
(* ServiceGet, NodeIPGet and toInfrastructureResource.                     *)

(* syncService finds the service in the lister's cache. *)
SyncService(c) ==
    /\ At(c, "sync")
    /\ req[c].kind \in services
    /\ Service' = req[c].kind
    /\ setBy' = c
    /\ GoTo(c, "nodeIP")
    /\ UNCHANGED <<storeVars, configMap, status, state, req, up, budget, alone, failed>>

(* Mutant of GiveUp: the loop has no limit. *)
GiveUpNever(c) ==
    /\ At(c, "sync")
    /\ UNCHANGED vars

(* After many rounds without the service the loop ends all the same, and   *)
(* the variable is as it was.                                              *)
GiveUp(c) ==
    /\ At(c, "sync")
    /\ req[c].kind \notin services
    /\ GoTo(c, "nodeIP")
    /\ UNCHANGED <<storeVars, globals, req, up, budget, history>>

(* NodeIPGet finds an address, or panics when there is no node. *)
NodeIPGet(c) ==
    /\ At(c, "nodeIP")
    /\ \/ GoTo(c, "answer") /\ UNCHANGED budget
       \/ GoTo(c, "aborted") /\ Spend
    /\ UNCHANGED <<storeVars, globals, req, up, history>>

(* The port of the answer is that of the Service in the variable now. *)
toInfrastructureResource(c) ==
    /\ At(c, "answer")
    /\ req' = [req EXCEPT ![c].port = Service, ![c].setBy = setBy]
    /\ GoTo(c, "done")
    /\ UNCHANGED <<storeVars, globals, up, budget, history>>

-----------------------------------------------------------------------------
Step(c) ==
    \/ CheckConfigMap(c) \/ CallConfigMapGet(c) \/ AssignConfigMap(c)
    \/ ConfigMapDeploy(c) \/ ConfigMapExists(c) \/ ConfigMapGetAgain(c) \/ ConfigMapGone(c)
    \/ ReturnConfigMap(c)
    \/ ResetStatus(c) \/ ResetState(c) \/ GetInfra(c)
    \/ SetStatus(c) \/ SetState(c) \/ ReadStatus(c) \/ ReadState(c)
    \/ InfrastructureList(c) \/ EnsureNamespaceExists(c)
    \/ InfrastructureDeploy(c) \/ InfrastructureDelete(c)
    \/ SyncService(c) \/ GiveUp(c) \/ NodeIPGet(c) \/ toInfrastructureResource(c)

Fault(c) ==
    CallConfigMapGetFails(c) \/ ConfigMapDeployFails(c) \/ GetInfraFails(c) \/ CallFails(c)

World ==
    \/ ConfigMapDeleted \/ ConcurrentMapAccess
    \/ \E k \in Kinds : Report(k) \/ ServiceAppears(k) \/ ServiceGone(k)

Next == World \/ \E c \in Requests : Arrive(c) \/ Step(c) \/ Fault(c)

Spec == Init /\ [][Next]_vars

(* A request that has arrived goes on: every call returns, and syncService *)
(* counts its rounds.  Nobody has to create a Service.                     *)
LiveSpec == Spec /\ \A c \in Requests : WF_vars(Step(c) \/ Fault(c))

-----------------------------------------------------------------------------
Labels ==
    {"idle", "list", "config", "getConfig", "setConfig", "haveConfig", "deployConfig",
     "getAgain", "resetStatus", "getInfra", "ensureNamespace", "create", "delete", "sync", "nodeIP",
     "answer", "done", "error", "aborted"} \cup UsingMaps

(* Every variable has its type, and a request that has a ConfigMap at all  *)
(* has never the nil pointer.                                              *)
TypeOK ==
    /\ stored \in BOOLEAN
    /\ namespaces \subseteq Kinds
    /\ infra \in [Kinds -> States \cup {None}]
    /\ services \subseteq Kinds
    /\ configMap \in {None, "real", "empty"}
    /\ status \in [Kinds -> {None, "True", "False"}]
    /\ state \in [Kinds -> States \cup {None}]
    /\ Service \in Kinds \cup {None}
    /\ pc \in [Requests -> Labels]
    /\ up \in BOOLEAN
    /\ budget \in 0 .. Budget
    /\ \A c \in Requests :
        /\ req[c].i \in 0 .. Len(KindSeq)
        /\ pc[c] = "haveConfig" => configMap # None
        /\ pc[c] \in {"getInfra", "create", "delete", "sync"} =>
            req[c].info # None /\ req[c].kind # Unknown
        /\ pc[c] = "getInfra" /\ req[c].op = "baseinfo" => req[c].inner # None

Settled ==
    configMap # None /\ \A c \in Requests : pc[c] \notin {"getConfig", "setConfig"}

(* The ConfigMap that the process works with is settled once the requests  *)
(* that found the variable nil have assigned it: from then on no request,  *)
(* failure or edit makes a good one empty.                                 *)
ConfigSettles ==
    [][Settled => Settled' /\ configMap' = configMap]_vars

(* A request that no other one met inside statusGet answers for every      *)
(* infrastructure with what it has read, "False" for the ones it did not   *)
(* find or could not read, although the maps belong to everybody.          *)
StatusIsExact(c) ==
    (req[c].op = "baseinfo" /\ alone[c] /\ req[c].info = "real") =>
        \A k \in Kinds :
            LET item == req[c].read[k]
            IN  /\ req[c].status[k] = IF item = None THEN "False" ELSE "True"
                /\ req[c].state[k] = IF item = None THEN "" ELSE item

(* Without a lock, an answer can be relied on when no other request came   *)
(* between: the status then (statusGet), and the port when nobody assigned *)
(* Service after this request had found its own (syncService).             *)
AloneIsExact ==
    \A c \in Requests : pc[c] = "done" =>
        /\ StatusIsExact(c)
        /\ req[c].setBy = c => req[c].port = req[c].kind

(* A request fails only for a reason: a call of its own failed, the        *)
(* process has an empty ConfigMap, or the object it asked for was not      *)
(* there, respectively was there already.                                  *)
ErrorHasCause ==
    \A c \in Requests :
        pc[c] = "error" =>
            \/ c \in failed
            \/ req[c].info = "empty"
            \/ req[c].conflict

(* Every request ends, also when the Service it waits for never comes up,  *)
(* unless the runtime ends the process.                                    *)
RequestEnds ==
    \A c \in Requests :
        pc[c] = "config" ~> pc[c] \in {"done", "error", "aborted"} \/ ~up

=============================================================================
