----------------------------- MODULE EventStream -----------------------------
(***************************************************************************)
(* The handlers that stream events to a browser: BaseInfoGet               *)
(* (api/baseinfo.go) and ClusterList (api/cluster.go).                     *)
(*                                                                         *)
(* A handler writes a first answer, registers callbacks with the informers *)
(* and then passes on to its client what the callbacks send it over an     *)
(* unbuffered channel.  The callbacks run in goroutines of their own, one  *)
(* for each handler and informer, and are never removed.  When the client  *)
(* leaves, the handler cancels its context and closes the channel.         *)
(*                                                                         *)
(* What the API server holds of a resource is abstracted to a version,     *)
(* which every change increases, and an answer to the versions it was made *)
(* from.  The base information is made from one Get for each kind of       *)
(* infrastructure, through two maps that all requests share without a      *)
(* lock.  InfraApi has the two maps and the ConfigMap in full; here they   *)
(* are one map from each kind to the version that was read, 0 where there  *)
(* is no entry, or the "False" of a failed Get.                            *)
(***************************************************************************)
EXTENDS Naturals, Sequences, SequencesExt, FiniteSets

CONSTANTS
    BaseInfoClients, ClusterClients,    \* the requests
    Others,         \* callers of BaseInfoGet whose streams are not kept here
    KindSeq,        \* the infrastructures, in the order statusGet asks for them
    MaxRequests,    \* bound on the requests that are served together
    MaxChanges,     \* bound on the changes of all resources together
    Budget          \* bound on failed calls, on updates without a change and on
                    \* the calls of Others

Kinds == ToSet(KindSeq)
N == Len(KindSeq)

ASSUME ClientsAssumption ==
    /\ BaseInfoClients \cap ClusterClients = {}
    /\ Others \cap (BaseInfoClients \cup ClusterClients) = {}
ASSUME KindsAssumption ==
    /\ KindSeq \in Seq(STRING) /\ KindSeq # << >>
    /\ \A i, j \in 1 .. Len(KindSeq) : KindSeq[i] = KindSeq[j] => i = j
    /\ \A i \in 1 .. Len(KindSeq) : KindSeq[i] \notin {"pod", "status"}
ASSUME BoundsAssumption == MaxRequests \in Nat /\ MaxChanges \in Nat /\ Budget \in Nat

MaxVersion == MaxChanges + 1
Feeds == {"infra", "status", "pod"}
Clients == BaseInfoClients \cup ClusterClients
Callers == BaseInfoClients \cup Others      \* of BaseInfoGet

(* What an answer is made of, and the informer that tells of its changes. *)
Items == Kinds \cup {"pod", "status"}
Feed(i) == IF i \in Kinds THEN "infra" ELSE i

(* The informers that run.  Start starts the ones that were asked for      *)
(* before, and the one of the component statuses is asked for in           *)
(* ClusterList only: nobody starts it.                                     *)
Started == {"infra", "pod"}

(* What ClusterList reads for its first answer, and the informers that the *)
(* handlers register with.                                                 *)
Reads == <<"pod", "status">>
Registers(c) == IF c \in BaseInfoClients THEN <<"infra">> ELSE <<"status", "pod">>

VARIABLES
    version,    \* API server: the version of each resource
    seen,       \* the informers: the version each has got to
    config,     \* the variable configMap: "nil", "real" or "empty"
    infos,      \* the shared maps status and state
    at,         \* where the BaseInfoGet of each caller is, ...
    pos,        \* ... the kind it has come to,
    got,        \* what its last Get returned,
    made,       \* and the answer that a client waits for, as far as it is made
    conn,       \* where each handler is
    step,       \* how many of Reads or Registers it has done
    first,      \* the variables of the first answer, which the callbacks share
    shown,      \* the last answer written to each client
    cb,         \* where each callback is, by client and informer
    queue,      \* the notifications that wait for it
    msg,        \* the answer it has made
    up,         \* the process runs
    budget,     \* what is left of Budget
    alone,      \* history: no other one met the caller's BaseInfoGet in the maps
    lost,       \* history: a Get of it failed, or had no name to ask for
    late        \* history: the callbacks that took a notification after the cancel

informerVars == <<version, seen>>
getVars == <<config, infos, at, pos, got, made, alone, lost>>
handlerVars == <<conn, step, first, shown>>
callbackVars == <<cb, queue, msg, late>>
vars == <<informerVars, getVars, handlerVars, callbackVars, up, budget>>

Nothing == [i \in Items |-> 0]
NoEntries == [k \in Kinds |-> 0]

Init ==
    /\ version = [f \in Feeds |-> 1]
    /\ seen = version
    /\ config = "nil"
    /\ infos = NoEntries
    /\ at = [c \in Callers |-> "none"]
    /\ pos = [c \in Callers |-> 1]
    /\ got = [c \in Callers |-> 0]
    /\ made = [c \in BaseInfoClients |-> Nothing]
    /\ conn = [c \in Clients |-> "idle"]
    /\ step = [c \in Clients |-> 0]
    /\ first = [c \in Clients |-> Nothing]
    /\ shown = [c \in Clients |-> Nothing]
    /\ cb = [c \in Clients |-> [f \in Feeds |-> "none"]]
    /\ queue = [c \in Clients |-> [f \in Feeds |-> << >>]]
    /\ msg = [c \in Clients |-> [f \in Feeds |-> Nothing]]
    /\ up = TRUE
    /\ budget = Budget
    /\ alone = [c \in Callers |-> TRUE]
    /\ lost = [c \in Callers |-> FALSE]
    /\ late = {}

Spend ==
    /\ budget > 0
    /\ budget' = budget - 1

-----------------------------------------------------------------------------
(* The API server and the informers.                                       *)

(* A resource changes once somebody is served who reads it; an earlier     *)
(* change would make no difference.                                        *)
Change(f) ==
    /\ \E c \in Clients : conn[c] # "idle" /\ f \in ToSet(Registers(c))
    /\ version["infra"] + version["status"] + version["pod"] < 3 + MaxChanges
    /\ version' = [version EXCEPT ![f] = @ + 1]
    /\ UNCHANGED <<seen, getVars, handlerVars, callbackVars, up, budget>>

Notify(f, e) ==
    queue' = [c \in Clients |->
                 [queue[c] EXCEPT ![f] = IF cb[c][f] = "none" THEN @ ELSE Append(@, e)]]

(* An informer gets to the next version and tells its listeners. *)
Inform(f) ==
    /\ up
    /\ f \in Started
    /\ seen[f] < version[f]
    /\ seen' = [seen EXCEPT ![f] = @ + 1]
    /\ Notify(f, "changed")
    /\ UNCHANGED <<version, getVars, handlerVars, cb, msg, late, up, budget>>

(* A change that the callbacks do not look for: an object is added, or, for *)
(* ClusterList, deleted.                                                   *)
InformAside(f) ==
    /\ up
    /\ f \in Started
    /\ seen[f] < version[f]
    /\ Spend
    /\ seen' = [seen EXCEPT ![f] = @ + 1]
    /\ Notify(f, "same")
    /\ UNCHANGED <<version, getVars, handlerVars, cb, msg, late, up>>

(* An update that changes nothing a callback looks at, like a resync. *)
Resync(f) ==
    /\ up
    /\ f \in Started
    /\ \E c \in Clients : cb[c][f] # "none"
    /\ Spend
    /\ Notify(f, "same")
    /\ UNCHANGED <<informerVars, getVars, handlerVars, cb, msg, late, up>>

-----------------------------------------------------------------------------
(* BaseInfoGet of backend/infra.go, which the handler and its callback     *)
(* call.                                                                   *)

(* getConfigMapInfo: nothing is looked up once the variable is set, ...    *)
GetConfigMap(c) ==
    /\ up
    /\ at[c] = "config"
    /\ at' = [at EXCEPT ![c] = IF config = "nil" THEN "lookup" ELSE "reset"]
    /\ UNCHANGED <<informerVars, config, infos, pos, got, made, alone, lost, handlerVars,
                   callbackVars, up, budget>>

(* ... and what is found is assigned, whatever it is by now.               *)
AssignConfigMap(c) ==
    /\ up
    /\ at[c] = "lookup"
    /\ config' = "real"
    /\ at' = [at EXCEPT ![c] = "reset"]
    /\ UNCHANGED <<informerVars, infos, pos, got, made, alone, lost, handlerVars, callbackVars,
                   up, budget>>

(* The lookup fails, which is the one error of BaseInfoGet, or finds no    *)
(* ConfigMap and deploys one, which may fail too; the variable gets the    *)
(* empty object.                                                           *)
AssignConfigMapFails(c) ==
    /\ up
    /\ at[c] = "lookup"
    /\ Spend
    /\ config' = "empty"
    /\ \E a \in {"failed", "reset"} : at' = [at EXCEPT ![c] = a]
    /\ UNCHANGED <<informerVars, infos, pos, got, made, alone, lost, handlerVars, callbackVars, up>>

(* Between the reset of the maps and the end of the answer. *)
InMaps(c) == at[c] \in {"get", "set", "build"}

(* statusGet makes new maps ... *)
ResetMaps(c) ==
    /\ up
    /\ at[c] = "reset"
    /\ infos' = NoEntries
    /\ at' = [at EXCEPT ![c] = "get"]
    /\ alone' = [d \in Callers |->
                    IF d = c THEN \A e \in Callers \ {c} : ~InMaps(e)
                    ELSE alone[d] /\ ~InMaps(d)]
    /\ lost' = [lost EXCEPT ![c] = FALSE]
    /\ UNCHANGED <<informerVars, config, pos, got, made, handlerVars, callbackVars, up, budget>>

(* Mutant of Current: the callback asks the lister, which is behind. *)
CurrentOfLister(c) ==
    IF c \in BaseInfoClients /\ conn[c] # "reading" THEN seen["infra"] ELSE version["infra"]

(* The infrastructures are always read from the API server. *)
Current(c) == version["infra"]

(* ... asks for the next kind, by the name the ConfigMap has for it ...    *)
GetInfra(c) ==
    /\ up
    /\ at[c] = "get"
    /\ got' = [got EXCEPT ![c] = IF config = "real" THEN Current(c) ELSE 0]
    /\ lost' = [lost EXCEPT ![c] = @ \/ config # "real"]
    /\ at' = [at EXCEPT ![c] = "set"]
    /\ UNCHANGED <<informerVars, config, infos, pos, made, alone, handlerVars, callbackVars, up,
                   budget>>

(* A Get that fails is no error, ...                                       *)
GetInfraFails(c) ==
    /\ up
    /\ at[c] = "get"
    /\ Spend
    /\ got' = [got EXCEPT ![c] = 0]
    /\ lost' = [lost EXCEPT ![c] = TRUE]
    /\ at' = [at EXCEPT ![c] = "set"]
    /\ UNCHANGED <<informerVars, config, infos, pos, made, alone, handlerVars, callbackVars, up>>

(* ... checkStatus makes it an entry too.                                  *)
checkStatus(c) ==
    LET last == pos[c] = N
    IN  /\ up
        /\ at[c] = "set"
        /\ infos' = [infos EXCEPT ![KindSeq[pos[c]]] = got[c]]
        /\ got' = [got EXCEPT ![c] = 0]
        /\ pos' = [pos EXCEPT ![c] = IF last THEN 1 ELSE @ + 1]
        /\ at' = [at EXCEPT ![c] = IF last THEN "build" ELSE "get"]
        /\ UNCHANGED <<informerVars, config, made, alone, lost, handlerVars, callbackVars, up,
                       budget>>

(* The answer takes one entry after the other from the maps. *)
BuildAnswer(c) ==
    LET last == pos[c] = N
        k == KindSeq[pos[c]]
    IN  /\ up
        /\ at[c] = "build"
        /\ made' = IF c \in Others THEN made ELSE [made EXCEPT ![c][k] = infos[k]]
        /\ pos' = [pos EXCEPT ![c] = IF last THEN 1 ELSE @ + 1]
        /\ at' = [at EXCEPT ![c] = IF last THEN "built" ELSE "build"]
        /\ UNCHANGED <<informerVars, config, infos, got, alone, lost, handlerVars, callbackVars,
                       up, budget>>

(* Two goroutines use a map at the same time, one of them to write. *)
MapConflict ==
    \E c, d \in Callers : c # d /\ at[c] = "set" /\ at[d] \in {"set", "build"}

(* The runtime may notice, and ends the process. *)
ConcurrentMapAccess ==
    /\ up
    /\ MapConflict
    /\ up' = FALSE
    /\ UNCHANGED <<informerVars, getVars, handlerVars, callbackVars, budget>>

BaseInfoCall(c) ==
    \/ GetConfigMap(c) \/ AssignConfigMap(c) \/ ResetMaps(c) \/ GetInfra(c)
    \/ checkStatus(c) \/ BuildAnswer(c)

(* The caller has the answer, or the error. *)
Take(c) ==
    /\ at' = [at EXCEPT ![c] = "none"]
    /\ made' = IF c \in Others THEN made ELSE [made EXCEPT ![c] = Nothing]
    /\ UNCHANGED <<config, infos, pos, got, alone, lost>>

(* Another stream's handler or callback calls BaseInfoGet, once there is a *)
(* client whom it can meet, ...                                            *)
OtherCalls(o) ==
    /\ up
    /\ at[o] = "none"
    /\ \E c \in BaseInfoClients : conn[c] # "idle"
    /\ Spend
    /\ at' = [at EXCEPT ![o] = "config"]
    /\ UNCHANGED <<informerVars, config, infos, pos, got, made, alone, lost, handlerVars,
                   callbackVars, up>>

(* ... and goes on with what it returns. *)
OtherReturns(o) ==
    /\ up
    /\ at[o] \in {"built", "failed"}
    /\ Take(o)
    /\ UNCHANGED <<informerVars, handlerVars, callbackVars, up, budget>>

-----------------------------------------------------------------------------
(* The handler.                                                            *)

Arrive(c) ==
    /\ up
    /\ conn[c] = "idle"
    /\ Cardinality({d \in Clients : conn[d] # "idle"}) < MaxRequests
    /\ conn' = [conn EXCEPT ![c] = "reading"]
    /\ at' = IF c \in BaseInfoClients THEN [at EXCEPT ![c] = "config"] ELSE at
    /\ UNCHANGED <<informerVars, config, infos, pos, got, made, alone, lost, step, first, shown,
                   callbackVars, up, budget>>

(* The first answer of BaseInfoGet is written. *)
ReadBaseInfo(c) ==
    /\ up
    /\ c \in BaseInfoClients
    /\ conn[c] = "reading"
    /\ at[c] = "built"
    /\ Take(c)
    /\ shown' = [shown EXCEPT ![c] = made[c]]
    /\ conn' = [conn EXCEPT ![c] = "register"]
    /\ UNCHANGED <<informerVars, step, first, callbackVars, up, budget>>

(* The next read of ClusterList; the first answer is written after the     *)
(* last.  The listings of ClusterResources are one read here.              *)
ReadCluster(c) ==
    LET f == Reads[step[c] + 1]
        last == step[c] + 1 = Len(Reads)
        answer == [first[c] EXCEPT ![f] = version[f]]
    IN  /\ up
        /\ c \in ClusterClients
        /\ conn[c] = "reading"
        /\ first' = [first EXCEPT ![c] = answer]
        /\ IF last
           THEN /\ conn' = [conn EXCEPT ![c] = "register"]
                /\ step' = [step EXCEPT ![c] = 0]
                /\ shown' = [shown EXCEPT ![c] = answer]
           ELSE /\ step' = [step EXCEPT ![c] = @ + 1]
                /\ UNCHANGED <<conn, shown>>
        /\ UNCHANGED <<informerVars, getVars, callbackVars, up, budget>>

(* An error ends the request before there is a channel. *)
ReadBaseInfoFails(c) ==
    /\ up
    /\ c \in BaseInfoClients
    /\ conn[c] = "reading"
    /\ at[c] = "failed"
    /\ Take(c)
    /\ conn' = [conn EXCEPT ![c] = "refused"]
    /\ UNCHANGED <<informerVars, step, first, shown, callbackVars, up, budget>>

ReadClusterFails(c) ==
    /\ up
    /\ c \in ClusterClients
    /\ conn[c] = "reading"
    /\ Spend
    /\ conn' = [conn EXCEPT ![c] = "refused"]
    /\ UNCHANGED <<informerVars, getVars, step, first, shown, callbackVars, up>>

(* Mutant of Register: the callback goes to every informer. *)
RegisterAll(c) ==
    /\ up
    /\ conn[c] = "register"
    /\ cb' = [cb EXCEPT ![c] = [f \in Feeds |-> "wait"]]
    /\ conn' = [conn EXCEPT ![c] = "loop"]
    /\ UNCHANGED <<informerVars, getVars, step, first, shown, queue, msg, late, up, budget>>

(* AddEventHandler: from now on the callback is told of changes, if the    *)
(* informer runs.                                                          *)
Register(c) ==
    LET f == Registers(c)[step[c] + 1]
    IN  /\ up
        /\ conn[c] = "register"
        /\ cb' = [cb EXCEPT ![c][f] = "wait"]
        /\ step' = [step EXCEPT ![c] = @ + 1]
        /\ conn' = [conn EXCEPT ![c] = IF step[c] + 1 = Len(Registers(c)) THEN "loop" ELSE @]
        /\ UNCHANGED <<informerVars, getVars, first, shown, queue, msg, late, up, budget>>

(* A callback is done with its notification. *)
Return(c, f) ==
    /\ cb' = [cb EXCEPT ![c][f] = "wait"]
    /\ msg' = [msg EXCEPT ![c][f] = Nothing]

(* The loop takes what a callback sends, and writes it.  The ping that is  *)
(* written every 30 seconds changes nothing.                               *)
Receive(c, f) ==
    /\ up
    /\ conn[c] = "loop"
    /\ cb[c][f] = "send"
    /\ shown' = [shown EXCEPT ![c] = msg[c][f]]
    /\ Return(c, f)
    /\ UNCHANGED <<informerVars, getVars, conn, step, first, queue, late, up, budget>>

(* CloseNotify: the loop is left. *)
Disconnect(c) ==
    /\ up
    /\ conn[c] = "loop"
    /\ conn' = [conn EXCEPT ![c] = "left"]
    /\ UNCHANGED <<informerVars, getVars, step, first, shown, callbackVars, up, budget>>

(* The deferred function: first cancel() ... *)
Cancel(c) ==
    /\ up
    /\ conn[c] = "left"
    /\ conn' = [conn EXCEPT ![c] = "cancelled"]
    /\ UNCHANGED <<informerVars, getVars, step, first, shown, callbackVars, up, budget>>

(* Mutant of Close: the channel is left open. *)
CloseNothing(c) ==
    /\ up
    /\ conn[c] = "cancelled"
    /\ UNCHANGED vars

(* ... then close(eventc). *)
Close(c) ==
    /\ up
    /\ conn[c] = "cancelled"
    /\ conn' = [conn EXCEPT ![c] = "closed"]
    /\ UNCHANGED <<informerVars, getVars, step, first, shown, callbackVars, up, budget>>

Cancelled(c) == conn[c] \in {"cancelled", "closed"}

-----------------------------------------------------------------------------
(* The callbacks.                                                          *)

(* The next notification; one without a change is passed over. *)
TakeNotification(c, f) ==
    LET changed == Head(queue[c][f]) = "changed"
    IN  /\ up
        /\ cb[c][f] = "wait"
        /\ queue[c][f] # << >>
        /\ queue' = [queue EXCEPT ![c][f] = Tail(@)]
        /\ cb' = [cb EXCEPT ![c][f] = IF changed THEN "read" ELSE "wait"]
        /\ at' = IF changed /\ c \in BaseInfoClients THEN [at EXCEPT ![c] = "config"] ELSE at
        /\ late' = IF changed /\ Cancelled(c) THEN late \cup {<<c, f>>} ELSE late
        /\ UNCHANGED <<informerVars, config, infos, pos, got, made, alone, lost, handlerVars, msg,
                       up, budget>>

(* The answer of BaseInfoGet, which shares no variable with the handler.   *)
(* The callback returns on an error too, but there is none: a handler that *)
(* registered has got an answer, which left the variable configMap set.    *)
ReadFreshBaseInfo(c, f) ==
    /\ up
    /\ c \in BaseInfoClients
    /\ cb[c][f] = "read"
    /\ at[c] = "built"
    /\ Take(c)
    /\ msg' = [msg EXCEPT ![c][f] = made[c]]
    /\ cb' = [cb EXCEPT ![c][f] = "check"]
    /\ UNCHANGED <<informerVars, handlerVars, queue, late, up, budget>>

(* Mutant of Fresh: only the variables of the first answer are used. *)
FreshFirst(c, f) == [first[c] EXCEPT ![f] = @]

(* What a callback of ClusterList reads, beside the variables it shares    *)
(* with the handler: each of the two reads its own resource and sends the  *)
(* first answer of the other.                                              *)
Fresh(c, f) == [first[c] EXCEPT ![f] = version[f]]

ReadFreshCluster(c, f) ==
    /\ up
    /\ c \in ClusterClients
    /\ cb[c][f] = "read"
    /\ msg' = [msg EXCEPT ![c][f] = Fresh(c, f)]
    /\ cb' = [cb EXCEPT ![c][f] = "check"]
    /\ UNCHANGED <<informerVars, getVars, handlerVars, queue, late, up, budget>>

(* After an error the callback returns: nothing is sent for this change. *)
FreshClusterFails(c, f) ==
    /\ up
    /\ c \in ClusterClients
    /\ cb[c][f] = "read"
    /\ Spend
    /\ Return(c, f)
    /\ UNCHANGED <<informerVars, getVars, handlerVars, queue, late, up>>

(* Mutant of CheckContext: the context is not looked at. *)
CheckNothing(c, f) ==
    /\ up
    /\ cb[c][f] = "check"
    /\ cb' = [cb EXCEPT ![c][f] = "passed"]
    /\ UNCHANGED <<informerVars, getVars, handlerVars, queue, msg, late, up, budget>>

(* The select: return when the context is cancelled, else go on ...        *)
CheckContext(c, f) ==
    /\ up
    /\ cb[c][f] = "check"
    /\ IF Cancelled(c) THEN Return(c, f)
       ELSE cb' = [cb EXCEPT ![c][f] = "passed"] /\ UNCHANGED msg
    /\ UNCHANGED <<informerVars, getVars, handlerVars, queue, late, up, budget>>

(* ... to the send, when the context may be cancelled and the channel be   *)
(* closed by now.                                                          *)
BeginSend(c, f) ==
    /\ up
    /\ cb[c][f] = "passed"
    /\ cb' = [cb EXCEPT ![c][f] = "send"]
    /\ UNCHANGED <<informerVars, getVars, handlerVars, queue, msg, late, up, budget>>

(* A send on a closed channel, begun before or after the close, panics and *)
(* ends the process.                                                       *)
SendPanics(c, f) ==
    /\ up
    /\ cb[c][f] = "send"
    /\ conn[c] = "closed"
    /\ up' = FALSE
    /\ UNCHANGED <<informerVars, getVars, handlerVars, callbackVars, budget>>

-----------------------------------------------------------------------------
Handler(c) ==
    \/ ReadBaseInfo(c) \/ ReadBaseInfoFails(c) \/ ReadCluster(c)
    \/ Register(c) \/ Cancel(c) \/ Close(c)

Callback(c, f) ==
    \/ TakeNotification(c, f)
    \/ ReadFreshBaseInfo(c, f) \/ ReadFreshCluster(c, f)
    \/ CheckContext(c, f) \/ BeginSend(c, f) \/ Receive(c, f) \/ SendPanics(c, f)

Next ==
    \/ \E f \in Feeds : Change(f) \/ Inform(f) \/ InformAside(f) \/ Resync(f)
    \/ ConcurrentMapAccess
    \/ \E c \in Callers : BaseInfoCall(c) \/ AssignConfigMapFails(c) \/ GetInfraFails(c)
    \/ \E o \in Others : OtherCalls(o) \/ OtherReturns(o)
    \/ \E c \in Clients :
        \/ Arrive(c) \/ Handler(c) \/ ReadClusterFails(c) \/ Disconnect(c)
        \/ \E f \in Feeds : Callback(c, f) \/ FreshClusterFails(c, f)

Spec == Init /\ [][Next]_vars

(* Handlers, callbacks, with the calls of BaseInfoGet they make, and the   *)
(* informers that were started are goroutines that go on; no client has to *)
(* come or leave, no resource has to change, and the Others need not go on.*)
LiveSpec ==
    /\ Spec
    /\ \A f \in Started : WF_vars(Inform(f) \/ InformAside(f))
    /\ \A c \in BaseInfoClients : WF_vars(BaseInfoCall(c))
    /\ \A c \in Clients :
        /\ WF_vars(Handler(c))
        /\ \A f \in ToSet(Registers(c)) : WF_vars(Callback(c, f))

-----------------------------------------------------------------------------
Versions == [Items -> 0 .. MaxVersion]

(* Every variable has its type; a callback that has something to send was  *)
(* registered by its own handler.                                          *)
TypeOK ==
    /\ version \in [Feeds -> 1 .. MaxVersion]
    /\ \A f \in Feeds : seen[f] \in 1 .. version[f]
    /\ config \in {"nil", "real", "empty"}
    /\ infos \in [Kinds -> 0 .. MaxVersion]
    /\ at \in [Callers ->
                  {"none", "config", "lookup", "reset", "get", "set", "build", "built", "failed"}]
    /\ pos \in [Callers -> 1 .. N]
    /\ got \in [Callers -> 0 .. MaxVersion]
    /\ made \in [BaseInfoClients -> Versions]
    /\ conn \in [Clients -> {"idle", "reading", "refused", "register", "loop", "left",
                             "cancelled", "closed"}]
    /\ step \in [Clients -> 0 .. 2]
    /\ first \in [Clients -> Versions]
    /\ shown \in [Clients -> Versions]
    /\ cb \in [Clients -> [Feeds -> {"none", "wait", "read", "check", "passed", "send"}]]
    /\ queue \in [Clients -> [Feeds -> Seq({"changed", "same"})]]
    /\ msg \in [Clients -> [Feeds -> Versions]]
    /\ up \in BOOLEAN
    /\ budget \in Nat
    /\ alone \in [Callers -> BOOLEAN]
    /\ lost \in [Callers -> BOOLEAN]
    /\ late \subseteq Clients \X Feeds
    /\ \A c \in Clients, f \in Feeds : cb[c][f] # "none" => f \in ToSet(Registers(c))

(* What BaseInfoGet shows to a client of an infrastructure goes back, to   *)
(* an earlier version or to "False", only when one of its Gets failed or   *)
(* another BaseInfoGet was in the shared maps at the same time: each       *)
(* callback reads again, and one goroutine sends all the answers.          *)
BaseInfoGoesForward ==
    [][\A c \in BaseInfoClients, k \in Kinds :
        shown'[c][k] >= shown[c][k] \/ lost[c] \/ ~alone[c]]_vars

(* The process ends only in a conflict over the maps, or by a send that    *)
(* was under way, its context looked at, when the client left: a callback  *)
(* that is told of a change after the cancel never ends it, although it is *)
(* never removed.                                                          *)
PanicHasCause ==
    ~up => \/ MapConflict
           \/ \E c \in Clients, f \in Feeds :
                conn[c] = "closed" /\ cb[c][f] = "send" /\ <<c, f>> \notin late

(* No callback is stuck in its send: the client's loop takes the answer,   *)
(* or the close of the channel ends the process.                           *)
SendEnds ==
    \A c \in Clients : \A f \in Started \cap ToSet(Registers(c)) :
        cb[c][f] = "send" ~> cb[c][f] # "send" \/ ~up

(* Every change that a running informer learns of after the handler        *)
(* registered is shown to a client that stays, when no call fails any more *)
(* and no other BaseInfoGet meets the client's own in the maps.  It says   *)
(* nothing of the component statuses, whose informer does not run.         *)
ChangeShown ==
    \A c \in Clients : \A f \in Started \cap ToSet(Registers(c)), v \in 2 .. MaxVersion :
        (/\ cb[c][f] # "none"
         /\ seen[f] < v /\ v <= version[f]
         /\ budget = 0 /\ config # "empty")
        ~> \/ \A i \in Items : Feed(i) = f => shown[c][i] >= v
           \/ conn[c] \notin {"register", "loop"}
           \/ ~up
           \/ c \in BaseInfoClients /\ ~alone[c]

=============================================================================
