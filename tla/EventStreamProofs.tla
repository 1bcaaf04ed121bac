-------------------------- MODULE EventStreamProofs --------------------------
(***************************************************************************)
(* The event streams, for any number of clients of both kinds, of other    *)
(* callers of BaseInfoGet, of infrastructures, of changes and of failed    *)
(* calls.                                                                  *)
(*                                                                         *)
(* TypeOK is inductive with the positions: how far a handler has come      *)
(* bounds the reads and registrations it has left, a handler that has not  *)
(* registered has no callback, and at most one of a client's handler and   *)
(* callback is in BaseInfoGet.  What ends the process needs in addition    *)
(* that a callback which took its notification after the cancel is not     *)
(* past the look at its context.  That the base information goes forward   *)
(* needs that nothing on its way is newer than the resource and, for a     *)
(* call that was alone in the maps and lost nothing, that what it has put  *)
(* there so far is as new as what its client is shown.                     *)
(***************************************************************************)
EXTENDS EventStream, TLAPS

Stages == {"none", "config", "lookup", "reset", "get", "set", "build", "built", "failed"}
Places == {"idle", "reading", "refused", "register", "loop", "left", "cancelled", "closed"}
CallbackPlaces == {"none", "wait", "read", "check", "passed", "send"}
Events == {"changed", "same"}

WorldOK ==
    /\ version \in [Feeds -> 1 .. MaxVersion]
    /\ seen \in [Feeds -> Nat]
    /\ \A f \in Feeds : seen[f] \in 1 .. version[f]
    /\ up \in BOOLEAN
    /\ budget \in Nat

MapsOK ==
    /\ config \in {"nil", "real", "empty"}
    /\ infos \in [Kinds -> 0 .. MaxVersion]

CallersOK ==
    /\ at \in [Callers -> Stages]
    /\ pos \in [Callers -> 1 .. N]
    /\ got \in [Callers -> 0 .. MaxVersion]
    /\ made \in [BaseInfoClients -> Versions]
    /\ alone \in [Callers -> BOOLEAN]
    /\ lost \in [Callers -> BOOLEAN]
    /\ \A c \in Callers : InMaps(c) \/ pos[c] = 1

HandlersOK ==
    /\ conn \in [Clients -> Places]
    /\ step \in [Clients -> 0 .. 2]
    /\ first \in [Clients -> Versions]
    /\ shown \in [Clients -> Versions]

CallbacksOK ==
    /\ cb \in [Clients -> [Feeds -> CallbackPlaces]]
    /\ queue \in [Clients -> [Feeds -> Seq(Events)]]
    /\ msg \in [Clients -> [Feeds -> Versions]]
    /\ late \subseteq Clients \X Feeds

(* Where a handler is, and which callbacks it can have. *)
Placed(c) ==
    /\ conn[c] = "idle" \/ (conn[c] = "reading" /\ c \in BaseInfoClients) => step[c] = 0
    /\ conn[c] = "reading" => step[c] + 1 \in 1 .. 2
    /\ conn[c] = "register" => step[c] + 1 \in 1 .. Len(Registers(c))
    /\ \A f \in Feeds : cb[c][f] # "none" =>
        /\ conn[c] \notin {"idle", "reading", "refused"} /\ f \in ToSet(Registers(c))
        /\ conn[c] = "register" => c \notin BaseInfoClients

Positions == \A c \in Clients : Placed(c)

(* A client's BaseInfoGet is called by its handler at first, and later by  *)
(* its callback.                                                           *)
Serial(c) == at[c] # "none" => conn[c] = "reading" \/ cb[c]["infra"] = "read"

Serials == \A c \in BaseInfoClients : Serial(c)

StreamInv ==
    WorldOK /\ MapsOK /\ CallersOK /\ HandlersOK /\ CallbacksOK /\ Positions /\ Serials

(* The steps, by whose they are. *)
InformerStep(f) == Change(f) \/ Inform(f) \/ InformAside(f) \/ Resync(f)
CallStep(c) == BaseInfoCall(c) \/ AssignConfigMapFails(c) \/ GetInfraFails(c)
HandlerStep(c) == Arrive(c) \/ Handler(c) \/ ReadClusterFails(c) \/ Disconnect(c)
CallbackStep(c, f) == Callback(c, f) \/ FreshClusterFails(c, f)

(* BaseInfoGet is called, and returns. *)
Enters(c) ==
    /\ at[c] = "none"
    /\ at' = [at EXCEPT ![c] = "config"]
    /\ UNCHANGED <<config, infos, pos, got, made, alone, lost>>
Leaves(c) == at[c] \in {"built", "failed"} /\ Take(c)

-----------------------------------------------------------------------------
(* The constants, and the reads and registrations of the two handlers.     *)

LEMMA Bounds == /\ MaxVersion \in Nat /\ MaxVersion >= 1 /\ MaxVersion = MaxChanges + 1
                /\ MaxChanges \in Nat /\ Budget \in Nat
  BY BoundsAssumption DEF MaxVersion

LEMMA KindFacts ==
    /\ N \in Nat /\ N >= 1
    /\ \A i \in 1 .. N : KindSeq[i] \in Kinds
    /\ \A k \in Kinds : \E i \in 1 .. N : k = KindSeq[i]
    /\ Kinds \subseteq Items
  <1>1. KindSeq \in Seq(STRING) /\ KindSeq # << >>
    BY KindsAssumption
  <1>2. N \in Nat /\ N >= 1 /\ DOMAIN KindSeq = 1 .. N
    BY <1>1 DEF N
  <1> QED
    BY <1>2 DEF Kinds, ToSet, Items

LEMMA Order ==
    ASSUME NEW c \in Clients
    PROVE  /\ Len(Registers(c)) \in 1 .. 2 /\ Len(Reads) = 2
           /\ \A i \in 1 .. 2 : Reads[i] \in Feeds /\ Reads[i] \in Items
           /\ \A i \in 1 .. Len(Registers(c)) :
                Registers(c)[i] \in Feeds /\ Registers(c)[i] \in ToSet(Registers(c))
  BY DEF Reads, Registers, Feeds, ToSet, Items

LEMMA BaseOrder ==
    ASSUME NEW c \in BaseInfoClients
    PROVE  /\ c \in Clients /\ c \in Callers /\ c \notin ClusterClients /\ c \notin Others
           /\ "infra" \in Feeds /\ Len(Registers(c)) = 1
           /\ \A f \in ToSet(Registers(c)) : f = "infra"
  BY ClientsAssumption DEF Registers, Feeds, ToSet, Clients, Callers

LEMMA WhoCalls ==
    /\ \A c \in Callers : c \in Others \/ c \in BaseInfoClients
    /\ \A o \in Others : o \in Callers /\ o \notin BaseInfoClients /\ o \notin Clients
    /\ \A c \in ClusterClients : c \in Clients /\ c \notin BaseInfoClients /\ c \notin Callers
    /\ \A c \in Clients : c \in BaseInfoClients \/ c \in ClusterClients
  BY ClientsAssumption DEF Callers, Clients

LEMMA Edited ==
    ASSUME NEW v \in Versions, NEW i \in Items, NEW x \in 0 .. MaxVersion
    PROVE  [v EXCEPT ![i] = x] \in Versions
  BY DEF Versions

LEMMA NothingIsAnAnswer == Nothing \in Versions
  BY Bounds DEF Nothing, Versions

LEMMA SpendFits ==
    ASSUME budget \in Nat, Spend
    PROVE  budget' \in Nat
  BY DEF Spend

-----------------------------------------------------------------------------
(* What the steps leave alone.                                             *)

LEMMA CallFrame ==
    ASSUME NEW c \in Callers, CallStep(c)
    PROVE  /\ up /\ UNCHANGED <<informerVars, handlerVars, callbackVars, up>>
           /\ UNCHANGED budget \/ Spend
           /\ at[c] \notin {"none", "built", "failed"}
           /\ \E p \in Stages \ {"none"} : at' = [at EXCEPT ![c] = p]
  <1>1. CASE GetConfigMap(c) \/ AssignConfigMap(c) \/ ResetMaps(c) \/ GetInfra(c)
    BY <1>1 DEF GetConfigMap, AssignConfigMap, ResetMaps, GetInfra, Stages
  <1>2. CASE checkStatus(c) \/ BuildAnswer(c)
    BY <1>2 DEF checkStatus, BuildAnswer, Stages
  <1>3. CASE AssignConfigMapFails(c) \/ GetInfraFails(c)
    BY <1>3 DEF AssignConfigMapFails, GetInfraFails, Stages
  <1> QED
    BY <1>1, <1>2, <1>3 DEF CallStep, BaseInfoCall

LEMMA OtherFrame ==
    ASSUME NEW o \in Others, OtherCalls(o) \/ OtherReturns(o)
    PROVE  /\ up /\ UNCHANGED <<informerVars, handlerVars, callbackVars, up>>
           /\ UNCHANGED budget \/ Spend
           /\ Enters(o) \/ Leaves(o)
  BY DEF OtherCalls, OtherReturns, Enters, Leaves

(* Where a handler's step takes it. *)
LEMMA HandlerFrame ==
    ASSUME conn \in [Clients -> Places], NEW c \in Clients, HandlerStep(c)
    PROVE  /\ up /\ UNCHANGED <<informerVars, queue, msg, late, up>>
           /\ UNCHANGED budget \/ Spend
           /\ Register(c) \/ UNCHANGED cb
           /\ \/ Arrive(c) \/ ReadBaseInfo(c) \/ ReadBaseInfoFails(c)
              \/ UNCHANGED getVars
           /\ \/ ReadBaseInfo(c) \/ ReadCluster(c)
              \/ UNCHANGED shown
           /\ \E p \in Places : conn' = [conn EXCEPT ![c] = p]
           /\ conn[c] # "closed" /\ (Cancelled(c) => conn' = [conn EXCEPT ![c] = "closed"])
  <1>1. CASE Arrive(c)
    BY <1>1 DEF Arrive, callbackVars, Places, Cancelled
  <1>2. CASE ReadBaseInfo(c) \/ ReadBaseInfoFails(c)
    BY <1>2 DEF ReadBaseInfo, ReadBaseInfoFails, callbackVars, Places, Cancelled
  <1>3. CASE ReadCluster(c)
    <2>1. conn' = conn \/ conn' = [conn EXCEPT ![c] = "register"]
      BY <1>3 DEF ReadCluster
    <2>2. conn[c] = "reading" /\ (conn' = conn => conn' = [conn EXCEPT ![c] = conn[c]])
      BY <1>3 DEF ReadCluster
    <2> QED
      BY <1>3, <2>1, <2>2 DEF ReadCluster, callbackVars, Places, Cancelled
  <1>4. CASE Register(c)
    BY <1>4 DEF Register, callbackVars, Places, Cancelled
  <1>5. CASE Cancel(c) \/ Close(c)
    BY <1>5 DEF Cancel, Close, callbackVars, Places, Cancelled
  <1>6. CASE ReadClusterFails(c) \/ Disconnect(c)
    BY <1>6 DEF ReadClusterFails, Disconnect, callbackVars, Places, Cancelled
  <1> QED
    BY <1>1, <1>2, <1>3, <1>4, <1>5, <1>6 DEF HandlerStep, Handler

LEMMA CallbackFrame ==
    ASSUME NEW c \in Clients, NEW f \in Feeds, CallbackStep(c, f)
    PROVE  /\ up /\ UNCHANGED <<informerVars, conn, step, first>>
           /\ UNCHANGED budget \/ Spend
           /\ cb[c][f] # "none"
           /\ Receive(c, f) \/ UNCHANGED shown
           /\ TakeNotification(c, f) \/ UNCHANGED <<queue, late>>
           /\ SendPanics(c, f) \/ UNCHANGED up
           /\ \/ TakeNotification(c, f) \/ ReadFreshBaseInfo(c, f)
              \/ UNCHANGED getVars
  <1>1. CASE TakeNotification(c, f)
    BY <1>1 DEF TakeNotification, handlerVars
  <1>2. CASE ReadFreshBaseInfo(c, f)
    BY <1>2 DEF ReadFreshBaseInfo, handlerVars
  <1>3. CASE ReadFreshCluster(c, f) \/ FreshClusterFails(c, f)
    BY <1>3 DEF ReadFreshCluster, FreshClusterFails, handlerVars
  <1>4. CASE CheckContext(c, f) \/ BeginSend(c, f)
    BY <1>4 DEF CheckContext, BeginSend, handlerVars
  <1>5. CASE Receive(c, f)
    BY <1>5 DEF Receive
  <1>6. CASE SendPanics(c, f)
    BY <1>6 DEF SendPanics, handlerVars, callbackVars
  <1> QED
    BY <1>1, <1>2, <1>3, <1>4, <1>5, <1>6 DEF CallbackStep, Callback

LEMMA InformerFrame ==
    ASSUME NEW f \in Feeds, InformerStep(f)
    PROVE  /\ UNCHANGED <<getVars, handlerVars, cb, msg, late, up>>
           /\ UNCHANGED budget \/ Spend
           /\ Change(f) \/ (up /\ UNCHANGED version)
           /\ UNCHANGED queue \/ \E e \in Events : Notify(f, e)
  <1>1. CASE Change(f)
    BY <1>1 DEF Change, callbackVars
  <1>2. CASE Inform(f) \/ InformAside(f)
    BY <1>2 DEF Inform, InformAside, Events
  <1>3. CASE Resync(f)
    BY <1>3 DEF Resync, Events, informerVars
  <1> QED
    BY <1>1, <1>2, <1>3 DEF InformerStep

LEMMA NextIs ==
    ASSUME [Next]_vars
    PROVE  \/ \E f \in Feeds : InformerStep(f)
           \/ ConcurrentMapAccess \/ UNCHANGED vars
           \/ \E c \in Callers : CallStep(c)
           \/ \E o \in Others : OtherCalls(o) \/ OtherReturns(o)
           \/ \E c \in Clients : HandlerStep(c)
           \/ \E c \in Clients, f \in Feeds : CallbackStep(c, f)
  BY DEF Next, InformerStep, CallStep, HandlerStep, CallbackStep

-----------------------------------------------------------------------------
(* A callback of c is at p, with m as its answer.                          *)
Calls(c, f, p, m) ==
    /\ cb' = [cb EXCEPT ![c] = [cb[c] EXCEPT ![f] = p]]
    /\ msg' = [msg EXCEPT ![c] = [msg[c] EXCEPT ![f] = m]]

LEMMA CallsFits ==
    ASSUME CallbacksOK, NEW c \in Clients, NEW f \in Feeds, NEW p \in CallbackPlaces,
           NEW m \in Versions, Calls(c, f, p, m)
    PROVE  /\ cb' \in [Clients -> [Feeds -> CallbackPlaces]]
           /\ msg' \in [Clients -> [Feeds -> Versions]]
           /\ cb'[c][f] = p /\ msg'[c][f] = m
           /\ \A d \in Clients, g \in Feeds : d # c \/ g # f =>
                cb'[d][g] = cb[d][g] /\ msg'[d][g] = msg[d][g]
  <1>0. /\ cb \in [Clients -> [Feeds -> CallbackPlaces]] /\ cb[c] \in [Feeds -> CallbackPlaces]
        /\ msg \in [Clients -> [Feeds -> Versions]] /\ msg[c] \in [Feeds -> Versions]
    BY DEF CallbacksOK
  <1>1. [cb[c] EXCEPT ![f] = p] \in [Feeds -> CallbackPlaces]
    BY <1>0
  <1>2. [msg[c] EXCEPT ![f] = m] \in [Feeds -> Versions]
    BY <1>0
  <1>3. cb' \in [Clients -> [Feeds -> CallbackPlaces]] /\ msg' \in [Clients -> [Feeds -> Versions]]
    BY <1>0, <1>1, <1>2 DEF Calls
  <1>4. cb'[c][f] = p /\ msg'[c][f] = m
    BY <1>0 DEF Calls
  <1>5. ASSUME NEW d \in Clients, NEW g \in Feeds, d # c \/ g # f
        PROVE  cb'[d][g] = cb[d][g] /\ msg'[d][g] = msg[d][g]
    BY <1>0, <1>5 DEF Calls
  <1> QED
    BY <1>3, <1>4, <1>5

LEMMA Same ==
    ASSUME CallbacksOK, NEW c \in Clients, NEW f \in Feeds
    PROVE  /\ msg[c][f] \in Versions /\ cb[c][f] \in CallbackPlaces
           /\ \A p : cb' = [cb EXCEPT ![c][f] = p] /\ msg' = msg => Calls(c, f, p, msg[c][f])
  <1>1. msg \in [Clients -> [Feeds -> Versions]] /\ cb \in [Clients -> [Feeds -> CallbackPlaces]]
    BY DEF CallbacksOK
  <1>2. msg[c] = [msg[c] EXCEPT ![f] = msg[c][f]]
    BY <1>1
  <1>3. msg = [msg EXCEPT ![c] = [msg[c] EXCEPT ![f] = msg[c][f]]]
    BY <1>1, <1>2
  <1> QED
    BY <1>1, <1>3 DEF Calls

LEMMA ReturnIs ==
    ASSUME NEW c \in Clients, NEW f \in Feeds, Return(c, f)
    PROVE  Calls(c, f, "wait", Nothing) /\ "wait" \in CallbackPlaces /\ Nothing \in Versions
  BY NothingIsAnAnswer DEF Return, Calls, CallbackPlaces

LEMMA FreshFits ==
    ASSUME StreamInv, NEW c \in Clients, NEW f \in Feeds, f \in Items
    PROVE  Fresh(c, f) \in Versions
  <1>1. first[c] \in Versions /\ version[f] \in 0 .. MaxVersion
    BY Bounds DEF StreamInv, HandlersOK, WorldOK
  <1> QED
    BY <1>1, Edited DEF Fresh

(* A callback of ClusterList belongs to something it reads. *)
LEMMA ClusterOrder ==
    ASSUME StreamInv, NEW c \in ClusterClients, NEW f \in Feeds, cb[c][f] # "none"
    PROVE  f \in Items
  <1>1. c \in Clients /\ c \notin BaseInfoClients
    BY WhoCalls
  <1>2. f \in ToSet(Registers(c))
    BY <1>1 DEF StreamInv, Positions, Placed
  <1> QED
    BY <1>1, <1>2 DEF Registers, ToSet, Items

(* What a step of a callback does to its place and its answer. *)
LEMMA CallbackIs ==
    ASSUME StreamInv, NEW c \in Clients, NEW f \in Feeds, CallbackStep(c, f)
    PROVE  \E p \in CallbackPlaces \ {"none"}, m \in Versions :
                /\ Calls(c, f, p, m)
                /\ c \in BaseInfoClients => m \in {made[c], msg[c][f], Nothing}
                /\ p = "check" /\ c \in BaseInfoClients =>
                        m = made[c] /\ at[c] = "built" /\ cb[c][f] = "read"
                /\ p \in {"passed", "send"} =>
                        m = msg[c][f] /\ cb[c][f] \in {"check", "passed", "send"}
                /\ p \in {"passed", "send"} => cb[c][f] \in {"passed", "send"} \/ ~Cancelled(c)
  <1>0. CallbacksOK
    BY DEF StreamInv
  <1>1. CASE TakeNotification(c, f)
    <2>1. PICK p \in {"read", "wait"} : cb' = [cb EXCEPT ![c][f] = p] /\ msg' = msg
      BY <1>1 DEF TakeNotification
    <2>2. Calls(c, f, p, msg[c][f]) /\ msg[c][f] \in Versions
          /\ p \in CallbackPlaces \ {"none"}
      BY <1>0, <2>1, Same DEF CallbackPlaces
    <2> QED
      BY <2>1, <2>2
  <1>2. CASE ReadFreshBaseInfo(c, f)
    <2>1. Calls(c, f, "check", made[c]) /\ "check" \in CallbackPlaces \ {"none"}
      BY <1>2 DEF ReadFreshBaseInfo, Calls, CallbackPlaces
    <2>2. made[c] \in Versions /\ at[c] = "built" /\ cb[c][f] = "read"
      BY <1>2 DEF ReadFreshBaseInfo, StreamInv, CallersOK
    <2> QED
      BY <2>1, <2>2
  <1>3. CASE ReadFreshCluster(c, f)
    <2>1. Calls(c, f, "check", Fresh(c, f)) /\ "check" \in CallbackPlaces \ {"none"}
      BY <1>3 DEF ReadFreshCluster, Calls, CallbackPlaces
    <2>2. c \in ClusterClients /\ cb[c][f] # "none"
      BY <1>3 DEF ReadFreshCluster
    <2>3. Fresh(c, f) \in Versions /\ c \notin BaseInfoClients
      BY <2>2, FreshFits, ClusterOrder, WhoCalls
    <2> QED
      BY <2>1, <2>3
  <1>4. CASE FreshClusterFails(c, f) \/ Receive(c, f)
             \/ (CheckContext(c, f) /\ Cancelled(c))
    <2>1. Return(c, f)
      BY <1>4 DEF FreshClusterFails, Receive, CheckContext
    <2>2. Calls(c, f, "wait", Nothing) /\ "wait" \in CallbackPlaces \ {"none"}
          /\ Nothing \in Versions
      BY <2>1, ReturnIs DEF CallbackPlaces
    <2> QED
      BY <2>2
  <1>5. CASE CheckContext(c, f) /\ ~Cancelled(c)
    <2>1. cb' = [cb EXCEPT ![c][f] = "passed"] /\ msg' = msg /\ cb[c][f] = "check"
      BY <1>5 DEF CheckContext
    <2>2. Calls(c, f, "passed", msg[c][f]) /\ msg[c][f] \in Versions
          /\ "passed" \in CallbackPlaces \ {"none"}
      BY <1>0, <2>1, Same DEF CallbackPlaces
    <2> QED
      BY <1>5, <2>1, <2>2
  <1>6. CASE BeginSend(c, f) \/ SendPanics(c, f)
    <2>1. cb[c][f] \in {"passed", "send"} /\ msg' = msg
      BY <1>6 DEF BeginSend, SendPanics, callbackVars
    <2>2. cb' = [cb EXCEPT ![c][f] = "send"]
      BY <1>0, <1>6 DEF BeginSend, SendPanics, callbackVars, CallbacksOK
    <2>3. Calls(c, f, "send", msg[c][f]) /\ msg[c][f] \in Versions
          /\ "send" \in CallbackPlaces \ {"none"}
      BY <1>0, <2>1, <2>2, Same DEF CallbackPlaces
    <2> QED
      BY <2>1, <2>3
  <1> QED
    BY <1>1, <1>2, <1>3, <1>4, <1>5, <1>6 DEF CallbackStep, Callback

-----------------------------------------------------------------------------
(* A client is in one BaseInfoGet at a time, so each call begins from      *)
(* outside.                                                                *)

LEMMA CallMoves ==
    ASSUME StreamInv, [Next]_vars
    PROVE  \/ UNCHANGED getVars
           \/ \E c \in Callers : CallStep(c) \/ Enters(c) \/ Leaves(c)
  <1>1. CASE \E f \in Feeds : InformerStep(f)
    BY <1>1, InformerFrame
  <1>2. CASE ConcurrentMapAccess \/ UNCHANGED vars
    BY <1>2 DEF ConcurrentMapAccess, vars
  <1>3. CASE \E o \in Others : OtherCalls(o) \/ OtherReturns(o)
    BY <1>3, OtherFrame, WhoCalls
  <1>4. ASSUME NEW c \in Clients, HandlerStep(c)
        PROVE  UNCHANGED getVars \/ \E d \in Callers : Enters(d) \/ Leaves(d)
    <2>1. CASE Arrive(c)
      <3>1. CASE c \in BaseInfoClients
        <4>1. Placed(c) /\ Serial(c) /\ conn[c] = "idle" /\ c \in Callers /\ "infra" \in Feeds
          BY <2>1, <3>1, BaseOrder DEF Arrive, StreamInv, Positions, Serials
        <4>2. at[c] = "none"
          BY <4>1 DEF Placed, Serial
        <4> QED
          BY <2>1, <3>1, <4>1, <4>2 DEF Arrive, Enters
      <3>2. CASE c \notin BaseInfoClients
        BY <2>1, <3>2 DEF Arrive, getVars
      <3> QED
        BY <3>1, <3>2
    <2>2. CASE ReadBaseInfo(c) \/ ReadBaseInfoFails(c)
      BY <2>2, BaseOrder DEF ReadBaseInfo, ReadBaseInfoFails, Leaves
    <2> QED
      BY <1>4, <2>1, <2>2, HandlerFrame DEF StreamInv, HandlersOK
  <1>5. ASSUME NEW c \in Clients, NEW f \in Feeds, CallbackStep(c, f)
        PROVE  UNCHANGED getVars \/ \E d \in Callers : Enters(d) \/ Leaves(d)
    <2>1. CASE TakeNotification(c, f)
      <3>1. CASE at' = [at EXCEPT ![c] = "config"] /\ c \in BaseInfoClients
        <4>1. Placed(c) /\ Serial(c) /\ cb[c][f] = "wait" /\ c \in Callers /\ f = "infra"
          BY <2>1, <3>1, BaseOrder DEF TakeNotification, StreamInv, Positions, Serials, Placed
        <4>2. at[c] = "none"
          BY <4>1 DEF Placed, Serial
        <4> QED
          BY <2>1, <3>1, <4>1, <4>2 DEF TakeNotification, Enters
      <3>2. CASE at' = at
        BY <2>1, <3>2 DEF TakeNotification, getVars
      <3> QED
        BY <2>1, <3>1, <3>2 DEF TakeNotification
    <2>2. CASE ReadFreshBaseInfo(c, f)
      BY <2>2, BaseOrder DEF ReadFreshBaseInfo, Leaves
    <2> QED
      BY <1>5, <2>1, <2>2, CallbackFrame
  <1> QED
    BY <1>1, <1>2, <1>3, <1>4, <1>5, NextIs

LEMMA WorldStep == StreamInv /\ [Next]_vars => WorldOK'
  <1> SUFFICES ASSUME StreamInv, [Next]_vars PROVE WorldOK'
    OBVIOUS
  <1>0. WorldOK
    BY DEF StreamInv
  <1>1. ASSUME UNCHANGED informerVars, UNCHANGED budget \/ Spend, up' \in BOOLEAN
        PROVE  WorldOK'
    BY <1>0, <1>1, SpendFits DEF WorldOK, informerVars
  <1>2. ASSUME NEW f \in Feeds, Change(f) PROVE WorldOK'
    <2>1. /\ version \in [Feeds -> 1 .. MaxVersion] /\ version[f] \in 1 .. MaxVersion
          /\ version["infra"] \in 1 .. MaxVersion /\ version["status"] \in 1 .. MaxVersion
          /\ version["pod"] \in 1 .. MaxVersion
      BY <1>0 DEF WorldOK, Feeds
    <2>2. version[f] + 1 \in 1 .. MaxVersion
      BY <1>2, <2>1, Bounds DEF Change, Feeds
    <2>3. version' \in [Feeds -> 1 .. MaxVersion] /\ \A g \in Feeds : version'[g] >= version[g]
      BY <1>2, <2>1, <2>2, Bounds DEF Change
    <2>4. \A g \in Feeds : seen'[g] \in 1 .. version'[g]
      BY <1>0, <1>2, <2>1, <2>3, Bounds DEF Change, WorldOK
    <2> QED
      BY <1>0, <1>2, <2>3, <2>4 DEF Change, WorldOK
  <1>3. ASSUME NEW f \in Feeds, Inform(f) \/ InformAside(f) \/ Resync(f) PROVE WorldOK'
    <2>0. /\ seen \in [Feeds -> Nat] /\ \A g \in Feeds : seen[g] \in 1 .. version[g]
          /\ \A g \in Feeds : version[g] \in Nat
      BY <1>0, Bounds DEF WorldOK
    <2>1. \/ seen' = seen
          \/ seen[f] < version[f] /\ seen' = [seen EXCEPT ![f] = @ + 1]
      BY <1>3 DEF Inform, InformAside, Resync, informerVars
    <2>2. seen' \in [Feeds -> Nat] /\ \A g \in Feeds : seen'[g] \in 1 .. version[g]
      BY <2>0, <2>1
    <2>3. budget' \in Nat /\ up' = up /\ version' = version
      BY <1>0, <1>3, SpendFits DEF Inform, InformAside, Resync, informerVars, WorldOK
    <2> QED
      BY <1>0, <2>2, <2>3 DEF WorldOK
  <1>4. CASE ConcurrentMapAccess \/ UNCHANGED vars
    BY <1>0, <1>1, <1>4 DEF ConcurrentMapAccess, vars, WorldOK
  <1>5. CASE \E c \in Callers : CallStep(c)
    BY <1>0, <1>1, <1>5, CallFrame DEF WorldOK
  <1>6. CASE \E o \in Others : OtherCalls(o) \/ OtherReturns(o)
    BY <1>0, <1>1, <1>6, OtherFrame DEF WorldOK
  <1>7. CASE \E c \in Clients : HandlerStep(c)
    BY <1>0, <1>1, <1>7, HandlerFrame DEF WorldOK, StreamInv, HandlersOK
  <1>8. ASSUME NEW c \in Clients, NEW f \in Feeds, CallbackStep(c, f) PROVE WorldOK'
    <2>1. UNCHANGED informerVars /\ (UNCHANGED budget \/ Spend)
      BY <1>8, CallbackFrame
    <2>2. up' \in BOOLEAN
      BY <1>0, <1>8, CallbackFrame DEF WorldOK, SendPanics
    <2> QED
      BY <1>1, <2>1, <2>2
  <1> QED
    BY <1>2, <1>3, <1>4, <1>5, <1>6, <1>7, <1>8, NextIs DEF InformerStep

(* What BaseInfoGet does to the maps and to its own variables. *)
LEMMA CallFits ==
    ASSUME StreamInv, NEW c \in Callers, CallStep(c)
    PROVE  MapsOK' /\ CallersOK'
  <1>0. MapsOK /\ CallersOK /\ version["infra"] \in 0 .. MaxVersion /\ N \in Nat /\ N >= 1
        /\ pos[c] \in 1 .. N
    BY Bounds, KindFacts DEF StreamInv, WorldOK, CallersOK, Feeds
  <1>1. CASE GetConfigMap(c) \/ AssignConfigMap(c) \/ AssignConfigMapFails(c)
    <2>1. MapsOK'
      BY <1>0, <1>1 DEF GetConfigMap, AssignConfigMap, AssignConfigMapFails, MapsOK
    <2>2. PICK p \in {"lookup", "reset", "failed"} : at' = [at EXCEPT ![c] = p]
      BY <1>1 DEF GetConfigMap, AssignConfigMap, AssignConfigMapFails
    <2>3. at[c] \in {"config", "lookup"} /\ UNCHANGED <<pos, got, made, alone, lost>>
      BY <1>1 DEF GetConfigMap, AssignConfigMap, AssignConfigMapFails
    <2> QED
      BY <1>0, <2>1, <2>2, <2>3 DEF CallersOK, InMaps, Stages
  <1>2. CASE ResetMaps(c)
    <2>1. MapsOK'
      BY <1>0, <1>2, Bounds DEF ResetMaps, MapsOK, NoEntries
    <2>2. at' = [at EXCEPT ![c] = "get"] /\ UNCHANGED <<pos, got, made>>
          /\ lost' = [lost EXCEPT ![c] = FALSE]
      BY <1>2 DEF ResetMaps
    <2>3. alone' \in [Callers -> BOOLEAN]
      <3>1. \A d \in Callers : (IF d = c THEN \A e \in Callers \ {c} : ~InMaps(e)
                                ELSE alone[d] /\ ~InMaps(d)) \in BOOLEAN
        BY ZenonT(30)
      <3> QED
        BY <1>2, <3>1, Zenon DEF ResetMaps
    <2> QED
      BY <1>0, <2>1, <2>2, <2>3 DEF CallersOK, InMaps, Stages
  <1>3. CASE GetInfra(c) \/ GetInfraFails(c)
    <2>1. MapsOK'
      BY <1>0, <1>3 DEF GetInfra, GetInfraFails, MapsOK
    <2>2. PICK v \in 0 .. MaxVersion : got' = [got EXCEPT ![c] = v]
      BY <1>0, <1>3, Bounds DEF GetInfra, GetInfraFails, Current
    <2>3. at' = [at EXCEPT ![c] = "set"] /\ UNCHANGED <<pos, made, alone>>
      BY <1>3 DEF GetInfra, GetInfraFails
    <2>4. lost' \in [Callers -> BOOLEAN]
      <3>1. lost \in [Callers -> BOOLEAN] /\ (lost[c] \/ config # "real") \in BOOLEAN
        BY <1>0 DEF CallersOK
      <3> QED
        BY <1>3, <3>1 DEF GetInfra, GetInfraFails
    <2> QED
      BY <1>0, <2>1, <2>2, <2>3, <2>4 DEF CallersOK, InMaps, Stages
  <1>4. CASE checkStatus(c)
    <2>1. got[c] \in 0 .. MaxVersion /\ KindSeq[pos[c]] \in Kinds
      BY <1>0, KindFacts DEF CallersOK
    <2>2. MapsOK'
      BY <1>0, <1>4, <2>1 DEF checkStatus, MapsOK
    <2>3. PICK q \in 1 .. N, p \in {"build", "get"} :
              pos' = [pos EXCEPT ![c] = q] /\ at' = [at EXCEPT ![c] = p]
      <3>1. CASE pos[c] = N
        <4>1. pos' = [pos EXCEPT ![c] = 1] /\ at' = [at EXCEPT ![c] = "build"]
          BY <1>4, <3>1 DEF checkStatus
        <4>2. 1 \in 1 .. N
          BY <1>0, <3>1
        <4> QED
          BY <4>1, <4>2
      <3>2. CASE pos[c] # N
        <4>1. pos' = [pos EXCEPT ![c] = pos[c] + 1] /\ at' = [at EXCEPT ![c] = "get"]
          BY <1>4, <3>2 DEF checkStatus
        <4>2. pos[c] + 1 \in 1 .. N
          BY <1>0, <3>2
        <4> QED
          BY <4>1, <4>2
      <3> QED
        BY <3>1, <3>2
    <2>4. got' = [got EXCEPT ![c] = 0] /\ UNCHANGED <<made, alone, lost>>
      BY <1>4 DEF checkStatus
    <2> QED
      BY <1>0, <2>2, <2>3, <2>4, Bounds DEF CallersOK, InMaps, Stages
  <1>5. CASE BuildAnswer(c)
    <2>1. MapsOK' /\ UNCHANGED <<got, alone, lost>>
      BY <1>0, <1>5 DEF BuildAnswer, MapsOK
    <2>2. PICK q \in 1 .. N, p \in {"build", "built"} :
              /\ pos' = [pos EXCEPT ![c] = q] /\ at' = [at EXCEPT ![c] = p]
              /\ p = "build" \/ q = 1
      <3>1. CASE pos[c] = N
        <4>1. pos' = [pos EXCEPT ![c] = 1] /\ at' = [at EXCEPT ![c] = "built"]
          BY <1>5, <3>1 DEF BuildAnswer
        <4>2. 1 \in 1 .. N
          BY <1>0, <3>1
        <4> QED
          BY <4>1, <4>2
      <3>2. CASE pos[c] # N
        <4>1. pos' = [pos EXCEPT ![c] = pos[c] + 1] /\ at' = [at EXCEPT ![c] = "build"]
          BY <1>5, <3>2 DEF BuildAnswer
        <4>2. pos[c] + 1 \in 1 .. N
          BY <1>0, <3>2
        <4> QED
          BY <4>1, <4>2
      <3> QED
        BY <3>1, <3>2
    <2>3. made' \in [BaseInfoClients -> Versions]
      <3>1. CASE c \in Others
        BY <1>0, <1>5, <3>1 DEF BuildAnswer, CallersOK
      <3>2. CASE c \in BaseInfoClients /\ c \notin Others
        <4>1. infos[KindSeq[pos[c]]] \in 0 .. MaxVersion /\ KindSeq[pos[c]] \in Items
          BY <1>0, KindFacts DEF MapsOK
        <4>2. [made[c] EXCEPT ![KindSeq[pos[c]]] = infos[KindSeq[pos[c]]]] \in Versions
          BY <1>0, <3>2, <4>1, Edited DEF CallersOK
        <4>3. made' = [made EXCEPT ![c] =
                          [made[c] EXCEPT ![KindSeq[pos[c]]] = infos[KindSeq[pos[c]]]]]
          BY <1>5, <3>2 DEF BuildAnswer
        <4> QED
          BY <1>0, <3>2, <4>2, <4>3 DEF CallersOK
      <3> QED
        BY <3>1, <3>2, WhoCalls
    <2> QED
      BY <1>0, <2>1, <2>2, <2>3 DEF CallersOK, InMaps, Stages
  <1> QED
    BY <1>1, <1>2, <1>3, <1>4, <1>5 DEF CallStep, BaseInfoCall

LEMMA CallersStep == StreamInv /\ [Next]_vars => MapsOK' /\ CallersOK'
  <1> SUFFICES ASSUME StreamInv, [Next]_vars PROVE MapsOK' /\ CallersOK'
    OBVIOUS
  <1>0. MapsOK /\ CallersOK
    BY DEF StreamInv
  <1>1. CASE UNCHANGED getVars
    BY <1>0, <1>1 DEF MapsOK, CallersOK, getVars, InMaps
  <1>2. CASE \E c \in Callers : CallStep(c)
    BY <1>2, CallFits
  <1>3. ASSUME NEW c \in Callers, Enters(c) PROVE MapsOK' /\ CallersOK'
    BY <1>0, <1>3 DEF Enters, MapsOK, CallersOK, InMaps, Stages
  <1>4. ASSUME NEW c \in Callers, Leaves(c) PROVE MapsOK' /\ CallersOK'
    <2>1. made' \in [BaseInfoClients -> Versions]
      BY <1>0, <1>4, NothingIsAnAnswer DEF Leaves, Take, CallersOK
    <2> QED
      BY <1>0, <1>4, <2>1 DEF Leaves, Take, MapsOK, CallersOK, InMaps, Stages
  <1> QED
    BY <1>1, <1>2, <1>3, <1>4, CallMoves

(* What is written to a client. *)
LEMMA ShownIs ==
    ASSUME StreamInv, [Next]_vars, NEW c \in BaseInfoClients
    PROVE  \/ shown'[c] = shown[c]
           \/ ReadBaseInfo(c) /\ shown'[c] = made[c]
           \/ Receive(c, "infra") /\ shown'[c] = msg[c]["infra"]
  <1>0. shown \in [Clients -> Versions] /\ c \in Clients /\ c \notin ClusterClients
    BY BaseOrder DEF StreamInv, HandlersOK
  <1>1. ASSUME NEW d \in Clients, HandlerStep(d)
        PROVE  shown'[c] = shown[c] \/ (ReadBaseInfo(c) /\ shown'[c] = made[c])
    <2>1. CASE ReadBaseInfo(d)
      BY <1>0, <2>1 DEF ReadBaseInfo
    <2>2. CASE ReadCluster(d)
      <3>1. d # c
        BY <1>0, <2>2 DEF ReadCluster
      <3>2. CASE step[d] + 1 = Len(Reads)
        BY <1>0, <2>2, <3>1, <3>2 DEF ReadCluster
      <3>3. CASE step[d] + 1 # Len(Reads)
        BY <1>0, <2>2, <3>1, <3>3 DEF ReadCluster
      <3> QED
        BY <3>2, <3>3
    <2> QED
      BY <1>1, <2>1, <2>2, HandlerFrame DEF StreamInv, HandlersOK
  <1>2. ASSUME NEW d \in Clients, NEW f \in Feeds, CallbackStep(d, f)
        PROVE  \/ shown'[c] = shown[c]
               \/ Receive(c, "infra") /\ shown'[c] = msg[c]["infra"]
    <2>1. CASE Receive(d, f)
      <3>1. d = c => f = "infra"
        BY <2>1, BaseOrder DEF Receive, StreamInv, Positions, Placed
      <3> QED
        BY <1>0, <2>1, <3>1 DEF Receive
    <2> QED
      BY <1>2, <2>1, CallbackFrame
  <1>3. CASE \E f \in Feeds : InformerStep(f)
    BY <1>3, InformerFrame DEF handlerVars
  <1>4. CASE ConcurrentMapAccess \/ UNCHANGED vars
    BY <1>4 DEF ConcurrentMapAccess, vars, handlerVars
  <1>5. CASE \E d \in Callers : CallStep(d)
    BY <1>5, CallFrame DEF handlerVars
  <1>6. CASE \E o \in Others : OtherCalls(o) \/ OtherReturns(o)
    BY <1>6, OtherFrame DEF handlerVars
  <1> QED
    BY <1>1, <1>2, <1>3, <1>4, <1>5, <1>6, NextIs

LEMMA HandlersStep == StreamInv /\ [Next]_vars => HandlersOK'
  <1> SUFFICES ASSUME StreamInv, [Next]_vars PROVE HandlersOK'
    OBVIOUS
  <1>0. HandlersOK
    BY DEF StreamInv
  <1>1. ASSUME NEW c \in Clients, HandlerStep(c) PROVE HandlersOK'
    <2>0. /\ conn \in [Clients -> Places] /\ step \in [Clients -> 0 .. 2]
          /\ first \in [Clients -> Versions] /\ shown \in [Clients -> Versions]
          /\ conn' \in [Clients -> Places]
      BY <1>0, <1>1, HandlerFrame DEF HandlersOK
    <2>1. CASE ReadBaseInfo(c)
      <3>1. made[c] \in Versions
        BY <2>1 DEF ReadBaseInfo, StreamInv, CallersOK
      <3>2. UNCHANGED <<step, first>> /\ shown' = [shown EXCEPT ![c] = made[c]]
        BY <2>1 DEF ReadBaseInfo
      <3> QED
        BY <2>0, <3>1, <3>2 DEF HandlersOK
    <2>2. CASE ReadCluster(c)
      <3> DEFINE f == Reads[step[c] + 1]
                 answer == [first[c] EXCEPT ![f] = version[f]]
      <3>1. Placed(c) /\ step[c] + 1 \in 1 .. 2
        BY <2>2 DEF ReadCluster, StreamInv, Positions, Placed
      <3>2. f \in Feeds /\ f \in Items
        BY <3>1, Order
      <3>3. answer \in Versions
        <4>1. version[f] \in 0 .. MaxVersion
          BY <3>2, Bounds DEF StreamInv, WorldOK
        <4> QED
          BY <2>0, <3>2, <4>1, Edited
      <3>4. first' = [first EXCEPT ![c] = answer]
        BY <2>2 DEF ReadCluster
      <3>5. \/ step' = [step EXCEPT ![c] = 0] /\ shown' = [shown EXCEPT ![c] = answer]
            \/ step' = [step EXCEPT ![c] = @ + 1] /\ shown' = shown
        BY <2>2 DEF ReadCluster
      <3> HIDE DEF answer, f
      <3>6. step' \in [Clients -> 0 .. 2] /\ shown' \in [Clients -> Versions]
        BY <2>0, <3>1, <3>3, <3>5
      <3> QED
        BY <2>0, <3>3, <3>4, <3>6 DEF HandlersOK
    <2>3. CASE Register(c)
      <3>1. step[c] + 1 \in 0 .. 2
        BY <2>3, Order DEF Register, StreamInv, Positions, Placed
      <3> QED
        BY <2>0, <2>3, <3>1 DEF Register, HandlersOK
    <2>4. CASE Arrive(c) \/ ReadBaseInfoFails(c) \/ ReadClusterFails(c)
      BY <2>0, <2>4 DEF Arrive, ReadBaseInfoFails, ReadClusterFails, HandlersOK
    <2>5. CASE Cancel(c) \/ Close(c) \/ Disconnect(c)
      BY <2>0, <2>5 DEF Cancel, Close, Disconnect, HandlersOK
    <2> QED
      BY <1>1, <2>1, <2>2, <2>3, <2>4, <2>5 DEF HandlerStep, Handler
  <1>2. ASSUME NEW c \in Clients, NEW f \in Feeds, CallbackStep(c, f) PROVE HandlersOK'
    <2>1. shown \in [Clients -> Versions] /\ msg[c][f] \in Versions
      BY DEF StreamInv, HandlersOK, CallbacksOK
    <2>2. shown' \in [Clients -> Versions]
      BY <1>2, <2>1, CallbackFrame DEF Receive
    <2> QED
      BY <1>0, <1>2, <2>2, CallbackFrame DEF HandlersOK
  <1>3. ASSUME UNCHANGED handlerVars PROVE HandlersOK'
    BY <1>0, <1>3 DEF HandlersOK, handlerVars
  <1>4. CASE \E f \in Feeds : InformerStep(f)
    BY <1>3, <1>4, InformerFrame
  <1>5. CASE ConcurrentMapAccess \/ UNCHANGED vars
    BY <1>3, <1>5 DEF ConcurrentMapAccess, vars
  <1>6. CASE \E c \in Callers : CallStep(c)
    BY <1>3, <1>6, CallFrame
  <1>7. CASE \E o \in Others : OtherCalls(o) \/ OtherReturns(o)
    BY <1>3, <1>7, OtherFrame
  <1> QED
    BY <1>1, <1>2, <1>4, <1>5, <1>6, <1>7, NextIs

LEMMA NotifyFits ==
    ASSUME StreamInv, NEW f \in Feeds, NEW e \in Events, Notify(f, e)
    PROVE  queue' \in [Clients -> [Feeds -> Seq(Events)]]
  <1> SUFFICES ASSUME NEW c \in Clients
               PROVE  [queue[c] EXCEPT ![f] = IF cb[c][f] = "none" THEN @ ELSE Append(@, e)]
                      \in [Feeds -> Seq(Events)]
    BY DEF Notify
  <1>1. queue[c] \in [Feeds -> Seq(Events)] /\ queue[c][f] \in Seq(Events)
    BY DEF StreamInv, CallbacksOK
  <1>2. Append(queue[c][f], e) \in Seq(Events)
    BY <1>1
  <1> QED
    BY <1>1, <1>2

(* AddEventHandler: which of the callbacks begins to wait. *)
LEMMA RegisterIs ==
    ASSUME StreamInv, NEW c \in Clients, Register(c)
    PROVE  \E f \in Feeds :
              /\ f \in ToSet(Registers(c)) /\ cb' = [cb EXCEPT ![c][f] = "wait"]
              /\ cb' \in [Clients -> [Feeds -> CallbackPlaces]] /\ cb'[c][f] = "wait"
              /\ \A d \in Clients, g \in Feeds : d # c \/ g # f => cb'[d][g] = cb[d][g]
  <1> DEFINE f == Registers(c)[step[c] + 1]
  <1>1. f \in Feeds /\ f \in ToSet(Registers(c))
    BY Order DEF Register, StreamInv, Positions, Placed
  <1>2. cb' = [cb EXCEPT ![c][f] = "wait"]
    BY DEF Register
  <1> HIDE DEF f
  <1>3. cb \in [Clients -> [Feeds -> CallbackPlaces]]
    BY DEF StreamInv, CallbacksOK
  <1>4. cb' \in [Clients -> [Feeds -> CallbackPlaces]] /\ cb'[c][f] = "wait"
    BY <1>1, <1>2, <1>3 DEF CallbackPlaces
  <1>5. \A d \in Clients, g \in Feeds : d # c \/ g # f => cb'[d][g] = cb[d][g]
    BY <1>1, <1>2, <1>3
  <1> QED
    BY <1>1, <1>2, <1>4, <1>5

LEMMA CallbacksStep == StreamInv /\ [Next]_vars => CallbacksOK'
  <1> SUFFICES ASSUME StreamInv, [Next]_vars PROVE CallbacksOK'
    OBVIOUS
  <1>0. CallbacksOK
    BY DEF StreamInv
  <1>1. ASSUME NEW c \in Clients, NEW f \in Feeds, CallbackStep(c, f) PROVE CallbacksOK'
    <2>1. /\ cb' \in [Clients -> [Feeds -> CallbackPlaces]]
          /\ msg' \in [Clients -> [Feeds -> Versions]]
      BY <1>0, <1>1, CallbackIs, CallsFits
    <2>2. queue' \in [Clients -> [Feeds -> Seq(Events)]] /\ late' \subseteq Clients \X Feeds
      <3>1. CASE TakeNotification(c, f)
        <4>1. queue \in [Clients -> [Feeds -> Seq(Events)]] /\ Tail(queue[c][f]) \in Seq(Events)
          BY <1>0, <3>1 DEF TakeNotification, CallbacksOK
        <4>2. queue' = [queue EXCEPT ![c][f] = Tail(@)]
              /\ (late' = late \cup {<<c, f>>} \/ late' = late)
          BY <3>1 DEF TakeNotification
        <4>3. queue' \in [Clients -> [Feeds -> Seq(Events)]]
          BY <4>1, <4>2
        <4>4. late' \subseteq Clients \X Feeds
          BY <1>0, <4>2 DEF CallbacksOK
        <4> QED
          BY <4>3, <4>4
      <3>2. CASE ~TakeNotification(c, f)
        BY <1>0, <1>1, <3>2, CallbackFrame DEF CallbacksOK
      <3> QED
        BY <3>1, <3>2
    <2> QED
      BY <2>1, <2>2 DEF CallbacksOK
  <1>2. ASSUME NEW c \in Clients, HandlerStep(c) PROVE CallbacksOK'
    <2>1. cb' \in [Clients -> [Feeds -> CallbackPlaces]]
      BY <1>0, <1>2, HandlerFrame, RegisterIs DEF CallbacksOK, StreamInv, HandlersOK
    <2>2. UNCHANGED <<queue, msg, late>>
      BY <1>2, HandlerFrame DEF StreamInv, HandlersOK
    <2> QED
      BY <1>0, <2>1, <2>2 DEF CallbacksOK
  <1>3. ASSUME NEW f \in Feeds, InformerStep(f) PROVE CallbacksOK'
    BY <1>0, <1>3, InformerFrame, NotifyFits DEF CallbacksOK
  <1>4. ASSUME UNCHANGED callbackVars PROVE CallbacksOK'
    BY <1>0, <1>4 DEF CallbacksOK, callbackVars
  <1>5. CASE ConcurrentMapAccess \/ UNCHANGED vars
    BY <1>4, <1>5 DEF ConcurrentMapAccess, vars
  <1>6. CASE \E c \in Callers : CallStep(c)
    BY <1>4, <1>6, CallFrame
  <1>7. CASE \E o \in Others : OtherCalls(o) \/ OtherReturns(o)
    BY <1>4, <1>7, OtherFrame
  <1> QED
    BY <1>1, <1>2, <1>3, <1>5, <1>6, <1>7, NextIs

LEMMA PositionsStep == StreamInv /\ [Next]_vars => Positions'
  <1> SUFFICES ASSUME StreamInv, [Next]_vars PROVE Positions'
    OBVIOUS
  <1>0. /\ conn \in [Clients -> Places] /\ step \in [Clients -> 0 .. 2]
        /\ \A c \in Clients : Placed(c)
    BY DEF StreamInv, HandlersOK, Positions
  <1>1. ASSUME NEW c \in Clients, HandlerStep(c), NEW d \in Clients PROVE Placed(d)'
    <2>1. CASE d # c
      <3>1. conn'[d] = conn[d] /\ step'[d] = step[d]
        <4>1. conn'[d] = conn[d]
          BY <1>0, <1>1, <2>1, HandlerFrame
        <4>2. step'[d] = step[d]
          <5>1. CASE ReadCluster(c)
            BY <1>0, <2>1, <5>1 DEF ReadCluster
          <5>2. CASE Register(c)
            BY <1>0, <2>1, <5>2 DEF Register
          <5>3. CASE ~ReadCluster(c) /\ ~Register(c)
            BY <1>1, <5>3 DEF HandlerStep, Handler, Arrive, ReadBaseInfo, ReadBaseInfoFails,
               Cancel, Close, ReadClusterFails, Disconnect
          <5> QED
            BY <5>1, <5>2, <5>3
        <4> QED
          BY <4>1, <4>2
      <3>2. \A g \in Feeds : cb'[d][g] = cb[d][g]
        BY <1>0, <1>1, <2>1, HandlerFrame, RegisterIs
      <3> QED
        BY <1>0, <3>1, <3>2 DEF Placed
    <2>2. CASE d = c
      <3>0. Placed(c) /\ step[c] \in 0 .. 2
        BY <1>0
      <3>1. CASE Arrive(c)
        <4>1. conn'[c] = "reading" /\ step'[c] = step[c] /\ conn[c] = "idle" /\ cb' = cb
          BY <1>0, <3>1 DEF Arrive, callbackVars
        <4> QED
          BY <2>2, <3>0, <4>1 DEF Placed
      <3>2. CASE ReadBaseInfo(c)
        <4>1. conn'[c] = "register" /\ step'[c] = step[c] /\ conn[c] = "reading" /\ cb' = cb
          BY <1>0, <3>2 DEF ReadBaseInfo, callbackVars
        <4>2. step[c] = 0 /\ Len(Registers(c)) = 1
          BY <3>0, <3>2, <4>1, BaseOrder DEF ReadBaseInfo, Placed
        <4> QED
          BY <2>2, <3>0, <4>1, <4>2 DEF Placed
      <3>3. CASE ReadCluster(c)
        <4>0. Len(Reads) = 2 /\ 1 \in 1 .. Len(Registers(c))
          <5>1. Len(Registers(c)) \in 1 .. 2 /\ Len(Reads) = 2
            BY Order
          <5> QED
            BY <5>1
        <4>1. conn[c] = "reading" /\ cb' = cb /\ c \notin BaseInfoClients
          BY <3>3, WhoCalls DEF ReadCluster, callbackVars
        <4>2. CASE step[c] + 1 = Len(Reads)
          <5>0. conn' = [conn EXCEPT ![c] = "register"] /\ step' = [step EXCEPT ![c] = 0]
            BY <3>0, <3>3, <4>2 DEF ReadCluster
          <5>1. conn'[c] = "register" /\ step'[c] = 0
            BY <1>0, <5>0
          <5> QED
            BY <2>2, <3>0, <4>0, <4>1, <5>1 DEF Placed
        <4>3. CASE step[c] + 1 # Len(Reads)
          <5>0. conn' = conn /\ step' = [step EXCEPT ![c] = @ + 1]
            BY <3>0, <3>3, <4>3 DEF ReadCluster
          <5>1. conn'[c] = "reading" /\ step'[c] = step[c] + 1
            BY <1>0, <4>1, <5>0
          <5>2. step[c] + 2 \in 1 .. 2
            BY <3>0, <4>0, <4>1, <4>3 DEF Placed
          <5> QED
            BY <2>2, <3>0, <4>1, <5>1, <5>2 DEF Placed
        <4> QED
          BY <4>2, <4>3
      <3>4. CASE Register(c)
        <4>1. conn[c] = "register" /\ step[c] + 1 \in 1 .. Len(Registers(c))
              /\ step'[c] = step[c] + 1
          BY <1>0, <3>0, <3>4 DEF Register, Placed
        <4>2. conn'[c] = IF step[c] + 1 = Len(Registers(c)) THEN "loop" ELSE "register"
          BY <1>0, <3>4, <4>1 DEF Register
        <4>3. \A g \in Feeds : cb'[c][g] # "none" => g \in ToSet(Registers(c))
          BY <3>0, <3>4, RegisterIs DEF Placed
        <4>4. c \in BaseInfoClients => Len(Registers(c)) = 1
          BY BaseOrder
        <4> QED
          BY <2>2, <3>0, <4>1, <4>2, <4>3, <4>4, Order DEF Placed
      <3>5. CASE ReadBaseInfoFails(c) \/ ReadClusterFails(c)
        <4>1. conn'[c] = "refused" /\ cb' = cb /\ conn[c] = "reading"
          BY <1>0, <3>5 DEF ReadBaseInfoFails, ReadClusterFails, callbackVars
        <4> QED
          BY <2>2, <3>0, <4>1 DEF Placed
      <3>6. CASE Cancel(c) \/ Close(c) \/ Disconnect(c)
        <4>1. conn'[c] \in {"left", "cancelled", "closed"} /\ cb' = cb
              /\ conn[c] \in {"loop", "left", "cancelled"}
          BY <1>0, <3>6 DEF Cancel, Close, Disconnect, callbackVars
        <4> QED
          BY <2>2, <3>0, <4>1 DEF Placed
      <3> QED
        BY <1>1, <3>1, <3>2, <3>3, <3>4, <3>5, <3>6 DEF HandlerStep, Handler
    <2> QED
      BY <2>1, <2>2
  <1>2. ASSUME NEW c \in Clients, NEW f \in Feeds, CallbackStep(c, f), NEW d \in Clients
        PROVE  Placed(d)'
    <2>1. ASSUME NEW g \in Feeds, cb'[d][g] # "none" PROVE cb[d][g] # "none"
      <3>1. PICK p \in CallbackPlaces, m \in Versions : Calls(c, f, p, m)
        BY <1>2, CallbackIs
      <3>2. (d = c /\ g = f) \/ cb'[d][g] = cb[d][g]
        BY <3>1, CallsFits DEF StreamInv
      <3> QED
        BY <1>2, <2>1, <3>2, CallbackFrame
    <2>2. UNCHANGED <<conn, step>>
      BY <1>2, CallbackFrame
    <2> QED
      BY <1>0, <2>1, <2>2 DEF Placed
  <1>3. ASSUME UNCHANGED <<conn, step, cb>>, NEW d \in Clients PROVE Placed(d)'
    BY <1>0, <1>3 DEF Placed
  <1>4. CASE \E f \in Feeds : InformerStep(f)
    BY <1>3, <1>4, InformerFrame DEF Positions, handlerVars
  <1>5. CASE ConcurrentMapAccess \/ UNCHANGED vars
    BY <1>3, <1>5 DEF ConcurrentMapAccess, vars, Positions, handlerVars, callbackVars
  <1>6. CASE \E c \in Callers : CallStep(c)
    BY <1>3, <1>6, CallFrame DEF Positions, handlerVars, callbackVars
  <1>7. CASE \E o \in Others : OtherCalls(o) \/ OtherReturns(o)
    BY <1>3, <1>7, OtherFrame DEF Positions, handlerVars, callbackVars
  <1> QED
    BY <1>1, <1>2, <1>4, <1>5, <1>6, <1>7, NextIs DEF Positions

LEMMA SerialsStep == StreamInv /\ [Next]_vars => Serials'
  <1> SUFFICES ASSUME StreamInv, [Next]_vars, NEW c \in BaseInfoClients PROVE Serial(c)'
    BY DEF Serials
  <1>0. /\ Serial(c) /\ Placed(c) /\ c \in Clients /\ c \in Callers /\ "infra" \in Feeds
        /\ at \in [Callers -> Stages] /\ conn \in [Clients -> Places]
    BY BaseOrder DEF StreamInv, Serials, Positions, CallersOK, HandlersOK
  <1>1. ASSUME UNCHANGED conn, UNCHANGED cb, at'[c] = "none" \/ at[c] # "none"
        PROVE  Serial(c)'
    BY <1>0, <1>1 DEF Serial
  <1>2. CASE \E f \in Feeds : InformerStep(f)
    BY <1>0, <1>2, InformerFrame DEF Serial, handlerVars, getVars
  <1>3. CASE ConcurrentMapAccess \/ UNCHANGED vars
    BY <1>0, <1>3 DEF ConcurrentMapAccess, vars, Serial, handlerVars, getVars, callbackVars
  <1>4. ASSUME NEW d \in Callers, CallStep(d) PROVE Serial(c)'
    <2>1. UNCHANGED conn /\ UNCHANGED cb /\ at[d] # "none"
      BY <1>4, CallFrame DEF handlerVars, callbackVars
    <2>2. d = c \/ at'[c] = at[c]
      BY <1>0, <1>4, CallFrame
    <2> QED
      BY <1>0, <2>1, <2>2 DEF Serial
  <1>5. ASSUME NEW o \in Others, OtherCalls(o) \/ OtherReturns(o) PROVE Serial(c)'
    <2>1. o # c /\ at'[c] = at[c]
      BY <1>0, <1>5, OtherFrame, BaseOrder DEF Enters, Leaves, Take
    <2> QED
      BY <1>0, <1>5, <2>1, OtherFrame DEF Serial, handlerVars, callbackVars
  <1>6. ASSUME NEW d \in Clients, HandlerStep(d) PROVE Serial(c)'
    <2>1. CASE d # c
      <3>1. conn'[c] = conn[c] /\ cb'[c]["infra"] = cb[c]["infra"]
        BY <1>0, <1>6, <2>1, HandlerFrame, RegisterIs
      <3>2. at'[c] = at[c]
        BY <1>0, <1>6, <2>1, HandlerFrame
           DEF Arrive, ReadBaseInfo, ReadBaseInfoFails, Take, getVars
      <3> QED
        BY <1>0, <3>1, <3>2 DEF Serial
    <2>2. CASE d = c
      <3>1. CASE Arrive(c)
        <4>1. conn'[c] = "reading"
          BY <1>0, <3>1 DEF Arrive
        <4> QED
          BY <4>1 DEF Serial
      <3>2. CASE ReadBaseInfo(c) \/ ReadBaseInfoFails(c)
        <4>1. at'[c] = "none"
          BY <1>0, <3>2 DEF ReadBaseInfo, ReadBaseInfoFails, Take
        <4> QED
          BY <4>1 DEF Serial
      <3>3. CASE ReadCluster(c) \/ ReadClusterFails(c)
        BY <3>3, BaseOrder DEF ReadCluster, ReadClusterFails
      <3>4. CASE Register(c)
        <4>1. conn[c] = "register" /\ UNCHANGED getVars
          BY <3>4 DEF Register
        <4>2. at[c] = "none"
          <5>1. cb[c]["infra"] = "none"
            BY <1>0, <4>1 DEF Placed
          <5> QED
            BY <1>0, <4>1, <5>1 DEF Serial
        <4> QED
          BY <4>1, <4>2 DEF Serial, getVars
      <3>5. CASE Cancel(c) \/ Close(c) \/ Disconnect(c)
        <4>1. conn[c] # "reading" /\ UNCHANGED <<getVars, callbackVars>>
          BY <3>5 DEF Cancel, Close, Disconnect
        <4> QED
          BY <1>0, <4>1 DEF Serial, getVars, callbackVars
      <3> QED
        BY <1>6, <2>2, <3>1, <3>2, <3>3, <3>4, <3>5 DEF HandlerStep, Handler
    <2> QED
      BY <2>1, <2>2
  <1>7. ASSUME NEW d \in Clients, NEW f \in Feeds, CallbackStep(d, f) PROVE Serial(c)'
    <2>0. UNCHANGED conn /\ cb[d][f] # "none"
      BY <1>7, CallbackFrame
    <2>1. CASE d # c
      <3>1. cb'[c]["infra"] = cb[c]["infra"]
        BY <1>0, <1>7, <2>1, CallbackIs, CallsFits DEF StreamInv
      <3>2. at'[c] = at[c]
        BY <1>0, <1>7, <2>1, CallbackFrame
           DEF TakeNotification, ReadFreshBaseInfo, Take, getVars
      <3> QED
        BY <1>0, <2>0, <3>1, <3>2 DEF Serial
    <2>2. CASE d = c
      <3>0. f = "infra" /\ conn[c] # "reading"
        BY <1>0, <2>0, <2>2, BaseOrder DEF Placed
      <3>1. CASE TakeNotification(c, "infra")
        <4>1. at[c] = "none"
          BY <1>0, <3>0, <3>1 DEF TakeNotification, Serial
        <4>2. cb \in [Clients -> [Feeds -> CallbackPlaces]]
          BY DEF StreamInv, CallbacksOK
        <4>3. cb'[c]["infra"] = "read" \/ at' = at
          BY <1>0, <3>1, <4>2 DEF TakeNotification
        <4> QED
          BY <4>1, <4>3 DEF Serial
      <3>2. CASE ReadFreshBaseInfo(c, "infra")
        <4>1. at'[c] = "none"
          BY <1>0, <3>2 DEF ReadFreshBaseInfo, Take
        <4> QED
          BY <4>1 DEF Serial
      <3>3. CASE ReadFreshCluster(c, "infra") \/ FreshClusterFails(c, "infra")
        BY <3>3, BaseOrder DEF ReadFreshCluster, FreshClusterFails
      <3>4. CASE CheckContext(c, "infra") \/ BeginSend(c, "infra") \/ Receive(c, "infra")
                 \/ SendPanics(c, "infra")
        <4>1. cb[c]["infra"] # "read" /\ UNCHANGED getVars
          BY <3>4 DEF CheckContext, BeginSend, Receive, SendPanics
        <4> QED
          BY <1>0, <3>0, <4>1 DEF Serial, getVars
      <3> QED
        BY <1>7, <2>2, <3>0, <3>1, <3>2, <3>3, <3>4 DEF CallbackStep, Callback
    <2> QED
      BY <2>1, <2>2
  <1> QED
    BY <1>2, <1>3, <1>4, <1>5, <1>6, <1>7, NextIs

LEMMA InitFits == Init => StreamInv
  <1> SUFFICES ASSUME Init PROVE StreamInv
    OBVIOUS
  <1>1. WorldOK
    BY Bounds DEF Init, WorldOK
  <1>2. MapsOK
    BY Bounds DEF Init, MapsOK, NoEntries
  <1>3. CallersOK
    BY Bounds, KindFacts, NothingIsAnAnswer DEF Init, CallersOK, Stages
  <1>4. HandlersOK
    BY NothingIsAnAnswer DEF Init, HandlersOK, Places
  <1>5. CallbacksOK
    <2>1. cb \in [Clients -> [Feeds -> CallbackPlaces]]
      BY DEF Init, CallbackPlaces
    <2>2. << >> \in Seq(Events)
      OBVIOUS
    <2>3. queue \in [Clients -> [Feeds -> Seq(Events)]]
      BY <2>2 DEF Init
    <2>4. msg \in [Clients -> [Feeds -> Versions]] /\ late = {}
      BY NothingIsAnAnswer DEF Init
    <2> QED
      BY <2>1, <2>3, <2>4 DEF CallbacksOK
  <1>6. ASSUME NEW c \in Clients PROVE Placed(c)
    <2>1. conn[c] = "idle" /\ step[c] = 0 /\ \A f \in Feeds : cb[c][f] = "none"
      BY <1>4 DEF Init
    <2> QED
      BY <2>1 DEF Placed
  <1>7. ASSUME NEW c \in BaseInfoClients PROVE Serial(c)
    BY BaseOrder DEF Init, Serial
  <1> QED
    BY <1>1, <1>2, <1>3, <1>4, <1>5, <1>6, <1>7 DEF StreamInv, Positions, Serials

LEMMA StreamStep == StreamInv /\ [Next]_vars => StreamInv'
  BY WorldStep, CallersStep, HandlersStep, CallbacksStep, PositionsStep, SerialsStep
     DEF StreamInv

LEMMA StreamInvariant == Spec => []StreamInv
  BY InitFits, StreamStep, PTL DEF Spec

(* Every variable keeps its type, an informer is never ahead of the API    *)
(* server, and a callback belongs to an informer its own handler           *)
(* registered with (AddEventHandler), however many clients stream.         *)
THEOREM TypeCorrect == Spec => []TypeOK
  <1>1. StreamInv => TypeOK
    BY DEF StreamInv, WorldOK, MapsOK, CallersOK, HandlersOK, CallbacksOK, Positions, Placed,
       TypeOK, Stages, Places, CallbackPlaces, Events
  <1> QED
    BY <1>1, StreamInvariant, PTL

-----------------------------------------------------------------------------
(* What ends the process.                                                  *)

(* A callback that took its notification after the cancel has not passed   *)
(* the look at its context, and will not.                                  *)
LateOK ==
    \A c \in Clients, f \in Feeds :
        <<c, f>> \in late => Cancelled(c) /\ cb[c][f] \notin {"passed", "send"}

LEMMA CancelledStays ==
    ASSUME StreamInv, [Next]_vars, NEW c \in Clients, Cancelled(c)
    PROVE  Cancelled(c)'
  <1>0. conn \in [Clients -> Places]
    BY DEF StreamInv, HandlersOK
  <1>1. ASSUME NEW d \in Clients, HandlerStep(d) PROVE Cancelled(c)'
    BY <1>0, <1>1, HandlerFrame DEF Cancelled
  <1>2. CASE \E f \in Feeds : InformerStep(f)
    BY <1>2, InformerFrame DEF Cancelled, handlerVars
  <1>3. CASE ConcurrentMapAccess \/ UNCHANGED vars
    BY <1>3 DEF ConcurrentMapAccess, vars, Cancelled, handlerVars
  <1>4. CASE \E d \in Callers : CallStep(d)
    BY <1>4, CallFrame DEF Cancelled, handlerVars
  <1>5. CASE \E o \in Others : OtherCalls(o) \/ OtherReturns(o)
    BY <1>5, OtherFrame DEF Cancelled, handlerVars
  <1>6. CASE \E d \in Clients, f \in Feeds : CallbackStep(d, f)
    BY <1>6, CallbackFrame DEF Cancelled
  <1> QED
    BY <1>1, <1>2, <1>3, <1>4, <1>5, <1>6, NextIs

LEMMA LateStep == StreamInv /\ LateOK /\ [Next]_vars => LateOK'
  <1> SUFFICES ASSUME StreamInv, LateOK, [Next]_vars, NEW c \in Clients, NEW f \in Feeds,
                      <<c, f>> \in late'
               PROVE  Cancelled(c)' /\ cb'[c][f] \notin {"passed", "send"}
    BY DEF LateOK
  <1>1. ASSUME UNCHANGED late, cb'[c][f] \in {cb[c][f], "wait"}
        PROVE  Cancelled(c)' /\ cb'[c][f] \notin {"passed", "send"}
    BY <1>1, CancelledStays DEF LateOK
  <1>2. ASSUME NEW d \in Clients, NEW g \in Feeds, CallbackStep(d, g)
        PROVE  Cancelled(c)' /\ cb'[c][f] \notin {"passed", "send"}
    <2>1. PICK p \in CallbackPlaces, m \in Versions :
              /\ Calls(d, g, p, m)
              /\ p \in {"passed", "send"} => cb[d][g] \in {"check", "passed", "send"}
              /\ p \in {"passed", "send"} => cb[d][g] \in {"passed", "send"} \/ ~Cancelled(d)
      BY <1>2, CallbackIs
    <2>2. CASE <<c, f>> \in late
      <3>1. CASE d = c /\ g = f
        <4>1. cb'[c][f] = p
          BY <2>1, <3>1, CallsFits DEF StreamInv
        <4> QED
          BY <2>1, <2>2, <3>1, <4>1, CancelledStays DEF LateOK
      <3>2. CASE d # c \/ g # f
        <4>1. cb'[c][f] = cb[c][f]
          BY <2>1, <3>2, CallsFits DEF StreamInv
        <4> QED
          BY <2>2, <4>1, CancelledStays DEF LateOK
      <3> QED
        BY <3>1, <3>2
    <2>3. CASE <<c, f>> \notin late
      <3>1. TakeNotification(d, g)
        BY <1>2, <2>3, CallbackFrame
      <3>2. d = c /\ g = f /\ Cancelled(c) /\ cb[c][f] = "wait"
        BY <2>3, <3>1 DEF TakeNotification
      <3>3. cb'[c][f] = p
        BY <2>1, <3>2, CallsFits DEF StreamInv
      <3> QED
        BY <2>1, <3>2, <3>3, CancelledStays
    <2> QED
      BY <2>2, <2>3
  <1>3. ASSUME NEW d \in Clients, HandlerStep(d)
        PROVE  Cancelled(c)' /\ cb'[c][f] \notin {"passed", "send"}
    <2>1. UNCHANGED late
      BY <1>3, HandlerFrame DEF StreamInv, HandlersOK
    <2>2. cb'[c][f] \in {cb[c][f], "wait"}
      BY <1>3, HandlerFrame, RegisterIs DEF StreamInv, HandlersOK
    <2> QED
      BY <1>1, <2>1, <2>2
  <1>4. CASE \E g \in Feeds : InformerStep(g)
    BY <1>1, <1>4, InformerFrame
  <1>5. CASE ConcurrentMapAccess \/ UNCHANGED vars
    BY <1>1, <1>5 DEF ConcurrentMapAccess, vars, callbackVars
  <1>6. CASE \E d \in Callers : CallStep(d)
    BY <1>1, <1>6, CallFrame DEF callbackVars
  <1>7. CASE \E o \in Others : OtherCalls(o) \/ OtherReturns(o)
    BY <1>1, <1>7, OtherFrame DEF callbackVars
  <1> QED
    BY <1>2, <1>3, <1>4, <1>5, <1>6, <1>7, NextIs

(* Once the process has ended, nothing that its end is put down to changes. *)
LEMMA EndStep == StreamInv /\ LateOK /\ PanicHasCause /\ [Next]_vars => PanicHasCause'
  <1> SUFFICES ASSUME StreamInv, LateOK, PanicHasCause, [Next]_vars PROVE PanicHasCause'
    OBVIOUS
  <1>1. ASSUME UNCHANGED <<at, conn, cb, late, up>> PROVE PanicHasCause'
    BY <1>1 DEF PanicHasCause, MapConflict
  <1>2. ASSUME up, UNCHANGED up PROVE PanicHasCause'
    BY <1>2 DEF PanicHasCause
  <1>3. CASE ConcurrentMapAccess
    <2>1. MapConflict /\ UNCHANGED at
      BY <1>3 DEF ConcurrentMapAccess, getVars
    <2>2. MapConflict'
      BY <2>1 DEF MapConflict
    <2> QED
      BY <2>2 DEF PanicHasCause
  <1>4. ASSUME NEW c \in Clients, NEW f \in Feeds, CallbackStep(c, f) PROVE PanicHasCause'
    <2>1. CASE SendPanics(c, f)
      <3>1. /\ cb[c][f] = "send" /\ conn[c] = "closed" /\ <<c, f>> \notin late
            /\ UNCHANGED <<conn, cb, late>>
        BY <2>1 DEF SendPanics, LateOK, handlerVars, callbackVars
      <3> QED
        BY <3>1 DEF PanicHasCause
    <2> QED
      BY <1>2, <1>4, <2>1, CallbackFrame
  <1>5. CASE \E f \in Feeds : InformerStep(f)
    BY <1>1, <1>5, InformerFrame DEF getVars, handlerVars
  <1>6. CASE UNCHANGED vars
    BY <1>1, <1>6 DEF vars, getVars, handlerVars, callbackVars
  <1>7. CASE \E c \in Callers : CallStep(c)
    BY <1>2, <1>7, CallFrame
  <1>8. CASE \E o \in Others : OtherCalls(o) \/ OtherReturns(o)
    BY <1>2, <1>8, OtherFrame
  <1>9. CASE \E c \in Clients : HandlerStep(c)
    BY <1>2, <1>9, HandlerFrame DEF StreamInv, HandlersOK
  <1> QED
    BY <1>3, <1>4, <1>5, <1>6, <1>7, <1>8, <1>9, NextIs

(* The process ends only in a conflict over the shared maps, or by a send  *)
(* whose callback took its notification before the client's handler        *)
(* cancelled the context (api/baseinfo.go, api/cluster.go): for any number *)
(* of clients, a callback that is told of a change later never comes to    *)
(* its send, although it is never removed.                                 *)
THEOREM EndHasCause == Spec => []PanicHasCause
  <1>1. Init => LateOK /\ PanicHasCause
    BY DEF Init, LateOK, PanicHasCause
  <1> QED
    BY <1>1, LateStep, EndStep, StreamInvariant, PTL DEF Spec

-----------------------------------------------------------------------------
(* The base information goes forward.                                      *)

(* Nothing that was read is newer than the resource. *)
NoNewer ==
    /\ \A k \in Kinds : infos[k] <= version["infra"]
    /\ \A c \in Callers : got[c] <= version["infra"]
    /\ \A c \in BaseInfoClients, k \in Kinds :
        /\ made[c][k] <= version["infra"]
        /\ shown[c][k] <= version["infra"]
        /\ msg[c]["infra"][k] <= version["infra"]

AloneInside ==
    \A c, d \in Callers : c # d /\ alone[c] /\ InMaps(c) => ~InMaps(d)

(* What a call that was alone and lost nothing has got so far is as new as *)
(* what its client is shown, and so is the answer that a callback made.    *)
AsNew(c) ==
    /\ at[c] \in {"get", "set"} =>
        \A j \in 1 .. N : j < pos[c] => infos[KindSeq[j]] >= shown[c][KindSeq[j]]
    /\ at[c] = "set" => \A k \in Kinds : got[c] >= shown[c][k]
    /\ at[c] = "build" =>
        /\ \A k \in Kinds : infos[k] >= shown[c][k]
        /\ \A j \in 1 .. N : j < pos[c] => made[c][KindSeq[j]] >= shown[c][KindSeq[j]]
    /\ at[c] = "built" => \A k \in Kinds : made[c][k] >= shown[c][k]
    /\ cb[c]["infra"] \in {"check", "passed", "send"} =>
        \A k \in Kinds : msg[c]["infra"][k] >= shown[c][k]

Undisturbed(c) == alone[c] /\ ~lost[c]

AsNews == \A c \in BaseInfoClients : Undisturbed(c) => AsNew(c)

LEMMA Numbers ==
    ASSUME StreamInv
    PROVE  /\ version["infra"] \in Nat
           /\ \A k \in Kinds : infos[k] \in Nat
           /\ \A c \in Callers : got[c] \in Nat /\ pos[c] \in 1 .. N
           /\ \A c \in BaseInfoClients, k \in Kinds :
                made[c][k] \in Nat /\ shown[c][k] \in Nat /\ msg[c]["infra"][k] \in Nat
  <1>1. "infra" \in Feeds /\ Kinds \subseteq Items /\ MaxVersion \in Nat
    BY KindFacts, Bounds DEF Feeds
  <1>2. version["infra"] \in Nat /\ (\A k \in Kinds : infos[k] \in Nat)
        /\ \A c \in Callers : got[c] \in Nat /\ pos[c] \in 1 .. N
    BY <1>1 DEF StreamInv, WorldOK, MapsOK, CallersOK
  <1>3. ASSUME NEW c \in BaseInfoClients, NEW k \in Kinds
        PROVE  made[c][k] \in Nat /\ shown[c][k] \in Nat /\ msg[c]["infra"][k] \in Nat
    <2>1. made[c] \in Versions /\ shown[c] \in Versions /\ msg[c]["infra"] \in Versions
      BY <1>1, BaseOrder DEF StreamInv, CallersOK, HandlersOK, CallbacksOK
    <2> QED
      BY <1>1, <2>1 DEF Versions
  <1> QED
    BY <1>2, <1>3

LEMMA VersionGrows ==
    ASSUME StreamInv, [Next]_vars
    PROVE  version'["infra"] >= version["infra"]
  <1>0. version \in [Feeds -> 1 .. MaxVersion] /\ "infra" \in Feeds /\ MaxVersion \in Nat
    BY Bounds DEF StreamInv, WorldOK, Feeds
  <1>1. ASSUME NEW f \in Feeds, InformerStep(f) PROVE version'["infra"] >= version["infra"]
    <2>1. CASE Change(f)
      BY <1>0, <2>1 DEF Change
    <2> QED
      BY <1>0, <1>1, <2>1, InformerFrame
  <1>2. ASSUME UNCHANGED informerVars PROVE version'["infra"] >= version["infra"]
    BY <1>0, <1>2 DEF informerVars
  <1> QED
    BY <1>1, <1>2, NextIs, CallFrame, OtherFrame, HandlerFrame, CallbackFrame
       DEF ConcurrentMapAccess, vars, StreamInv, HandlersOK

LEMMA AloneStep == StreamInv /\ AloneInside /\ [Next]_vars => AloneInside'
  <1> SUFFICES ASSUME StreamInv, AloneInside, [Next]_vars, NEW c \in Callers, NEW d \in Callers,
                      c # d, alone'[c], InMaps(c)'
               PROVE  ~InMaps(d)'
    BY DEF AloneInside
  <1>0. at \in [Callers -> Stages] /\ alone \in [Callers -> BOOLEAN]
    BY DEF StreamInv, CallersOK
  <1>1. CASE UNCHANGED getVars
    BY <1>1 DEF AloneInside, InMaps, getVars
  <1>2. ASSUME NEW e \in Callers, CallStep(e), ~ResetMaps(e) PROVE ~InMaps(d)'
    <2>1. UNCHANGED alone /\ (InMaps(e)' => InMaps(e))
      <3>1. CASE GetConfigMap(e) \/ AssignConfigMap(e) \/ AssignConfigMapFails(e)
        BY <1>0, <3>1 DEF GetConfigMap, AssignConfigMap, AssignConfigMapFails, InMaps
      <3>2. CASE GetInfra(e) \/ GetInfraFails(e)
        BY <1>0, <3>2 DEF GetInfra, GetInfraFails, InMaps
      <3>3. CASE checkStatus(e) \/ BuildAnswer(e)
        BY <1>0, <3>3 DEF checkStatus, BuildAnswer, InMaps
      <3> QED
        BY <1>2, <3>1, <3>2, <3>3 DEF CallStep, BaseInfoCall
    <2>2. \A x \in Callers : x # e => at'[x] = at[x]
      BY <1>0, <1>2, CallFrame
    <2> QED
      BY <2>1, <2>2 DEF AloneInside, InMaps
  <1>3. ASSUME NEW e \in Callers, ResetMaps(e) PROVE ~InMaps(d)'
    <2>1. \A x \in Callers : x # e => at'[x] = at[x]
      BY <1>0, <1>3 DEF ResetMaps
    <2>2. CASE c = e
      <3>1. \A x \in Callers \ {c} : ~InMaps(x)
        BY <1>3, <2>2 DEF ResetMaps
      <3> QED
        BY <2>1, <2>2, <3>1 DEF InMaps
    <2>3. CASE c # e
      <3>1. alone[c] /\ ~InMaps(c)
        BY <1>3, <2>3 DEF ResetMaps
      <3> QED
        BY <2>1, <2>3, <3>1 DEF InMaps
    <2> QED
      BY <2>2, <2>3
  <1>4. ASSUME NEW e \in Callers, Enters(e) \/ Leaves(e) PROVE ~InMaps(d)'
    BY <1>0, <1>4 DEF Enters, Leaves, Take, AloneInside, InMaps
  <1> QED
    BY <1>1, <1>2, <1>3, <1>4, CallMoves

(* What has been read: the maps and the variables of BaseInfoGet. *)
LEMMA NoNewerRead ==
    ASSUME StreamInv, NoNewer, [Next]_vars
    PROVE  /\ \A k \in Kinds : infos'[k] <= version["infra"]
           /\ \A c \in Callers : got'[c] <= version["infra"]
           /\ \A c \in BaseInfoClients, k \in Kinds : made'[c][k] <= version["infra"]
  <1> DEFINE v == version["infra"]
             Goal == /\ \A k \in Kinds : infos'[k] <= v
                     /\ \A c \in Callers : got'[c] <= v
                     /\ \A c \in BaseInfoClients, k \in Kinds : made'[c][k] <= v
  <1>0. /\ infos \in [Kinds -> 0 .. MaxVersion] /\ got \in [Callers -> 0 .. MaxVersion]
        /\ made \in [BaseInfoClients -> Versions] /\ v \in Nat
        /\ Kinds \subseteq Items /\ \A k \in Kinds : Nothing[k] <= v
    BY Numbers, KindFacts DEF StreamInv, MapsOK, CallersOK, Nothing
  <1>1. CASE UNCHANGED getVars
    BY <1>1 DEF NoNewer, getVars
  <1>2. ASSUME NEW c \in Callers, Enters(c) PROVE Goal
    BY <1>2 DEF NoNewer, Enters
  <1>3. ASSUME NEW c \in Callers, Leaves(c) PROVE Goal
    <2>1. UNCHANGED <<infos, got>>
          /\ (made' = made \/ made' = [made EXCEPT ![c] = Nothing])
      BY <1>3 DEF Leaves, Take
    <2> QED
      BY <1>0, <2>1 DEF NoNewer
  <1>4. ASSUME NEW c \in Callers, CallStep(c) PROVE Goal
    <2>1. CASE GetConfigMap(c) \/ AssignConfigMap(c) \/ AssignConfigMapFails(c)
      BY <2>1 DEF GetConfigMap, AssignConfigMap, AssignConfigMapFails, NoNewer
    <2>2. CASE ResetMaps(c)
      BY <1>0, <2>2 DEF ResetMaps, NoEntries, NoNewer
    <2>3. CASE GetInfra(c) \/ GetInfraFails(c)
      <3>1. PICK x \in {v, 0} : got' = [got EXCEPT ![c] = x]
        BY <2>3 DEF GetInfra, GetInfraFails, Current
      <3>2. UNCHANGED <<infos, made>>
        BY <2>3 DEF GetInfra, GetInfraFails
      <3> QED
        BY <1>0, <3>1, <3>2 DEF NoNewer
    <2>4. CASE checkStatus(c)
      <3>1. /\ infos' = [infos EXCEPT ![KindSeq[pos[c]]] = got[c]]
            /\ got' = [got EXCEPT ![c] = 0] /\ made' = made
        BY <2>4 DEF checkStatus
      <3> QED
        BY <1>0, <3>1 DEF NoNewer
    <2>5. CASE BuildAnswer(c)
      <3> DEFINE k == KindSeq[pos[c]]
      <3>0. k \in Kinds
        BY Numbers, KindFacts
      <3> HIDE DEF k
      <3>1. UNCHANGED <<infos, got>>
            /\ (made' = made \/ made' = [made EXCEPT ![c] = [made[c] EXCEPT ![k] = infos[k]]])
        BY <2>5 DEF BuildAnswer, k
      <3>2. ASSUME NEW d \in BaseInfoClients, NEW l \in Kinds
            PROVE  made'[d][l] \in {made[d][l], infos[l]}
        <4>1. made[d] \in Versions
          BY <1>0
        <4> QED
          BY <1>0, <3>0, <3>1, <4>1 DEF Versions
      <3> QED
        BY <3>1, <3>2 DEF NoNewer
    <2> QED
      BY <1>4, <2>1, <2>2, <2>3, <2>4, <2>5 DEF CallStep, BaseInfoCall
  <1> QED
    BY <1>1, <1>2, <1>3, <1>4, CallMoves

(* The answer of a client's callback. *)
LEMMA AnswerIs ==
    ASSUME StreamInv, [Next]_vars, NEW c \in BaseInfoClients
    PROVE  msg'[c]["infra"] \in {msg[c]["infra"], made[c], Nothing}
  <1>0. c \in Clients /\ "infra" \in Feeds
    BY BaseOrder
  <1>1. ASSUME NEW d \in Clients, NEW f \in Feeds, CallbackStep(d, f)
        PROVE  msg'[c]["infra"] \in {msg[c]["infra"], made[c], Nothing}
    <2>1. PICK p \in CallbackPlaces, m \in Versions :
              Calls(d, f, p, m) /\ (d \in BaseInfoClients => m \in {made[d], msg[d][f], Nothing})
      BY <1>1, CallbackIs
    <2> QED
      BY <1>0, <2>1, CallsFits DEF StreamInv
  <1> QED
    BY <1>1, NextIs, InformerFrame, CallFrame, OtherFrame, HandlerFrame
       DEF ConcurrentMapAccess, vars, callbackVars, StreamInv, HandlersOK

LEMMA NoNewerStep == StreamInv /\ NoNewer /\ [Next]_vars => NoNewer'
  <1> SUFFICES ASSUME StreamInv, NoNewer, [Next]_vars PROVE NoNewer'
    OBVIOUS
  <1>0. StreamInv'
    BY StreamStep
  <1>1. version["infra"] \in Nat /\ version'["infra"] \in Nat
        /\ version'["infra"] >= version["infra"]
    <2>1. version' \in [Feeds -> 1 .. MaxVersion] /\ "infra" \in Feeds
      BY <1>0 DEF StreamInv, WorldOK, Feeds
    <2> QED
      BY <2>1, VersionGrows, Numbers, Bounds
  <1>2. /\ infos' \in [Kinds -> 0 .. MaxVersion] /\ got' \in [Callers -> 0 .. MaxVersion]
        /\ made' \in [BaseInfoClients -> Versions] /\ Kinds \subseteq Items
    BY <1>0, KindFacts DEF StreamInv, MapsOK, CallersOK
  <1>3. /\ \A k \in Kinds : infos'[k] <= version'["infra"]
        /\ \A c \in Callers : got'[c] <= version'["infra"]
    BY <1>1, <1>2, NoNewerRead, Bounds
  <1>4. ASSUME NEW c \in BaseInfoClients, NEW k \in Kinds
        PROVE  /\ made'[c][k] <= version'["infra"]
               /\ shown'[c][k] <= version'["infra"]
               /\ msg'[c]["infra"][k] <= version'["infra"]
    <2>0. made[c][k] \in Nat /\ shown[c][k] \in Nat /\ msg[c]["infra"][k] \in Nat
      BY Numbers
    <2>1. made'[c][k] \in Nat /\ made'[c][k] <= version["infra"]
      <3>1. made'[c] \in Versions
        BY <1>2
      <3> QED
        BY <1>2, <3>1, NoNewerRead, Bounds DEF Versions
    <2>2. shown'[c][k] \in {shown[c][k], made[c][k], msg[c]["infra"][k]}
      BY ShownIs
    <2>3. msg'[c]["infra"][k] \in {msg[c]["infra"][k], made[c][k], 0}
      <3>1. Nothing[k] = 0
        BY <1>2 DEF Nothing
      <3> QED
        BY <3>1, AnswerIs
    <2>4. /\ made[c][k] <= version["infra"] /\ shown[c][k] <= version["infra"]
          /\ msg[c]["infra"][k] <= version["infra"]
      BY DEF NoNewer
    <2> QED
      BY <1>1, <2>0, <2>1, <2>2, <2>3, <2>4
  <1> QED
    BY <1>3, <1>4 DEF NoNewer


(* A step of the client's own BaseInfoGet. *)
LEMMA OwnStep ==
    ASSUME StreamInv, NoNewer, [Next]_vars, NEW c \in BaseInfoClients,
           Undisturbed(c) => AsNew(c), CallStep(c), Undisturbed(c)'
    PROVE  AsNew(c)'
  <1>0. /\ at \in [Callers -> Stages] /\ pos \in [Callers -> 1 .. N]
        /\ infos \in [Kinds -> 0 .. MaxVersion] /\ got \in [Callers -> 0 .. MaxVersion]
        /\ made \in [BaseInfoClients -> Versions] /\ alone \in [Callers -> BOOLEAN]
        /\ lost \in [Callers -> BOOLEAN] /\ c \in Callers /\ c \in Clients /\ c \notin Others
        /\ N \in Nat /\ N >= 1 /\ \A j \in 1 .. N : KindSeq[j] \in Kinds
    BY BaseOrder, KindFacts DEF StreamInv, MapsOK, CallersOK
  <1>1. shown' = shown /\ cb' = cb /\ msg' = msg /\ at[c] \notin {"none", "built", "failed"}
    BY <1>0, CallFrame DEF handlerVars, callbackVars
  <1>2. cb[c]["infra"] \notin {"check", "passed", "send"}
    <2>1. Serial(c) /\ Placed(c) /\ "infra" \in Feeds
      BY <1>0, BaseOrder DEF StreamInv, Serials, Positions
    <2> QED
      BY <1>1, <2>1 DEF Serial, Placed
  <1>3. /\ \A k \in Kinds : infos[k] \in Nat /\ shown[c][k] \in Nat /\ made[c][k] \in Nat
        /\ \A k \in Kinds : version["infra"] >= shown[c][k]
        /\ got[c] \in Nat /\ pos[c] \in 1 .. N
    BY <1>0, Numbers DEF NoNewer
  <1>4. CASE GetConfigMap(c) \/ AssignConfigMap(c) \/ AssignConfigMapFails(c)
    <2>1. at'[c] \in {"lookup", "reset", "failed"}
      BY <1>0, <1>4 DEF GetConfigMap, AssignConfigMap, AssignConfigMapFails
    <2> QED
      BY <1>1, <1>2, <2>1 DEF AsNew
  <1>5. CASE ResetMaps(c)
    <2>1. at[c] = "reset" /\ at'[c] = "get" /\ pos' = pos
      BY <1>0, <1>5 DEF ResetMaps
    <2>2. pos'[c] = 1
      BY <1>0, <2>1 DEF StreamInv, CallersOK, InMaps
    <2> QED
      BY <1>1, <1>2, <2>1, <2>2 DEF AsNew
  <1>6. CASE GetInfra(c) \/ GetInfraFails(c)
    <2>1. at[c] = "get" /\ at'[c] = "set" /\ pos' = pos /\ infos' = infos /\ alone' = alone
      BY <1>0, <1>6 DEF GetInfra, GetInfraFails
    <2>2. GetInfra(c) /\ config = "real" /\ ~lost[c]
      BY <1>0, <1>6 DEF GetInfra, GetInfraFails, Undisturbed
    <2>3. got'[c] = version["infra"]
      BY <1>0, <2>2 DEF GetInfra, Current
    <2>4. AsNew(c)
      BY <2>1, <2>2 DEF Undisturbed
    <2> QED
      BY <1>1, <1>2, <1>3, <2>1, <2>3, <2>4 DEF AsNew
  <1>7. CASE checkStatus(c)
    <2>1. /\ at[c] = "set" /\ alone' = alone /\ lost' = lost
          /\ infos' = [infos EXCEPT ![KindSeq[pos[c]]] = got[c]]
      BY <1>7 DEF checkStatus
    <2>2. AsNew(c)
      BY <2>1 DEF Undisturbed
    <2>3. \A k \in Kinds : got[c] >= shown[c][k]
      BY <2>1, <2>2 DEF AsNew
    <2>4. ASSUME NEW j \in 1 .. N, j <= pos[c] PROVE infos'[KindSeq[j]] >= shown[c][KindSeq[j]]
      <3>1. CASE KindSeq[j] = KindSeq[pos[c]]
        BY <1>0, <2>1, <2>3, <3>1
      <3>2. CASE KindSeq[j] # KindSeq[pos[c]]
        <4>1. j < pos[c] /\ infos'[KindSeq[j]] = infos[KindSeq[j]]
          BY <1>0, <1>3, <2>1, <2>4, <3>2
        <4> QED
          BY <2>1, <2>2, <4>1 DEF AsNew
      <3> QED
        BY <3>1, <3>2
    <2>5. CASE pos[c] = N
      <3>1. at'[c] = "build" /\ pos'[c] = 1
        BY <1>0, <1>7, <2>5 DEF checkStatus
      <3>2. \A k \in Kinds : infos'[k] >= shown[c][k]
        BY <1>3, <2>4, <2>5, KindFacts
      <3> QED
        BY <1>1, <1>2, <3>1, <3>2 DEF AsNew
    <2>6. CASE pos[c] # N
      <3>1. at'[c] = "get" /\ pos'[c] = pos[c] + 1
        BY <1>0, <1>7, <2>6 DEF checkStatus
      <3>2. \A j \in 1 .. N : j < pos'[c] => infos'[KindSeq[j]] >= shown[c][KindSeq[j]]
        BY <1>3, <2>4, <3>1
      <3> QED
        BY <1>1, <1>2, <3>1, <3>2 DEF AsNew
    <2> QED
      BY <2>5, <2>6
  <1>8. CASE BuildAnswer(c)
    <2>1. /\ at[c] = "build" /\ alone' = alone /\ lost' = lost /\ infos' = infos
          /\ made' = [made EXCEPT ![c] =
                         [made[c] EXCEPT ![KindSeq[pos[c]]] = infos[KindSeq[pos[c]]]]]
      BY <1>0, <1>8 DEF BuildAnswer
    <2>2. AsNew(c)
      BY <2>1 DEF Undisturbed
    <2>3. \A k \in Kinds : infos[k] >= shown[c][k]
      BY <2>1, <2>2 DEF AsNew
    <2>4. ASSUME NEW j \in 1 .. N, j <= pos[c]
          PROVE  made'[c][KindSeq[j]] >= shown[c][KindSeq[j]]
      <3>0. /\ made[c] \in [Items -> 0 .. MaxVersion] /\ KindSeq[j] \in Items
            /\ KindSeq[pos[c]] \in Items /\ KindSeq[j] \in Kinds
            /\ made'[c] = [made[c] EXCEPT ![KindSeq[pos[c]]] = infos[KindSeq[pos[c]]]]
        BY <1>0, <1>3, <2>1, KindFacts DEF Versions
      <3>1. CASE KindSeq[j] = KindSeq[pos[c]]
        BY <2>3, <3>0, <3>1
      <3>2. CASE KindSeq[j] # KindSeq[pos[c]]
        <4>1. j < pos[c] /\ made'[c][KindSeq[j]] = made[c][KindSeq[j]]
          <5>1. j # pos[c]
            BY <3>2
          <5> QED
            BY <1>3, <2>4, <3>0, <3>2, <5>1
        <4> QED
          BY <2>1, <2>2, <4>1 DEF AsNew
      <3> QED
        BY <3>1, <3>2
    <2>5. CASE pos[c] = N
      <3>1. at'[c] = "built"
        BY <1>0, <1>8, <2>5 DEF BuildAnswer
      <3>2. \A k \in Kinds : made'[c][k] >= shown[c][k]
        BY <1>3, <2>4, <2>5, KindFacts
      <3> QED
        BY <1>1, <1>2, <3>1, <3>2 DEF AsNew
    <2>6. CASE pos[c] # N
      <3>1. at'[c] = "build" /\ pos'[c] = pos[c] + 1
        BY <1>0, <1>8, <2>6 DEF BuildAnswer
      <3>2. \A j \in 1 .. N : j < pos'[c] => made'[c][KindSeq[j]] >= shown[c][KindSeq[j]]
        BY <1>3, <2>4, <3>1
      <3> QED
        BY <1>1, <1>2, <2>1, <2>3, <3>1, <3>2 DEF AsNew
    <2> QED
      BY <2>5, <2>6
  <1> QED
    BY <1>4, <1>5, <1>6, <1>7, <1>8 DEF CallStep, BaseInfoCall

(* A step of another's BaseInfoGet. *)
LEMMA ForeignStep ==
    ASSUME StreamInv, AloneInside, NEW c \in BaseInfoClients, Undisturbed(c) => AsNew(c),
           NEW d \in Callers, d # c, CallStep(d), Undisturbed(c)'
    PROVE  AsNew(c)'
  <1>0. /\ at \in [Callers -> Stages] /\ pos \in [Callers -> 1 .. N] /\ c \in Callers
        /\ got \in [Callers -> 0 .. MaxVersion] /\ made \in [BaseInfoClients -> Versions]
        /\ alone \in [Callers -> BOOLEAN] /\ lost \in [Callers -> BOOLEAN]
    BY BaseOrder DEF StreamInv, CallersOK
  <1>1. shown' = shown /\ cb' = cb /\ msg' = msg /\ at'[c] = at[c]
    BY <1>0, CallFrame DEF handlerVars, callbackVars
  <1>2. /\ pos'[c] = pos[c] /\ got'[c] = got[c] /\ made'[c] = made[c] /\ lost'[c] = lost[c]
        /\ alone'[c] => alone[c]
        /\ infos' = infos \/ (ResetMaps(d) /\ ~(alone'[c] /\ InMaps(c))) \/ checkStatus(d)
    <2>1. CASE GetConfigMap(d) \/ AssignConfigMap(d) \/ AssignConfigMapFails(d)
      BY <2>1 DEF GetConfigMap, AssignConfigMap, AssignConfigMapFails
    <2>2. CASE ResetMaps(d)
      BY <1>0, <2>2 DEF ResetMaps
    <2>3. CASE GetInfra(d) \/ GetInfraFails(d)
      BY <1>0, <2>3 DEF GetInfra, GetInfraFails
    <2>4. CASE checkStatus(d)
      BY <1>0, <2>4 DEF checkStatus
    <2>5. CASE BuildAnswer(d)
      BY <1>0, <2>5 DEF BuildAnswer
    <2> QED
      BY <2>1, <2>2, <2>3, <2>4, <2>5 DEF CallStep, BaseInfoCall
  <1>3. Undisturbed(c) /\ AsNew(c)
    BY <1>2 DEF Undisturbed
  <1>4. InMaps(c) => infos' = infos
    <2>1. checkStatus(d) => InMaps(d)
      BY DEF checkStatus, InMaps
    <2> QED
      BY <1>0, <1>2, <1>3, <2>1 DEF AloneInside, Undisturbed
  <1> QED
    BY <1>1, <1>2, <1>3, <1>4 DEF AsNew, InMaps

(* A step of the client's handler or of its callback. *)
LEMMA StreamingStep ==
    ASSUME StreamInv, [Next]_vars, NEW c \in BaseInfoClients, Undisturbed(c) => AsNew(c),
           Undisturbed(c)',
           HandlerStep(c) \/ CallbackStep(c, "infra")
    PROVE  AsNew(c)'
  <1>0. /\ at \in [Callers -> Stages] /\ c \in Callers /\ c \in Clients /\ "infra" \in Feeds
        /\ made \in [BaseInfoClients -> Versions] /\ conn \in [Clients -> Places]
        /\ Serial(c) /\ Placed(c) /\ CallbacksOK
        /\ shown \in [Clients -> Versions] /\ c \notin ClusterClients
    BY BaseOrder DEF StreamInv, CallersOK, HandlersOK, Serials, Positions
  <1>1. UNCHANGED <<infos, pos, got, alone, lost>>
    <2>1. CASE HandlerStep(c)
      BY <1>0, <2>1, HandlerFrame DEF Arrive, ReadBaseInfo, ReadBaseInfoFails, Take, getVars
    <2>2. CASE CallbackStep(c, "infra")
      BY <1>0, <2>2, CallbackFrame
         DEF TakeNotification, ReadFreshBaseInfo, Take, getVars
    <2> QED
      BY <2>1, <2>2
  <1>2. AsNew(c)
    BY <1>1 DEF Undisturbed
  <1>3. (at'[c] = at[c] /\ made'[c] = made[c]) \/ at'[c] \in {"config", "none"}
    <2>1. CASE HandlerStep(c)
      BY <1>0, <2>1, HandlerFrame DEF Arrive, ReadBaseInfo, ReadBaseInfoFails, Take, getVars
    <2>2. CASE CallbackStep(c, "infra")
      BY <1>0, <2>2, CallbackFrame
         DEF TakeNotification, ReadFreshBaseInfo, Take, getVars
    <2> QED
      BY <2>1, <2>2
  <1>4. CASE HandlerStep(c)
    <2>1. cb'[c]["infra"] \in {cb[c]["infra"], "wait"} /\ msg' = msg
      BY <1>0, <1>4, HandlerFrame, RegisterIs
    <2>2. CASE ReadBaseInfo(c)
      <3>1. at'[c] = "none" /\ cb'[c]["infra"] = "none"
        BY <1>0, <2>2 DEF ReadBaseInfo, Take, Placed, callbackVars
      <3> QED
        BY <3>1 DEF AsNew
    <2>3. CASE ~ReadBaseInfo(c)
      <3>1. shown'[c] = shown[c]
        BY <1>0, <1>4, <2>3, HandlerFrame DEF ReadCluster
      <3> QED
        BY <1>1, <1>2, <1>3, <2>1, <3>1 DEF AsNew
    <2> QED
      BY <2>2, <2>3
  <1>5. CASE CallbackStep(c, "infra")
    <2>1. PICK p \in CallbackPlaces \ {"none"}, m \in Versions :
                /\ Calls(c, "infra", p, m)
                /\ p = "check" =>
                        m = made[c] /\ at[c] = "built" /\ cb[c]["infra"] = "read"
                /\ p \in {"passed", "send"} =>
                        m = msg[c]["infra"] /\ cb[c]["infra"] \in {"check", "passed", "send"}
      BY <1>0, <1>5, CallbackIs
    <2>2. cb'[c]["infra"] = p /\ msg'[c]["infra"] = m
      BY <1>0, <2>1, CallsFits
    <2>3. CASE Receive(c, "infra")
      <3>1. at'[c] = "none" /\ cb'[c]["infra"] = "wait"
        <4>1. at[c] = "none"
          BY <1>0, <2>3 DEF Receive, Serial
        <4> QED
          BY <1>0, <2>3, <4>1 DEF Receive, Return, CallbacksOK, getVars
      <3> QED
        BY <3>1 DEF AsNew
    <2>4. CASE ~Receive(c, "infra")
      <3>1. shown'[c] = shown[c]
        BY <1>0, <1>5, <2>4, CallbackFrame
      <3>2. p \in {"check", "passed", "send"} => \A k \in Kinds : m[k] >= shown[c][k]
        BY <1>2, <2>1 DEF AsNew
      <3> QED
        BY <1>1, <1>2, <1>3, <2>2, <3>1, <3>2 DEF AsNew
    <2> QED
      BY <2>3, <2>4
  <1> QED
    BY <1>4, <1>5


LEMMA AsNewsStep ==
    StreamInv /\ NoNewer /\ AloneInside /\ AsNews /\ [Next]_vars => AsNews'
  <1> SUFFICES ASSUME StreamInv, NoNewer, AloneInside, AsNews, [Next]_vars,
                      NEW c \in BaseInfoClients, Undisturbed(c)'
               PROVE  AsNew(c)'
    BY DEF AsNews
  <1>0. /\ Undisturbed(c) => AsNew(c)
        /\ c \in Clients /\ c \in Callers /\ c \notin Others /\ "infra" \in Feeds
        /\ at \in [Callers -> Stages] /\ made \in [BaseInfoClients -> Versions]
        /\ conn \in [Clients -> Places] /\ shown \in [Clients -> Versions]
    BY BaseOrder DEF AsNews, StreamInv, CallersOK, HandlersOK
  <1>1. ASSUME infos' = infos, pos'[c] = pos[c], got'[c] = got[c], at'[c] = at[c],
               made'[c] = made[c], alone'[c] = alone[c], lost'[c] = lost[c],
               shown'[c] = shown[c], cb'[c]["infra"] = cb[c]["infra"],
               msg'[c]["infra"] = msg[c]["infra"]
        PROVE  AsNew(c)'
    BY <1>0, <1>1 DEF AsNew, Undisturbed
  <1>2. CASE \E f \in Feeds : InformerStep(f)
    BY <1>1, <1>2, InformerFrame DEF getVars, handlerVars
  <1>3. CASE ConcurrentMapAccess \/ UNCHANGED vars
    BY <1>1, <1>3 DEF ConcurrentMapAccess, vars, getVars, handlerVars, callbackVars
  <1>4. ASSUME NEW d \in Callers, CallStep(d) PROVE AsNew(c)'
    BY <1>0, <1>4, OwnStep, ForeignStep
  <1>5. ASSUME NEW o \in Others, OtherCalls(o) \/ OtherReturns(o) PROVE AsNew(c)'
    <2>1. o # c /\ o \in Callers /\ UNCHANGED <<handlerVars, callbackVars>>
      BY <1>0, <1>5, OtherFrame, WhoCalls
    <2>2. at'[c] = at[c] /\ made'[c] = made[c] /\ UNCHANGED <<infos, pos, got, alone, lost>>
      BY <1>0, <1>5, <2>1, OtherFrame DEF Enters, Leaves, Take
    <2> QED
      BY <1>1, <2>1, <2>2 DEF handlerVars, callbackVars
  <1>6. ASSUME NEW d \in Clients, HandlerStep(d), d # c PROVE AsNew(c)'
    <2>1. at'[c] = at[c] /\ made'[c] = made[c] /\ UNCHANGED <<infos, pos, got, alone, lost>>
      <3>1. CASE Arrive(d)
        BY <1>0, <1>6, <3>1 DEF Arrive
      <3>2. CASE ReadBaseInfo(d) \/ ReadBaseInfoFails(d)
        BY <1>0, <1>6, <3>2 DEF ReadBaseInfo, ReadBaseInfoFails, Take
      <3> QED
        BY <1>0, <1>6, <3>1, <3>2, HandlerFrame DEF getVars
    <2>2. cb'[c]["infra"] = cb[c]["infra"] /\ msg' = msg
      BY <1>0, <1>6, HandlerFrame, RegisterIs
    <2>3. shown'[c] = shown[c]
      <3>1. CASE shown' = shown
        BY <3>1
      <3>2. CASE ReadBaseInfo(d)
        BY <1>0, <1>6, <3>2 DEF ReadBaseInfo
      <3>3. CASE ReadCluster(d) /\ shown' # shown
        BY <1>0, <1>6, <3>3 DEF ReadCluster
      <3> QED
        BY <1>0, <1>6, <3>1, <3>2, <3>3, HandlerFrame
    <2> QED
      BY <1>1, <2>1, <2>2, <2>3
  <1>7. ASSUME NEW d \in Clients, NEW f \in Feeds, CallbackStep(d, f), d # c PROVE AsNew(c)'
    <2>1. at'[c] = at[c] /\ made'[c] = made[c] /\ UNCHANGED <<infos, pos, got, alone, lost>>
      <3>1. CASE TakeNotification(d, f)
        BY <1>0, <1>7, <3>1 DEF TakeNotification
      <3>2. CASE ReadFreshBaseInfo(d, f)
        BY <1>0, <1>7, <3>2 DEF ReadFreshBaseInfo, Take
      <3> QED
        BY <1>0, <1>7, <3>1, <3>2, CallbackFrame DEF getVars
    <2>2. cb'[c]["infra"] = cb[c]["infra"] /\ msg'[c]["infra"] = msg[c]["infra"]
      BY <1>0, <1>7, CallbackIs, CallsFits DEF StreamInv
    <2>3. shown'[c] = shown[c]
      BY <1>0, <1>7, CallbackFrame DEF Receive
    <2> QED
      BY <1>1, <2>1, <2>2, <2>3
  <1>8. CASE HandlerStep(c)
    BY <1>0, <1>8, StreamingStep
  <1>9. ASSUME NEW f \in Feeds, CallbackStep(c, f) PROVE AsNew(c)'
    <2>1. f = "infra"
      BY <1>0, <1>9, CallbackFrame, BaseOrder DEF StreamInv, Positions, Placed
    <2> QED
      BY <1>0, <1>9, <2>1, StreamingStep
  <1> QED
    BY <1>2, <1>3, <1>4, <1>5, <1>6, <1>7, <1>8, <1>9, NextIs

(* What BaseInfoGet shows to a client goes back only when a Get of the     *)
(* call failed or another call met it in the maps status and state         *)
(* (backend/infra.go), for any number of clients and infrastructures: the  *)
(* callback reads every Infrastructure from the API server at each change, *)
(* and a client has one call under way at a time.                          *)
THEOREM BaseInfoForward == Spec => BaseInfoGoesForward
  <1>1. Init => NoNewer /\ AloneInside /\ AsNews
    <2> SUFFICES ASSUME Init PROVE NoNewer /\ AloneInside /\ AsNews
      OBVIOUS
    <2>1. \A c \in BaseInfoClients : c \in Clients /\ c \in Callers
      BY BaseOrder
    <2>2. "infra" \in Feeds /\ \A k \in Kinds : Nothing[k] = 0 /\ k \in Items
      BY KindFacts DEF Nothing, Feeds
    <2>3. NoNewer
      BY <2>1, <2>2 DEF Init, NoNewer, NoEntries
    <2>4. AloneInside
      BY DEF Init, AloneInside, InMaps
    <2>5. AsNews
      BY <2>1, <2>2 DEF Init, AsNews, AsNew
    <2> QED
      BY <2>3, <2>4, <2>5
  <1>2. StreamInv /\ AsNews /\ [Next]_vars =>
            [\A c \in BaseInfoClients, k \in Kinds :
                shown'[c][k] >= shown[c][k] \/ lost[c] \/ ~alone[c]]_vars
    <2> SUFFICES ASSUME StreamInv, AsNews, [Next]_vars, NEW c \in BaseInfoClients,
                        NEW k \in Kinds, ~lost[c], alone[c]
                 PROVE  shown'[c][k] >= shown[c][k]
      OBVIOUS
    <2>1. AsNew(c) /\ shown[c][k] \in Nat
      BY Numbers DEF AsNews, Undisturbed
    <2>2. CASE shown'[c] = shown[c]
      BY <2>1, <2>2
    <2>3. CASE ReadBaseInfo(c) /\ shown'[c] = made[c]
      BY <2>1, <2>3 DEF AsNew, ReadBaseInfo
    <2>4. CASE Receive(c, "infra") /\ shown'[c] = msg[c]["infra"]
      BY <2>1, <2>4 DEF AsNew, Receive
    <2> QED
      BY <2>2, <2>3, <2>4, ShownIs
  <1> QED
    BY <1>1, <1>2, StreamInvariant, NoNewerStep, AloneStep, AsNewsStep, PTL
       DEF Spec, BaseInfoGoesForward

=============================================================================
