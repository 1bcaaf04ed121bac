------------------------- MODULE UserControllerProofs -------------------------
(***************************************************************************)
(* The User controller, for any Users, workers, principal names, faults,   *)
(* panics, restarts and interventions of administrators.                   *)
(*                                                                         *)
(* Types come first.  WriteKeepsUser rests on CopiesAreOld: a copy of a    *)
(* User that carries the stored UID and resource version is the stored     *)
(* User.  SyncedUserHasRights rests on RightsHeld: an object that was ever *)
(* seen to belong to a User is still there while the User lives, because   *)
(* only an administrator or the garbage collector takes objects away; what *)
(* a worker has passed therefore holds when it reports the User as synced. *)
(***************************************************************************)
EXTENDS UserController, WorkQueueProofs

-----------------------------------------------------------------------------
(* The types by groups of variables, and what a worker in syncHandler has  *)
(* beside them: a key, and an object of Rights that it has come to.        *)
StoreTypeOK ==
    /\ user \in [Keys -> UserRecord]
    /\ born \in Seq(Keys)
    /\ obj \in [Keys -> [Types -> Owner]]

CacheTypeOK ==
    /\ userCache \in [Keys -> UserRecord]
    /\ objCache \in [Keys -> [Types -> Owner]]

EventTypeOK ==
    /\ userEv \in [Keys -> Seq(UserRecord)]
    /\ objEv \in [Keys -> [Types -> Seq(Owner)]]

SyncTypeOK ==
    /\ pc \in [Workers -> Steps]
    /\ step \in [Workers -> 0 .. 4]
    /\ snap \in [Workers -> UserRecord]
    /\ failed \in [Workers -> BOOLEAN]

RestTypeOK ==
    /\ synced \in [Keys -> Nat]
    /\ up \in BOOLEAN
    /\ spent \in [Costs -> Nat]

PartsTypeOK == StoreTypeOK /\ CacheTypeOK /\ EventTypeOK /\ SyncTypeOK /\ RestTypeOK

AtRight == {"find", "get", "create", "update"}

WorkersReady ==
    \A w \in Workers :
        /\ pc[w] # "idle" => holding[w] \in Keys
        /\ pc[w] \in AtRight => step[w] \in 1 .. 3
        /\ pc[w] = "write" => step[w] = 4

TypeInv == QInv /\ PartsTypeOK /\ WorkersReady

(* There are three Rights, one of each type. *)
LEMMA RightsFacts ==
    /\ Len(Rights) = 3
    /\ \A s \in 1 .. 3 : Rights[s] \in Types
    /\ \A o \in Types : \E s \in 1 .. 3 : Rights[s] = o
  <1>1. Rights[1] = "principal" /\ Rights[2] = "clusterRole" /\ Rights[3] = "clusterRoleBinding"
    BY DEF Rights
  <1>2. Len(Rights) = 3
    BY DEF Rights
  <1>3. 1 .. 3 = {1, 2, 3}
    OBVIOUS
  <1> QED
    BY <1>1, <1>2, <1>3 DEF Types

(* The groups together are the type invariant. *)
LEMMA PartsAreTypeOK == TypeOK <=> QTypeOK /\ PartsTypeOK
  BY RightsFacts DEF TypeOK, PartsTypeOK, StoreTypeOK, CacheTypeOK, EventTypeOK, SyncTypeOK,
                     RestTypeOK

LEMMA UserFields ==
    /\ NoUser \in UserRecord
    /\ 0 \in Owner /\ Foreign \in Owner /\ Nat \subseteq Owner
    /\ \A u \in UserRecord : /\ u.uid \in Nat /\ u.rv \in Nat /\ u.data \in Nat
                             /\ u.local \in Keys \union {NoId}
  BY DEF NoUser, UserRecord, Owner

(* What the edits of a User leave alone. *)
LEMMA LocalEdit ==
    ASSUME NEW u \in UserRecord, NEW l \in Keys \union {NoId}
    PROVE  /\ [u EXCEPT !.local = l] \in UserRecord
           /\ [u EXCEPT !.local = l].uid = u.uid /\ [u EXCEPT !.local = l].rv = u.rv
           /\ [u EXCEPT !.local = l].data = u.data /\ [u EXCEPT !.local = l].local = l
  BY DEF UserRecord

LEMMA VersionEdit ==
    ASSUME NEW u \in UserRecord, NEW n \in Nat
    PROVE  /\ [u EXCEPT !.rv = n] \in UserRecord
           /\ [u EXCEPT !.rv = n].uid = u.uid /\ [u EXCEPT !.rv = n].rv = n
           /\ [u EXCEPT !.rv = n].data = u.data /\ [u EXCEPT !.rv = n].local = u.local
  BY DEF UserRecord

LEMMA DataEdit ==
    ASSUME NEW u \in UserRecord, NEW n \in Nat, NEW m \in Nat
    PROVE  /\ [u EXCEPT !.rv = n, !.data = m] \in UserRecord
           /\ [u EXCEPT !.rv = n, !.data = m].uid = u.uid
           /\ [u EXCEPT !.rv = n, !.data = m].rv = n
           /\ [u EXCEPT !.rv = n, !.data = m].local = u.local
  BY DEF UserRecord

(* The name of an object is a key. *)
LEMMA NameType ==
    ASSUME NEW k \in Keys, NEW u \in UserRecord, NEW o
    PROVE  NameOf(k, u, o) \in Keys /\ GetLocalPrincipalID(k, u) \in Keys
  BY UserFields DEF NameOf, GetLocalPrincipalID

LEMMA PutUserType ==
    ASSUME PartsTypeOK, NEW k \in Keys, NEW u \in UserRecord, PutUser(k, u)
    PROVE  user' \in [Keys -> UserRecord] /\ userEv' \in [Keys -> Seq(UserRecord)]
  <1>1. Append(userEv[k], u) \in Seq(UserRecord)
    BY DEF PartsTypeOK, EventTypeOK
  <1> QED
    BY <1>1 DEF PutUser, PartsTypeOK, StoreTypeOK, EventTypeOK

LEMMA PutObjType ==
    ASSUME PartsTypeOK, NEW k \in Keys, NEW o \in Types, NEW u \in Owner, PutObj(k, o, u)
    PROVE  obj' \in [Keys -> [Types -> Owner]] /\ objEv' \in [Keys -> [Types -> Seq(Owner)]]
  <1>1. Append(objEv[k][o], u) \in Seq(Owner)
    BY DEF PartsTypeOK, EventTypeOK
  <1>2. obj' \in [Keys -> [Types -> Owner]]
    BY DEF PutObj, PartsTypeOK, StoreTypeOK
  <1>3. objEv' \in [Keys -> [Types -> Seq(Owner)]]
    BY <1>1 DEF PutObj, PartsTypeOK, EventTypeOK
  <1> QED
    BY <1>2, <1>3

LEMMA SpendType ==
    ASSUME PartsTypeOK, NEW c \in Costs, Spend(c)
    PROVE  spent' \in [Costs -> Nat] /\ spent'[c] = spent[c] + 1
           /\ \A d \in Costs \ {c} : spent'[d] = spent[d]
  BY DEF Spend, PartsTypeOK, RestTypeOK

-----------------------------------------------------------------------------
(* The controller drives the work queue by the queue's own operations; a   *)
(* restart alone replaces it, by one that satisfies its invariant too.     *)
LEMMA QueueSteps ==
    ASSUME StoreTypeOK, [Next]_vars, ~Restart
    PROVE  QNext \/ UNCHANGED queueVars
  <1>1. ASSUME NEW k \in Keys, Environment(k) PROVE UNCHANGED queueVars
    BY <1>1 DEF Environment, CreateUser, DeleteUser, EditUser, AdminDeletes, AdminCreates,
                CollectObj
  <1>2. ASSUME NEW k \in Keys, NEW o \in Types, DeliverObj(k, o)
        PROVE  QNext \/ UNCHANGED queueVars
    <2>1. ASSUME NEW u, handleObject(o, u) PROVE QNext \/ UNCHANGED queueVars
      <3>1. CASE u \in 1 .. Len(born)
        <4>1. born[u] \in Keys
          BY <3>1 DEF StoreTypeOK
        <4> QED
          BY <2>1, <4>1 DEF handleObject, enqueueUser, QNext
      <3> QED
        BY <2>1, <3>1 DEF handleObject
    <2> QED
      BY <1>2, <2>1 DEF DeliverObj
  <1>3. ASSUME NEW k \in Keys, Informer(k) PROVE QNext \/ UNCHANGED queueVars
    BY <1>2, <1>3 DEF Informer, DeliverUser, Resync, KeyReady, enqueueUser, QNext
  <1>4. ASSUME NEW w \in Workers, processNextWorkItem(w) PROVE QNext
    BY <1>4 DEF processNextWorkItem, QNext
  <1>5. ASSUME NEW w \in Workers, Sync(w) PROVE QNext \/ UNCHANGED queueVars
    BY <1>5 DEF Sync, LookupUser, FindRight, GetRight, CreateRight, updatePrincipal,
                updateUser, FinishWorkItem, QNext
  <1>6. CASE Stop
    BY <1>6 DEF Stop, QNext
  <1>7. CASE UNCHANGED vars
    BY <1>7 DEF vars
  <1> QED
    BY <1>1, <1>3, <1>4, <1>5, <1>6, <1>7 DEF Next

LEMMA QueueStep ==
    ASSUME StoreTypeOK, QInv, [Next]_vars
    PROVE  QInv'
  <1>1. CASE Restart
    <2>1. queue' \in Seq(Keys)
      BY <1>1 DEF Restart
    <2>a. shuttingDown' \in BOOLEAN
      BY <1>1 DEF Restart
    <2>b. holding' \in [Workers -> Keys \union {NoKey}]
      BY <1>1 DEF Restart
    <2>c. waiting' \subseteq Keys /\ dirty' = {} /\ processing' = {}
      BY <1>1 DEF Restart
    <2>2. QTypeOK'
      BY <2>1, <2>a, <2>b, <2>c DEF QTypeOK
    <2>3. MutualExclusion' /\ ProcessingIsHeld'
      BY <1>1 DEF Restart, MutualExclusion, ProcessingIsHeld
    <2>4. QueueDistinct' /\ QueuedAreDirtyAndFree'
      BY <1>1 DEF Restart, QueueDistinct, QueuedAreDirtyAndFree, Queued
    <2> QED
      BY <2>2, <2>3, <2>4 DEF QInv, QueueInv
  <1>2. CASE ~Restart
    BY <1>2, QueueSteps, QNextInv
  <1> QED
    BY <1>1, <1>2

-----------------------------------------------------------------------------
(* How a step changes the variables of the workers: only a worker's own    *)
(* steps and a restart do.                                                 *)

(* The ways in which syncHandler goes on. *)
LEMMA GoesOn ==
    ASSUME PartsTypeOK, WorkersReady, NEW w \in Workers, pc[w] \in AtRight, NEW u,
           \/ Judge(w, u)
           \/ NextRight(w)
           \/ \E l \in AtRight : GoTo(w, l)
           \/ \E e \in BOOLEAN : Return(w, e)
    PROVE  /\ SyncTypeOK' /\ snap' = snap
           /\ \A v \in Workers \ {w} : pc'[v] = pc[v] /\ step'[v] = step[v]
           /\ \/ pc'[w] = "done"
              \/ pc'[w] \in AtRight /\ step'[w] = step[w]
              \/ pc'[w] = "find" /\ step'[w] = step[w] + 1 /\ step[w] < 3
              \/ pc'[w] = "write" /\ step[w] = 3 /\ step'[w] = 4
  <1> USE DEF PartsTypeOK, SyncTypeOK
  <1>1. step[w] \in 1 .. 3 /\ Len(Rights) = 3
    BY RightsFacts DEF WorkersReady
  <1>2. CASE NextRight(w)
    BY <1>1, <1>2 DEF NextRight, Steps
  <1>3. CASE \E l \in AtRight : GoTo(w, l)
    BY <1>1, <1>3 DEF GoTo, Steps, AtRight
  <1>4. CASE \E e \in BOOLEAN : Return(w, e)
    BY <1>1, <1>4 DEF Return, Steps
  <1>5. CASE Judge(w, u)
    BY <1>2, <1>3, <1>4, <1>5 DEF Judge, AtRight
  <1> QED
    BY <1>2, <1>3, <1>4, <1>5

(* The steps of a worker keep the types, and touch only its own variables. *)
SyncMoves(w) ==
    /\ PartsTypeOK'
    /\ \A v \in Workers \ {w} : /\ pc'[v] = pc[v] /\ step'[v] = step[v]
                                /\ snap'[v] = snap[v] /\ holding'[v] = holding[v]
    /\ pc'[w] # "idle" => holding'[w] = holding[w]
    /\ pc'[w] \in AtRight => step'[w] \in 1 .. 3
    /\ pc'[w] = "write" => step'[w] = 4

(* What a worker that has come to an object knows. *)
LEMMA AtRightFacts ==
    ASSUME TypeInv, NEW w \in Workers, pc[w] \in AtRight
    PROVE  /\ holding[w] \in Keys /\ step[w] \in 1 .. 3 /\ Right(w) \in Types
           /\ RightName(w) \in Keys /\ snap[w] \in UserRecord /\ snap[w].uid \in Owner
           /\ snap[w].uid \in Nat
           /\ Stored(w) = obj[RightName(w)][Right(w)] /\ pc[w] # "idle"
  <1>1. holding[w] \in Keys /\ step[w] \in 1 .. 3 /\ snap[w] \in UserRecord /\ pc[w] # "idle"
    BY DEF TypeInv, WorkersReady, AtRight, PartsTypeOK, SyncTypeOK
  <1>2. Right(w) \in Types
    BY <1>1, RightsFacts DEF Right
  <1>3. RightName(w) \in Keys
    BY <1>1, NameType DEF RightName
  <1> QED
    BY <1>1, <1>2, <1>3, UserFields DEF Stored

LEMMA LookupUserMoves ==
    ASSUME TypeInv, NEW w \in Workers, LookupUser(w)
    PROVE  SyncMoves(w)
  <1> USE DEF TypeInv, PartsTypeOK, queueVars, storeVars, cacheVars, eventVars
  <1>1. holding[w] \in Keys /\ userCache[holding[w]] \in UserRecord
    BY DEF LookupUser, WorkersReady, CacheTypeOK
  <1>2. SyncTypeOK'
    <2>1. pc' \in [Workers -> Steps]
      BY DEF LookupUser, Return, SyncTypeOK, Steps
    <2>2. step' \in [Workers -> 0 .. 4]
      BY DEF LookupUser, Return, SyncTypeOK
    <2>3. snap' \in [Workers -> UserRecord]
      BY <1>1 DEF LookupUser, Return, SyncTypeOK
    <2>4. failed' \in [Workers -> BOOLEAN]
      BY DEF LookupUser, Return, SyncTypeOK
    <2> QED
      BY <2>1, <2>2, <2>3, <2>4 DEF SyncTypeOK
  <1>3. StoreTypeOK' /\ CacheTypeOK' /\ EventTypeOK' /\ RestTypeOK'
    BY DEF LookupUser, StoreTypeOK, CacheTypeOK, EventTypeOK, RestTypeOK
  <1> QED
    BY <1>1, <1>2, <1>3 DEF LookupUser, Return, SyncMoves, SyncTypeOK, AtRight

LEMMA FindRightMoves ==
    ASSUME TypeInv, NEW w \in Workers, FindRight(w)
    PROVE  SyncMoves(w) /\ snap' = snap
  <1> USE DEF TypeInv, PartsTypeOK, queueVars, storeVars, cacheVars, eventVars
  <1> DEFINE u == objCache[RightName(w)][Right(w)]
  <1>1. pc[w] \in AtRight /\ (Judge(w, u) \/ \E l \in AtRight : GoTo(w, l))
    BY DEF FindRight, AtRight
  <1>2. /\ SyncTypeOK' /\ snap' = snap
        /\ \A v \in Workers \ {w} : pc'[v] = pc[v] /\ step'[v] = step[v]
        /\ \/ pc'[w] = "done"
           \/ pc'[w] \in AtRight /\ step'[w] = step[w]
           \/ pc'[w] = "find" /\ step'[w] = step[w] + 1 /\ step[w] < 3
           \/ pc'[w] = "write" /\ step[w] = 3 /\ step'[w] = 4
    <2> HIDE DEF u
    <2> QED
      BY <1>1, GoesOn
  <1>3. StoreTypeOK' /\ CacheTypeOK' /\ EventTypeOK' /\ RestTypeOK'
    BY DEF FindRight, StoreTypeOK, CacheTypeOK, EventTypeOK, RestTypeOK
  <1> QED
    BY <1>1, <1>2, <1>3, AtRightFacts DEF FindRight, SyncMoves, AtRight

LEMMA GetRightMoves ==
    ASSUME TypeInv, NEW w \in Workers, GetRight(w)
    PROVE  SyncMoves(w) /\ snap' = snap
  <1> USE DEF TypeInv, PartsTypeOK, queueVars, storeVars, cacheVars, eventVars, syncVars
  <1>1. pc[w] \in AtRight /\ "create" \in AtRight
    BY DEF GetRight, AtRight
  <1>2. /\ SyncTypeOK' /\ snap' = snap
        /\ \A v \in Workers \ {w} : pc'[v] = pc[v] /\ step'[v] = step[v]
        /\ pc'[w] \in AtRight /\ step'[w] = step[w]
    <2>1. CASE GoTo(w, "create")
      BY <1>1, <2>1 DEF GoTo, SyncTypeOK, Steps
    <2>2. CASE UNCHANGED syncVars
      BY <1>1, <2>2 DEF SyncTypeOK
    <2> QED
      BY <2>1, <2>2 DEF GetRight
  <1>3. StoreTypeOK' /\ CacheTypeOK' /\ EventTypeOK'
    BY DEF GetRight, StoreTypeOK, CacheTypeOK, EventTypeOK
  <1>4. RestTypeOK'
    BY SpendType DEF GetRight, RestTypeOK, Costs
  <1> QED
    BY <1>1, <1>2, <1>3, <1>4, AtRightFacts DEF GetRight, SyncMoves, AtRight

LEMMA CreateRightMoves ==
    ASSUME TypeInv, NEW w \in Workers, CreateRight(w)
    PROVE  SyncMoves(w) /\ snap' = snap
  <1> USE DEF TypeInv, PartsTypeOK, queueVars, storeVars, cacheVars, eventVars
  <1>1. pc[w] \in AtRight /\ (\/ Judge(w, snap[w].uid)
                              \/ Judge(w, 0)
                              \/ \E e \in BOOLEAN : Return(w, e))
    BY DEF CreateRight, CallFails, AtRight
  <1>2. /\ SyncTypeOK' /\ snap' = snap
        /\ \A v \in Workers \ {w} : pc'[v] = pc[v] /\ step'[v] = step[v]
        /\ \/ pc'[w] = "done"
           \/ pc'[w] \in AtRight /\ step'[w] = step[w]
           \/ pc'[w] = "find" /\ step'[w] = step[w] + 1 /\ step[w] < 3
           \/ pc'[w] = "write" /\ step[w] = 3 /\ step'[w] = 4
    BY <1>1, GoesOn
  <1>3. obj' \in [Keys -> [Types -> Owner]] /\ objEv' \in [Keys -> [Types -> Seq(Owner)]]
    <2>1. CASE PutObj(RightName(w), Right(w), snap[w].uid)
      BY <1>1, <2>1, AtRightFacts, PutObjType
    <2>2. CASE UNCHANGED <<obj, objEv>>
      BY <2>2 DEF StoreTypeOK, EventTypeOK
    <2> QED
      BY <2>1, <2>2 DEF CreateRight
  <1>4. RestTypeOK'
    BY SpendType DEF CreateRight, CallFails, RestTypeOK, Costs
  <1>5. StoreTypeOK' /\ CacheTypeOK' /\ EventTypeOK'
    BY <1>3 DEF CreateRight, StoreTypeOK, CacheTypeOK, EventTypeOK
  <1> QED
    BY <1>1, <1>2, <1>4, <1>5, AtRightFacts DEF CreateRight, SyncMoves, AtRight

LEMMA updatePrincipalMoves ==
    ASSUME TypeInv, NEW w \in Workers, updatePrincipal(w)
    PROVE  SyncMoves(w) /\ snap' = snap
  <1> USE DEF TypeInv, PartsTypeOK, queueVars, storeVars, cacheVars, eventVars
  <1>1. pc[w] \in AtRight /\ (NextRight(w) \/ \E e \in BOOLEAN : Return(w, e))
    BY DEF updatePrincipal, CallFails, AtRight
  <1>2. /\ SyncTypeOK' /\ snap' = snap
        /\ \A v \in Workers \ {w} : pc'[v] = pc[v] /\ step'[v] = step[v]
        /\ \/ pc'[w] = "done"
           \/ pc'[w] \in AtRight /\ step'[w] = step[w]
           \/ pc'[w] = "find" /\ step'[w] = step[w] + 1 /\ step[w] < 3
           \/ pc'[w] = "write" /\ step[w] = 3 /\ step'[w] = 4
    BY <1>1, GoesOn
  <1>3. StoreTypeOK' /\ CacheTypeOK' /\ EventTypeOK'
    BY DEF updatePrincipal, StoreTypeOK, CacheTypeOK, EventTypeOK
  <1>4. RestTypeOK'
    BY SpendType DEF updatePrincipal, CallFails, RestTypeOK, Costs
  <1> QED
    BY <1>1, <1>2, <1>3, <1>4, AtRightFacts DEF updatePrincipal, SyncMoves, AtRight

(* The copy that updateUser sends, and what becomes of it. *)
LEMMA UserCopyType ==
    ASSUME TypeInv, NEW w \in Workers, pc[w] = "write"
    PROVE  /\ holding[w] \in Keys /\ snap[w] \in UserRecord
           /\ UserCopy(w) \in UserRecord
           /\ UserCopy(w).uid = snap[w].uid /\ UserCopy(w).rv = snap[w].rv
           /\ UserCopy(w).data = snap[w].data
           /\ UserCopy(w).local = GetLocalPrincipalID(holding[w], snap[w])
           /\ [UserCopy(w) EXCEPT !.rv = @ + 1] \in UserRecord
  <1>1. holding[w] \in Keys /\ snap[w] \in UserRecord
    BY DEF TypeInv, WorkersReady, PartsTypeOK, SyncTypeOK
  <1>2. GetLocalPrincipalID(holding[w], snap[w]) \in Keys
    BY <1>1, NameType
  <1>3. /\ UserCopy(w) \in UserRecord
        /\ UserCopy(w).uid = snap[w].uid /\ UserCopy(w).rv = snap[w].rv
        /\ UserCopy(w).data = snap[w].data
        /\ UserCopy(w).local = GetLocalPrincipalID(holding[w], snap[w])
    BY <1>1, <1>2, LocalEdit DEF UserCopy
  <1>4. UserCopy(w).rv + 1 \in Nat
    BY <1>3, UserFields
  <1>5. [UserCopy(w) EXCEPT !.rv = UserCopy(w).rv + 1] \in UserRecord
    BY <1>3, <1>4, VersionEdit
  <1> QED
    BY <1>1, <1>3, <1>5

LEMMA updateUserMoves ==
    ASSUME TypeInv, NEW w \in Workers, updateUser(w)
    PROVE  SyncMoves(w) /\ snap' = snap /\ pc[w] = "write" /\ pc'[w] = "done"
  <1> USE DEF TypeInv, PartsTypeOK, queueVars, storeVars, cacheVars, eventVars
  <1>1. pc[w] = "write" /\ \E e \in BOOLEAN : Return(w, e)
    BY DEF updateUser, CallFails
  <1>2. /\ SyncTypeOK' /\ snap' = snap /\ pc'[w] = "done"
        /\ \A v \in Workers \ {w} : pc'[v] = pc[v] /\ step'[v] = step[v]
    BY <1>1 DEF Return, SyncTypeOK, Steps
  <1>3. user' \in [Keys -> UserRecord] /\ userEv' \in [Keys -> Seq(UserRecord)]
    <2>1. CASE Store(holding[w], UserCopy(w))
      BY <1>1, <2>1, UserCopyType, PutUserType DEF Store, StoreTypeOK, EventTypeOK
    <2>2. CASE UNCHANGED <<user, userEv>>
      BY <2>2 DEF StoreTypeOK, EventTypeOK
    <2> QED
      BY <2>1, <2>2 DEF updateUser
  <1>4. spent' \in [Costs -> Nat]
    BY SpendType DEF updateUser, CallFails, RestTypeOK, Costs
  <1>5. synced' \in [Keys -> Nat]
    BY <1>1, UserCopyType, UserFields DEF updateUser, RestTypeOK
  <1>6. StoreTypeOK' /\ CacheTypeOK' /\ EventTypeOK' /\ RestTypeOK'
    BY <1>3, <1>4, <1>5 DEF updateUser, StoreTypeOK, CacheTypeOK, EventTypeOK, RestTypeOK
  <1> QED
    BY <1>1, <1>2, <1>6 DEF updateUser, SyncMoves, AtRight

LEMMA FinishMoves ==
    ASSUME TypeInv, NEW w \in Workers, FinishWorkItem(w)
    PROVE  SyncMoves(w) /\ pc'[w] = "idle"
  <1> USE DEF TypeInv, PartsTypeOK, queueVars, storeVars, cacheVars, eventVars
  <1>1. SyncTypeOK'
    BY UserFields DEF FinishWorkItem, SyncTypeOK, Steps
  <1>2. StoreTypeOK' /\ CacheTypeOK' /\ EventTypeOK' /\ RestTypeOK'
    BY DEF FinishWorkItem, StoreTypeOK, CacheTypeOK, EventTypeOK, RestTypeOK
  <1>3. \A v \in Workers \ {w} : holding'[v] = holding[v]
    BY DEF FinishWorkItem, Done, QInv, QTypeOK
  <1> QED
    BY <1>1, <1>2, <1>3 DEF FinishWorkItem, SyncMoves, SyncTypeOK, AtRight

(* Every step of a worker. *)
LEMMA SyncStep ==
    ASSUME TypeInv, NEW w \in Workers, Sync(w)
    PROVE  SyncMoves(w)
  BY LookupUserMoves, FindRightMoves, GetRightMoves, CreateRightMoves, updatePrincipalMoves,
     updateUserMoves, FinishMoves DEF Sync

(* Nothing but a worker's own step or a restart changes where it is. *)
LEMMA OutsideFrame ==
    ASSUME StoreTypeOK,
           \/ \E k \in Keys : Environment(k) \/ Informer(k)
           \/ Stop
           \/ UNCHANGED vars
    PROVE  UNCHANGED <<pc, step, snap, failed, holding>>
  <1> USE DEF syncVars, queueVars
  <1>1. ASSUME NEW k \in Keys, Environment(k)
        PROVE  UNCHANGED <<pc, step, snap, failed, holding>>
    BY <1>1 DEF Environment, CreateUser, DeleteUser, EditUser, AdminDeletes, AdminCreates,
                CollectObj
  <1>2. ASSUME NEW k \in Keys, Informer(k)
        PROVE  UNCHANGED <<pc, step, snap, failed, holding>>
    BY <1>2 DEF Informer, DeliverUser, DeliverObj, Resync, KeyReady, handleObject, enqueueUser,
                AddRateLimited, WaitingReady
  <1>3. CASE Stop
    BY <1>3 DEF Stop, ShutDown
  <1>4. CASE UNCHANGED vars
    BY <1>4 DEF vars
  <1> QED
    BY <1>1, <1>2, <1>3, <1>4

(* The steps around the controller keep the types. *)
LEMMA EnvironmentType ==
    ASSUME TypeInv, NEW k \in Keys, Environment(k)
    PROVE  PartsTypeOK'
  <1> USE DEF TypeInv, PartsTypeOK, cacheVars, syncVars, SyncTypeOK, CacheTypeOK, Costs
  <1>a. user[k] \in UserRecord /\ Len(born) \in Nat
    BY DEF StoreTypeOK
  <1>1. ASSUME NEW id \in LocalIds \union {NoId}, CreateUser(k, id) PROVE PartsTypeOK'
    <2>1. [uid |-> Len(born) + 1, rv |-> 1, data |-> 0, local |-> id] \in UserRecord
      BY <1>a, LocalIdsAssumption DEF UserRecord
    <2>2. user' \in [Keys -> UserRecord] /\ userEv' \in [Keys -> Seq(UserRecord)]
      BY <1>1, <2>1, PutUserType DEF CreateUser
    <2>3. born' \in Seq(Keys) /\ spent' \in [Costs -> Nat]
      BY <1>1, SpendType DEF CreateUser, StoreTypeOK
    <2> QED
      BY <1>1, <2>2, <2>3 DEF CreateUser, StoreTypeOK, EventTypeOK, RestTypeOK
  <1>2. CASE DeleteUser(k)
    <2>1. user' \in [Keys -> UserRecord] /\ userEv' \in [Keys -> Seq(UserRecord)]
      BY <1>2, UserFields, PutUserType DEF DeleteUser
    <2>2. spent' \in [Costs -> Nat]
      BY <1>2, SpendType DEF DeleteUser
    <2> QED
      BY <1>2, <2>1, <2>2 DEF DeleteUser, StoreTypeOK, EventTypeOK, RestTypeOK
  <1>3. CASE EditUser(k)
    <2>1. user[k].rv + 1 \in Nat /\ user[k].data + 1 \in Nat
      BY <1>a, UserFields
    <2>2. [user[k] EXCEPT !.rv = @ + 1, !.data = @ + 1] \in UserRecord
      BY <1>a, <2>1, DataEdit
    <2>3. user' \in [Keys -> UserRecord] /\ userEv' \in [Keys -> Seq(UserRecord)]
      BY <1>3, <2>2, PutUserType DEF EditUser
    <2>4. spent' \in [Costs -> Nat]
      BY <1>3, SpendType DEF EditUser
    <2> QED
      BY <1>3, <2>3, <2>4 DEF EditUser, StoreTypeOK, EventTypeOK, RestTypeOK
  <1>4. ASSUME NEW o \in Types, AdminDeletes(k, o) \/ AdminCreates(k, o) \/ CollectObj(k, o)
        PROVE  PartsTypeOK'
    <2>1. obj' \in [Keys -> [Types -> Owner]] /\ objEv' \in [Keys -> [Types -> Seq(Owner)]]
      BY <1>4, UserFields, PutObjType DEF AdminDeletes, AdminCreates, CollectObj
    <2>2. spent' \in [Costs -> Nat]
      BY <1>4, SpendType DEF AdminDeletes, AdminCreates, CollectObj, RestTypeOK
    <2>3. UNCHANGED <<user, born, cacheVars, userEv, syncVars, synced, up>>
      BY <1>4 DEF AdminDeletes, AdminCreates, CollectObj
    <2> QED
      BY <2>1, <2>2, <2>3 DEF StoreTypeOK, EventTypeOK, RestTypeOK
  <1> QED
    BY <1>1, <1>2, <1>3, <1>4 DEF Environment

LEMMA InformerType ==
    ASSUME TypeInv, NEW k \in Keys, Informer(k)
    PROVE  PartsTypeOK'
  <1> USE DEF TypeInv, PartsTypeOK, storeVars, cacheVars, eventVars, syncVars,
              StoreTypeOK, SyncTypeOK, RestTypeOK
  <1>1. CASE DeliverUser(k)
    <2>1. Head(userEv[k]) \in UserRecord /\ Tail(userEv[k]) \in Seq(UserRecord)
      BY <1>1 DEF DeliverUser, EventTypeOK
    <2>2. userCache' \in [Keys -> UserRecord] /\ userEv' \in [Keys -> Seq(UserRecord)]
      BY <1>1, <2>1 DEF DeliverUser, EventTypeOK, CacheTypeOK
    <2> QED
      BY <1>1, <2>2 DEF DeliverUser, EventTypeOK, CacheTypeOK
  <1>2. ASSUME NEW o \in Types, DeliverObj(k, o) PROVE PartsTypeOK'
    <2>1. Head(objEv[k][o]) \in Owner /\ Tail(objEv[k][o]) \in Seq(Owner)
      BY <1>2 DEF DeliverObj, EventTypeOK
    <2>2. objCache' \in [Keys -> [Types -> Owner]]
      BY <1>2, <2>1 DEF DeliverObj, CacheTypeOK
    <2>3. objEv' \in [Keys -> [Types -> Seq(Owner)]]
      BY <1>2, <2>1 DEF DeliverObj, EventTypeOK
    <2> QED
      BY <1>2, <2>2, <2>3 DEF DeliverObj, EventTypeOK, CacheTypeOK
  <1>3. CASE Resync(k) \/ KeyReady(k)
    BY <1>3 DEF Resync, KeyReady, EventTypeOK, CacheTypeOK
  <1> QED
    BY <1>1, <1>2, <1>3 DEF Informer

(* Every step keeps the type invariant. *)
LEMMA TypeStep ==
    ASSUME TypeInv, [Next]_vars
    PROVE  TypeInv'
  <1> USE DEF storeVars, cacheVars, eventVars, syncVars
  <1>1. QInv'
    BY QueueStep DEF TypeInv, PartsTypeOK
  <1>2. ASSUME NEW k \in Keys, Environment(k) \/ Informer(k)
        PROVE  PartsTypeOK' /\ WorkersReady'
    <2>1. PartsTypeOK'
      BY <1>2, EnvironmentType, InformerType
    <2> QED
      BY <1>2, <2>1, OutsideFrame DEF TypeInv, PartsTypeOK, WorkersReady
  <1>3. ASSUME NEW w \in Workers, Sync(w) PROVE PartsTypeOK' /\ WorkersReady'
    <2>1. SyncMoves(w) /\ WorkersReady
      BY <1>3, SyncStep DEF TypeInv
    <2>2. pc[w] # "idle"
      BY <1>3 DEF Sync, LookupUser, FindRight, GetRight, CreateRight, updatePrincipal,
                  updateUser, FinishWorkItem
    <2> QED
      BY <2>1, <2>2 DEF SyncMoves, WorkersReady
  <1>4. ASSUME NEW w \in Workers, processNextWorkItem(w) PROVE PartsTypeOK' /\ WorkersReady'
    <2>1. Head(queue) \in Keys /\ holding \in [Workers -> Keys \union {NoKey}]
      BY <1>4 DEF processNextWorkItem, Get, TypeInv, QInv, QTypeOK
    <2>2. SyncTypeOK'
      BY <1>4 DEF processNextWorkItem, TypeInv, PartsTypeOK, SyncTypeOK, Steps
    <2>3. PartsTypeOK'
      BY <1>4, <2>2 DEF processNextWorkItem, TypeInv, PartsTypeOK, StoreTypeOK, CacheTypeOK,
                        EventTypeOK, RestTypeOK
    <2>4. WorkersReady'
      BY <1>4, <2>1 DEF processNextWorkItem, Get, TypeInv, PartsTypeOK, SyncTypeOK,
                        WorkersReady, AtRight
    <2> QED
      BY <2>3, <2>4
  <1>5. ASSUME Stop PROVE PartsTypeOK' /\ WorkersReady'
    <2>1. spent' \in [Costs -> Nat]
      BY <1>5, SpendType DEF Stop, TypeInv, Costs
    <2>2. PartsTypeOK'
      BY <1>5, <2>1 DEF Stop, TypeInv, PartsTypeOK, StoreTypeOK, CacheTypeOK, EventTypeOK,
                        SyncTypeOK, RestTypeOK
    <2> QED
      BY <1>5, <2>2, OutsideFrame DEF TypeInv, PartsTypeOK, WorkersReady
  <1>6. ASSUME Restart PROVE PartsTypeOK' /\ WorkersReady'
    <2>1. spent' \in [Costs -> Nat]
      BY <1>6, SpendType DEF Restart, TypeInv, PartsTypeOK, RestTypeOK, Costs
    <2>2. StoreTypeOK' /\ synced' \in [Keys -> Nat] /\ up' = TRUE
      BY <1>6 DEF Restart, TypeInv, PartsTypeOK, StoreTypeOK, RestTypeOK
    <2>3. CacheTypeOK'
      BY <1>6 DEF Restart, TypeInv, PartsTypeOK, StoreTypeOK, CacheTypeOK
    <2>4. EventTypeOK'
      BY <1>6 DEF Restart, EventTypeOK
    <2>5. pc' \in [Workers -> Steps] /\ step' \in [Workers -> 0 .. 4]
      BY <1>6 DEF Restart, Steps
    <2>6. snap' \in [Workers -> UserRecord]
      BY <1>6, UserFields DEF Restart
    <2>7. failed' \in [Workers -> BOOLEAN]
      BY <1>6 DEF Restart
    <2>8. WorkersReady'
      BY <1>6 DEF Restart, WorkersReady, AtRight
    <2> QED
      BY <2>1, <2>2, <2>3, <2>4, <2>5, <2>6, <2>7, <2>8 DEF PartsTypeOK, SyncTypeOK, RestTypeOK
  <1>7. ASSUME UNCHANGED vars PROVE PartsTypeOK' /\ WorkersReady'
    BY <1>7, OutsideFrame
    DEF vars, TypeInv, PartsTypeOK, StoreTypeOK, CacheTypeOK, EventTypeOK, SyncTypeOK,
        RestTypeOK, WorkersReady
  <1> QED
    BY <1>1, <1>2, <1>3, <1>4, <1>5, <1>6, <1>7 DEF Next, TypeInv

LEMMA TypeInit == Init => TypeInv
  <1> SUFFICES ASSUME Init PROVE TypeInv
    OBVIOUS
  <1>1. QInv
    BY QInitInv DEF Init
  <1>2. user \in [Keys -> UserRecord] /\ userCache \in [Keys -> UserRecord]
    BY UserFields DEF Init
  <1>3. born \in Seq(Keys)
    BY DEF Init
  <1>4. obj \in [Keys -> [Types -> Owner]] /\ objCache \in [Keys -> [Types -> Owner]]
    BY UserFields DEF Init
  <1>5. EventTypeOK
    BY DEF Init, EventTypeOK
  <1>6. pc \in [Workers -> Steps] /\ step \in [Workers -> 0 .. 4]
    BY DEF Init, Steps
  <1>7. snap \in [Workers -> UserRecord]
    BY UserFields DEF Init
  <1>8. failed \in [Workers -> BOOLEAN] /\ up \in BOOLEAN
    BY DEF Init
  <1>9. synced \in [Keys -> Nat] /\ spent \in [Costs -> Nat]
    BY DEF Init
  <1>10. WorkersReady
    BY DEF Init, WorkersReady, AtRight
  <1> QED
    BY <1>1, <1>2, <1>3, <1>4, <1>5, <1>6, <1>7, <1>8, <1>9, <1>10
    DEF TypeInv, PartsTypeOK, StoreTypeOK, CacheTypeOK, SyncTypeOK, RestTypeOK

(* Every variable of the User controller keeps its type, for any Users,    *)
(* workers and budgets.                                                    *)
THEOREM TypeCorrect == Spec => []TypeOK
  <1>1. TypeInv => TypeOK
    BY PartsAreTypeOK DEF TypeInv, QInv
  <1> QED
    BY TypeInit, TypeStep, <1>1, PTL DEF Spec

-----------------------------------------------------------------------------
(* Copies of Users.                                                        *)

(* The copy c of a User of the name k has an UID that was given; with the  *)
(* UID of the stored User it is an earlier version of it, or itself, and   *)
(* has the same principal.  u is the stored User and n the number of UIDs. *)
CopyOf(c, k, u, n) ==
    c # NoUser =>
        /\ c.uid \in 1 .. n
        /\ c.uid = u.uid =>
            /\ c.rv <= u.rv
            /\ c.rv = u.rv => c = u
            /\ GetLocalPrincipalID(k, c) = GetLocalPrincipalID(k, u)

IsCopy(c, k) == CopyOf(c, k, user[k], Len(born))

Syncing == AtRight \union {"write"}

CopiesAreOld ==
    /\ \A k \in Keys :
        /\ IsCopy(user[k], k)
        /\ IsCopy(userCache[k], k)
        /\ \A i \in 1 .. Len(userEv[k]) : IsCopy(userEv[k][i], k)
        /\ synced[k] \in 0 .. Len(born)
    /\ \A w \in Workers :
        pc[w] \in Syncing => snap[w] # NoUser /\ IsCopy(snap[w], holding[w])

(* How the stored User of the name k changes in a step, from u to v: it    *)
(* stays, is deleted, is new, or is a new version with the same principal. *)
Evolved(k, u, n, v, m) ==
    \/ v = u
    \/ v = NoUser
    \/ v.uid = n + 1 /\ m = n + 1
    \/ /\ u # NoUser /\ v.uid = u.uid /\ v.rv = u.rv + 1
       /\ GetLocalPrincipalID(k, v) = GetLocalPrincipalID(k, u)

(* What the caches and the events show are Users stored at some time. *)
UserMoves ==
    /\ Len(born') \in {Len(born), Len(born) + 1}
    /\ \A k \in Keys :
        /\ Evolved(k, user[k], Len(born), user'[k], Len(born'))
        /\ \A i \in 1 .. Len(userEv'[k]) :
            \/ userEv'[k][i] = user'[k]
            \/ \E j \in 1 .. Len(userEv[k]) : userEv'[k][i] = userEv[k][j]
        /\ \/ userCache'[k] \in {userCache[k], user'[k]}
           \/ \E j \in 1 .. Len(userEv[k]) : userCache'[k] = userEv[k][j]

(* A copy stays a copy. *)
LEMMA CopyStays ==
    ASSUME NEW k \in Keys, NEW c \in UserRecord, NEW u \in UserRecord, NEW v \in UserRecord,
           NEW n \in Nat, NEW m \in {n, n + 1},
           CopyOf(c, k, u, n), CopyOf(u, k, u, n), Evolved(k, u, n, v, m)
    PROVE  CopyOf(c, k, v, m)
  <1> USE UserFields DEF CopyOf
  <1>0. NoUser.uid = 0
    BY DEF NoUser
  <1>1. CASE v = u
    BY <1>1
  <1>2. CASE v = NoUser
    BY <1>0, <1>2
  <1>3. CASE v.uid = n + 1 /\ m = n + 1
    BY <1>3
  <1>4. CASE /\ u # NoUser /\ v.uid = u.uid /\ v.rv = u.rv + 1
             /\ GetLocalPrincipalID(k, v) = GetLocalPrincipalID(k, u)
    BY <1>4
  <1> QED
    BY <1>1, <1>2, <1>3, <1>4 DEF Evolved

(* The stored User is a copy of itself, the new one too. *)
LEMMA StoredIsCopy ==
    ASSUME NEW k \in Keys, NEW u \in UserRecord, NEW v \in UserRecord,
           NEW n \in Nat, NEW m \in {n, n + 1},
           CopyOf(u, k, u, n), Evolved(k, u, n, v, m)
    PROVE  CopyOf(v, k, v, m)
  <1> USE UserFields DEF CopyOf
  <1>1. v # NoUser => v.uid \in 1 .. m
    BY DEF Evolved
  <1> QED
    BY <1>1

LEMMA PutUserMoves ==
    ASSUME TypeInv, NEW k \in Keys, NEW u \in UserRecord, PutUser(k, u),
           UNCHANGED userCache, Len(born') \in {Len(born), Len(born) + 1},
           Evolved(k, user[k], Len(born), u, Len(born'))
    PROVE  UserMoves
  <1> USE DEF TypeInv, PartsTypeOK, StoreTypeOK, EventTypeOK
  <1>1. user'[k] = u /\ \A l \in Keys \ {k} : user'[l] = user[l]
    BY DEF PutUser
  <1>2. userEv'[k] = Append(userEv[k], u) /\ \A l \in Keys \ {k} : userEv'[l] = userEv[l]
    BY DEF PutUser
  <1>3. \A i \in 1 .. Len(userEv'[k]) :
            \/ userEv'[k][i] = user'[k]
            \/ \E j \in 1 .. Len(userEv[k]) : userEv'[k][i] = userEv[k][j]
    <2>1. userEv[k] \in Seq(UserRecord)
      OBVIOUS
    <2> QED
      BY <1>1, <1>2, <2>1
  <1>4. \A l \in Keys \ {k} : Evolved(l, user[l], Len(born), user'[l], Len(born'))
    BY <1>1 DEF Evolved
  <1>5. Evolved(k, user[k], Len(born), user'[k], Len(born'))
    BY <1>1
  <1> QED
    <2> SUFFICES ASSUME NEW l \in Keys
                 PROVE  /\ Evolved(l, user[l], Len(born), user'[l], Len(born'))
                        /\ \A i \in 1 .. Len(userEv'[l]) :
                            \/ userEv'[l][i] = user'[l]
                            \/ \E j \in 1 .. Len(userEv[l]) : userEv'[l][i] = userEv[l][j]
                        /\ \/ userCache'[l] \in {userCache[l], user'[l]}
                           \/ \E j \in 1 .. Len(userEv[l]) : userCache'[l] = userEv[l][j]
      BY DEF UserMoves
    <2>1. CASE l = k
      BY <1>3, <1>5, <2>1
    <2>2. CASE l # k
      BY <1>2, <1>4, <2>2
    <2> QED
      BY <2>1, <2>2

LEMMA UsersStay ==
    ASSUME UNCHANGED <<user, born, userEv>>, userCache' \in {userCache, user}
    PROVE  UserMoves
  BY DEF UserMoves, Evolved

(* A copy that the API server accepts is the stored User. *)
LEMMA AcceptedIsStored ==
    ASSUME TypeInv, CopiesAreOld, NEW w \in Workers, pc[w] = "write",
           Accepts(holding[w], UserCopy(w))
    PROVE  snap[w] = user[holding[w]] /\ snap[w] # NoUser
  <1>1. UserCopy(w).uid = snap[w].uid /\ UserCopy(w).rv = snap[w].rv
    BY UserCopyType
  <1>2. snap[w] # NoUser /\ CopyOf(snap[w], holding[w], user[holding[w]], Len(born))
    BY DEF CopiesAreOld, IsCopy, Syncing
  <1> QED
    BY <1>1, <1>2 DEF CopyOf, Accepts

LEMMA StoreMoves ==
    ASSUME TypeInv, CopiesAreOld, NEW w \in Workers, pc[w] = "write",
           Accepts(holding[w], UserCopy(w)), Store(holding[w], UserCopy(w)),
           UNCHANGED <<born, userCache>>
    PROVE  /\ UserMoves
           /\ user'[holding[w]].uid = snap[w].uid
           /\ GetLocalPrincipalID(holding[w], user'[holding[w]])
                = GetLocalPrincipalID(holding[w], snap[w])
           /\ user'[holding[w]].data = snap[w].data
           /\ snap[w].local # NoId => user'[holding[w]].local = snap[w].local
           /\ \A l \in Keys \ {holding[w]} : user'[l] = user[l]
  <1> DEFINE k == holding[w]
             c == UserCopy(w)
             d == [c EXCEPT !.rv = @ + 1]
  <1>1. /\ k \in Keys /\ snap[w] \in UserRecord /\ c \in UserRecord /\ d \in UserRecord
        /\ c.uid = snap[w].uid /\ c.rv = snap[w].rv /\ c.data = snap[w].data
        /\ c.local = GetLocalPrincipalID(k, snap[w])
    BY UserCopyType
  <1>2. snap[w] = user[k] /\ snap[w] # NoUser
    BY AcceptedIsStored
  <1>3. c.rv + 1 \in Nat
    BY <1>1, UserFields
  <1>4. d.uid = c.uid /\ d.rv = c.rv + 1 /\ d.data = c.data /\ d.local = c.local
    BY <1>1, <1>3, VersionEdit
  <1>5. GetLocalPrincipalID(k, snap[w]) \in Keys
    BY <1>1, NameType
  <1>6. /\ GetLocalPrincipalID(k, d) = GetLocalPrincipalID(k, snap[w])
        /\ GetLocalPrincipalID(k, c) = GetLocalPrincipalID(k, snap[w])
        /\ snap[w].local # NoId => c.local = snap[w].local
    BY <1>1, <1>4, <1>5, LocalIdsAssumption DEF GetLocalPrincipalID
  <1> HIDE DEF k, c, d
  <1>7. CASE c = user[k]
    <2>1. UNCHANGED <<user, userEv>>
      BY <1>7 DEF Store, c, k
    <2>2. UserMoves
      BY <2>1, UsersStay
    <2> QED
      BY <1>1, <1>2, <1>6, <1>7, <2>1, <2>2 DEF k
  <1>8. CASE c # user[k]
    <2>1. PutUser(k, d)
      BY <1>8 DEF Store, c, d, k
    <2>2. user'[k] = d /\ \A l \in Keys \ {k} : user'[l] = user[l]
      BY <1>1, <2>1 DEF PutUser, TypeInv, PartsTypeOK, StoreTypeOK
    <2>3. Evolved(k, user[k], Len(born), d, Len(born'))
      BY <1>1, <1>2, <1>4, <1>6 DEF Evolved
    <2>4. Len(born') \in {Len(born), Len(born) + 1}
      OBVIOUS
    <2>5. UserMoves
      BY <1>1, <2>1, <2>3, <2>4, PutUserMoves
    <2> QED
      BY <1>1, <1>4, <1>6, <2>2, <2>5 DEF k
  <1> QED
    BY <1>7, <1>8

(* Every step changes Users, events and caches in these ways. *)
LEMMA UserMovesStep ==
    ASSUME TypeInv, CopiesAreOld, [Next]_vars
    PROVE  UserMoves
  <1> USE DEF storeVars, cacheVars, eventVars
  <1>a. ASSUME NEW k \in Keys PROVE user[k] \in UserRecord /\ Len(born) \in Nat
    BY DEF TypeInv, PartsTypeOK, StoreTypeOK
  <1>1. ASSUME NEW k \in Keys, NEW id \in LocalIds \union {NoId}, CreateUser(k, id)
        PROVE  UserMoves
    <2> DEFINE u == [uid |-> Len(born) + 1, rv |-> 1, data |-> 0, local |-> id]
    <2>1. u \in UserRecord /\ u.uid = Len(born) + 1
      BY <1>a, LocalIdsAssumption DEF UserRecord
    <2>2. Len(born') = Len(born) + 1
      BY <1>1 DEF CreateUser, TypeInv, PartsTypeOK, StoreTypeOK
    <2>3. PutUser(k, u) /\ UNCHANGED userCache
      BY <1>1 DEF CreateUser
    <2> HIDE DEF u
    <2>4. Evolved(k, user[k], Len(born), u, Len(born'))
      BY <2>1, <2>2 DEF Evolved
    <2> QED
      BY <2>1, <2>2, <2>3, <2>4, PutUserMoves
  <1>2. ASSUME NEW k \in Keys, DeleteUser(k) PROVE UserMoves
    <2>1. Evolved(k, user[k], Len(born), NoUser, Len(born'))
      BY DEF Evolved
    <2> QED
      BY <1>2, <2>1, UserFields, PutUserMoves DEF DeleteUser
  <1>3. ASSUME NEW k \in Keys, EditUser(k) PROVE UserMoves
    <2> DEFINE n == user[k].rv + 1
               m == user[k].data + 1
               u == [user[k] EXCEPT !.rv = n, !.data = m]
    <2>1. n \in Nat /\ m \in Nat /\ user[k] \in UserRecord
      BY <1>a, UserFields
    <2>3. PutUser(k, u) /\ UNCHANGED <<userCache, born>> /\ user[k] # NoUser
      BY <1>3 DEF EditUser
    <2> HIDE DEF n, m
    <2>a. u \in UserRecord /\ u.uid = user[k].uid /\ u.rv = n /\ u.local = user[k].local
      BY <2>1 DEF UserRecord
    <2>2. u \in UserRecord /\ u.uid = user[k].uid /\ u.rv = user[k].rv + 1
          /\ u.local = user[k].local
      BY <2>a DEF n
    <2> HIDE DEF u
    <2>4. Evolved(k, user[k], Len(born), u, Len(born'))
      BY <2>2, <2>3 DEF Evolved, GetLocalPrincipalID
    <2> QED
      BY <2>2, <2>3, <2>4, PutUserMoves
  <1>4. ASSUME NEW k \in Keys, DeliverUser(k) PROVE UserMoves
    <2>1. userEv[k] \in Seq(UserRecord) /\ userEv[k] # << >>
      BY <1>4 DEF DeliverUser, TypeInv, PartsTypeOK, EventTypeOK
    <2>2. Len(userEv[k]) \in Nat /\ Len(userEv[k]) >= 1 /\ Head(userEv[k]) = userEv[k][1]
      BY <2>1
    <2>3. /\ userCache'[k] = userEv[k][1] /\ userEv'[k] = Tail(userEv[k])
          /\ \A l \in Keys \ {k} : userCache'[l] = userCache[l] /\ userEv'[l] = userEv[l]
      BY <1>4, <2>2 DEF DeliverUser, TypeInv, PartsTypeOK, EventTypeOK, CacheTypeOK
    <2>4. \A i \in 1 .. Len(Tail(userEv[k])) :
             i + 1 \in 1 .. Len(userEv[k]) /\ Tail(userEv[k])[i] = userEv[k][i + 1]
      BY <2>1
    <2>5. UNCHANGED <<user, born>>
      BY <1>4 DEF DeliverUser
    <2> SUFFICES ASSUME NEW l \in Keys
                 PROVE  /\ \A i \in 1 .. Len(userEv'[l]) :
                            \E j \in 1 .. Len(userEv[l]) : userEv'[l][i] = userEv[l][j]
                        /\ \/ userCache'[l] = userCache[l]
                           \/ \E j \in 1 .. Len(userEv[l]) : userCache'[l] = userEv[l][j]
      BY <2>5 DEF UserMoves, Evolved
    <2>6. CASE l = k
      <3>1. \A i \in 1 .. Len(userEv'[k]) :
                \E j \in 1 .. Len(userEv[k]) : userEv'[k][i] = userEv[k][j]
        BY <2>3, <2>4
      <3>2. 1 \in 1 .. Len(userEv[k]) /\ userCache'[k] = userEv[k][1]
        BY <2>2, <2>3
      <3> QED
        BY <2>6, <3>1, <3>2
    <2>7. CASE l # k
      BY <2>3, <2>7
    <2> QED
      BY <2>6, <2>7
  <1>5. ASSUME NEW w \in Workers, updateUser(w) PROVE UserMoves
    <2>1. CASE UNCHANGED <<user, userEv>>
      BY <1>5, <2>1, UsersStay DEF updateUser
    <2>2. CASE Accepts(holding[w], UserCopy(w)) /\ Store(holding[w], UserCopy(w))
      BY <1>5, <2>2, StoreMoves DEF updateUser
    <2> QED
      BY <1>5, <2>1, <2>2 DEF updateUser
  <1>6. CASE Restart
    <2>1. UNCHANGED <<user, born>> /\ userCache' = user
      BY <1>6 DEF Restart
    <2>2. \A k \in Keys : userEv'[k] = << >>
      BY <1>6 DEF Restart
    <2> QED
      BY <2>1, <2>2 DEF UserMoves, Evolved
  <1>7. ASSUME NEW k \in Keys,
               \/ \E o \in Types : \/ AdminDeletes(k, o) \/ AdminCreates(k, o)
                                  \/ CollectObj(k, o) \/ DeliverObj(k, o)
               \/ Resync(k) \/ KeyReady(k)
        PROVE  UNCHANGED <<user, born, userEv, userCache>>
    BY <1>7 DEF AdminDeletes, AdminCreates, CollectObj, DeliverObj, Resync, KeyReady
  <1>8. ASSUME NEW w \in Workers,
               \/ processNextWorkItem(w) \/ LookupUser(w) \/ FindRight(w) \/ GetRight(w)
               \/ CreateRight(w) \/ updatePrincipal(w) \/ FinishWorkItem(w)
        PROVE  UNCHANGED <<user, born, userEv, userCache>>
    BY <1>8 DEF processNextWorkItem, LookupUser, FindRight, GetRight, CreateRight,
                updatePrincipal, FinishWorkItem
  <1>9. CASE Stop \/ UNCHANGED vars
    BY <1>9, UsersStay DEF Stop, vars
  <1> QED
    BY <1>1, <1>2, <1>3, <1>4, <1>5, <1>6, <1>7, <1>8, <1>9, UsersStay
    DEF Next, Environment, Informer, Sync

(* What a worker knows of the User it handles: it is in the cache when the *)
(* worker looks it up, and the worker keeps it until it is done.           *)
LEMMA SnapStep ==
    ASSUME TypeInv, [Next]_vars, NEW w \in Workers, pc'[w] \in Syncing
    PROVE  /\ holding'[w] = holding[w] /\ holding[w] \in Keys
           /\ \/ /\ LookupUser(w) /\ step'[w] = 1 /\ snap'[w] = userCache[holding[w]]
                 /\ userCache[holding[w]] # NoUser
              \/ pc[w] \in Syncing /\ snap'[w] = snap[w]
  <1> USE DEF AtRight, Syncing
  <1>0. /\ \A v \in Workers : pc[v] # "idle" => holding[v] \in Keys
        /\ StoreTypeOK /\ pc \in [Workers -> Steps] /\ snap \in [Workers -> UserRecord]
        /\ step \in [Workers -> 0 .. 4]
    BY DEF TypeInv, WorkersReady, PartsTypeOK, SyncTypeOK
  <1>1. CASE \/ \E k \in Keys : Environment(k) \/ Informer(k)
             \/ Stop
             \/ UNCHANGED vars
    BY <1>0, <1>1, OutsideFrame
  <1>2. ASSUME NEW v \in Workers, processNextWorkItem(v), v # w
        PROVE  holding'[w] = holding[w] /\ pc'[w] = pc[w] /\ snap'[w] = snap[w]
    BY <1>0, <1>2 DEF processNextWorkItem, Get, TypeInv, QInv, QTypeOK
  <1>3. ASSUME processNextWorkItem(w) PROVE FALSE
    BY <1>0, <1>3 DEF processNextWorkItem
  <1>4. ASSUME NEW v \in Workers, Sync(v), v # w
        PROVE  holding'[w] = holding[w] /\ pc'[w] = pc[w] /\ snap'[w] = snap[w]
    BY <1>4, SyncStep DEF SyncMoves
  <1>5. CASE LookupUser(w)
    <2>1. holding[w] \in Keys /\ holding' = holding
      BY <1>0, <1>5 DEF LookupUser, queueVars
    <2>2. userCache[holding[w]] # NoUser
      BY <1>0, <1>5 DEF LookupUser, Return
    <2> QED
      BY <1>0, <1>5, <2>1, <2>2 DEF LookupUser
  <1>6. CASE Sync(w) /\ ~LookupUser(w)
    <2>1. FinishWorkItem(w) => pc'[w] = "idle"
      BY FinishMoves
    <2>2. updateUser(w) => pc'[w] = "done"
      BY updateUserMoves
    <2>3. /\ snap' = snap /\ pc[w] \in AtRight /\ SyncMoves(w)
      BY <1>6, <2>1, <2>2, FindRightMoves, GetRightMoves, CreateRightMoves,
         updatePrincipalMoves DEF Sync, FindRight, GetRight, CreateRight, updatePrincipal
    <2> QED
      BY <1>0, <2>3 DEF SyncMoves
  <1>7. CASE Restart
    BY <1>7 DEF Restart
  <1>8. pc[w] \in Syncing => holding[w] \in Keys
    BY <1>0
  <1> QED
    BY <1>1, <1>2, <1>3, <1>4, <1>5, <1>6, <1>7, <1>8 DEF Next

(* Only updateUser records that a User is synced. *)
LEMMA SyncedStep ==
    ASSUME [Next]_vars
    PROVE  \/ synced' = synced
           \/ \E w \in Workers :
                /\ updateUser(w) /\ Accepts(holding[w], UserCopy(w))
                /\ Store(holding[w], UserCopy(w))
                /\ synced' = [synced EXCEPT ![holding[w]] = snap[w].uid]
                /\ UNCHANGED <<obj, born, userCache, spent>>
  <1> USE DEF cacheVars
  <1>1. ASSUME NEW k \in Keys, Environment(k) \/ Informer(k) PROVE synced' = synced
    BY <1>1 DEF Environment, CreateUser, DeleteUser, EditUser, AdminDeletes, AdminCreates,
                CollectObj, Informer, DeliverUser, DeliverObj, Resync, KeyReady
  <1>2. ASSUME NEW w \in Workers, processNextWorkItem(w) \/ Sync(w), ~updateUser(w)
        PROVE  synced' = synced
    BY <1>2 DEF processNextWorkItem, Sync, LookupUser, FindRight, GetRight, CreateRight,
                updatePrincipal, FinishWorkItem
  <1>3. ASSUME NEW w \in Workers, updateUser(w)
        PROVE  \/ synced' = synced
               \/ /\ updateUser(w) /\ Accepts(holding[w], UserCopy(w))
                  /\ Store(holding[w], UserCopy(w))
                  /\ synced' = [synced EXCEPT ![holding[w]] = snap[w].uid]
                  /\ UNCHANGED <<obj, born, userCache, spent>>
    BY <1>3 DEF updateUser
  <1>4. CASE Stop \/ Restart \/ UNCHANGED vars
    BY <1>4 DEF Stop, Restart, vars
  <1> QED
    BY <1>1, <1>2, <1>3, <1>4 DEF Next

(* Copies stay copies. *)
LEMMA CopiesStep ==
    ASSUME TypeInv, TypeInv', CopiesAreOld, [Next]_vars
    PROVE  CopiesAreOld'
  <1> USE DEF CopiesAreOld, IsCopy
  <1>1. UserMoves
    BY UserMovesStep
  <1>2. /\ Len(born) \in Nat /\ Len(born') \in {Len(born), Len(born) + 1}
        /\ \A k \in Keys : /\ user[k] \in UserRecord /\ user'[k] \in UserRecord
                           /\ userCache[k] \in UserRecord /\ userEv[k] \in Seq(UserRecord)
        /\ \A w \in Workers : snap[w] \in UserRecord
    BY <1>1 DEF UserMoves, TypeInv, PartsTypeOK, StoreTypeOK, CacheTypeOK, EventTypeOK,
                SyncTypeOK
  <1>3. ASSUME NEW k \in Keys, NEW c \in UserRecord, CopyOf(c, k, user[k], Len(born))
        PROVE  CopyOf(c, k, user'[k], Len(born'))
    <2>1. Evolved(k, user[k], Len(born), user'[k], Len(born'))
      BY <1>1 DEF UserMoves
    <2>2. CopyOf(user[k], k, user[k], Len(born))
      OBVIOUS
    <2> QED
      BY <1>2, <1>3, <2>1, <2>2, CopyStays
  <1>4. ASSUME NEW k \in Keys PROVE CopyOf(user'[k], k, user'[k], Len(born'))
    <2>1. Evolved(k, user[k], Len(born), user'[k], Len(born'))
      BY <1>1 DEF UserMoves
    <2> QED
      BY <1>2, <2>1, StoredIsCopy
  <1>5. ASSUME NEW k \in Keys, NEW j \in 1 .. Len(userEv[k])
        PROVE  CopyOf(userEv[k][j], k, user'[k], Len(born'))
    <2>1. userEv[k][j] \in UserRecord /\ CopyOf(userEv[k][j], k, user[k], Len(born))
      BY <1>2
    <2> QED
      BY <1>3, <2>1
  <1>6. ASSUME NEW k \in Keys PROVE CopyOf(userCache'[k], k, user'[k], Len(born'))
    <2>1. CopyOf(userCache[k], k, user'[k], Len(born'))
      BY <1>2, <1>3
    <2> QED
      BY <1>1, <1>4, <1>5, <2>1 DEF UserMoves
  <1>7. ASSUME NEW k \in Keys, NEW i \in 1 .. Len(userEv'[k])
        PROVE  CopyOf(userEv'[k][i], k, user'[k], Len(born'))
    BY <1>1, <1>4, <1>5 DEF UserMoves
  <1>8. ASSUME NEW w \in Workers, pc'[w] \in Syncing
        PROVE  snap'[w] # NoUser /\ CopyOf(snap'[w], holding'[w], user'[holding'[w]], Len(born'))
    <2>1. /\ holding'[w] = holding[w] /\ holding[w] \in Keys
          /\ \/ snap'[w] = userCache[holding[w]] /\ userCache[holding[w]] # NoUser
             \/ pc[w] \in Syncing /\ snap'[w] = snap[w]
      BY <1>8, SnapStep
    <2>2. snap'[w] # NoUser /\ snap'[w] \in UserRecord
          /\ CopyOf(snap'[w], holding[w], user[holding[w]], Len(born))
      BY <1>2, <2>1
    <2> QED
      BY <1>3, <2>1, <2>2
  <1>9. ASSUME NEW k \in Keys PROVE synced'[k] \in 0 .. Len(born')
    <2>1. CASE synced' = synced
      BY <1>2, <2>1
    <2>2. ASSUME NEW w \in Workers, updateUser(w),
                 synced' = [synced EXCEPT ![holding[w]] = snap[w].uid]
          PROVE  synced'[k] \in 0 .. Len(born')
      <3>1. snap[w] # NoUser /\ CopyOf(snap[w], holding[w], user[holding[w]], Len(born))
        BY <2>2 DEF updateUser, Syncing
      <3>2. snap[w].uid \in 1 .. Len(born)
        BY <3>1 DEF CopyOf
      <3> QED
        BY <1>2, <2>2, <3>2 DEF TypeInv, PartsTypeOK, RestTypeOK
    <2> QED
      BY <2>1, <2>2, SyncedStep
  <1> QED
    BY <1>4, <1>6, <1>7, <1>8, <1>9

LEMMA CopiesInit == Init => CopiesAreOld
  BY DEF Init, CopiesAreOld, IsCopy, CopyOf, Syncing, AtRight

(* Writing PrincipalIDs never revives a User deleted since it was read,    *)
(* undoes no edit made since, and replaces no principal already named:     *)
(* updateUser sends a copy read from a cache, and the API server accepts   *)
(* it only when it still is what is stored.                                *)
THEOREM UpdateKeepsUser == Spec => WriteKeepsUser
  <1> DEFINE Kept == \A w \in Workers : pc[w] = "write" /\ pc'[w] = "done" =>
                \A k \in Keys : /\ user'[k].uid = user[k].uid
                                /\ user'[k].data = user[k].data
                                /\ user[k].local # NoId => user'[k].local = user[k].local
  <1>1. ASSUME TypeInv, CopiesAreOld, [Next]_vars PROVE [Kept]_vars
    <2> SUFFICES ASSUME NEW w \in Workers, pc[w] = "write", pc'[w] = "done"
                 PROVE  \A k \in Keys : /\ user'[k].uid = user[k].uid
                                        /\ user'[k].data = user[k].data
                                        /\ user[k].local # NoId => user'[k].local = user[k].local
      OBVIOUS
    <2>1. updateUser(w)
      <3>0. StoreTypeOK /\ pc \in [Workers -> Steps]
        BY <1>1 DEF TypeInv, PartsTypeOK, SyncTypeOK
      <3>1. ~(\/ \E k \in Keys : Environment(k) \/ Informer(k)
              \/ Stop
              \/ UNCHANGED vars)
        BY <3>0, OutsideFrame
      <3>2. ~\E v \in Workers : processNextWorkItem(v)
        BY <3>0 DEF processNextWorkItem
      <3>3. \A v \in Workers \ {w} : ~Sync(v)
        BY <1>1, SyncStep DEF SyncMoves
      <3>4. ~Restart
        BY DEF Restart
      <3>5. Sync(w)
        BY <1>1, <3>1, <3>2, <3>3, <3>4 DEF Next
      <3> QED
        BY <3>5 DEF Sync, LookupUser, FindRight, GetRight, CreateRight, updatePrincipal,
                    FinishWorkItem
    <2>2. CASE UNCHANGED user
      BY <2>2
    <2>3. CASE Accepts(holding[w], UserCopy(w)) /\ Store(holding[w], UserCopy(w))
      <3>1. UNCHANGED <<born, userCache>>
        BY <2>1 DEF updateUser, cacheVars
      <3>2. /\ user'[holding[w]].uid = snap[w].uid /\ user'[holding[w]].data = snap[w].data
            /\ snap[w].local # NoId => user'[holding[w]].local = snap[w].local
            /\ \A l \in Keys \ {holding[w]} : user'[l] = user[l]
        BY <1>1, <2>3, <3>1, StoreMoves
      <3>3. snap[w] = user[holding[w]]
        BY <1>1, <2>3, AcceptedIsStored
      <3> QED
        BY <3>2, <3>3
    <2> QED
      BY <2>1, <2>2, <2>3 DEF updateUser
  <1>2. Spec => [](TypeInv /\ CopiesAreOld)
    BY TypeInit, TypeStep, CopiesInit, CopiesStep, PTL DEF Spec
  <1> QED
    BY <1>1, <1>2, PTL DEF Spec, WriteKeepsUser

-----------------------------------------------------------------------------
(* Objects and their owners.                                               *)

(* While a User with the UID v lives, it owns the object. *)
Holds(k, o, v) == Alive(v) => obj[k][o] = v

OwnersKnown ==
    LET Known(v) == v \in {0, Foreign} \union 1 .. Len(born)
    IN  \A k \in Keys, o \in Types :
            /\ Known(obj[k][o])
            /\ Known(objCache[k][o])
            /\ \A i \in 1 .. Len(objEv[k][o]) : Known(objEv[k][o][i])

(* An object that was stored, or is in a cache or an event, is held. *)
SeenHolds ==
    LET Held(k, o, v) == v \in 1 .. Len(born) => Holds(k, o, v)
    IN  \A k \in Keys, o \in Types :
            /\ Held(k, o, obj[k][o])
            /\ Held(k, o, objCache[k][o])
            /\ \A i \in 1 .. Len(objEv[k][o]) : Held(k, o, objEv[k][o][i])

(* What a worker has passed is held. *)
PassedHolds ==
    \A w \in Workers : pc[w] \in Syncing =>
        \A j \in 1 .. step[w] - 1 :
            Holds(NameOf(holding[w], snap[w], Rights[j]), Rights[j], snap[w].uid)

RightsHeld ==
    /\ OwnersKnown
    /\ spent["remove"] = 0 => SeenHolds /\ PassedHolds

(* How an object changes in a step: it stays, is created, is removed by an *)
(* administrator, or is collected while no User that owns it lives.  What  *)
(* the cache and the events show is an owner it had at some time.          *)
ObjChanges(k, o) ==
    \/ obj'[k][o] = obj[k][o]
    \/ obj[k][o] = 0 /\ obj'[k][o] \in {Foreign} \union 1 .. Len(born)
    \/ obj'[k][o] = 0 /\ spent'["remove"] > 0
    \/ obj'[k][o] = 0 /\ ~Alive(obj[k][o])

ObjMoves ==
    \A k \in Keys, o \in Types :
        /\ ObjChanges(k, o)
        /\ \A i \in 1 .. Len(objEv'[k][o]) :
            \/ objEv'[k][o][i] = obj'[k][o]
            \/ \E j \in 1 .. Len(objEv[k][o]) : objEv'[k][o][i] = objEv[k][o][j]
        /\ \/ objCache'[k][o] \in {objCache[k][o], obj'[k][o]}
           \/ \E j \in 1 .. Len(objEv[k][o]) : objCache'[k][o] = objEv[k][o][j]

LEMMA PutObjMoves ==
    ASSUME TypeInv, NEW k \in Keys, NEW o \in Types, NEW u, PutObj(k, o, u),
           UNCHANGED objCache,
           \/ obj[k][o] = 0 /\ u \in {Foreign} \union 1 .. Len(born)
           \/ u = 0 /\ spent'["remove"] > 0
           \/ u = 0 /\ ~Alive(obj[k][o])
    PROVE  ObjMoves
  <1> USE DEF TypeInv, PartsTypeOK, StoreTypeOK, EventTypeOK
  <1>1. /\ obj'[k][o] = u
        /\ \A l \in Keys, p \in Types : l # k \/ p # o => obj'[l][p] = obj[l][p]
    BY DEF PutObj
  <1>2. /\ objEv'[k][o] = Append(objEv[k][o], u)
        /\ \A l \in Keys, p \in Types : l # k \/ p # o => objEv'[l][p] = objEv[l][p]
    BY DEF PutObj
  <1>3. \A i \in 1 .. Len(objEv'[k][o]) :
            \/ objEv'[k][o][i] = obj'[k][o]
            \/ \E j \in 1 .. Len(objEv[k][o]) : objEv'[k][o][i] = objEv[k][o][j]
    <2>1. objEv[k][o] \in Seq(Owner)
      OBVIOUS
    <2> QED
      BY <1>1, <1>2, <2>1
  <1>4. ObjChanges(k, o)
    BY <1>1 DEF ObjChanges
  <1>5. ASSUME NEW l \in Keys, NEW p \in Types, l # k \/ p # o
        PROVE  /\ ObjChanges(l, p) /\ objEv'[l][p] = objEv[l][p]
    BY <1>1, <1>2, <1>5 DEF ObjChanges
  <1> SUFFICES ASSUME NEW l \in Keys, NEW p \in Types
               PROVE  /\ ObjChanges(l, p)
                      /\ \A i \in 1 .. Len(objEv'[l][p]) :
                          \/ objEv'[l][p][i] = obj'[l][p]
                          \/ \E j \in 1 .. Len(objEv[l][p]) : objEv'[l][p][i] = objEv[l][p][j]
    BY DEF ObjMoves
  <1>6. CASE l = k /\ p = o
    BY <1>3, <1>4, <1>6
  <1>7. CASE l # k \/ p # o
    BY <1>5, <1>7
  <1> QED
    BY <1>6, <1>7

LEMMA ObjsStay ==
    ASSUME UNCHANGED <<obj, objEv>>, objCache' \in {objCache, obj}
    PROVE  ObjMoves
  BY DEF ObjMoves, ObjChanges

(* Every step changes the objects, their events and caches in these ways.  *)
(* A worker creates for the User that it has read, whose UID was given.    *)
LEMMA ObjMovesStep ==
    ASSUME TypeInv, CopiesAreOld, [Next]_vars
    PROVE  ObjMoves
  <1> USE DEF storeVars, cacheVars, eventVars
  <1>1. ASSUME NEW k \in Keys, NEW o \in Types, AdminDeletes(k, o) PROVE ObjMoves
    <2>1. spent'["remove"] > 0
      BY <1>1, SpendType DEF AdminDeletes, Costs, TypeInv, PartsTypeOK, RestTypeOK
    <2> QED
      BY <1>1, <2>1, PutObjMoves DEF AdminDeletes
  <1>2. ASSUME NEW k \in Keys, NEW o \in Types, AdminCreates(k, o) PROVE ObjMoves
    BY <1>2, PutObjMoves DEF AdminCreates
  <1>3. ASSUME NEW k \in Keys, NEW o \in Types, CollectObj(k, o) PROVE ObjMoves
    BY <1>3, PutObjMoves DEF CollectObj
  <1>4. ASSUME NEW k \in Keys, NEW o \in Types, DeliverObj(k, o) PROVE ObjMoves
    <2>1. objEv[k][o] \in Seq(Owner) /\ objEv[k][o] # << >>
      BY <1>4 DEF DeliverObj, TypeInv, PartsTypeOK, EventTypeOK
    <2>2. Len(objEv[k][o]) \in Nat /\ Len(objEv[k][o]) >= 1 /\ Head(objEv[k][o]) = objEv[k][o][1]
      BY <2>1
    <2>3. /\ objCache'[k][o] = objEv[k][o][1]
          /\ \A l \in Keys, p \in Types : l # k \/ p # o => objCache'[l][p] = objCache[l][p]
      BY <1>4, <2>2 DEF DeliverObj, TypeInv, PartsTypeOK, CacheTypeOK
    <2>4. /\ objEv'[k][o] = Tail(objEv[k][o])
          /\ \A l \in Keys, p \in Types : l # k \/ p # o => objEv'[l][p] = objEv[l][p]
      BY <1>4 DEF DeliverObj, TypeInv, PartsTypeOK, EventTypeOK
    <2>5. \A i \in 1 .. Len(Tail(objEv[k][o])) :
             i + 1 \in 1 .. Len(objEv[k][o]) /\ Tail(objEv[k][o])[i] = objEv[k][o][i + 1]
      BY <2>1
    <2>6. UNCHANGED obj
      BY <1>4 DEF DeliverObj
    <2> SUFFICES ASSUME NEW l \in Keys, NEW p \in Types
                 PROVE  /\ \A i \in 1 .. Len(objEv'[l][p]) :
                            \E j \in 1 .. Len(objEv[l][p]) : objEv'[l][p][i] = objEv[l][p][j]
                        /\ \/ objCache'[l][p] = objCache[l][p]
                           \/ \E j \in 1 .. Len(objEv[l][p]) : objCache'[l][p] = objEv[l][p][j]
      BY <2>6 DEF ObjMoves, ObjChanges
    <2>7. CASE l = k /\ p = o
      <3>1. \A i \in 1 .. Len(objEv'[k][o]) :
                \E j \in 1 .. Len(objEv[k][o]) : objEv'[k][o][i] = objEv[k][o][j]
        BY <2>4, <2>5
      <3>2. 1 \in 1 .. Len(objEv[k][o]) /\ objCache'[k][o] = objEv[k][o][1]
        BY <2>2, <2>3
      <3> QED
        BY <2>7, <3>1, <3>2
    <2>8. CASE l # k \/ p # o
      BY <2>3, <2>4, <2>8
    <2> QED
      BY <2>7, <2>8
  <1>5. ASSUME NEW w \in Workers, CreateRight(w) PROVE ObjMoves
    <2>1. RightName(w) \in Keys /\ Right(w) \in Types
          /\ Stored(w) = obj[RightName(w)][Right(w)]
      BY <1>5, AtRightFacts DEF CreateRight, AtRight
    <2>2. snap[w].uid \in 1 .. Len(born)
      BY <1>5 DEF CreateRight, CopiesAreOld, IsCopy, CopyOf, Syncing, AtRight
    <2>3. objCache' = objCache
      BY <1>5 DEF CreateRight
    <2>4. CASE UNCHANGED <<obj, objEv>>
      BY <2>3, <2>4, ObjsStay
    <2>5. CASE Stored(w) = 0 /\ PutObj(RightName(w), Right(w), snap[w].uid)
      BY <2>1, <2>2, <2>3, <2>5, PutObjMoves
    <2> QED
      BY <1>5, <2>4, <2>5 DEF CreateRight
  <1>6. CASE Restart
    <2>1. UNCHANGED obj /\ objCache' = obj
      BY <1>6 DEF Restart
    <2>2. \A k \in Keys, o \in Types : objEv'[k][o] = << >>
      BY <1>6 DEF Restart
    <2> QED
      BY <2>1, <2>2 DEF ObjMoves, ObjChanges
  <1>7. ASSUME NEW k \in Keys,
               \/ \E id \in LocalIds \union {NoId} : CreateUser(k, id)
               \/ DeleteUser(k) \/ EditUser(k)
               \/ DeliverUser(k) \/ Resync(k) \/ KeyReady(k)
        PROVE  UNCHANGED <<obj, objEv, objCache>>
    BY <1>7 DEF CreateUser, DeleteUser, EditUser, DeliverUser, Resync, KeyReady
  <1>8. ASSUME NEW w \in Workers,
               \/ processNextWorkItem(w) \/ LookupUser(w) \/ FindRight(w) \/ GetRight(w)
               \/ updatePrincipal(w) \/ updateUser(w) \/ FinishWorkItem(w)
        PROVE  UNCHANGED <<obj, objEv, objCache>>
    BY <1>8 DEF processNextWorkItem, LookupUser, FindRight, GetRight, updatePrincipal,
                updateUser, FinishWorkItem
  <1>9. CASE Stop \/ UNCHANGED vars
    BY <1>9, ObjsStay DEF Stop, vars
  <1> QED
    BY <1>1, <1>2, <1>3, <1>4, <1>5, <1>6, <1>7, <1>8, <1>9, ObjsStay
    DEF Next, Environment, Informer, Sync

(* A User that lives after a step and whose UID was given before lived. *)
LEMMA AliveBefore ==
    ASSUME TypeInv, CopiesAreOld, UserMoves
    PROVE  \A v \in 1 .. Len(born) :
              (\E k \in Keys : user'[k].uid = v) => (\E k \in Keys : user[k].uid = v)
  <1>1. Len(born) \in Nat /\ NoUser.uid = 0
    BY DEF TypeInv, PartsTypeOK, StoreTypeOK, NoUser
  <1> SUFFICES ASSUME NEW v \in 1 .. Len(born), NEW k \in Keys, user'[k].uid = v
               PROVE  user[k].uid = v
    OBVIOUS
  <1>2. Evolved(k, user[k], Len(born), user'[k], Len(born'))
    BY DEF UserMoves
  <1> QED
    BY <1>1, <1>2 DEF Evolved

(* Nobody takes the objects of a living User away but an administrator. *)
LEMMA HoldsStays ==
    ASSUME TypeInv, CopiesAreOld, UserMoves, ObjMoves, spent'["remove"] = 0
    PROVE  \A k \in Keys, o \in Types : \A v \in 1 .. Len(born) :
              Holds(k, o, v) => Holds(k, o, v)'
  <1> SUFFICES ASSUME NEW k \in Keys, NEW o \in Types, NEW v \in 1 .. Len(born),
                      Holds(k, o, v), \E l \in Keys : user'[l].uid = v
               PROVE  obj'[k][o] = v
    BY DEF Holds, Alive
  <1>1. Alive(v)
    BY AliveBefore DEF Alive
  <1>2. obj[k][o] = v /\ v # 0
    BY <1>1 DEF Holds
  <1>3. ObjChanges(k, o)
    BY DEF ObjMoves
  <1> QED
    BY <1>1, <1>2, <1>3 DEF ObjChanges

(* The count of removals never falls. *)
LEMMA RemovalsGrow ==
    ASSUME TypeInv, [Next]_vars, spent'["remove"] = 0
    PROVE  spent["remove"] = 0
  <1>0. \A c \in Costs : Spend(c) => \A d \in Costs : spent'[d] >= spent[d]
    <2> SUFFICES ASSUME NEW c \in Costs, Spend(c), NEW d \in Costs PROVE spent'[d] >= spent[d]
      OBVIOUS
    <2> QED
      BY SpendType DEF TypeInv, PartsTypeOK, RestTypeOK
  <1>1. (\E c \in Costs : Spend(c)) \/ UNCHANGED spent
    <2> USE DEF Costs
    <2>1. ASSUME NEW k \in Keys, Environment(k) PROVE (\E c \in Costs : Spend(c)) \/ UNCHANGED spent
      BY <2>1 DEF Environment, CreateUser, DeleteUser, EditUser, AdminDeletes, AdminCreates,
                  CollectObj
    <2>2. ASSUME NEW k \in Keys, Informer(k) PROVE UNCHANGED spent
      BY <2>2 DEF Informer, DeliverUser, DeliverObj, Resync, KeyReady
    <2>3. ASSUME NEW w \in Workers, processNextWorkItem(w) \/ Sync(w)
          PROVE  (\E c \in Costs : Spend(c)) \/ UNCHANGED spent
      BY <2>3 DEF processNextWorkItem, Sync, LookupUser, FindRight, GetRight, CreateRight,
                  updatePrincipal, updateUser, FinishWorkItem, CallFails
    <2>4. CASE Stop \/ Restart \/ UNCHANGED vars
      BY <2>4 DEF Stop, Restart, vars
    <2> QED
      BY <2>1, <2>2, <2>3, <2>4 DEF Next
  <1> QED
    BY <1>0, <1>1 DEF Costs, TypeInv, PartsTypeOK, RestTypeOK

(* A worker goes on to the next object only when it has seen this one in   *)
(* the cache or in the store, or created it, as one of its User.           *)
LEMMA Advances ==
    ASSUME TypeInv, CopiesAreOld, NEW w \in Workers, Sync(w), ~LookupUser(w),
           pc'[w] \in Syncing
    PROVE  /\ pc[w] \in AtRight /\ snap' = snap
           /\ \/ step'[w] = step[w]
              \/ /\ step'[w] = step[w] + 1
                 /\ \/ objCache[RightName(w)][Right(w)] = snap[w].uid
                    \/ obj'[RightName(w)][Right(w)] = snap[w].uid
  <1> USE DEF Syncing
  <1>0. step \in [Workers -> 0 .. 4] /\ pc \in [Workers -> Steps]
    BY DEF TypeInv, PartsTypeOK, SyncTypeOK
  <1>1. ASSUME NEW u, Judge(w, u)
        PROVE  /\ u = snap[w].uid /\ snap' = snap
               /\ step'[w] \in {step[w], step[w] + 1}
    BY <1>0, <1>1 DEF Judge, Return, GoTo, NextRight, AtRight
  <1>2. CASE FindRight(w)
    <2>1. pc[w] \in AtRight
      BY <1>2 DEF FindRight, AtRight
    <2>2. CASE \E l \in AtRight : GoTo(w, l)
      BY <2>1, <2>2 DEF GoTo
    <2>3. CASE Judge(w, objCache[RightName(w)][Right(w)])
      BY <1>1, <2>1, <2>3
    <2> QED
      BY <1>2, <2>2, <2>3 DEF FindRight, AtRight
  <1>3. CASE GetRight(w)
    BY <1>3 DEF GetRight, GoTo, syncVars, AtRight
  <1>4. CASE CreateRight(w)
    <2>1. pc[w] \in AtRight /\ RightName(w) \in Keys /\ Right(w) \in Types
      BY <1>4, AtRightFacts DEF CreateRight, AtRight
    <2>2. snap[w].uid \in 1 .. Len(born)
      BY <1>4 DEF CreateRight, CopiesAreOld, IsCopy, CopyOf, AtRight
    <2>3. ~Judge(w, 0)
      BY <1>1, <2>2
    <2>4. ~CallFails(w)
      BY <1>0 DEF CallFails, Return, AtRight
    <2>5. PutObj(RightName(w), Right(w), snap[w].uid) /\ Judge(w, snap[w].uid)
      BY <1>4, <2>3, <2>4 DEF CreateRight
    <2>6. obj'[RightName(w)][Right(w)] = snap[w].uid
      BY <2>1, <2>5 DEF PutObj, TypeInv, PartsTypeOK, StoreTypeOK
    <2> QED
      BY <1>1, <2>1, <2>5, <2>6
  <1>5. CASE updatePrincipal(w)
    <2>1. pc[w] \in AtRight
      BY <1>5 DEF updatePrincipal, AtRight
    <2>2. ~CallFails(w) /\ ~Return(w, TRUE)
      BY <1>0 DEF CallFails, Return, AtRight
    <2>3. Stored(w) = snap[w].uid /\ NextRight(w) /\ obj' = obj
      BY <1>5, <2>2 DEF updatePrincipal, storeVars
    <2> QED
      BY <1>0, <2>1, <2>3 DEF NextRight, Stored
  <1>6. ~updateUser(w) /\ ~FinishWorkItem(w)
    BY updateUserMoves, FinishMoves DEF AtRight
  <1> QED
    BY <1>2, <1>3, <1>4, <1>5, <1>6 DEF Sync

LEMMA OwnersStep ==
    ASSUME TypeInv, CopiesAreOld, OwnersKnown, [Next]_vars
    PROVE  OwnersKnown'
  <1>1. UserMoves /\ ObjMoves
    BY UserMovesStep, ObjMovesStep
  <1>2. Len(born) \in Nat /\ Len(born') \in {Len(born), Len(born) + 1}
    BY <1>1 DEF UserMoves, TypeInv, PartsTypeOK, StoreTypeOK
  <1> DEFINE Known(v, n) == v \in {0, Foreign} \union 1 .. n
  <1>3. \A v : Known(v, Len(born)) => Known(v, Len(born'))
    BY <1>2
  <1>4. ASSUME NEW k \in Keys, NEW o \in Types
        PROVE  /\ Known(obj[k][o], Len(born))
               /\ Known(objCache[k][o], Len(born))
               /\ \A i \in 1 .. Len(objEv[k][o]) : Known(objEv[k][o][i], Len(born))
    BY DEF OwnersKnown
  <1>5. ASSUME NEW k \in Keys, NEW o \in Types PROVE Known(obj'[k][o], Len(born'))
    <2>1. Known(obj'[k][o], Len(born))
      BY <1>1, <1>4 DEF ObjMoves, ObjChanges
    <2> QED
      BY <1>3, <2>1
  <1> HIDE DEF Known
  <1>6. ASSUME NEW k \in Keys, NEW o \in Types
        PROVE  /\ Known(objCache'[k][o], Len(born'))
               /\ \A i \in 1 .. Len(objEv'[k][o]) : Known(objEv'[k][o][i], Len(born'))
    BY <1>1, <1>3, <1>4, <1>5 DEF ObjMoves
  <1> QED
    BY <1>5, <1>6 DEF OwnersKnown, Known

LEMMA SeenStep ==
    ASSUME TypeInv, CopiesAreOld, OwnersKnown, SeenHolds, [Next]_vars, spent'["remove"] = 0
    PROVE  SeenHolds'
  <1>1. UserMoves /\ ObjMoves
    BY UserMovesStep, ObjMovesStep
  <1>2. Len(born) \in Nat /\ Len(born') \in {Len(born), Len(born) + 1}
    BY <1>1 DEF UserMoves, TypeInv, PartsTypeOK, StoreTypeOK
  <1>3. ASSUME NEW k \in Keys, NEW o \in Types, NEW v \in {0, Foreign} \union 1 .. Len(born),
               v \in 1 .. Len(born) => Holds(k, o, v), v \in 1 .. Len(born')
        PROVE  Holds(k, o, v)'
    <2>1. v \in 1 .. Len(born)
      BY <1>2, <1>3, ForeignAssumption
    <2> QED
      BY <1>1, <1>3, <2>1, HoldsStays
  <1>4. ASSUME NEW k \in Keys, NEW o \in Types
        PROVE  /\ obj'[k][o] \in 1 .. Len(born') => Holds(k, o, obj[k][o])'
               /\ objCache'[k][o] \in 1 .. Len(born') => Holds(k, o, objCache[k][o])'
               /\ \A i \in 1 .. Len(objEv'[k][o]) :
                    objEv'[k][o][i] \in 1 .. Len(born') => Holds(k, o, objEv[k][o][i])'
    <2> DEFINE Held(v) == v \in 1 .. Len(born') => ((\E l \in Keys : user'[l].uid = v) => obj'[k][o] = v)
    <2>1. Held(obj'[k][o])
      OBVIOUS
    <2>2. Held(objCache[k][o])
      <3>1. /\ objCache[k][o] \in {0, Foreign} \union 1 .. Len(born)
            /\ objCache[k][o] \in 1 .. Len(born) => Holds(k, o, objCache[k][o])
        BY DEF OwnersKnown, SeenHolds
      <3> QED
        BY <1>3, <3>1 DEF Holds, Alive
    <2>3. ASSUME NEW j \in 1 .. Len(objEv[k][o]) PROVE Held(objEv[k][o][j])
      <3>1. /\ objEv[k][o][j] \in {0, Foreign} \union 1 .. Len(born)
            /\ objEv[k][o][j] \in 1 .. Len(born) => Holds(k, o, objEv[k][o][j])
        BY DEF OwnersKnown, SeenHolds
      <3> QED
        BY <1>3, <3>1 DEF Holds, Alive
    <2> HIDE DEF Held
    <2>4. /\ Held(objCache'[k][o])
          /\ \A i \in 1 .. Len(objEv'[k][o]) : Held(objEv'[k][o][i])
      BY <1>1, <2>1, <2>2, <2>3 DEF ObjMoves
    <2> QED
      BY <2>1, <2>4 DEF Held, Holds, Alive
  <1> QED
    BY <1>4 DEF SeenHolds

LEMMA PassedStep ==
    ASSUME TypeInv, TypeInv', CopiesAreOld, SeenHolds, PassedHolds, [Next]_vars,
           spent'["remove"] = 0
    PROVE  PassedHolds'
  <1>1. UserMoves /\ ObjMoves
    BY UserMovesStep, ObjMovesStep
  <1> SUFFICES ASSUME NEW w \in Workers, pc'[w] \in Syncing, NEW j \in 1 .. step'[w] - 1
               PROVE  Holds(NameOf(holding[w], snap[w], Rights[j]), Rights[j], snap[w].uid)'
    BY DEF PassedHolds
  <1>2. /\ holding'[w] = holding[w] /\ holding[w] \in Keys
        /\ \/ LookupUser(w) /\ step'[w] = 1
           \/ pc[w] \in Syncing /\ snap'[w] = snap[w] /\ ~LookupUser(w)
    BY SnapStep DEF LookupUser, Syncing, AtRight
  <1>3. /\ step[w] \in 0 .. 4 /\ step'[w] \in 0 .. 4 /\ pc \in [Workers -> Steps]
        /\ StoreTypeOK
    BY DEF TypeInv, PartsTypeOK, SyncTypeOK
  <1>4. pc[w] \in Syncing /\ snap'[w] = snap[w] /\ ~LookupUser(w)
    BY <1>2, <1>3
  <1>5. snap[w].uid \in 1 .. Len(born) /\ snap[w] \in UserRecord
    BY <1>4 DEF CopiesAreOld, IsCopy, CopyOf, TypeInv, PartsTypeOK, SyncTypeOK
  <1>6. j \in 1 .. 3 /\ Rights[j] \in Types
    BY <1>3, RightsFacts
  <1> DEFINE k == NameOf(holding[w], snap[w], Rights[j])
             o == Rights[j]
             v == snap[w].uid
  <1>7. k \in Keys
    BY <1>2, <1>5, NameType
  <1>8. k' = k /\ v' = v
    BY <1>2, <1>4 DEF NameOf, GetLocalPrincipalID
  <1> SUFFICES (\E l \in Keys : user'[l].uid = v) => obj'[k][o] = v
    BY <1>8 DEF Holds, Alive
  <1> HIDE DEF k, o, v
  <1>9. Holds(k, o, v) => ((\E l \in Keys : user'[l].uid = v) => obj'[k][o] = v)
    <2>1. o \in Types /\ v \in 1 .. Len(born)
      BY <1>5, <1>6 DEF o, v
    <2> QED
      BY <1>1, <1>7, <2>1, HoldsStays DEF Holds, Alive
  <1>10. CASE j \in 1 .. step[w] - 1
    BY <1>4, <1>9, <1>10 DEF PassedHolds, k, o, v
  <1>11. CASE j \notin 1 .. step[w] - 1
    <2>1. step'[w] # step[w]
      BY <1>11
    <2>2. Sync(w)
      <3>1. ~(\/ \E l \in Keys : Environment(l) \/ Informer(l)
              \/ Stop
              \/ UNCHANGED vars)
        BY <1>3, <2>1, OutsideFrame
      <3>2. ~\E x \in Workers : processNextWorkItem(x)
        BY <2>1 DEF processNextWorkItem
      <3>3. \A x \in Workers \ {w} : ~Sync(x)
        BY <2>1, SyncStep DEF SyncMoves
      <3>4. ~Restart
        BY DEF Restart, Syncing, AtRight
      <3> QED
        BY <3>1, <3>2, <3>3, <3>4 DEF Next
    <2>3. /\ pc[w] \in AtRight /\ step'[w] = step[w] + 1
          /\ \/ objCache[RightName(w)][Right(w)] = snap[w].uid
             \/ obj'[RightName(w)][Right(w)] = snap[w].uid
      BY <1>4, <2>1, <2>2, Advances
    <2>4. j = step[w]
      BY <1>3, <1>11, <2>3
    <2>5. RightName(w) = k /\ Right(w) = o /\ snap[w].uid = v
      BY <2>4 DEF RightName, Right, k, o, v
    <2>6. CASE objCache[k][o] = v
      <3>1. o \in Types /\ v \in 1 .. Len(born)
        BY <1>5, <1>6 DEF o, v
      <3>2. Holds(k, o, v)
        BY <1>7, <2>6, <3>1 DEF SeenHolds
      <3> QED
        BY <1>9, <3>2
    <2>7. CASE obj'[k][o] = v
      BY <2>7
    <2> QED
      BY <2>3, <2>5, <2>6, <2>7
  <1> QED
    BY <1>10, <1>11

(* A User that is reported as synced has its rights, and keeps them. *)
LEMMA SyncedRightsStep ==
    ASSUME TypeInv, TypeInv', CopiesAreOld, PassedHolds, SyncedUserHasRights, [Next]_vars,
           spent["remove"] = 0, spent'["remove"] = 0
    PROVE  SyncedUserHasRights'
  <1>1. UserMoves /\ ObjMoves
    BY UserMovesStep, ObjMovesStep
  <1> SUFFICES ASSUME NEW k \in Keys, user'[k] # NoUser, synced'[k] = user'[k].uid,
                      NEW o \in Types
               PROVE  obj'[NameOf(k, user'[k], o)][o] = user'[k].uid
    BY DEF SyncedUserHasRights, HasRights
  <1>2. /\ user[k] \in UserRecord /\ user'[k] \in UserRecord /\ Len(born) \in Nat
        /\ synced \in [Keys -> Nat]
    BY DEF TypeInv, PartsTypeOK, StoreTypeOK, RestTypeOK
  <1>3. CASE synced'[k] = synced[k]
    <2>1. synced[k] \in 0 .. Len(born)
      BY DEF CopiesAreOld
    <2>2. Evolved(k, user[k], Len(born), user'[k], Len(born'))
      BY <1>1 DEF UserMoves
    <2>3. /\ user[k] # NoUser /\ user'[k].uid = user[k].uid
          /\ GetLocalPrincipalID(k, user'[k]) = GetLocalPrincipalID(k, user[k])
      <3>1. user'[k].uid # Len(born) + 1
        BY <1>2, <1>3, <2>1
      <3>2. CASE user'[k] = user[k]
        BY <3>2
      <3>3. CASE user'[k] # user[k]
        BY <2>2, <3>1, <3>3 DEF Evolved
      <3> QED
        BY <3>2, <3>3
    <2>4. NameOf(k, user'[k], o) = NameOf(k, user[k], o)
      BY <2>3 DEF NameOf
    <2>5. obj[NameOf(k, user[k], o)][o] = user[k].uid
      BY <1>3, <2>3 DEF SyncedUserHasRights, HasRights
    <2>6. NameOf(k, user[k], o) \in Keys
      BY <1>2, NameType
    <2>7. user[k].uid \in 1 .. Len(born)
      BY <2>3 DEF CopiesAreOld, IsCopy, CopyOf
    <2>8. Holds(NameOf(k, user[k], o), o, user[k].uid)
      BY <2>5 DEF Holds
    <2>9. ASSUME NEW n \in Keys, NEW v \in 1 .. Len(born), Holds(n, o, v), user'[k].uid = v
          PROVE  obj'[n][o] = v
      BY <1>1, <2>9, HoldsStays DEF Holds, Alive
    <2> QED
      BY <2>3, <2>4, <2>6, <2>7, <2>8, <2>9
  <1>4. CASE synced'[k] # synced[k]
    <2>1. PICK w \in Workers :
                /\ updateUser(w) /\ Accepts(holding[w], UserCopy(w))
                /\ Store(holding[w], UserCopy(w))
                /\ synced' = [synced EXCEPT ![holding[w]] = snap[w].uid]
                /\ UNCHANGED <<obj, born, userCache, spent>>
      BY <1>4, SyncedStep
    <2>2. holding[w] = k /\ pc[w] = "write"
      BY <1>2, <1>4, <2>1 DEF updateUser
    <2>3. /\ user'[k].uid = snap[w].uid
          /\ GetLocalPrincipalID(k, user'[k]) = GetLocalPrincipalID(k, snap[w])
      BY <2>1, <2>2, StoreMoves
    <2>4. snap[w] = user[k]
      BY <2>1, <2>2, AcceptedIsStored
    <2>5. NameOf(k, user'[k], o) = NameOf(k, snap[w], o)
      BY <2>3 DEF NameOf
    <2>6. PICK j \in 1 .. 3 : Rights[j] = o
      BY RightsFacts
    <2>7. step[w] = 4
      BY <2>2 DEF TypeInv, WorkersReady
    <2>8. Holds(NameOf(k, snap[w], o), o, snap[w].uid)
      BY <2>2, <2>6, <2>7 DEF PassedHolds, Syncing
    <2>9. obj[NameOf(k, snap[w], o)][o] = snap[w].uid
      BY <2>4, <2>8 DEF Holds, Alive
    <2> QED
      BY <2>1, <2>3, <2>5, <2>9
  <1> QED
    BY <1>3, <1>4

UserInv == TypeInv /\ CopiesAreOld /\ RightsHeld /\ SyncedUserHasRights

LEMMA UserInit == Init => UserInv
  <1> SUFFICES ASSUME Init PROVE UserInv
    OBVIOUS
  <1>1. TypeInv /\ CopiesAreOld
    BY TypeInit, CopiesInit
  <1>2. OwnersKnown
    BY DEF Init, OwnersKnown
  <1>3. SeenHolds
    BY DEF Init, SeenHolds
  <1>4. PassedHolds
    BY DEF Init, PassedHolds, Syncing, AtRight
  <1>5. SyncedUserHasRights
    BY DEF Init, SyncedUserHasRights
  <1> QED
    BY <1>1, <1>2, <1>3, <1>4, <1>5 DEF UserInv, RightsHeld

LEMMA UserStep == UserInv /\ [Next]_vars => UserInv'
  <1> SUFFICES ASSUME UserInv, [Next]_vars PROVE UserInv'
    OBVIOUS
  <1> USE DEF UserInv, RightsHeld
  <1>1. TypeInv' /\ CopiesAreOld'
    BY TypeStep, CopiesStep
  <1>2. OwnersKnown'
    BY OwnersStep
  <1>3. CASE spent'["remove"] = 0
    <2>1. spent["remove"] = 0
      BY <1>3, RemovalsGrow
    <2>2. SeenHolds /\ PassedHolds
      BY <2>1
    <2>3. SeenHolds' /\ PassedHolds' /\ SyncedUserHasRights'
      BY <1>1, <1>3, <2>1, <2>2, SeenStep, PassedStep, SyncedRightsStep
    <2> QED
      BY <1>1, <1>2, <2>3
  <1>4. CASE spent'["remove"] # 0
    BY <1>1, <1>2, <1>4 DEF SyncedUserHasRights
  <1> QED
    BY <1>3, <1>4

(* Unless an administrator takes an object away, a User reported as synced *)
(* has its own Principal, role and binding for as long as it lives, for    *)
(* any number of Users, workers and restarts: two Users with the same      *)
(* principal are never both reported.                                      *)
THEOREM SyncedMeansRights == Spec => []SyncedUserHasRights
  <1>1. UserInv => SyncedUserHasRights
    BY DEF UserInv
  <1> QED
    BY UserInit, UserStep, <1>1, PTL DEF Spec

=============================================================================
