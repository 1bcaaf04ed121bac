---------------------------- MODULE InfraApiProofs ----------------------------
(***************************************************************************)
(* The infrastructure handlers, for any number of requests and kinds.      *)
(*                                                                         *)
(* The types need to know what a request has settled by the time it is     *)
(* where it is (Located).  ErrorHasCause is inductive once it also speaks  *)
(* of the errors on their way (CauseKnown).  AloneIsExact is not: it needs *)
(* that a request alone in statusGet shares it with nobody, that the maps  *)
(* hold what it has read up to its position, and that its answer holds     *)
(* what it has copied from them so far (ExactInv).                         *)
(***************************************************************************)
EXTENDS InfraApi, TLAPS

-----------------------------------------------------------------------------
(* What is known of a request, by where it is.                             *)

N == Len(KindSeq)
Item == States \cup {None}
Lookups == {None, "real", "empty"}
Answers == {None, "True", "False"}
Ops == {"baseinfo", "list", "get", "create", "delete"}

ReqRec ==
    [op : Ops \cup {None}, kind : Kinds \cup {Unknown, None}, i : 0 .. N,
     info : Lookups, inner : Lookups, got : Item \cup {"real", "notFound", "error"},
     read : [Kinds -> Item], conflict : BOOLEAN,
     status : [Kinds -> Answers], state : [Kinds -> Item],
     port : Kinds \cup {None}, setBy : Requests \cup {None}]

Configuring ==
    {"config", "getConfig", "setConfig", "haveConfig", "deployConfig", "getAgain"}

(* The request has the ConfigMap that its handler asked for first. *)
Handling ==
    {"resetStatus", "resetState", "getInfra", "setStatus", "setState", "readStatus",
     "readState", "ensureNamespace", "create", "delete", "sync", "nodeIP", "answer"}

OnKind == {"ensureNamespace", "create", "delete", "sync", "nodeIP", "answer"}

(* p is where it is, r its local variables. *)
Located(p, r) ==
    /\ p = "idle" => r = Start
    /\ p # "idle" => r.op \in Ops
    /\ p # "idle" /\ r.op \in {"get", "create", "delete"} => r.kind \in Kinds \cup {Unknown}
    /\ r.op \in {"baseinfo", "list"} => r.kind = None
    /\ r.i > 0 => r.op = "baseinfo"
    /\ p \in Configuring => r.op \in Ops \ {"list"}
    /\ p \in Handling \/ r.i > 0 => r.info # None
    /\ p \in {"resetStatus", "resetState"} => r.op = "baseinfo" /\ r.i = 0
    /\ p \in {"setStatus", "setState", "readStatus", "readState"} => r.i > 0
    /\ p = "getInfra" =>
        \/ r.op = "get" /\ r.kind \in Kinds
        \/ r.op = "baseinfo" /\ r.i > 0 /\ r.inner # None
    /\ p \in OnKind => r.op \in {"get", "create", "delete"} /\ r.kind \in Kinds
    /\ p = "setConfig" => r.got \in {"real", "notFound", "error"}
    /\ p \in {"setStatus", "setState"} => r.got \in Item
    /\ p \in {"config", "getConfig", "haveConfig", "deployConfig", "getAgain",
              "resetStatus", "resetState"} => r.got = None
    /\ p = "aborted" => r.op # "baseinfo"
    /\ p = "list" => r.op = "list"

WorldOK ==
    /\ stored \in BOOLEAN
    /\ namespaces \subseteq Kinds
    /\ infra \in [Kinds -> Item]
    /\ services \subseteq Kinds

GlobalsOK ==
    /\ configMap \in Lookups
    /\ status \in [Kinds -> Answers]
    /\ state \in [Kinds -> Item]
    /\ Service \in Kinds \cup {None}

RequestsOK ==
    /\ pc \in [Requests -> Labels]
    /\ req \in [Requests -> ReqRec]
    /\ \A c \in Requests : Located(pc[c], req[c])
    /\ \A c \in Requests : pc[c] = "haveConfig" => configMap # None

RestOK ==
    /\ up \in BOOLEAN
    /\ budget \in 0 .. Budget
    /\ alone \in [Requests -> BOOLEAN]
    /\ setBy \in Requests \cup {None}
    /\ failed \subseteq Requests

ApiInv == WorldOK /\ GlobalsOK /\ RequestsOK /\ RestOK

(* An error that is on its way has its cause already, and so has the answer. *)
HasCause(c) ==
    /\ pc[c] = "setConfig" /\ req[c].got = "error" => c \in failed
    /\ pc[c] = "error" => c \in failed \/ req[c].info = "empty" \/ req[c].conflict

CauseKnown == \A c \in Requests : HasCause(c)

-----------------------------------------------------------------------------
(* What makes the answers of a request exact.                              *)

StatusOf(x) == IF x = None THEN "False" ELSE "True"
StateOf(x) == IF x = None THEN "" ELSE x

Filling(p, r) ==
    r.i > 0 /\ p \in Configuring \cup {"getInfra", "setStatus", "setState"}
Reading(p) == p \in {"readStatus", "readState"}

(* A kind that statusGet has not come to is not read; the one it has come  *)
(* to is what the last call returned.                                      *)
ReadInOrder(p, r) ==
    r.op = "baseinfo" =>
        /\ r.i = 0 => \A j \in 1 .. N : r.read[KindSeq[j]] = None
        /\ Filling(p, r) =>
            /\ \A j \in 1 .. N : j > r.i => r.read[KindSeq[j]] = None
            /\ r.read[KindSeq[r.i]] = IF p \in {"setStatus", "setState"} THEN r.got ELSE None

(* The maps ss and ts hold what the request has read, up to where it is. *)
MapsExact(p, r, ss, ts) ==
    r.op = "baseinfo" =>
        /\ Filling(p, r) \/ Reading(p) =>
            \A j \in 1 .. N : (j < r.i \/ Reading(p)) =>
                /\ ss[KindSeq[j]] = StatusOf(r.read[KindSeq[j]])
                /\ ts[KindSeq[j]] = StateOf(r.read[KindSeq[j]])
        /\ p = "setState" => ss[KindSeq[r.i]] = StatusOf(r.read[KindSeq[r.i]])

(* And so does its answer. *)
AnswerExact(p, r) ==
    r.op = "baseinfo" /\ r.info = "real" =>
        /\ Reading(p) \/ p = "done" =>
            \A j \in 1 .. N : (j < r.i \/ p = "done") =>
                /\ r.status[KindSeq[j]] = StatusOf(r.read[KindSeq[j]])
                /\ r.state[KindSeq[j]] = StateOf(r.read[KindSeq[j]])
        /\ p = "readState" => r.status[KindSeq[r.i]] = StatusOf(r.read[KindSeq[r.i]])

Exact(c) ==
    /\ ReadInOrder(pc[c], req[c])
    /\ alone[c] => MapsExact(pc[c], req[c], status, state) /\ AnswerExact(pc[c], req[c])

(* A request that counts as alone shares statusGet with nobody. *)
AloneInside ==
    \A c, d \in Requests : c # d /\ alone[c] /\ InStatusGet(c) => ~InStatusGet(d)

(* The variable Service belongs to the request that assigned it last, and  *)
(* so does the port of its answer.                                         *)
Owned(c) ==
    /\ setBy = c => pc[c] # "idle" /\ Service = req[c].kind
    /\ req[c].setBy = c => pc[c] # "idle" /\ req[c].port = req[c].kind

ExactInv == AloneInside /\ \A c \in Requests : Owned(c) /\ Exact(c)

-----------------------------------------------------------------------------
(* Types.                                                                  *)

LEMMA KindFacts ==
    /\ N \in Nat /\ N >= 1
    /\ \A j \in 1 .. N : KindSeq[j] \in Kinds
    /\ \A k \in Kinds : \E j \in 1 .. N : k = KindSeq[j]
    /\ \A i, j \in 1 .. N : KindSeq[i] = KindSeq[j] => i = j
  <1>1. KindSeq \in Seq(STRING) /\ KindSeq # << >>
    BY KindsAssumption
  <1>2. N \in Nat /\ N >= 1
    BY <1>1 DEF N
  <1> QED
    BY <1>2, KindsAssumption DEF Kinds, N

(* The edits that the steps make to the local variables. *)
LEMMA Edits ==
    ASSUME NEW r \in ReqRec
    PROVE  /\ \A o \in Ops, k \in Kinds \cup {Unknown, None} :
                [r EXCEPT !.op = o, !.kind = k] \in ReqRec
           /\ \A x \in Item \cup {"real", "notFound", "error"} : [r EXCEPT !.got = x] \in ReqRec
           /\ \A x \in Lookups : [r EXCEPT !.info = x] \in ReqRec
           /\ \A x \in Lookups : [r EXCEPT !.inner = x] \in ReqRec
           /\ \A x \in 0 .. N : [r EXCEPT !.i = x] \in ReqRec
           /\ \A x \in 0 .. N : [r EXCEPT !.i = x, !.got = None, !.inner = None] \in ReqRec
           /\ \A b \in BOOLEAN : [r EXCEPT !.conflict = b] \in ReqRec
           /\ \A k \in Kinds \cup {None}, d \in Requests \cup {None} :
                [r EXCEPT !.port = k, !.setBy = d] \in ReqRec
  <1> USE DEF ReqRec
  <1>1. ASSUME NEW o \in Ops, NEW k \in Kinds \cup {Unknown, None}
        PROVE  [r EXCEPT !.op = o, !.kind = k] \in ReqRec
    BY <1>1
  <1>2. ASSUME NEW x \in Item \cup {"real", "notFound", "error"} PROVE [r EXCEPT !.got = x] \in ReqRec
    OBVIOUS
  <1>3. ASSUME NEW x \in Lookups PROVE [r EXCEPT !.info = x] \in ReqRec
    OBVIOUS
  <1>4. ASSUME NEW x \in Lookups PROVE [r EXCEPT !.inner = x] \in ReqRec
    OBVIOUS
  <1>5. ASSUME NEW x \in 0 .. N PROVE [r EXCEPT !.i = x] \in ReqRec
    OBVIOUS
  <1>6. ASSUME NEW x \in 0 .. N PROVE [r EXCEPT !.i = x, !.got = None, !.inner = None] \in ReqRec
    BY DEF Item, Lookups
  <1>7. ASSUME NEW b \in BOOLEAN PROVE [r EXCEPT !.conflict = b] \in ReqRec
    OBVIOUS
  <1>8. ASSUME NEW k \in Kinds \cup {None}, NEW d \in Requests \cup {None}
        PROVE  [r EXCEPT !.port = k, !.setBy = d] \in ReqRec
    OBVIOUS
  <1> QED
    BY <1>1, <1>2, <1>3, <1>4, <1>5, <1>6, <1>7, <1>8

LEMMA MapEdits ==
    ASSUME NEW r \in ReqRec, NEW k \in Kinds
    PROVE  /\ \A x \in Answers : [r EXCEPT !.status[k] = x] \in ReqRec
           /\ \A x \in Item, j \in 0 .. N : [r EXCEPT !.state[k] = x, !.i = j] \in ReqRec
           /\ \A x \in Item, b \in BOOLEAN :
                [r EXCEPT !.got = x, !.read[k] = x, !.conflict = b] \in ReqRec
  <1> USE DEF ReqRec
  <1>0. r.status \in [Kinds -> Answers] /\ r.state \in [Kinds -> Item] /\ r.read \in [Kinds -> Item]
    OBVIOUS
  <1>1. ASSUME NEW x \in Answers PROVE [r EXCEPT !.status[k] = x] \in ReqRec
    <2>1. [r.status EXCEPT ![k] = x] \in [Kinds -> Answers]
      BY <1>0
    <2> QED
      BY <2>1
  <1>2. ASSUME NEW x \in Item, NEW j \in 0 .. N PROVE [r EXCEPT !.state[k] = x, !.i = j] \in ReqRec
    <2>1. [r.state EXCEPT ![k] = x] \in [Kinds -> Item]
      BY <1>0
    <2> QED
      BY <2>1
  <1>3. ASSUME NEW x \in Item, NEW b \in BOOLEAN
        PROVE  [r EXCEPT !.got = x, !.read[k] = x, !.conflict = b] \in ReqRec
    <2>1. [r.read EXCEPT ![k] = x] \in [Kinds -> Item]
      BY <1>0
    <2> QED
      BY <2>1
  <1> QED
    BY <1>1, <1>2, <1>3

LEMMA ReqFacts ==
    ASSUME ApiInv, NEW c \in Requests
    PROVE  /\ req[c] \in ReqRec /\ Located(pc[c], req[c]) /\ pc[c] \in Labels
           /\ req[c].i \in 0 .. N /\ req[c].i \in Nat /\ req[c].info \in Lookups
           /\ req[c].inner \in Lookups
           /\ req[c].i > 0 => KindSeq[req[c].i] \in Kinds
           /\ req[c].i > 0 \/ pc[c] = "getInfra" => Kind(c) \in Kinds
           /\ req[c].i > 0 => Kind(c) = KindSeq[req[c].i] /\ req[c].op = "baseinfo"
  <1>1. req[c] \in ReqRec /\ Located(pc[c], req[c]) /\ pc[c] \in Labels
    BY DEF ApiInv, RequestsOK
  <1>2. /\ req[c].i \in 0 .. N /\ req[c].i \in Nat /\ req[c].info \in Lookups
        /\ req[c].inner \in Lookups
    BY <1>1, KindFacts DEF ReqRec
  <1>3. req[c].i > 0 => KindSeq[req[c].i] \in Kinds /\ req[c].op = "baseinfo"
    BY <1>1, <1>2, KindFacts DEF Located
  <1>4. req[c].i > 0 => Kind(c) = KindSeq[req[c].i]
    BY <1>3 DEF Kind
  <1>5. pc[c] = "getInfra" => Kind(c) \in Kinds
    BY <1>1, <1>3 DEF Located, Kind
  <1> QED
    BY <1>1, <1>2, <1>3, <1>4, <1>5

(* A request goes on at l with the local variables r. *)
Goes(c, l, r) == pc' = [pc EXCEPT ![c] = l] /\ req' = [req EXCEPT ![c] = r]

LEMMA GoesFits ==
    ASSUME ApiInv, NEW c \in Requests, NEW l \in Labels, NEW r \in ReqRec, Located(l, r),
           Goes(c, l, r), configMap # None => configMap' # None,
           l = "haveConfig" => configMap' # None
    PROVE  RequestsOK'
  <1>1. pc' \in [Requests -> Labels] /\ pc'[c] = l
        /\ \A d \in Requests \ {c} : pc'[d] = pc[d]
    BY DEF ApiInv, RequestsOK, Goes
  <1>2. req' \in [Requests -> ReqRec] /\ req'[c] = r
        /\ \A d \in Requests \ {c} : req'[d] = req[d]
    BY DEF ApiInv, RequestsOK, Goes
  <1>3. \A d \in Requests : Located(pc'[d], req'[d])
    BY <1>1, <1>2 DEF ApiInv, RequestsOK
  <1>4. \A d \in Requests : pc'[d] = "haveConfig" => configMap' # None
    BY <1>1 DEF ApiInv, RequestsOK
  <1> QED
    BY <1>1, <1>2, <1>3, <1>4 DEF RequestsOK

LEMMA SpendFits ==
    ASSUME RestOK, Spend
    PROVE  budget' \in 0 .. Budget
  BY BudgetAssumption DEF RestOK, Spend

LEMMA FailsFits ==
    ASSUME ApiInv, NEW c \in Requests, NEW l, Fails(c, l)
    PROVE  GlobalsOK' /\ RestOK' /\ UNCHANGED <<globals, up, alone, setBy>>
           /\ failed' = failed \cup {c} /\ pc' = [pc EXCEPT ![c] = l]
  <1>1. RestOK'
    BY SpendFits DEF Fails, ApiInv, RestOK
  <1> QED
    BY <1>1 DEF Fails, globals, GoTo, ApiInv, GlobalsOK

-----------------------------------------------------------------------------
(* The steps, one by one.                                                  *)

LEMMA ArriveFits ==
    ASSUME ApiInv, NEW c \in Requests, Arrive(c)
    PROVE  ApiInv'
  <1>1. PICK o \in Ops, k \in Kinds \cup {Unknown, None} :
            /\ o \in {"baseinfo", "list"} => k = None
            /\ o \notin {"baseinfo", "list"} => k \in Kinds \cup {Unknown}
            /\ req' = [req EXCEPT ![c].op = o, ![c].kind = k]
            /\ GoTo(c, IF o = "list" THEN "list" ELSE "config")
    BY DEF Arrive, Ops
  <1> DEFINE r == [req[c] EXCEPT !.op = o, !.kind = k]
             l == IF o = "list" THEN "list" ELSE "config"
  <1>2. req[c] \in ReqRec /\ req[c] = Start
    BY ReqFacts DEF Arrive, At, Located
  <1>3. r \in ReqRec
    BY <1>2, Edits
  <1>4. Located(l, r)
    BY <1>1, <1>2 DEF Located, Start, ReqRec, Ops, Configuring, Handling, OnKind
  <1>5. Goes(c, l, r) /\ l \in Labels
    BY <1>1 DEF Goes, GoTo, Labels
  <1> HIDE DEF r, l
  <1>6. RequestsOK'
    BY <1>3, <1>4, <1>5, GoesFits DEF Arrive, globals, l
  <1> QED
    BY <1>6 DEF Arrive, ApiInv, storeVars, globals, history, WorldOK, GlobalsOK, RestOK

(* The steps of getConfigMapInfo. *)
LEMMA CheckFits ==
    ASSUME ApiInv, NEW c \in Requests, CheckConfigMap(c)
    PROVE  ApiInv'
  <1> DEFINE l == IF configMap = None THEN "getConfig" ELSE "haveConfig"
  <1>1. req[c] \in ReqRec /\ Located("config", req[c])
    BY ReqFacts DEF CheckConfigMap, At
  <1>2. Located(l, req[c]) /\ l \in Labels
    BY <1>1 DEF Located, Configuring, Handling, OnKind, Labels
  <1>3. Goes(c, l, req[c])
    BY DEF CheckConfigMap, Goes, GoTo, ApiInv, RequestsOK
  <1>4. RequestsOK'
    BY <1>1, <1>2, <1>3, GoesFits DEF CheckConfigMap, globals
  <1> QED
    BY <1>4 DEF CheckConfigMap, ApiInv, storeVars, globals, history, WorldOK, GlobalsOK, RestOK

LEMMA CallGetFits ==
    ASSUME ApiInv, NEW c \in Requests, CallConfigMapGet(c) \/ CallConfigMapGetFails(c)
    PROVE  ApiInv'
  <1>1. PICK x \in {"real", "notFound", "error"} : req' = [req EXCEPT ![c].got = x]
    BY DEF CallConfigMapGet, CallConfigMapGetFails
  <1> DEFINE r == [req[c] EXCEPT !.got = x]
  <1>2. req[c] \in ReqRec /\ Located("getConfig", req[c])
    BY ReqFacts DEF CallConfigMapGet, CallConfigMapGetFails, At
  <1>3. r \in ReqRec
    BY <1>2, Edits
  <1>4. Located("setConfig", r)
    BY <1>2 DEF Located, ReqRec, Configuring, Handling, OnKind
  <1>5. Goes(c, "setConfig", r) /\ "setConfig" \in Labels
    BY <1>1 DEF CallConfigMapGet, CallConfigMapGetFails, Fails, Goes, GoTo, Labels
  <1>6. UNCHANGED <<storeVars, globals>>
    BY DEF CallConfigMapGet, CallConfigMapGetFails, Fails
  <1> HIDE DEF r
  <1>7. RequestsOK'
    BY <1>3, <1>4, <1>5, <1>6, GoesFits DEF globals
  <1>8. RestOK'
    BY FailsFits DEF CallConfigMapGet, CallConfigMapGetFails, history, ApiInv, RestOK
  <1> QED
    BY <1>6, <1>7, <1>8 DEF ApiInv, storeVars, globals, WorldOK, GlobalsOK

LEMMA NoConfigFits ==
    ASSUME ApiInv, NEW c \in Requests, pc[c] \in {"setConfig", "deployConfig", "getAgain"}, NEW r,
           r = [req[c] EXCEPT !.got = None]
    PROVE  NoConfig(c) \in Labels /\ NoConfig(c) # "haveConfig" /\ Located(NoConfig(c), r)
  <1>1. req[c] \in ReqRec /\ Located(pc[c], req[c])
    BY ReqFacts
  <1>2. CASE req[c].op = "baseinfo" /\ req[c].i > 0
    <2>1. NoConfig(c) = "setStatus"
      BY <1>2 DEF NoConfig
    <2> QED
      BY <1>1, <1>2, <2>1 DEF Located, ReqRec, Configuring, Handling, OnKind, Labels, UsingMaps, Item
  <1>3. CASE ~(req[c].op = "baseinfo" /\ req[c].i > 0)
    <2>1. NoConfig(c) = "error"
      BY <1>3 DEF NoConfig
    <2> QED
      BY <1>1, <1>3, <2>1 DEF Located, ReqRec, Configuring, Handling, OnKind, Labels, UsingMaps
  <1> QED
    BY <1>2, <1>3

LEMMA AssignFits ==
    ASSUME ApiInv, NEW c \in Requests, AssignConfigMap(c)
    PROVE  ApiInv'
  <1> DEFINE g == req[c].got
             r == [req[c] EXCEPT !.got = None]
             l == CASE g = "real" -> "haveConfig"
                    [] g = "notFound" -> "deployConfig"
                    [] g = "error" -> NoConfig(c)
  <1>1. /\ req[c] \in ReqRec /\ pc[c] = "setConfig" /\ Located("setConfig", req[c])
        /\ g \in {"real", "notFound", "error"}
    BY ReqFacts DEF AssignConfigMap, At, Located
  <1>2. r \in ReqRec
    BY <1>1, Edits DEF Item
  <1>3. Located(l, r) /\ l \in Labels
    <2>1. CASE g = "real"
      <3>1. l = "haveConfig"
        BY <2>1
      <3> QED
        BY <1>1, <3>1 DEF Located, ReqRec, Configuring, Handling, OnKind, Labels
    <2>2. CASE g = "notFound"
      <3>1. l = "deployConfig"
        BY <2>2
      <3> QED
        BY <1>1, <3>1 DEF Located, ReqRec, Configuring, Handling, OnKind, Labels
    <2>3. CASE g = "error"
      <3>1. l = NoConfig(c)
        BY <2>3
      <3> QED
        BY <1>1, <3>1, NoConfigFits
    <2> QED
      BY <1>1, <2>1, <2>2, <2>3
  <1>4. Goes(c, l, r)
    BY DEF AssignConfigMap, Goes, GoTo
  <1>5. configMap' \in {"real", "empty"} /\ None \notin {"real", "empty"}
    BY KindsAssumption DEF AssignConfigMap
  <1> HIDE DEF r, l
  <1>6. RequestsOK'
    BY <1>2, <1>3, <1>4, <1>5, GoesFits
  <1>7. GlobalsOK'
    BY <1>5 DEF AssignConfigMap, ApiInv, GlobalsOK, Lookups
  <1> QED
    BY <1>6, <1>7 DEF AssignConfigMap, ApiInv, storeVars, history, WorldOK, RestOK

LEMMA LookedFits ==
    ASSUME ApiInv, NEW c \in Requests, pc[c] \in {"haveConfig", "deployConfig", "getAgain"},
           NEW x \in {"real", "empty"}, Looked(c, x), GoTo(c, WithConfig(c)),
           UNCHANGED configMap
    PROVE  RequestsOK'
  <1> DEFINE r == IF req[c].i = 0 THEN [req[c] EXCEPT !.info = x] ELSE [req[c] EXCEPT !.inner = x]
             l == WithConfig(c)
  <1>1. /\ req[c] \in ReqRec /\ Located(pc[c], req[c]) /\ req[c].i \in Nat
        /\ x # None /\ x \in Lookups /\ Unknown # None /\ Unknown \notin Kinds
        /\ req[c].op \in {"baseinfo", "get", "create", "delete"}
    BY ReqFacts, KindsAssumption DEF Lookups, Located, Configuring, Ops
  <1>2. r \in ReqRec
    BY <1>1, Edits
  <1>3. Goes(c, l, r)
    BY DEF Looked, Goes, GoTo
  <1>4. CASE req[c].i = 0
    <2>1. r = [req[c] EXCEPT !.info = x]
      BY <1>4
    <2> HIDE DEF r
    <2>2. CASE req[c].kind = Unknown
      <3>1. l = "aborted"
        BY <2>2 DEF WithConfig
      <3>2. Located(l, r) /\ l \in Labels /\ l # "haveConfig"
        BY <1>1, <1>4, <2>1, <2>2, <3>1
        DEF Located, ReqRec, Configuring, Handling, OnKind, Labels
      <3> QED
        BY <1>2, <1>3, <3>2, GoesFits
    <2>3. CASE req[c].kind # Unknown
      <3>1. l = CASE req[c].op = "baseinfo" -> "resetStatus"
                  [] req[c].op = "get" -> "getInfra"
                  [] req[c].op = "create" -> "ensureNamespace"
                  [] req[c].op = "delete" -> "delete"
        BY <1>1, <1>4, <2>3 DEF WithConfig
      <3>2. Located(l, r) /\ l \in Labels /\ l # "haveConfig"
        <4>1. CASE req[c].op = "baseinfo"
          <5>1. l = "resetStatus"
            BY <3>1, <4>1
          <5> QED
            BY <1>1, <1>4, <2>1, <4>1, <5>1
            DEF Located, ReqRec, Configuring, Handling, OnKind, Labels
        <4>2. CASE req[c].op = "get"
          <5>1. l = "getInfra"
            BY <3>1, <4>2
          <5> QED
            BY <1>1, <1>4, <2>1, <2>3, <4>2, <5>1
            DEF Located, ReqRec, Configuring, Handling, OnKind, Labels
        <4>3. CASE req[c].op = "create"
          <5>1. l = "ensureNamespace"
            BY <3>1, <4>3
          <5> QED
            BY <1>1, <1>4, <2>1, <2>3, <4>3, <5>1
            DEF Located, ReqRec, Configuring, Handling, OnKind, Labels
        <4>4. CASE req[c].op = "delete"
          <5>1. l = "delete"
            BY <3>1, <4>4
          <5> QED
            BY <1>1, <1>4, <2>1, <2>3, <4>4, <5>1
            DEF Located, ReqRec, Configuring, Handling, OnKind, Labels
        <4> QED
          BY <1>1, <4>1, <4>2, <4>3, <4>4
      <3> HIDE DEF l
      <3> QED
        BY <1>2, <1>3, <3>2, GoesFits
    <2> QED
      BY <2>2, <2>3
  <1>5. CASE req[c].i # 0
    <2>1. r = [req[c] EXCEPT !.inner = x] /\ req[c].i > 0 /\ req[c].op = "baseinfo"
      BY <1>1, <1>5 DEF Located
    <2>2. l = "getInfra"
      BY <1>1, <1>5, <2>1 DEF WithConfig, Located
    <2> HIDE DEF r
    <2>3. Located(l, r) /\ l \in Labels /\ l # "haveConfig"
      BY <1>1, <1>5, <2>1, <2>2 DEF Located, ReqRec, Configuring, Handling, OnKind, Labels
    <2> HIDE DEF l
    <2> QED
      BY <1>2, <1>3, <2>3, GoesFits
  <1> QED
    BY <1>4, <1>5

LEMMA ReturnFits ==
    ASSUME ApiInv, NEW c \in Requests, ConfigMapDeploy(c) \/ ConfigMapGetAgain(c) \/ ReturnConfigMap(c)
    PROVE  ApiInv'
  <1>1. PICK x \in {"real", "empty"} : Looked(c, x)
    BY DEF ConfigMapDeploy, ConfigMapGetAgain, ReturnConfigMap, At, ApiInv, RequestsOK, GlobalsOK, Lookups
  <1>2. /\ pc[c] \in {"haveConfig", "deployConfig", "getAgain"}
        /\ GoTo(c, WithConfig(c)) /\ UNCHANGED globals
    BY DEF ConfigMapDeploy, ConfigMapGetAgain, ReturnConfigMap, At
  <1>3. RequestsOK'
    BY <1>1, <1>2, LookedFits DEF globals
  <1>4. GlobalsOK' /\ RestOK'
    BY <1>2 DEF ConfigMapDeploy, ConfigMapGetAgain, ReturnConfigMap, ApiInv, globals, history, GlobalsOK, RestOK
  <1>5. WorldOK'
    BY DEF ConfigMapDeploy, ConfigMapGetAgain, ReturnConfigMap, ApiInv, storeVars, WorldOK
  <1> QED
    BY <1>3, <1>4, <1>5 DEF ApiInv

LEMMA DeployFailsFits ==
    ASSUME ApiInv, NEW c \in Requests, ConfigMapDeployFails(c)
    PROVE  ApiInv'
  <1>1. /\ req[c] \in ReqRec /\ pc[c] \in {"deployConfig", "getAgain"} /\ req[c].got = None
        /\ Fails(c, NoConfig(c)) /\ req' = req
    BY ReqFacts DEF ConfigMapDeployFails, At, Located
  <1>2. req[c] = [req[c] EXCEPT !.got = None]
    BY <1>1 DEF ReqRec
  <1>3. NoConfig(c) \in Labels /\ NoConfig(c) # "haveConfig" /\ Located(NoConfig(c), req[c])
    BY <1>1, <1>2, NoConfigFits
  <1>4. Goes(c, NoConfig(c), req[c])
    BY <1>1 DEF Fails, Goes, GoTo, ApiInv, RequestsOK
  <1>5. GlobalsOK' /\ RestOK' /\ UNCHANGED configMap
    BY <1>1, FailsFits DEF globals
  <1>6. RequestsOK'
    BY <1>1, <1>3, <1>4, <1>5, GoesFits
  <1> QED
    BY <1>5, <1>6 DEF ConfigMapDeployFails, ApiInv, WorldOK

(* The Create that finds the ConfigMap, and the Get that finds it gone. *)
LEMMA ExistsFits ==
    ASSUME ApiInv, NEW c \in Requests, ConfigMapExists(c)
    PROVE  ApiInv'
  <1>1. req[c] \in ReqRec /\ Located("deployConfig", req[c])
    BY ReqFacts DEF ConfigMapExists, At
  <1>2. Located("getAgain", req[c]) /\ "getAgain" \in Labels
    BY <1>1 DEF Located, Configuring, Handling, OnKind, Labels
  <1>3. Goes(c, "getAgain", req[c])
    BY DEF ConfigMapExists, Goes, GoTo, ApiInv, RequestsOK
  <1>4. RequestsOK'
    BY <1>1, <1>2, <1>3, GoesFits DEF ConfigMapExists, globals
  <1> QED
    BY <1>4 DEF ConfigMapExists, ApiInv, storeVars, globals, history, WorldOK, GlobalsOK, RestOK

LEMMA GoneFits ==
    ASSUME ApiInv, NEW c \in Requests, ConfigMapGone(c)
    PROVE  ApiInv'
  <1> DEFINE r == [req[c] EXCEPT !.conflict = TRUE]
  <1>1. req[c] \in ReqRec /\ pc[c] = "getAgain" /\ req[c].got = None
    BY ReqFacts DEF ConfigMapGone, At, Located
  <1>2. req[c] = [req[c] EXCEPT !.got = None]
    BY <1>1 DEF ReqRec
  <1>3. NoConfig(c) \in Labels /\ NoConfig(c) # "haveConfig" /\ Located(NoConfig(c), req[c])
    BY <1>1, <1>2, NoConfigFits
  <1>4. r \in ReqRec
    BY <1>1, Edits
  <1>5. Located(NoConfig(c), r)
    BY <1>1, <1>3 DEF Located, ReqRec, NoConfig, Handling, OnKind, Configuring
  <1>6. Goes(c, NoConfig(c), r)
    BY DEF ConfigMapGone, Goes, GoTo
  <1> HIDE DEF r
  <1>7. RequestsOK'
    BY <1>3, <1>4, <1>5, <1>6, GoesFits DEF ConfigMapGone, globals
  <1> QED
    BY <1>7 DEF ConfigMapGone, ApiInv, storeVars, globals, history, WorldOK, GlobalsOK, RestOK

(* The steps of statusGet and of the answer. *)
LEMMA ResetStatusFits ==
    ASSUME ApiInv, NEW c \in Requests, ResetStatus(c)
    PROVE  ApiInv'
  <1>1. req[c] \in ReqRec /\ Located("resetStatus", req[c])
    BY ReqFacts DEF ResetStatus, At
  <1>2. Located("resetState", req[c]) /\ "resetState" \in Labels
    BY <1>1 DEF Located, Configuring, Handling, OnKind, Labels, UsingMaps
  <1>3. Goes(c, "resetState", req[c])
    BY DEF ResetStatus, Goes, GoTo, ApiInv, RequestsOK
  <1>4. RequestsOK'
    BY <1>1, <1>2, <1>3, GoesFits DEF ResetStatus
  <1>5. alone' \in [Requests -> BOOLEAN]
    BY DEF ResetStatus, ApiInv, RestOK
  <1>6. RestOK'
    BY <1>5 DEF ResetStatus, ApiInv, RestOK
  <1>7. GlobalsOK'
    BY DEF ResetStatus, ApiInv, GlobalsOK, NoEntries, Answers
  <1> QED
    BY <1>4, <1>6, <1>7 DEF ResetStatus, ApiInv, storeVars, WorldOK

LEMMA ResetStateFits ==
    ASSUME ApiInv, NEW c \in Requests, ResetState(c)
    PROVE  ApiInv'
  <1> DEFINE r == [req[c] EXCEPT !.i = 1]
  <1>1. req[c] \in ReqRec /\ Located("resetState", req[c])
    BY ReqFacts DEF ResetState, At
  <1>0. 1 \in 0 .. N
    BY KindFacts
  <1>2. r \in ReqRec
    BY <1>0, <1>1, Edits
  <1>3. Located("config", r) /\ "config" \in Labels
    BY <1>1 DEF Located, ReqRec, Configuring, Handling, OnKind, Labels, Ops
  <1>4. Goes(c, "config", r)
    BY DEF ResetState, Goes, GoTo
  <1> HIDE DEF r
  <1>5. RequestsOK'
    BY <1>2, <1>3, <1>4, GoesFits DEF ResetState
  <1>6. GlobalsOK'
    BY DEF ResetState, ApiInv, GlobalsOK, NoEntries, Item
  <1> QED
    BY <1>5, <1>6 DEF ResetState, ApiInv, storeVars, history, WorldOK, RestOK

(* What the Get of InfrastructureGet returns. *)
Found(c) ==
    IF (IF req[c].op = "baseinfo" THEN req[c].inner ELSE req[c].info) = "real"
    THEN infra[Kind(c)] ELSE None

LEMMA GetInfraIs ==
    ASSUME ApiInv, NEW c \in Requests, GetInfra(c)
    PROVE  /\ pc[c] = "getInfra" /\ Kind(c) \in Kinds /\ Found(c) \in Item
           /\ req' = [req EXCEPT ![c] = [req[c] EXCEPT !.got = Found(c), !.read[Kind(c)] = Found(c),
                                                       !.conflict = infra[Kind(c)] = None]]
           /\ GoTo(c, CASE req[c].op = "baseinfo" -> "setStatus"
                        [] req[c].op = "get" /\ Found(c) # None -> "sync"
                        [] OTHER -> "error")
           /\ UNCHANGED <<storeVars, globals, up, budget, history>>
  <1>1. pc[c] = "getInfra" /\ Kind(c) \in Kinds
    BY ReqFacts DEF GetInfra, At
  <1>2. Found(c) \in Item
    BY <1>1 DEF Found, ApiInv, WorldOK, Item
  <1> QED
    BY <1>1, <1>2 DEF GetInfra, Found

LEMMA GetInfraFits ==
    ASSUME ApiInv, NEW c \in Requests, GetInfra(c)
    PROVE  ApiInv'
  <1> DEFINE x == Found(c)
             b == infra[Kind(c)] = None
             k == Kind(c)
             r == [req[c] EXCEPT !.got = x, !.read[k] = x, !.conflict = b]
             l == CASE req[c].op = "baseinfo" -> "setStatus"
                    [] req[c].op = "get" /\ x # None -> "sync"
                    [] OTHER -> "error"
  <1>1. req[c] \in ReqRec /\ Located("getInfra", req[c]) /\ k \in Kinds /\ x \in Item /\ b \in BOOLEAN
    BY ReqFacts, GetInfraIs
  <1>2. Goes(c, l, r) /\ UNCHANGED <<storeVars, globals, up, budget, history>>
    BY GetInfraIs DEF Goes, GoTo
  <1> HIDE DEF x, b, k
  <1>3. r \in ReqRec
    BY <1>1, MapEdits
  <1>4. /\ r.op = req[c].op /\ r.kind = req[c].kind /\ r.i = req[c].i /\ r.info = req[c].info
        /\ r.inner = req[c].inner /\ r.got = x
    BY <1>1 DEF ReqRec
  <1>5. l \in {"setStatus", "sync", "error"}
        /\ (l = "setStatus" => req[c].op = "baseinfo") /\ (l = "sync" => req[c].op = "get")
    <2>1. CASE req[c].op = "baseinfo"
      <3>1. l = "setStatus"
        BY <2>1
      <3> QED
        BY <2>1, <3>1
    <2>2. CASE req[c].op = "get" /\ x # None
      <3>1. l = "sync"
        BY <2>2
      <3> QED
        BY <2>2, <3>1
    <2>3. CASE req[c].op # "baseinfo" /\ ~(req[c].op = "get" /\ x # None)
      <3>1. l = "error"
        BY <2>3
      <3> QED
        BY <3>1
    <2> QED
      BY <2>1, <2>2, <2>3
  <1> HIDE DEF r, l
  <1>6. Located(l, r) /\ l \in Labels
    BY <1>1, <1>4, <1>5 DEF Located, Configuring, Handling, OnKind, Labels, UsingMaps
  <1>7. RequestsOK'
    BY <1>2, <1>3, <1>5, <1>6, GoesFits DEF globals
  <1> QED
    BY <1>2, <1>7 DEF ApiInv, storeVars, globals, history, WorldOK, GlobalsOK, RestOK

LEMMA GetInfraFailsFits ==
    ASSUME ApiInv, NEW c \in Requests, GetInfraFails(c)
    PROVE  ApiInv'
  <1> DEFINE r == [req[c] EXCEPT !.got = None]
             l == IF req[c].op = "baseinfo" THEN "setStatus" ELSE "error"
  <1>1. req[c] \in ReqRec /\ Located("getInfra", req[c]) /\ Fails(c, l)
    BY ReqFacts DEF GetInfraFails, At
  <1>2. r \in ReqRec
    BY <1>1, Edits DEF Item
  <1>3. Located(l, r) /\ l \in Labels
    BY <1>1 DEF Located, ReqRec, Configuring, Handling, OnKind, Labels, UsingMaps, Item
  <1>4. Goes(c, l, r)
    BY DEF GetInfraFails, Fails, Goes, GoTo
  <1>5. GlobalsOK' /\ RestOK' /\ UNCHANGED configMap
    BY <1>1, FailsFits DEF globals
  <1>6. l # "haveConfig"
    OBVIOUS
  <1> HIDE DEF r, l
  <1>7. RequestsOK'
    BY <1>2, <1>3, <1>4, <1>5, <1>6, GoesFits
  <1> QED
    BY <1>5, <1>7 DEF GetInfraFails, ApiInv, storeVars, WorldOK

LEMMA SetStatusFits ==
    ASSUME ApiInv, NEW c \in Requests, SetStatus(c)
    PROVE  ApiInv'
  <1>1. req[c] \in ReqRec /\ Located("setStatus", req[c]) /\ req[c].i > 0
    BY ReqFacts DEF SetStatus, At, Located
  <1>2. Located("setState", req[c]) /\ "setState" \in Labels
    BY <1>1 DEF Located, Configuring, Handling, OnKind, Labels, UsingMaps
  <1>3. Goes(c, "setState", req[c])
    BY DEF SetStatus, Goes, GoTo, ApiInv, RequestsOK
  <1>4. RequestsOK'
    BY <1>1, <1>2, <1>3, GoesFits DEF SetStatus
  <1>5. Kind(c) \in Kinds
    BY <1>1, ReqFacts
  <1>6. status' \in [Kinds -> Answers]
    BY <1>5 DEF SetStatus, ApiInv, GlobalsOK, Answers
  <1> QED
    BY <1>4, <1>6 DEF SetStatus, ApiInv, storeVars, history, WorldOK, GlobalsOK, RestOK

(* What the steps of the second map and of the answer leave behind. *)
NextI(c) == IF req[c].i = Len(KindSeq) THEN 1 ELSE req[c].i + 1

LEMMA SetStateFits ==
    ASSUME ApiInv, NEW c \in Requests, SetState(c)
    PROVE  ApiInv'
  <1> DEFINE j == NextI(c)
             r == [req[c] EXCEPT !.i = j, !.got = None, !.inner = None]
             l == IF req[c].i = Len(KindSeq) THEN "readStatus" ELSE "config"
  <1>1. /\ req[c] \in ReqRec /\ Located("setState", req[c]) /\ req[c].i > 0
        /\ req[c].i \in 0 .. N /\ req[c].got \in Item
    BY ReqFacts DEF SetState, At, Located
  <1>2. j \in 0 .. N /\ j > 0
    BY <1>1, KindFacts DEF NextI, N
  <1>3. Goes(c, l, r)
    BY DEF SetState, Goes, GoTo, NextI
  <1> HIDE DEF j
  <1>4. r \in ReqRec
    BY <1>1, <1>2, Edits
  <1>5. Located(l, r) /\ l \in Labels
    BY <1>1, <1>2 DEF Located, ReqRec, Configuring, Handling, OnKind, Labels, UsingMaps, Ops
  <1>6. l # "haveConfig"
    OBVIOUS
  <1> HIDE DEF r, l
  <1>7. RequestsOK'
    BY <1>3, <1>4, <1>5, <1>6, GoesFits DEF SetState
  <1>8. Kind(c) \in Kinds
    BY <1>1, ReqFacts
  <1>9. state' \in [Kinds -> Item]
    BY <1>1, <1>8 DEF SetState, ApiInv, GlobalsOK, Item, States
  <1> QED
    BY <1>7, <1>9 DEF SetState, ApiInv, storeVars, history, WorldOK, GlobalsOK, RestOK

LEMMA ReadStatusFits ==
    ASSUME ApiInv, NEW c \in Requests, ReadStatus(c)
    PROVE  ApiInv'
  <1> DEFINE k == Kind(c)
             x == Lookup(c, status)
             r == [req[c] EXCEPT !.status[k] = x]
  <1>1. req[c] \in ReqRec /\ Located("readStatus", req[c]) /\ req[c].i > 0
    BY ReqFacts DEF ReadStatus, At, Located
  <1>2. k \in Kinds
    BY <1>1, ReqFacts
  <1>3. x \in Answers
    BY <1>2 DEF Lookup, Answers, ApiInv, GlobalsOK
  <1>4. Goes(c, "readState", r)
    BY DEF ReadStatus, Goes, GoTo
  <1> HIDE DEF k, x
  <1>5. r \in ReqRec
    BY <1>1, <1>2, <1>3, MapEdits
  <1>6. /\ r.op = req[c].op /\ r.kind = req[c].kind /\ r.i = req[c].i /\ r.info = req[c].info
        /\ r.inner = req[c].inner /\ r.got = req[c].got
    BY <1>1 DEF ReqRec
  <1> HIDE DEF r
  <1>7. Located("readState", r) /\ "readState" \in Labels
    BY <1>1, <1>6 DEF Located, Configuring, Handling, OnKind, Labels, UsingMaps
  <1>8. RequestsOK'
    BY <1>4, <1>5, <1>7, GoesFits DEF ReadStatus, globals
  <1> QED
    BY <1>8 DEF ReadStatus, ApiInv, storeVars, globals, history, WorldOK, GlobalsOK, RestOK

NextRead(c) == IF req[c].i = Len(KindSeq) THEN req[c].i ELSE req[c].i + 1

LEMMA ReadStateIs ==
    ASSUME ApiInv, NEW c \in Requests, ReadState(c)
    PROVE  Goes(c, IF req[c].i = Len(KindSeq) THEN "done" ELSE "readStatus",
                [req[c] EXCEPT !.state[Kind(c)] = Lookup(c, state), !.i = NextRead(c)])
  BY ReqFacts DEF ReadState, Goes, GoTo, NextRead, ReqRec

LEMMA ReadStateFits ==
    ASSUME ApiInv, NEW c \in Requests, ReadState(c)
    PROVE  ApiInv'
  <1> DEFINE k == Kind(c)
             x == Lookup(c, state)
             j == NextRead(c)
             r == [req[c] EXCEPT !.state[k] = x, !.i = j]
             l == IF req[c].i = Len(KindSeq) THEN "done" ELSE "readStatus"
  <1>1. req[c] \in ReqRec /\ Located("readState", req[c]) /\ req[c].i > 0 /\ req[c].i \in 0 .. N
    BY ReqFacts DEF ReadState, At, Located
  <1>2. k \in Kinds
    BY <1>1, ReqFacts
  <1>3. x \in Item /\ j \in 0 .. N /\ j > 0
    BY <1>1, <1>2, KindFacts DEF Lookup, Item, ApiInv, GlobalsOK, NextRead, N
  <1>4. Goes(c, l, r)
    BY ReadStateIs
  <1> HIDE DEF k, x, j
  <1>5. r \in ReqRec
    BY <1>1, <1>2, <1>3, MapEdits
  <1>6. /\ r.op = req[c].op /\ r.kind = req[c].kind /\ r.i = j /\ r.info = req[c].info
        /\ r.inner = req[c].inner /\ r.got = req[c].got
    BY <1>1 DEF ReqRec
  <1> HIDE DEF r
  <1>7. Located(l, r) /\ l \in Labels
    BY <1>1, <1>3, <1>6 DEF Located, Configuring, Handling, OnKind, Labels, UsingMaps
  <1>8. l # "haveConfig"
    OBVIOUS
  <1> HIDE DEF l
  <1>9. RequestsOK'
    BY <1>4, <1>5, <1>7, <1>8, GoesFits DEF ReadState, globals
  <1> QED
    BY <1>9 DEF ReadState, ApiInv, storeVars, globals, history, WorldOK, GlobalsOK, RestOK

-----------------------------------------------------------------------------
(* The other handlers. *)

LEMMA ListFits ==
    ASSUME ApiInv, NEW c \in Requests, InfrastructureList(c)
    PROVE  ApiInv'
  <1>1. req[c] \in ReqRec /\ Located("list", req[c])
    BY ReqFacts DEF InfrastructureList, At
  <1>2. Located("done", req[c]) /\ "done" \in Labels
    BY <1>1 DEF Located, Configuring, Handling, OnKind, Labels
  <1>3. Goes(c, "done", req[c])
    BY DEF InfrastructureList, Goes, GoTo, ApiInv, RequestsOK
  <1>4. RequestsOK'
    BY <1>1, <1>2, <1>3, GoesFits DEF InfrastructureList, globals
  <1> QED
    BY <1>4 DEF InfrastructureList, ApiInv, storeVars, globals, history, WorldOK, GlobalsOK, RestOK

(* The request's kind, and what its calls do to the API server. *)
LEMMA OnKindFits ==
    ASSUME ApiInv, NEW c \in Requests, pc[c] \in OnKind
    PROVE  /\ req[c].kind \in Kinds
           /\ namespaces \cup {req[c].kind} \subseteq Kinds
           /\ Deployed(c) \in [Kinds -> Item]
           /\ Deleted(c) \in [Kinds -> Item]
  <1>1. req[c].kind \in Kinds
    BY ReqFacts DEF Located
  <1> QED
    BY <1>1 DEF ApiInv, WorldOK, Deployed, Deleted, Item, States

LEMMA EnsureFits ==
    ASSUME ApiInv, NEW c \in Requests, EnsureNamespaceExists(c)
    PROVE  ApiInv'
  <1> DEFINE l == IF req[c].info = "real" THEN "create" ELSE "error"
  <1>1. req[c] \in ReqRec /\ Located("ensureNamespace", req[c]) /\ pc[c] = "ensureNamespace"
    BY ReqFacts DEF EnsureNamespaceExists, At
  <1>2. Located(l, req[c]) /\ l \in Labels /\ l # "haveConfig"
    BY <1>1 DEF Located, Configuring, Handling, OnKind, Labels
  <1>3. Goes(c, l, req[c])
    BY DEF EnsureNamespaceExists, Goes, GoTo, ApiInv, RequestsOK
  <1> HIDE DEF l
  <1>4. RequestsOK'
    BY <1>1, <1>2, <1>3, GoesFits DEF EnsureNamespaceExists, globals
  <1>5. namespaces' \subseteq Kinds
    BY <1>1, OnKindFits DEF EnsureNamespaceExists, OnKind, ApiInv, WorldOK
  <1> QED
    BY <1>4, <1>5
    DEF EnsureNamespaceExists, ApiInv, globals, history, WorldOK, GlobalsOK, RestOK

LEMMA DeployFits ==
    ASSUME ApiInv, NEW c \in Requests, InfrastructureDeploy(c) \/ InfrastructureDelete(c)
    PROVE  ApiInv'
  <1>1. PICK b \in BOOLEAN, l \in {"error", "sync", "done"} :
            /\ req' = [req EXCEPT ![c] = [req[c] EXCEPT !.conflict = b]]
            /\ pc' = [pc EXCEPT ![c] = l]
    BY DEF InfrastructureDeploy, InfrastructureDelete, GoTo
  <1> DEFINE r == [req[c] EXCEPT !.conflict = b]
  <1>2. req[c] \in ReqRec /\ Located(pc[c], req[c]) /\ pc[c] \in {"create", "delete"}
    BY ReqFacts DEF InfrastructureDeploy, InfrastructureDelete, At
  <1>3. r \in ReqRec
    BY <1>2, Edits
  <1>4. /\ r.op = req[c].op /\ r.kind = req[c].kind /\ r.i = req[c].i /\ r.info = req[c].info
        /\ r.inner = req[c].inner /\ r.got = req[c].got
    BY <1>2 DEF ReqRec
  <1>5. Goes(c, l, r)
    BY <1>1 DEF Goes
  <1> HIDE DEF r
  <1>6. Located(l, r) /\ l \in Labels
    BY <1>2, <1>4 DEF Located, Configuring, Handling, OnKind, Labels
  <1>7. RequestsOK'
    BY <1>3, <1>5, <1>6, GoesFits DEF InfrastructureDeploy, InfrastructureDelete, globals
  <1>8. infra' \in [Kinds -> Item]
    BY <1>2, OnKindFits DEF InfrastructureDeploy, InfrastructureDelete, OnKind
  <1> QED
    BY <1>7, <1>8 DEF InfrastructureDeploy, InfrastructureDelete, ApiInv, globals, history,
                      WorldOK, GlobalsOK, RestOK

LEMMA CallFailsFits ==
    ASSUME ApiInv, NEW c \in Requests, CallFails(c)
    PROVE  ApiInv'
  <1>1. /\ req[c] \in ReqRec /\ Located(pc[c], req[c])
        /\ pc[c] \in {"list", "ensureNamespace", "create", "delete", "nodeIP"}
        /\ Fails(c, "error") /\ UNCHANGED <<stored, services, req>>
    BY ReqFacts DEF CallFails, At
  <1>2. Located("error", req[c]) /\ "error" \in Labels
    BY <1>1 DEF Located, Configuring, Handling, OnKind, Labels
  <1>3. GlobalsOK' /\ RestOK' /\ UNCHANGED configMap
    BY <1>1, FailsFits DEF globals
  <1>4. Goes(c, "error", req[c])
    BY <1>1 DEF Fails, Goes, GoTo, ApiInv, RequestsOK
  <1>5. RequestsOK'
    BY <1>1, <1>2, <1>3, <1>4, GoesFits
  <1>6. namespaces' \subseteq Kinds /\ infra' \in [Kinds -> Item]
    <2>1. namespaces \subseteq Kinds /\ infra \in [Kinds -> Item]
      BY DEF ApiInv, WorldOK
    <2>2. CASE UNCHANGED <<namespaces, infra>>
      BY <2>1, <2>2
    <2>3. CASE ~UNCHANGED <<namespaces, infra>>
      <3>1. pc[c] \in OnKind
        BY <2>3 DEF CallFails, OnKind
      <3> QED
        BY <2>1, <2>3, <3>1, OnKindFits DEF CallFails
    <2> QED
      BY <2>2, <2>3
  <1> QED
    BY <1>1, <1>3, <1>5, <1>6 DEF ApiInv, WorldOK

LEMMA SyncFits ==
    ASSUME ApiInv, NEW c \in Requests, SyncService(c) \/ GiveUp(c)
    PROVE  ApiInv'
  <1>1. /\ req[c] \in ReqRec /\ Located("sync", req[c]) /\ pc[c] = "sync"
        /\ req[c].kind \in Kinds
    BY ReqFacts, OnKindFits DEF SyncService, GiveUp, At, OnKind
  <1>2. Located("nodeIP", req[c]) /\ "nodeIP" \in Labels
    BY <1>1 DEF Located, Configuring, Handling, OnKind, Labels
  <1>3. Goes(c, "nodeIP", req[c])
    BY DEF SyncService, GiveUp, Goes, GoTo, ApiInv, RequestsOK
  <1>4. RequestsOK'
    BY <1>1, <1>2, <1>3, GoesFits DEF SyncService, GiveUp, globals
  <1>5. GlobalsOK'
    BY <1>1 DEF SyncService, GiveUp, ApiInv, globals, GlobalsOK
  <1>6. RestOK'
    BY DEF SyncService, GiveUp, ApiInv, history, RestOK
  <1> QED
    BY <1>4, <1>5, <1>6 DEF SyncService, GiveUp, ApiInv, storeVars, WorldOK

LEMMA NodeIPFits ==
    ASSUME ApiInv, NEW c \in Requests, NodeIPGet(c)
    PROVE  ApiInv'
  <1>1. PICK l \in {"answer", "aborted"} : GoTo(c, l)
    BY DEF NodeIPGet
  <1>2. req[c] \in ReqRec /\ Located("nodeIP", req[c])
    BY ReqFacts DEF NodeIPGet, At
  <1>3. Located(l, req[c]) /\ l \in Labels
    BY <1>2 DEF Located, Configuring, Handling, OnKind, Labels
  <1>4. Goes(c, l, req[c])
    BY <1>1 DEF NodeIPGet, Goes, GoTo, ApiInv, RequestsOK
  <1>5. RequestsOK'
    BY <1>2, <1>3, <1>4, GoesFits DEF NodeIPGet, globals
  <1>6. budget' \in 0 .. Budget
    BY SpendFits DEF NodeIPGet, ApiInv, RestOK
  <1> QED
    BY <1>5, <1>6 DEF NodeIPGet, ApiInv, storeVars, globals, history, WorldOK, GlobalsOK, RestOK

LEMMA AnswerFits ==
    ASSUME ApiInv, NEW c \in Requests, toInfrastructureResource(c)
    PROVE  ApiInv'
  <1> DEFINE r == [req[c] EXCEPT !.port = Service, !.setBy = setBy]
  <1>1. req[c] \in ReqRec /\ Located("answer", req[c])
    BY ReqFacts DEF toInfrastructureResource, At
  <1>2. r \in ReqRec
    BY <1>1, Edits DEF ApiInv, GlobalsOK, RestOK
  <1>3. Goes(c, "done", r) /\ "done" \in Labels
    BY DEF toInfrastructureResource, Goes, GoTo, Labels
  <1>4. /\ r.op = req[c].op /\ r.kind = req[c].kind /\ r.i = req[c].i /\ r.info = req[c].info
        /\ r.inner = req[c].inner /\ r.got = req[c].got
    BY <1>1 DEF ReqRec
  <1> HIDE DEF r
  <1>5. Located("done", r)
    BY <1>1, <1>4 DEF Located, Configuring, Handling, OnKind
  <1>6. RequestsOK'
    BY <1>2, <1>3, <1>5, GoesFits DEF toInfrastructureResource, globals
  <1> QED
    BY <1>6 DEF toInfrastructureResource, ApiInv, storeVars, globals, history,
                WorldOK, GlobalsOK, RestOK

LEMMA WorldFits ==
    ASSUME ApiInv, World
    PROVE  ApiInv' /\ UNCHANGED <<globals, pc, req, history>>
  <1>1. UNCHANGED <<globals, pc, req, history>>
    BY DEF World, ConfigMapDeleted, ConcurrentMapAccess, Report, ServiceAppears, ServiceGone
  <1>2. GlobalsOK' /\ RequestsOK'
    BY <1>1 DEF globals, ApiInv, GlobalsOK, RequestsOK
  <1>3. WorldOK'
    BY DEF World, ConfigMapDeleted, ConcurrentMapAccess, Report, ServiceAppears, ServiceGone,
           ApiInv, WorldOK, storeVars, Item, States
  <1>4. up' \in BOOLEAN
    BY DEF World, ConfigMapDeleted, ConcurrentMapAccess, Report, ServiceAppears, ServiceGone,
           ApiInv, RestOK
  <1>5. budget' \in 0 .. Budget
    BY SpendFits DEF World, ConfigMapDeleted, ConcurrentMapAccess, Report, ServiceAppears,
           ServiceGone, ApiInv, RestOK
  <1> QED
    BY <1>1, <1>2, <1>3, <1>4, <1>5 DEF ApiInv, RestOK, history

LEMMA InitFits == Init => ApiInv
  <1> SUFFICES ASSUME Init PROVE ApiInv
    OBVIOUS
  <1>1. NoEntries \in [Kinds -> Item] /\ NoEntries \in [Kinds -> Answers]
    BY DEF NoEntries, Item, Answers
  <1>2. WorldOK
    BY DEF Init, WorldOK, Item, States
  <1>3. GlobalsOK
    BY <1>1 DEF Init, GlobalsOK, Lookups
  <1>4. Start \in ReqRec
    BY <1>1, KindFacts DEF Start, ReqRec, Lookups, Item
  <1>5. Located("idle", Start)
    BY DEF Located, Start, Configuring, Handling, OnKind
  <1>6. RequestsOK
    BY <1>4, <1>5 DEF Init, RequestsOK, Labels
  <1>7. RestOK
    BY BudgetAssumption DEF Init, RestOK
  <1> QED
    BY <1>2, <1>3, <1>6, <1>7 DEF ApiInv

LEMMA ApiStep == ApiInv /\ [Next]_vars => ApiInv'
  <1> SUFFICES ASSUME ApiInv, [Next]_vars PROVE ApiInv'
    OBVIOUS
  <1>1. CASE World
    BY <1>1, WorldFits
  <1>2. ASSUME NEW c \in Requests, Arrive(c) \/ Step(c) \/ Fault(c) PROVE ApiInv'
    <2>1. CASE Arrive(c)
      BY <2>1, ArriveFits
    <2>2. CASE Step(c)
      BY <2>2, CheckFits, CallGetFits, AssignFits, ReturnFits, ExistsFits, GoneFits,
             ResetStatusFits, ResetStateFits,
         GetInfraFits, SetStatusFits, SetStateFits, ReadStatusFits, ReadStateFits, ListFits,
         EnsureFits, DeployFits, SyncFits, NodeIPFits, AnswerFits
      DEF Step
    <2>3. CASE Fault(c)
      BY <2>3, CallGetFits, DeployFailsFits, GetInfraFailsFits, CallFailsFits DEF Fault
    <2> QED
      BY <1>2, <2>1, <2>2, <2>3
  <1>3. CASE UNCHANGED vars
    BY <1>3 DEF vars, storeVars, globals, history, ApiInv, WorldOK, GlobalsOK, RequestsOK, RestOK
  <1> QED
    BY <1>1, <1>2, <1>3 DEF Next

LEMMA ApiInvariant == Spec => []ApiInv
  BY InitFits, ApiStep, PTL DEF Spec

(* No step of a handler leaves a variable outside its type, goes on with   *)
(* the nil ConfigMap, or reaches the API server for a kind that getInfra   *)
(* does not know, however the requests of any number interleave.           *)
THEOREM TypeCorrect == Spec => []TypeOK
  <1>1. ApiInv => TypeOK
    <2> SUFFICES ASSUME ApiInv PROVE TypeOK
      OBVIOUS
    <2>1. ASSUME NEW c \in Requests
          PROVE  /\ req[c].i \in 0 .. Len(KindSeq)
                 /\ pc[c] = "haveConfig" => configMap # None
                 /\ pc[c] \in {"getInfra", "create", "delete", "sync"} =>
                        req[c].info # None /\ req[c].kind # Unknown
                 /\ pc[c] = "getInfra" /\ req[c].op = "baseinfo" => req[c].inner # None
      <3>1. req[c].i \in 0 .. Len(KindSeq) /\ (pc[c] = "haveConfig" => configMap # None)
        BY ReqFacts DEF N, ApiInv, RequestsOK
      <3>2. Located(pc[c], req[c]) /\ Unknown \notin Kinds \cup {None}
        BY ReqFacts, KindsAssumption
      <3> QED
        BY <3>1, <3>2 DEF Located, Handling, OnKind
    <2> QED
      BY <2>1 DEF TypeOK, ApiInv, WorldOK, GlobalsOK, RequestsOK, RestOK, Item, Lookups, Answers
  <1> QED
    BY <1>1, ApiInvariant, PTL

-----------------------------------------------------------------------------
(* The causes of errors.                                                   *)

LEMMA OthersStay ==
    ASSUME ApiInv, NEW c \in Requests, Arrive(c) \/ Step(c) \/ Fault(c), NEW d \in Requests, d # c
    PROVE  pc'[d] = pc[d] /\ req'[d] = req[d]
  <1>1. pc \in [Requests -> Labels] /\ req \in [Requests -> ReqRec]
    BY DEF ApiInv, RequestsOK
  <1>2. CASE Arrive(c)
    BY <1>1, <1>2 DEF Arrive, GoTo
  <1>3. CASE Fault(c)
    BY <1>1, <1>3 DEF Fault, CallConfigMapGetFails, ConfigMapDeployFails, GetInfraFails, CallFails,
                      Fails, GoTo
  <1>4. ASSUME Step(c) PROVE pc'[d] = pc[d]
    BY <1>1, <1>4 DEF Step, CheckConfigMap, CallConfigMapGet, AssignConfigMap, ConfigMapDeploy, ConfigMapExists,
       ConfigMapGetAgain, ConfigMapGone,
       ReturnConfigMap, ResetStatus, ResetState, GetInfra, SetStatus, SetState, ReadStatus,
       ReadState, InfrastructureList, EnsureNamespaceExists, InfrastructureDeploy,
       InfrastructureDelete, SyncService, GiveUp, NodeIPGet, toInfrastructureResource, GoTo
  <1>5. ASSUME Step(c) PROVE req'[d] = req[d]
    BY <1>1, <1>5 DEF Step, CheckConfigMap, CallConfigMapGet, AssignConfigMap, ConfigMapDeploy, ConfigMapExists,
       ConfigMapGetAgain, ConfigMapGone,
       ReturnConfigMap, ResetStatus, ResetState, GetInfra, SetStatus, SetState, ReadStatus,
       ReadState, InfrastructureList, EnsureNamespaceExists, InfrastructureDeploy,
       InfrastructureDelete, SyncService, GiveUp, NodeIPGet, toInfrastructureResource, Looked
  <1> QED
    BY <1>2, <1>3, <1>4, <1>5

LEMMA FailedStay ==
    ASSUME NEW c \in Requests, Arrive(c) \/ Step(c) \/ Fault(c)
    PROVE  failed \subseteq failed'
  <1>1. CASE Arrive(c)
    BY <1>1 DEF Arrive, history
  <1>2. CASE Fault(c)
    BY <1>2 DEF Fault, CallConfigMapGetFails, ConfigMapDeployFails, GetInfraFails, CallFails, Fails
  <1>3. CASE Step(c)
    BY <1>3 DEF Step, CheckConfigMap, CallConfigMapGet, AssignConfigMap, ConfigMapDeploy, ConfigMapExists,
       ConfigMapGetAgain, ConfigMapGone,
       ReturnConfigMap, ResetStatus, ResetState, GetInfra, SetStatus, SetState, ReadStatus,
       ReadState, InfrastructureList, EnsureNamespaceExists, InfrastructureDeploy,
       InfrastructureDelete, SyncService, GiveUp, NodeIPGet, toInfrastructureResource, history
  <1> QED
    BY <1>1, <1>2, <1>3

(* The request that takes a step. *)
LEMMA StepHasCause ==
    ASSUME ApiInv, NEW c \in Requests, Arrive(c) \/ Step(c) \/ Fault(c), HasCause(c)
    PROVE  HasCause(c)'
  <1>0. /\ pc \in [Requests -> Labels] /\ req \in [Requests -> ReqRec] /\ req[c] \in ReqRec
        /\ Located(pc[c], req[c])
    BY ReqFacts DEF ApiInv, RequestsOK
  <1>1. CASE Arrive(c)
    BY <1>0, <1>1 DEF Arrive, GoTo, HasCause
  <1>2. CASE Fault(c)
    <2>1. c \in failed'
      BY <1>2 DEF Fault, CallConfigMapGetFails, ConfigMapDeployFails, GetInfraFails, CallFails, Fails
    <2> QED
      BY <2>1 DEF HasCause
  <1>3. CASE CallConfigMapGet(c)
    <2>1. pc'[c] = "setConfig" /\ req'[c].got # "error"
      BY <1>0, <1>3 DEF CallConfigMapGet, GoTo, ReqRec
    <2> QED
      BY <2>1 DEF HasCause
  <1>4. CASE AssignConfigMap(c)
    <2>1. pc[c] = "setConfig" /\ failed' = failed /\ req[c].got \in {"real", "notFound", "error"}
      BY <1>0, <1>4 DEF AssignConfigMap, At, Located, history
    <2>2. CASE req[c].got = "error"
      BY <2>1, <2>2 DEF HasCause
    <2>3. CASE req[c].got # "error"
      <3>1. pc'[c] \in {"haveConfig", "deployConfig"}
        BY <1>0, <1>4, <2>1, <2>3 DEF AssignConfigMap, GoTo
      <3> QED
        BY <3>1 DEF HasCause
    <2> QED
      BY <2>2, <2>3
  <1>5. CASE GetInfra(c)
    <2>1. CASE req[c].op = "baseinfo"
      <3>1. pc'[c] = "setStatus"
        BY <1>0, <1>5, <2>1 DEF GetInfra, GoTo
      <3> QED
        BY <3>1 DEF HasCause
    <2>2. CASE req[c].op # "baseinfo"
      <3>1. pc[c] = "getInfra" /\ req[c].op = "get" /\ req[c].info \in {"real", "empty"}
        BY <1>0, <1>5, <2>2, ReqFacts DEF GetInfra, At, Located, Handling, Lookups
      <3>2. CASE Found(c) # None
        <4>1. pc'[c] = "sync"
          BY <1>0, <1>5, <3>1, <3>2, GetInfraIs DEF GoTo
        <4> QED
          BY <4>1 DEF HasCause
      <3>3. CASE Found(c) = None
        <4>1. req[c].info = "empty" \/ infra[Kind(c)] = None
          BY <3>1, <3>3 DEF Found
        <4> DEFINE k == Kind(c)
                   x == Found(c)
                   b == infra[Kind(c)] = None
        <4>2. req'[c] = [req[c] EXCEPT !.got = x, !.read[k] = x, !.conflict = b]
          BY <1>0, <1>5, GetInfraIs
        <4> HIDE DEF k, x
        <4>3. req'[c].info = req[c].info /\ req'[c].conflict = b
          BY <1>0, <4>2 DEF ReqRec
        <4>4. pc'[c] \in {"sync", "error"}
          BY <1>0, <1>5, <3>1, GetInfraIs DEF GoTo
        <4> QED
          BY <4>1, <4>3, <4>4 DEF HasCause
      <3> QED
        BY <3>2, <3>3
    <2> QED
      BY <2>1, <2>2
  <1>6. CASE EnsureNamespaceExists(c)
    <2>1. pc[c] = "ensureNamespace" /\ req[c].info \in {"real", "empty"} /\ req'[c] = req[c]
      BY <1>0, <1>6, ReqFacts DEF EnsureNamespaceExists, At, Located, Handling, Lookups
    <2>2. pc'[c] = IF req[c].info = "real" THEN "create" ELSE "error"
      BY <1>0, <1>6 DEF EnsureNamespaceExists, GoTo
    <2> QED
      BY <2>1, <2>2 DEF HasCause
  <1>7. CASE InfrastructureDeploy(c)
    <2>1. /\ pc'[c] = IF infra[req[c].kind] # None THEN "error" ELSE "sync"
          /\ req'[c].conflict = (infra[req[c].kind] # None)
      BY <1>0, <1>7 DEF InfrastructureDeploy, GoTo, ReqRec
    <2> QED
      BY <2>1 DEF HasCause
  <1>8. CASE InfrastructureDelete(c)
    <2>1. pc[c] = "delete" /\ req[c].info \in {"real", "empty"}
      BY <1>0, <1>8, ReqFacts DEF InfrastructureDelete, At, Located, Handling, Lookups
    <2>2. /\ pc'[c] = IF req[c].info = "real" /\ infra[req[c].kind] # None THEN "done" ELSE "error"
          /\ req'[c].conflict = (infra[req[c].kind] = None)
          /\ req'[c].info = req[c].info
      BY <1>0, <1>8 DEF InfrastructureDelete, GoTo, ReqRec
    <2> QED
      BY <2>1, <2>2 DEF HasCause
  <1>9. CASE ConfigMapDeploy(c) \/ ConfigMapGetAgain(c) \/ ReturnConfigMap(c)
    <2>1. WithConfig(c) \notin {"setConfig", "error"}
      <3>1. req[c].op \in {"baseinfo", "get", "create", "delete"}
        BY <1>0, <1>9 DEF ConfigMapDeploy, ConfigMapGetAgain, ReturnConfigMap, At, Located, Configuring, Ops
      <3> QED
        BY <3>1 DEF WithConfig
    <2>2. pc'[c] = WithConfig(c)
      BY <1>0, <1>9 DEF ConfigMapDeploy, ConfigMapGetAgain, ReturnConfigMap, GoTo
    <2> QED
      BY <2>1, <2>2 DEF HasCause
  <1>10. CASE ConfigMapGone(c)
    <2>1. req'[c].conflict = TRUE
      BY <1>0, <1>10 DEF ConfigMapGone, ReqRec
    <2>2. pc'[c] # "setConfig"
      BY <1>0, <1>10 DEF ConfigMapGone, GoTo, NoConfig
    <2> QED
      BY <2>1, <2>2 DEF HasCause
  <1>11. ASSUME \/ CheckConfigMap(c) \/ ConfigMapExists(c) \/ ResetStatus(c) \/ ResetState(c)
                \/ SetStatus(c)
                \/ SetState(c) \/ ReadStatus(c) \/ ReadState(c) \/ InfrastructureList(c)
                \/ SyncService(c) \/ GiveUp(c) \/ NodeIPGet(c) \/ toInfrastructureResource(c)
         PROVE  HasCause(c)'
    <2>1. pc'[c] \notin {"setConfig", "error"}
      BY <1>0, <1>11 DEF CheckConfigMap, ConfigMapExists, ResetStatus, ResetState, SetStatus,
         SetState, ReadStatus,
         ReadState, InfrastructureList, SyncService, GiveUp, NodeIPGet, toInfrastructureResource,
         GoTo
    <2> QED
      BY <2>1 DEF HasCause
  <1> QED
    BY <1>1, <1>2, <1>3, <1>4, <1>5, <1>6, <1>7, <1>8, <1>9, <1>10,
       <1>11 DEF Step

(* A request that ends in an error has had a call of its own fail, works   *)
(* with an empty ConfigMap, or asked for an object that was not there, or  *)
(* was there already (getInfra, InfrastructureDeploy): whatever the other  *)
(* requests do to the shared variables, they give it no error of theirs.   *)
THEOREM ErrorsHaveCauses == Spec => []ErrorHasCause
  <1>1. Init => CauseKnown
    BY DEF Init, CauseKnown, HasCause
  <1>2. ApiInv /\ CauseKnown /\ [Next]_vars => CauseKnown'
    <2> SUFFICES ASSUME ApiInv, CauseKnown, [Next]_vars, NEW d \in Requests
                 PROVE  HasCause(d)'
      BY DEF CauseKnown
    <2>1. HasCause(d)
      BY DEF CauseKnown
    <2>2. CASE World
      BY <2>1, <2>2, WorldFits DEF HasCause, history
    <2>3. ASSUME NEW c \in Requests, Arrive(c) \/ Step(c) \/ Fault(c) PROVE HasCause(d)'
      <3>1. CASE c = d
        BY <2>1, <2>3, <3>1, StepHasCause
      <3>2. CASE c # d
        BY <2>1, <2>3, <3>2, OthersStay, FailedStay DEF HasCause
      <3> QED
        BY <3>1, <3>2
    <2>4. CASE UNCHANGED vars
      BY <2>1, <2>4 DEF HasCause, vars, history
    <2> QED
      BY <2>2, <2>3, <2>4 DEF Next
  <1>3. CauseKnown => ErrorHasCause
    BY DEF CauseKnown, HasCause, ErrorHasCause
  <1> QED
    BY <1>1, <1>2, <1>3, ApiInvariant, PTL DEF Spec

-----------------------------------------------------------------------------
(* The ConfigMap settles.                                                  *)

(* Once the variable is not nil and nobody is about to assign it, a good   *)
(* ConfigMap stays (getConfigMapInfo): no request, failure or edit from    *)
(* outside empties it, in any number of requests.                          *)
THEOREM ConfigMapSettles == Spec => ConfigSettles
  <1>1. ApiInv /\ [Next]_vars => [Settled => Settled' /\ configMap' = configMap]_vars
    <2> SUFFICES ASSUME ApiInv, [Next]_vars, Settled
                 PROVE  Settled' /\ configMap' = configMap
      OBVIOUS
    <2>1. CASE World
      BY <2>1, WorldFits DEF Settled, globals
    <2>2. CASE UNCHANGED vars
      BY <2>2 DEF Settled, vars, globals
    <2>3. ASSUME NEW c \in Requests, Arrive(c) \/ Step(c) \/ Fault(c)
          PROVE  Settled' /\ configMap' = configMap
      <3>0. pc \in [Requests -> Labels]
        BY DEF ApiInv, RequestsOK
      <3>1. pc[c] \notin {"getConfig", "setConfig"} /\ configMap # None
        BY DEF Settled
      <3>2. configMap' = configMap
        <4>1. CASE Arrive(c)
          BY <4>1 DEF Arrive, globals
        <4>2. CASE Fault(c)
          BY <4>2 DEF Fault, CallConfigMapGetFails, ConfigMapDeployFails, GetInfraFails, CallFails,
                      Fails, globals
        <4>3. CASE Step(c)
          BY <3>1, <4>3 DEF Step, CheckConfigMap, CallConfigMapGet, AssignConfigMap,
             ConfigMapDeploy, ConfigMapExists,
       ConfigMapGetAgain, ConfigMapGone, ReturnConfigMap, ResetStatus, ResetState, GetInfra, SetStatus,
             SetState, ReadStatus, ReadState, InfrastructureList, EnsureNamespaceExists,
             InfrastructureDeploy, InfrastructureDelete, SyncService, GiveUp, NodeIPGet,
             toInfrastructureResource, globals, At
        <4> QED
          BY <2>3, <4>1, <4>2, <4>3
      <3>3. pc'[c] \notin {"getConfig", "setConfig"}
        <4>1. CASE Arrive(c)
          BY <3>0, <4>1 DEF Arrive, GoTo
        <4>2. CASE Fault(c)
          BY <3>0, <3>1, <4>2 DEF Fault, CallConfigMapGetFails, ConfigMapDeployFails,
             GetInfraFails, CallFails, Fails, GoTo, At, NoConfig
        <4>3. CASE ConfigMapDeploy(c) \/ ConfigMapGetAgain(c) \/ ReturnConfigMap(c)
          <5>1. req[c].op \in {"baseinfo", "get", "create", "delete"}
            BY <4>3, ReqFacts DEF ConfigMapDeploy, ConfigMapGetAgain, ReturnConfigMap, At, Located, Configuring, Ops
          <5> QED
            BY <3>0, <4>3, <5>1 DEF ConfigMapDeploy, ConfigMapGetAgain, ReturnConfigMap, GoTo, WithConfig
        <4>4. CASE GetInfra(c)
          BY <3>0, <4>4, GetInfraIs DEF GoTo
        <4>5. CASE Step(c) /\ ~ConfigMapDeploy(c) /\ ~ConfigMapGetAgain(c) /\ ~ReturnConfigMap(c) /\ ~GetInfra(c)
          BY <3>0, <3>1, <4>5 DEF Step, CheckConfigMap, CallConfigMapGet, AssignConfigMap,
             ConfigMapExists, ConfigMapGone, NoConfig,
             ResetStatus, ResetState, SetStatus, SetState, ReadStatus, ReadState,
             InfrastructureList, EnsureNamespaceExists, InfrastructureDeploy,
             InfrastructureDelete, SyncService, GiveUp, NodeIPGet, toInfrastructureResource,
             GoTo, At
        <4> QED
          BY <2>3, <4>1, <4>2, <4>3, <4>4, <4>5
      <3> QED
        BY <2>3, <3>1, <3>2, <3>3, OthersStay DEF Settled
    <2> QED
      BY <2>1, <2>2, <2>3 DEF Next
  <1> QED
    BY <1>1, ApiInvariant, PTL DEF Spec, ConfigSettles

-----------------------------------------------------------------------------
(* Who is inside statusGet, and whose Service is in the variable.          *)

(* A failed call leaves nothing but its answer. *)
LEMMA FaultOnlyAnswers ==
    ASSUME ApiInv, NEW c \in Requests, Fault(c)
    PROVE  /\ req'[c].op = req[c].op /\ req'[c].kind = req[c].kind /\ req'[c].i = req[c].i
           /\ req'[c].port = req[c].port /\ req'[c].setBy = req[c].setBy
           /\ req'[c].read = req[c].read
  <1>0. req \in [Requests -> ReqRec] /\ req[c] \in ReqRec
    BY ReqFacts DEF ApiInv, RequestsOK
  <1>1. CASE ConfigMapDeployFails(c) \/ CallFails(c)
    BY <1>1 DEF ConfigMapDeployFails, CallFails
  <1>2. CASE CallConfigMapGetFails(c)
    BY <1>0, <1>2 DEF CallConfigMapGetFails, ReqRec
  <1>3. CASE GetInfraFails(c)
    BY <1>0, <1>3 DEF GetInfraFails, ReqRec
  <1> QED
    BY <1>1, <1>2, <1>3 DEF Fault

(* A request that arrives has done nothing. *)
LEMMA ArriveOnlyNames ==
    ASSUME ApiInv, NEW c \in Requests, Arrive(c)
    PROVE  /\ pc[c] = "idle" /\ pc'[c] \in {"list", "config"} /\ req'[c].i = 0
           /\ req'[c].setBy = None /\ req'[c].read = NoEntries
           /\ req'[c].op \in Ops
  <1>0. req \in [Requests -> ReqRec] /\ req[c] \in ReqRec /\ pc \in [Requests -> Labels]
    BY ReqFacts DEF ApiInv, RequestsOK
  <1>1. PICK o \in Ops, k \in Kinds \cup {Unknown, None} :
            req' = [req EXCEPT ![c].op = o, ![c].kind = k]
    BY DEF Arrive, Ops
  <1>2. pc[c] = "idle" /\ req[c] = Start /\ pc'[c] \in {"list", "config"}
    BY <1>0, ReqFacts DEF Arrive, At, GoTo, Located
  <1>3. req'[c] = [req[c] EXCEPT !.op = o, !.kind = k]
    BY <1>0, <1>1
  <1>4. /\ req'[c].i = req[c].i /\ req'[c].setBy = req[c].setBy /\ req'[c].read = req[c].read
        /\ req'[c].op = o
    BY <1>0, <1>3 DEF ReqRec
  <1> QED
    BY <1>2, <1>4 DEF Start

(* What a request never does after it has arrived. *)
LEMMA Identity ==
    ASSUME ApiInv, NEW c \in Requests, Step(c) \/ Fault(c)
    PROVE  /\ req'[c].op = req[c].op /\ req'[c].kind = req[c].kind
           /\ pc[c] # "idle" /\ pc'[c] # "idle"
           /\ pc[c] \notin {"done", "error"}
  <1>0. pc \in [Requests -> Labels] /\ req \in [Requests -> ReqRec] /\ req[c] \in ReqRec
        /\ Located(pc[c], req[c])
    BY ReqFacts DEF ApiInv, RequestsOK
  <1>1. pc[c] \notin {"idle", "done", "error"}
    BY DEF Step, Fault, CallConfigMapGetFails, ConfigMapDeployFails, GetInfraFails, CallFails,
       CheckConfigMap, CallConfigMapGet, AssignConfigMap, ConfigMapDeploy, ConfigMapExists,
       ConfigMapGetAgain, ConfigMapGone,
       ReturnConfigMap, ResetStatus, ResetState, GetInfra, SetStatus, SetState, ReadStatus,
       ReadState, InfrastructureList, EnsureNamespaceExists, InfrastructureDeploy,
       InfrastructureDelete, SyncService, GiveUp, NodeIPGet, toInfrastructureResource, At
  <1>2. pc'[c] # "idle"
    <2>1. CASE Fault(c)
      BY <1>0, <2>1 DEF Fault, CallConfigMapGetFails, ConfigMapDeployFails,
         GetInfraFails, CallFails, Fails, GoTo, NoConfig
    <2>2. CASE ConfigMapDeploy(c) \/ ConfigMapGetAgain(c) \/ ReturnConfigMap(c)
      <3>1. req[c].op \in {"baseinfo", "get", "create", "delete"}
        BY <1>0, <2>2 DEF ConfigMapDeploy, ConfigMapGetAgain, ReturnConfigMap, At, Located, Configuring, Ops
      <3> QED
        BY <1>0, <2>2, <3>1 DEF ConfigMapDeploy, ConfigMapGetAgain, ReturnConfigMap, GoTo, WithConfig
    <2>3. CASE GetInfra(c)
      BY <1>0, <2>3, GetInfraIs DEF GoTo
    <2>4. CASE AssignConfigMap(c)
      <3>1. req[c].got \in {"real", "notFound", "error"}
        BY <1>0, <2>4 DEF AssignConfigMap, At, Located
      <3> QED
        BY <1>0, <2>4, <3>1 DEF AssignConfigMap, GoTo, NoConfig
    <2>5. CASE Step(c) /\ ~ConfigMapDeploy(c) /\ ~ConfigMapGetAgain(c) /\ ~ReturnConfigMap(c) /\ ~GetInfra(c)
               /\ ~AssignConfigMap(c)
      BY <1>0, <2>5 DEF Step, CheckConfigMap, CallConfigMapGet, ConfigMapExists, ConfigMapGone,
         NoConfig,
         ResetStatus, ResetState, SetStatus, SetState, ReadStatus, ReadState,
         InfrastructureList, EnsureNamespaceExists, InfrastructureDeploy,
         InfrastructureDelete, SyncService, GiveUp, NodeIPGet, toInfrastructureResource, GoTo
    <2> QED
      BY <2>1, <2>2, <2>3, <2>4, <2>5
  <1>3. req'[c].op = req[c].op /\ req'[c].kind = req[c].kind
    <2>1. CASE Fault(c)
      BY <2>1, FaultOnlyAnswers
    <2>2. CASE ConfigMapDeploy(c) \/ ConfigMapGetAgain(c) \/ ReturnConfigMap(c)
      BY <1>0, <2>2 DEF ConfigMapDeploy, ConfigMapGetAgain, ReturnConfigMap, Looked, ReqRec
    <2>3. CASE GetInfra(c)
      BY <1>0, <2>3 DEF GetInfra, ReqRec
    <2>4. CASE ReadStatus(c)
      BY <1>0, <2>4 DEF ReadStatus, ReqRec
    <2>5. CASE ReadState(c)
      BY <1>0, <2>5 DEF ReadState, ReqRec
    <2>6. CASE SetState(c)
      BY <1>0, <2>6 DEF SetState, ReqRec
    <2>7. CASE InfrastructureDeploy(c) \/ InfrastructureDelete(c) \/ ConfigMapGone(c)
      BY <1>0, <2>7 DEF InfrastructureDeploy, InfrastructureDelete, ConfigMapGone, ReqRec
    <2>8. CASE CallConfigMapGet(c) \/ AssignConfigMap(c) \/ ResetState(c) \/ toInfrastructureResource(c)
      BY <1>0, <2>8 DEF CallConfigMapGet, AssignConfigMap, ResetState, toInfrastructureResource, ReqRec
    <2>9. CASE \/ CheckConfigMap(c) \/ ResetStatus(c) \/ SetStatus(c) \/ InfrastructureList(c)
               \/ EnsureNamespaceExists(c) \/ SyncService(c) \/ GiveUp(c) \/ NodeIPGet(c)
               \/ ConfigMapExists(c)
      BY <2>9 DEF CheckConfigMap, ConfigMapExists, ResetStatus, SetStatus, InfrastructureList,
         EnsureNamespaceExists, SyncService, GiveUp, NodeIPGet
    <2> QED
      BY <2>1, <2>2, <2>3, <2>4, <2>5, <2>6, <2>7, <2>8, <2>9 DEF Step
  <1> QED
    BY <1>1, <1>2, <1>3

(* Only resetStatus leads into statusGet. *)
LEMMA Enters ==
    ASSUME ApiInv, NEW c \in Requests, Arrive(c) \/ Step(c) \/ Fault(c), ~ResetStatus(c)
    PROVE  InStatusGet(c)' => InStatusGet(c)
  <1>0. pc \in [Requests -> Labels] /\ req \in [Requests -> ReqRec] /\ req[c] \in ReqRec
        /\ Located(pc[c], req[c])
    BY ReqFacts DEF ApiInv, RequestsOK
  <1>1. CASE Arrive(c)
    <2>1. req'[c].i = 0 /\ pc'[c] \in {"list", "config"}
      BY <1>1, ArriveOnlyNames
    <2> QED
      BY <2>1 DEF InStatusGet, UsingMaps
  <1>2. CASE pc[c] \in UsingMaps
    <2>1. Step(c) \/ Fault(c)
      BY <1>2 DEF Arrive, At, UsingMaps
    <2>2. req'[c].op = req[c].op /\ pc[c] \notin {"done", "error"}
      BY <2>1, Identity
    <2> QED
      BY <1>2, <2>2 DEF InStatusGet
  <1>3. ASSUME Step(c) \/ Fault(c), pc[c] \notin UsingMaps, InStatusGet(c)' PROVE InStatusGet(c)
    <2>1. req'[c].op = req[c].op /\ pc[c] \notin {"done", "error"} /\ req[c].op = "baseinfo"
      BY <1>3, Identity DEF InStatusGet
    <2>2. /\ pc[c] \notin OnKind \cup {"list"}
          /\ pc[c] = "getInfra" => req[c].i > 0
      BY <1>0, <2>1 DEF Located
    <2>3. CASE pc[c] = "getInfra"
      BY <2>1, <2>2, <2>3 DEF InStatusGet
    <2>4. CASE pc[c] # "getInfra"
      <3>1. \/ CheckConfigMap(c) \/ CallConfigMapGet(c) \/ CallConfigMapGetFails(c)
            \/ AssignConfigMap(c) \/ ConfigMapDeploy(c) \/ ConfigMapGetAgain(c) \/ ReturnConfigMap(c)
            \/ ConfigMapDeployFails(c) \/ ConfigMapExists(c) \/ ConfigMapGone(c)
        BY <1>3, <2>2, <2>4 DEF Step, Fault, GetInfraFails, CallFails, ResetState, GetInfra,
           SetStatus, SetState, ReadStatus, ReadState, InfrastructureList,
           EnsureNamespaceExists, InfrastructureDeploy, InfrastructureDelete, SyncService, GiveUp,
           NodeIPGet, toInfrastructureResource, At, OnKind, UsingMaps
      <3>2. req'[c].i = req[c].i
        <4>1. CASE ConfigMapDeploy(c) \/ ConfigMapGetAgain(c) \/ ReturnConfigMap(c)
          BY <1>0, <4>1 DEF ConfigMapDeploy, ConfigMapGetAgain, ReturnConfigMap, Looked, ReqRec
        <4>2. CASE CallConfigMapGet(c) \/ CallConfigMapGetFails(c) \/ AssignConfigMap(c)
                   \/ ConfigMapGone(c)
          BY <1>0, <4>2 DEF CallConfigMapGet, CallConfigMapGetFails, AssignConfigMap,
                            ConfigMapGone, ReqRec
        <4>3. CASE CheckConfigMap(c) \/ ConfigMapExists(c) \/ ConfigMapDeployFails(c)
          BY <4>3 DEF CheckConfigMap, ConfigMapExists, ConfigMapDeployFails
        <4> QED
          BY <3>1, <4>1, <4>2, <4>3
      <3>3. pc'[c] \in UsingMaps => req[c].i > 0
        <4>1. CASE ConfigMapDeploy(c) \/ ConfigMapGetAgain(c) \/ ReturnConfigMap(c)
          <5>1. pc'[c] = WithConfig(c)
            BY <1>0, <4>1 DEF ConfigMapDeploy, ConfigMapGetAgain, ReturnConfigMap, GoTo
          <5> QED
            BY <2>1, <5>1 DEF WithConfig, UsingMaps
        <4>2. CASE AssignConfigMap(c)
          <5>1. req[c].got \in {"real", "notFound", "error"}
            BY <1>0, <4>2 DEF AssignConfigMap, At, Located
          <5>2. pc'[c] \in {"haveConfig", "deployConfig", NoConfig(c)}
            BY <1>0, <4>2, <5>1 DEF AssignConfigMap, GoTo
          <5> QED
            BY <5>2 DEF NoConfig, UsingMaps
        <4>3. CASE ConfigMapDeployFails(c) \/ ConfigMapGone(c)
          BY <1>0, <4>3 DEF ConfigMapDeployFails, ConfigMapGone, Fails, GoTo, NoConfig, UsingMaps
        <4>4. CASE \/ CheckConfigMap(c) \/ CallConfigMapGet(c) \/ CallConfigMapGetFails(c)
                   \/ ConfigMapExists(c)
          BY <1>0, <4>4 DEF CheckConfigMap, CallConfigMapGet, CallConfigMapGetFails,
                            ConfigMapExists, Fails, GoTo, UsingMaps
        <4> QED
          BY <3>1, <4>1, <4>2, <4>3, <4>4
      <3> QED
        BY <1>3, <2>1, <3>2, <3>3 DEF InStatusGet
    <2> QED
      BY <2>3, <2>4
  <1> QED
    BY <1>1, <1>2, <1>3

LEMMA AloneStays ==
    ASSUME NEW c \in Requests, Arrive(c) \/ Step(c) \/ Fault(c), ~ResetStatus(c)
    PROVE  alone' = alone
  <1>1. CASE Arrive(c)
    BY <1>1 DEF Arrive, history
  <1>2. CASE Fault(c)
    BY <1>2 DEF Fault, CallConfigMapGetFails, ConfigMapDeployFails, GetInfraFails, CallFails, Fails
  <1>3. CASE Step(c)
    BY <1>3 DEF Step, CheckConfigMap, CallConfigMapGet, AssignConfigMap, ConfigMapDeploy, ConfigMapExists,
       ConfigMapGetAgain, ConfigMapGone,
       ReturnConfigMap, ResetState, GetInfra, SetStatus, SetState, ReadStatus,
       ReadState, InfrastructureList, EnsureNamespaceExists, InfrastructureDeploy,
       InfrastructureDelete, SyncService, GiveUp, NodeIPGet, toInfrastructureResource, history
  <1> QED
    BY <1>1, <1>2, <1>3

LEMMA AloneStep ==
    ASSUME ApiInv, AloneInside, NEW c \in Requests, Arrive(c) \/ Step(c) \/ Fault(c)
    PROVE  AloneInside'
  <1> SUFFICES ASSUME NEW d \in Requests, NEW e \in Requests, d # e, alone'[d],
                      InStatusGet(d)', InStatusGet(e)'
               PROVE  FALSE
    BY DEF AloneInside
  <1>1. \A x \in Requests \ {c} : InStatusGet(x)' <=> InStatusGet(x)
    BY OthersStay DEF InStatusGet
  <1>2. CASE ResetStatus(c)
    <2>1. /\ alone'[c] = \A x \in Requests \ {c} : ~InStatusGet(x)
          /\ \A x \in Requests \ {c} : alone'[x] = (alone[x] /\ ~InStatusGet(x))
      BY <1>2 DEF ResetStatus
    <2> QED
      BY <1>1, <2>1
  <1>3. CASE ~ResetStatus(c)
    BY <1>1, <1>3, Enters, AloneStays DEF AloneInside
  <1> QED
    BY <1>2, <1>3

LEMMA OwnedStep ==
    ASSUME ApiInv, \A d \in Requests : Owned(d), NEW c \in Requests,
           Arrive(c) \/ Step(c) \/ Fault(c), NEW d \in Requests
    PROVE  Owned(d)'
  <1>0. /\ pc \in [Requests -> Labels] /\ req \in [Requests -> ReqRec] /\ req[c] \in ReqRec
        /\ Located(pc[c], req[c])
    BY ReqFacts DEF ApiInv, RequestsOK
  <1>1. CASE SyncService(c)
    BY <1>0, <1>1 DEF SyncService, GoTo, At, Owned
  <1>2. ASSUME ~SyncService(c) PROVE UNCHANGED <<setBy, Service>>
    <2>1. CASE Arrive(c)
      BY <2>1 DEF Arrive, history, globals
    <2>2. CASE Fault(c)
      BY <2>2 DEF Fault, CallConfigMapGetFails, ConfigMapDeployFails, GetInfraFails, CallFails,
                  Fails, globals
    <2>3. CASE Step(c)
      BY <1>2, <2>3 DEF Step, CheckConfigMap, CallConfigMapGet, AssignConfigMap, ConfigMapDeploy, ConfigMapExists,
       ConfigMapGetAgain, ConfigMapGone,
         ReturnConfigMap, ResetStatus, ResetState, GetInfra, SetStatus, SetState, ReadStatus,
         ReadState, InfrastructureList, EnsureNamespaceExists, InfrastructureDeploy,
         InfrastructureDelete, GiveUp, NodeIPGet, toInfrastructureResource, history, globals
    <2> QED
      BY <2>1, <2>2, <2>3
  <1>3. CASE ~SyncService(c) /\ d # c
    BY <1>2, <1>3, OthersStay DEF Owned
  <1>4. CASE d = c /\ Arrive(c)
    <2>1. pc[c] = "idle" /\ req[c] = Start /\ UNCHANGED <<setBy, Service>> /\ setBy # c
      BY <1>0, <1>4 DEF Arrive, At, Located, history, globals, Owned
    <2>2. req'[c].setBy = None
      BY <1>4, ArriveOnlyNames
    <2> QED
      BY <1>4, <2>1, <2>2, RequestsAssumption DEF Owned
  <1>5. CASE d = c /\ toInfrastructureResource(c)
    <2>1. req'[c].port = Service /\ req'[c].setBy = setBy
      BY <1>0, <1>5 DEF toInfrastructureResource, ReqRec
    <2>2. req'[c].kind = req[c].kind /\ pc'[c] # "idle" /\ UNCHANGED <<setBy, Service>>
      BY <1>5, Identity DEF Step, toInfrastructureResource, history, globals
    <2> QED
      BY <1>5, <2>1, <2>2 DEF Owned
  <1>6. CASE d = c /\ ~SyncService(c) /\ ~Arrive(c) /\ ~toInfrastructureResource(c)
    <2>1. req'[c].kind = req[c].kind /\ pc'[c] # "idle" /\ pc[c] # "idle"
      BY <1>6, Identity
    <2>2. req'[c].port = req[c].port /\ req'[c].setBy = req[c].setBy
      <3>1. CASE Fault(c)
        BY <3>1, FaultOnlyAnswers
      <3>2. CASE ConfigMapDeploy(c) \/ ConfigMapGetAgain(c) \/ ReturnConfigMap(c)
        BY <1>0, <3>2 DEF ConfigMapDeploy, ConfigMapGetAgain, ReturnConfigMap, Looked, ReqRec
      <3>3. CASE GetInfra(c)
        BY <1>0, <3>3 DEF GetInfra, ReqRec
      <3>4. CASE ReadStatus(c)
        BY <1>0, <3>4 DEF ReadStatus, ReqRec
      <3>5. CASE ReadState(c)
        BY <1>0, <3>5 DEF ReadState, ReqRec
      <3>6. CASE SetState(c)
        BY <1>0, <3>6 DEF SetState, ReqRec
      <3>7. CASE InfrastructureDeploy(c) \/ InfrastructureDelete(c) \/ ConfigMapGone(c)
        BY <1>0, <3>7 DEF InfrastructureDeploy, InfrastructureDelete, ConfigMapGone, ReqRec
      <3>8. CASE CallConfigMapGet(c) \/ AssignConfigMap(c) \/ ResetState(c)
        BY <1>0, <3>8 DEF CallConfigMapGet, AssignConfigMap, ResetState, ReqRec
      <3>9. CASE \/ CheckConfigMap(c) \/ ResetStatus(c) \/ SetStatus(c) \/ InfrastructureList(c)
                 \/ EnsureNamespaceExists(c) \/ GiveUp(c) \/ NodeIPGet(c) \/ ConfigMapExists(c)
        BY <3>9 DEF CheckConfigMap, ConfigMapExists, ResetStatus, SetStatus, InfrastructureList,
           EnsureNamespaceExists, GiveUp, NodeIPGet
      <3> QED
        BY <1>6, <3>1, <3>2, <3>3, <3>4, <3>5, <3>6, <3>7, <3>8, <3>9 DEF Step
    <2> QED
      BY <1>2, <1>6, <2>1, <2>2 DEF Owned
  <1> QED
    BY <1>1, <1>3, <1>4, <1>5, <1>6

-----------------------------------------------------------------------------
(* The maps and the answer of a request that is alone.                     *)

(* Who writes the maps is inside statusGet. *)
LEMMA WritersInside ==
    ASSUME ApiInv, NEW c \in Requests, Arrive(c) \/ Step(c) \/ Fault(c), ~ResetStatus(c)
    PROVE  UNCHANGED <<status, state>> \/ InStatusGet(c)
  <1>1. CASE Arrive(c)
    BY <1>1 DEF Arrive, globals
  <1>2. CASE Fault(c)
    BY <1>2 DEF Fault, CallConfigMapGetFails, ConfigMapDeployFails, GetInfraFails, CallFails,
                Fails, globals
  <1>3. CASE ResetState(c) \/ SetStatus(c) \/ SetState(c)
    <2>1. pc[c] \in UsingMaps /\ pc[c] \notin {"done", "error"}
      BY <1>3 DEF ResetState, SetStatus, SetState, At, UsingMaps
    <2>2. req[c].op = "baseinfo"
      BY <1>3, ReqFacts DEF ResetState, SetStatus, SetState, At, Located
    <2> QED
      BY <2>1, <2>2 DEF InStatusGet
  <1>4. CASE Step(c) /\ ~(ResetState(c) \/ SetStatus(c) \/ SetState(c))
    BY <1>4 DEF Step, CheckConfigMap, CallConfigMapGet, AssignConfigMap, ConfigMapDeploy, ConfigMapExists,
       ConfigMapGetAgain, ConfigMapGone,
       ReturnConfigMap, GetInfra, ReadStatus, ReadState, InfrastructureList,
       EnsureNamespaceExists, InfrastructureDeploy, InfrastructureDelete, SyncService, GiveUp,
       NodeIPGet, toInfrastructureResource, globals
  <1> QED
    BY <1>1, <1>2, <1>3, <1>4

(* A step of another request. *)
LEMMA OtherExact ==
    ASSUME ApiInv, AloneInside, NEW c \in Requests, Arrive(c) \/ Step(c) \/ Fault(c),
           NEW d \in Requests, d # c, Exact(d)
    PROVE  Exact(d)'
  <1>1. pc'[d] = pc[d] /\ req'[d] = req[d]
    BY OthersStay
  <1>2. CASE ~alone'[d]
    BY <1>1, <1>2 DEF Exact
  <1>3. CASE alone'[d] /\ InStatusGet(d)
    <2>1. ~ResetStatus(c)
      BY <1>3 DEF ResetStatus
    <2>2. alone[d] /\ ~InStatusGet(c)
      BY <1>3, <2>1, AloneStays DEF AloneInside
    <2>3. UNCHANGED <<status, state>>
      BY <2>1, <2>2, WritersInside
    <2> QED
      BY <1>1, <2>2, <2>3 DEF Exact
  <1>4. CASE alone'[d] /\ ~InStatusGet(d)
    <2>1. alone[d]
      <3>1. CASE ResetStatus(c)
        BY <1>4, <3>1 DEF ResetStatus
      <3>2. CASE ~ResetStatus(c)
        BY <1>4, <3>2, AloneStays
      <3> QED
        BY <3>1, <3>2
    <2>2. req[d].op = "baseinfo" => ~Filling(pc[d], req[d]) /\ ~Reading(pc[d])
      BY <1>4 DEF InStatusGet, Filling, Reading, UsingMaps, Configuring
    <2>3. req[d].op = "baseinfo" => pc[d] # "setState"
      BY <1>4 DEF InStatusGet, UsingMaps
    <2>4. MapsExact(pc[d], req[d], status', state')
      BY <2>2, <2>3 DEF MapsExact
    <2> QED
      BY <1>1, <2>1, <2>4 DEF Exact
  <1> QED
    BY <1>2, <1>3, <1>4

(* A step that neither reads an infrastructure nor touches the maps: p and *)
(* r before it, l and q after it.                                          *)
LEMMA QuietExact ==
    ASSUME NEW r, NEW q, NEW p, NEW l, NEW ss, NEW ts, N \in Nat,
           q.op = r.op, q.i = r.i, q.read = r.read, r.i \in 0 .. N,
           p \in Configuring \cup {"getInfra"},
           l \in Configuring \cup {"resetStatus", "getInfra", "setStatus", "error", "aborted"},
           l = "setStatus" => q.got = None,
           ReadInOrder(p, r)
    PROVE  /\ ReadInOrder(l, q)
           /\ AnswerExact(l, q)
           /\ MapsExact(p, r, ss, ts) => MapsExact(l, q, ss, ts)
  <1>1. Filling(l, q) => Filling(p, r)
    BY DEF Filling
  <1>2. ~Reading(l) /\ ~Reading(p) /\ l # "done" /\ l # "readState" /\ l # "setState"
        /\ p \notin {"setStatus", "setState"}
    BY DEF Reading, Configuring
  <1>3. ReadInOrder(l, q)
    BY <1>1, <1>2 DEF ReadInOrder
  <1>4. AnswerExact(l, q)
    BY <1>2 DEF AnswerExact
  <1>5. MapsExact(p, r, ss, ts) => MapsExact(l, q, ss, ts)
    BY <1>1, <1>2 DEF MapsExact
  <1> QED
    BY <1>3, <1>4, <1>5

LEMMA ConfigExact ==
    ASSUME ApiInv, NEW c \in Requests, Exact(c),
           \/ CheckConfigMap(c) \/ CallConfigMapGet(c) \/ AssignConfigMap(c)
           \/ ConfigMapDeploy(c) \/ ConfigMapGetAgain(c) \/ ReturnConfigMap(c)
           \/ ConfigMapExists(c) \/ ConfigMapGone(c)
           \/ CallConfigMapGetFails(c) \/ ConfigMapDeployFails(c) \/ GetInfraFails(c)
    PROVE  Exact(c)'
  <1>0. /\ pc \in [Requests -> Labels] /\ req \in [Requests -> ReqRec] /\ req[c] \in ReqRec
        /\ Located(pc[c], req[c]) /\ req[c].i \in 0 .. N /\ N \in Nat
    BY ReqFacts, KindFacts DEF ApiInv, RequestsOK
  <1>1. pc[c] \in Configuring \cup {"getInfra"}
    BY DEF CheckConfigMap, CallConfigMapGet, AssignConfigMap, ConfigMapDeploy, ConfigMapExists,
       ConfigMapGetAgain, ConfigMapGone,
       ReturnConfigMap,
       CallConfigMapGetFails, ConfigMapDeployFails, GetInfraFails, At, Configuring
  <1>2. UNCHANGED <<status, state, alone>>
    BY DEF CheckConfigMap, CallConfigMapGet, AssignConfigMap, ConfigMapDeploy, ConfigMapExists,
       ConfigMapGetAgain, ConfigMapGone,
       ReturnConfigMap,
       CallConfigMapGetFails, ConfigMapDeployFails, GetInfraFails, Fails, globals, history
  <1>3. req'[c].op = req[c].op /\ req'[c].i = req[c].i /\ req'[c].read = req[c].read
    <2>1. CASE CallConfigMapGetFails(c) \/ ConfigMapDeployFails(c) \/ GetInfraFails(c)
      BY <2>1, FaultOnlyAnswers DEF Fault
    <2>2. CASE ConfigMapDeploy(c) \/ ConfigMapGetAgain(c) \/ ReturnConfigMap(c)
      BY <1>0, <2>2 DEF ConfigMapDeploy, ConfigMapGetAgain, ReturnConfigMap, Looked, ReqRec
    <2>3. CASE CheckConfigMap(c) \/ ConfigMapExists(c)
      BY <2>3 DEF CheckConfigMap, ConfigMapExists
    <2>4. CASE CallConfigMapGet(c) \/ AssignConfigMap(c) \/ ConfigMapGone(c)
      BY <1>0, <2>4 DEF CallConfigMapGet, AssignConfigMap, ConfigMapGone, ReqRec
    <2> QED
      BY <2>1, <2>2, <2>3, <2>4
  <1>4. \/ pc'[c] \in Configuring \cup {"resetStatus", "getInfra", "error", "aborted"}
        \/ pc'[c] = "setStatus" /\ req'[c].got = None
        \/ req[c].op # "baseinfo"
    <2>1. CASE \/ CheckConfigMap(c) \/ CallConfigMapGet(c) \/ CallConfigMapGetFails(c)
               \/ ConfigMapExists(c)
      BY <1>0, <2>1 DEF CheckConfigMap, CallConfigMapGet, CallConfigMapGetFails, ConfigMapExists,
                        Fails, GoTo, Configuring
    <2>2. CASE AssignConfigMap(c)
      <3>1. req[c].got \in {"real", "notFound", "error"}
        BY <1>0, <2>2 DEF AssignConfigMap, At, Located
      <3>2. pc'[c] \in {"haveConfig", "deployConfig", NoConfig(c)}
        BY <1>0, <2>2, <3>1 DEF AssignConfigMap, GoTo
      <3>3. req'[c].got = None
        BY <1>0, <2>2 DEF AssignConfigMap, ReqRec
      <3> QED
        BY <3>2, <3>3 DEF NoConfig, Configuring
    <2>3. CASE ConfigMapDeployFails(c) \/ ConfigMapGone(c)
      <3>0. req[c].got = None
        BY <1>0, <2>3 DEF ConfigMapDeployFails, ConfigMapGone, At, Located
      <3>1. req'[c].got = None
        <4>1. CASE ConfigMapDeployFails(c)
          BY <3>0, <4>1 DEF ConfigMapDeployFails
        <4>2. CASE ConfigMapGone(c)
          BY <1>0, <3>0, <4>2 DEF ConfigMapGone, ReqRec
        <4> QED
          BY <2>3, <4>1, <4>2
      <3>2. pc'[c] = NoConfig(c)
        BY <1>0, <2>3 DEF ConfigMapDeployFails, ConfigMapGone, Fails, GoTo
      <3> QED
        BY <3>1, <3>2 DEF NoConfig
    <2>4. CASE GetInfraFails(c)
      <3>1. req'[c].got = None
        BY <1>0, <2>4 DEF GetInfraFails, ReqRec
      <3> QED
        BY <1>0, <2>4, <3>1 DEF GetInfraFails, Fails, GoTo
    <2>5. CASE ConfigMapDeploy(c) \/ ConfigMapGetAgain(c) \/ ReturnConfigMap(c)
      <3>1. pc'[c] = WithConfig(c)
        BY <1>0, <2>5 DEF ConfigMapDeploy, ConfigMapGetAgain, ReturnConfigMap, GoTo
      <3> QED
        BY <3>1 DEF WithConfig
    <2> QED
      BY <2>1, <2>2, <2>3, <2>4, <2>5
  <1>5. CASE req[c].op # "baseinfo"
    BY <1>3, <1>5 DEF Exact, ReadInOrder, MapsExact, AnswerExact
  <1>6. CASE req[c].op = "baseinfo"
    <2>1. ReadInOrder(pc[c], req[c])
          /\ (alone[c] => MapsExact(pc[c], req[c], status, state))
      BY DEF Exact
    <2>2. /\ pc'[c] \in Configuring \cup {"resetStatus", "getInfra", "setStatus", "error", "aborted"}
          /\ pc'[c] = "setStatus" => req'[c].got = None
      BY <1>4, <1>6 DEF Configuring
    <2>3. /\ ReadInOrder(pc'[c], req'[c]) /\ AnswerExact(pc'[c], req'[c])
          /\ MapsExact(pc[c], req[c], status, state) => MapsExact(pc'[c], req'[c], status, state)
      BY <1>0, <1>1, <1>3, <2>1, <2>2, QuietExact
    <2> QED
      BY <1>2, <2>1, <2>3 DEF Exact
  <1> QED
    BY <1>5, <1>6

(* The steps of the handlers that have nothing to do with the maps. *)
LEMMA ElsewhereExact ==
    ASSUME ApiInv, NEW c \in Requests, Exact(c),
           \/ Arrive(c) \/ InfrastructureList(c) \/ EnsureNamespaceExists(c)
           \/ InfrastructureDeploy(c) \/ InfrastructureDelete(c) \/ CallFails(c)
           \/ SyncService(c) \/ GiveUp(c) \/ NodeIPGet(c) \/ toInfrastructureResource(c)
    PROVE  Exact(c)'
  <1>1. CASE Arrive(c)
    <2>1. pc'[c] \in {"list", "config"} /\ req'[c].i = 0 /\ req'[c].read = NoEntries
      BY <1>1, ArriveOnlyNames
    <2>2. ~Filling(pc'[c], req'[c]) /\ ~Reading(pc'[c])
      BY <2>1 DEF Filling, Reading
    <2>3. ReadInOrder(pc'[c], req'[c])
      BY <2>1, <2>2, KindFacts DEF ReadInOrder, NoEntries
    <2>4. MapsExact(pc'[c], req'[c], status', state') /\ AnswerExact(pc'[c], req'[c])
      BY <2>1, <2>2 DEF MapsExact, AnswerExact
    <2> QED
      BY <2>3, <2>4 DEF Exact
  <1>2. CASE ~Arrive(c)
    <2>1. pc[c] \in OnKind \cup {"list"}
      BY <1>2 DEF InfrastructureList, EnsureNamespaceExists, InfrastructureDeploy,
         InfrastructureDelete, CallFails, SyncService, GiveUp, NodeIPGet,
         toInfrastructureResource, At, OnKind
    <2>2. req[c].op # "baseinfo"
      BY <2>1, ReqFacts DEF Located
    <2>3. req'[c].op = req[c].op
      BY <1>2, Identity DEF Step, Fault
    <2> QED
      BY <2>2, <2>3 DEF Exact, ReadInOrder, MapsExact, AnswerExact
  <1> QED
    BY <1>1, <1>2

LEMMA ResetExact ==
    ASSUME ApiInv, NEW c \in Requests, Exact(c), ResetStatus(c) \/ ResetState(c)
    PROVE  Exact(c)'
  <1>0. /\ pc \in [Requests -> Labels] /\ req \in [Requests -> ReqRec] /\ req[c] \in ReqRec
        /\ Located(pc[c], req[c]) /\ N \in Nat /\ N >= 1 /\ ReadInOrder(pc[c], req[c])
        /\ req[c].op = "baseinfo" /\ req[c].i = 0
    BY ReqFacts, KindFacts DEF ApiInv, RequestsOK, Exact, ResetStatus, ResetState, At, Located
  <1>1. CASE ResetStatus(c)
    <2>1. pc'[c] = "resetState" /\ req'[c] = req[c]
      BY <1>0, <1>1 DEF ResetStatus, GoTo
    <2>2. ~Filling(pc'[c], req'[c]) /\ ~Reading(pc'[c])
      BY <2>1 DEF Filling, Reading, Configuring
    <2> QED
      BY <1>0, <2>1, <2>2 DEF Exact, ReadInOrder, MapsExact, AnswerExact
  <1>2. CASE ResetState(c)
    <2>1. pc'[c] = "config" /\ req'[c].i = 1 /\ req'[c].read = req[c].read
      BY <1>0, <1>2 DEF ResetState, GoTo, ReqRec
    <2>2. \A j \in 1 .. N : req[c].read[KindSeq[j]] = None
      BY <1>0 DEF ReadInOrder
    <2>3. ReadInOrder(pc'[c], req'[c])
      BY <1>0, <2>1, <2>2 DEF ReadInOrder
    <2>4. MapsExact(pc'[c], req'[c], status', state') /\ AnswerExact(pc'[c], req'[c])
      BY <1>0, <2>1 DEF MapsExact, AnswerExact, Reading
    <2> QED
      BY <2>3, <2>4 DEF Exact
  <1> QED
    BY <1>1, <1>2

(* What a request that fills the maps, or reads them, is at. *)
LEMMA AtKind ==
    ASSUME ApiInv, NEW c \in Requests, req[c].i > 0
    PROVE  /\ req[c].i \in 1 .. N /\ N \in Nat
           /\ Kind(c) = KindSeq[req[c].i] /\ Kind(c) \in Kinds
           /\ \A j \in 1 .. N : KindSeq[j] \in Kinds
           /\ \A j \in 1 .. N : j # req[c].i => KindSeq[j] # Kind(c)
  BY ReqFacts, KindFacts

LEMMA GetInfraExact ==
    ASSUME ApiInv, NEW c \in Requests, Exact(c), GetInfra(c)
    PROVE  Exact(c)'
  <1>0. /\ pc \in [Requests -> Labels] /\ req \in [Requests -> ReqRec] /\ req[c] \in ReqRec
        /\ Located("getInfra", req[c]) /\ ReadInOrder("getInfra", req[c])
        /\ alone[c] => MapsExact("getInfra", req[c], status, state)
        /\ UNCHANGED <<status, state, alone>>
    BY ReqFacts DEF ApiInv, RequestsOK, Exact, GetInfra, At, globals, history
  <1> DEFINE k == Kind(c)
             x == Found(c)
             b == infra[Kind(c)] = None
  <1>1. req'[c] = [req[c] EXCEPT !.got = x, !.read[k] = x, !.conflict = b]
        /\ k \in Kinds
    BY <1>0, GetInfraIs
  <1> HIDE DEF k, x, b
  <1>2. /\ req'[c].op = req[c].op /\ req'[c].i = req[c].i /\ req'[c].got = x
        /\ req'[c].read = [req[c].read EXCEPT ![k] = x]
        /\ req[c].read \in [Kinds -> Item]
    BY <1>0, <1>1 DEF ReqRec
  <1>3. CASE req[c].op # "baseinfo"
    BY <1>2, <1>3 DEF Exact, ReadInOrder, MapsExact, AnswerExact
  <1>4. CASE req[c].op = "baseinfo"
    <2>1. pc'[c] = "setStatus" /\ req[c].i > 0
      BY <1>0, <1>4, GetInfraIs DEF GoTo, Located
    <2>2. /\ req[c].i \in 1 .. N /\ N \in Nat /\ k = KindSeq[req[c].i]
          /\ \A j \in 1 .. N : KindSeq[j] \in Kinds
          /\ \A j \in 1 .. N : j # req[c].i => KindSeq[j] # k
      BY <2>1, AtKind DEF k
    <2>3. /\ req'[c].read[KindSeq[req[c].i]] = x
          /\ \A j \in 1 .. N : j # req[c].i => req'[c].read[KindSeq[j]] = req[c].read[KindSeq[j]]
      BY <1>2, <2>2
    <2>4. Filling("getInfra", req[c]) /\ Filling("setStatus", req'[c])
      BY <1>2, <2>1 DEF Filling
    <2>5. ReadInOrder(pc'[c], req'[c])
      BY <1>0, <1>2, <1>4, <2>1, <2>2, <2>3, <2>4 DEF ReadInOrder
    <2>6. alone[c] => MapsExact(pc'[c], req'[c], status, state)
      BY <1>0, <1>2, <1>4, <2>1, <2>2, <2>3, <2>4 DEF MapsExact, Reading
    <2>7. AnswerExact(pc'[c], req'[c])
      BY <2>1 DEF AnswerExact, Reading
    <2> QED
      BY <1>0, <2>5, <2>6, <2>7 DEF Exact
  <1> QED
    BY <1>3, <1>4

LEMMA SetStatusExact ==
    ASSUME ApiInv, NEW c \in Requests, Exact(c), SetStatus(c)
    PROVE  Exact(c)'
  <1>0. /\ pc \in [Requests -> Labels] /\ req'[c] = req[c] /\ pc'[c] = "setState"
        /\ Located("setStatus", req[c]) /\ ReadInOrder("setStatus", req[c])
        /\ alone[c] => MapsExact("setStatus", req[c], status, state)
        /\ UNCHANGED <<state, alone>>
        /\ status' = [status EXCEPT ![Kind(c)] = StatusOf(req[c].got)]
        /\ status \in [Kinds -> Answers]
    BY ReqFacts DEF ApiInv, RequestsOK, GlobalsOK, Exact, SetStatus, At, history, GoTo, StatusOf
  <1>1. req[c].i > 0 /\ req[c].op = "baseinfo"
    BY <1>0, ReqFacts DEF Located
  <1>2. /\ req[c].i \in 1 .. N /\ N \in Nat /\ Kind(c) = KindSeq[req[c].i]
        /\ \A j \in 1 .. N : KindSeq[j] \in Kinds
        /\ \A j \in 1 .. N : j # req[c].i => KindSeq[j] # Kind(c)
    BY <1>1, AtKind
  <1>3. /\ status'[KindSeq[req[c].i]] = StatusOf(req[c].got)
        /\ \A j \in 1 .. N : j # req[c].i => status'[KindSeq[j]] = status[KindSeq[j]]
    BY <1>0, <1>2
  <1>4. Filling("setStatus", req[c]) /\ Filling("setState", req[c])
    BY <1>1 DEF Filling
  <1>5. ReadInOrder("setState", req[c]) /\ req[c].read[KindSeq[req[c].i]] = req[c].got
    BY <1>0, <1>1, <1>4 DEF ReadInOrder
  <1>6. alone[c] => MapsExact("setState", req[c], status', state)
    BY <1>0, <1>1, <1>2, <1>3, <1>4, <1>5 DEF MapsExact, Reading
  <1>7. AnswerExact("setState", req[c])
    BY DEF AnswerExact, Reading
  <1> QED
    BY <1>0, <1>5, <1>6, <1>7 DEF Exact

LEMMA SetStateExact ==
    ASSUME ApiInv, NEW c \in Requests, Exact(c), SetState(c)
    PROVE  Exact(c)'
  <1>0. /\ pc \in [Requests -> Labels] /\ req \in [Requests -> ReqRec] /\ req[c] \in ReqRec
        /\ Located("setState", req[c]) /\ ReadInOrder("setState", req[c])
        /\ alone[c] => MapsExact("setState", req[c], status, state)
        /\ UNCHANGED <<status, alone>>
        /\ state' = [state EXCEPT ![Kind(c)] = StateOf(req[c].got)]
        /\ state \in [Kinds -> Item]
    BY ReqFacts DEF ApiInv, RequestsOK, GlobalsOK, Exact, SetState, At, history, StateOf
  <1>1. req[c].i > 0 /\ req[c].op = "baseinfo"
    BY <1>0, ReqFacts DEF Located
  <1>2. /\ req[c].i \in 1 .. N /\ N \in Nat /\ Kind(c) = KindSeq[req[c].i]
        /\ \A j \in 1 .. N : KindSeq[j] \in Kinds
        /\ \A j \in 1 .. N : j # req[c].i => KindSeq[j] # Kind(c)
    BY <1>1, AtKind
  <1>3. /\ state'[KindSeq[req[c].i]] = StateOf(req[c].got)
        /\ \A j \in 1 .. N : j # req[c].i => state'[KindSeq[j]] = state[KindSeq[j]]
    BY <1>0, <1>2
  <1>4. /\ req[c].read[KindSeq[req[c].i]] = req[c].got
        /\ \A j \in 1 .. N : j > req[c].i => req[c].read[KindSeq[j]] = None
    BY <1>0, <1>1 DEF ReadInOrder, Filling
  <1>5. alone[c] => \A j \in 1 .. N : j <= req[c].i =>
            /\ status[KindSeq[j]] = StatusOf(req[c].read[KindSeq[j]])
            /\ state'[KindSeq[j]] = StateOf(req[c].read[KindSeq[j]])
    BY <1>0, <1>1, <1>2, <1>3, <1>4 DEF MapsExact, Filling
  <1>6. /\ req'[c].op = req[c].op /\ req'[c].read = req[c].read /\ req'[c].got = None
        /\ req'[c].i = IF req[c].i = N THEN 1 ELSE req[c].i + 1
        /\ pc'[c] = IF req[c].i = N THEN "readStatus" ELSE "config"
    BY <1>0 DEF SetState, ReqRec, GoTo, N
  <1>7. CASE req[c].i = N
    <2>1. pc'[c] = "readStatus" /\ req'[c].i = 1
      BY <1>6, <1>7
    <2>2. ReadInOrder(pc'[c], req'[c])
      BY <2>1 DEF ReadInOrder, Filling, Configuring
    <2>3. alone[c] => MapsExact(pc'[c], req'[c], status, state')
      BY <1>2, <1>5, <1>6, <1>7, <2>1 DEF MapsExact
    <2>4. AnswerExact(pc'[c], req'[c])
      BY <1>2, <2>1 DEF AnswerExact
    <2> QED
      BY <1>0, <2>2, <2>3, <2>4 DEF Exact
  <1>8. CASE req[c].i # N
    <2>1. pc'[c] = "config" /\ req'[c].i = req[c].i + 1 /\ req'[c].i \in 1 .. N
      BY <1>2, <1>6, <1>8
    <2>2. ReadInOrder(pc'[c], req'[c])
      BY <1>2, <1>4, <1>6, <2>1 DEF ReadInOrder
    <2>3. alone[c] => MapsExact(pc'[c], req'[c], status, state')
      BY <1>2, <1>5, <1>6, <2>1 DEF MapsExact, Reading
    <2>4. AnswerExact(pc'[c], req'[c])
      BY <2>1 DEF AnswerExact, Reading
    <2> QED
      BY <1>0, <2>2, <2>3, <2>4 DEF Exact
  <1> QED
    BY <1>7, <1>8

LEMMA ReadStatusExact ==
    ASSUME ApiInv, NEW c \in Requests, Exact(c), ReadStatus(c)
    PROVE  Exact(c)'
  <1>0. /\ pc \in [Requests -> Labels] /\ req \in [Requests -> ReqRec] /\ req[c] \in ReqRec
        /\ Located("readStatus", req[c]) /\ pc'[c] = "readState"
        /\ alone[c] => MapsExact("readStatus", req[c], status, state)
        /\ alone[c] => AnswerExact("readStatus", req[c])
        /\ UNCHANGED <<status, state, alone>>
    BY ReqFacts DEF ApiInv, RequestsOK, Exact, ReadStatus, At, globals, history, GoTo
  <1>1. req[c].i > 0 /\ req[c].op = "baseinfo"
    BY <1>0, ReqFacts DEF Located
  <1> DEFINE k == Kind(c)
             x == Lookup(c, status)
  <1>2. /\ req[c].i \in 1 .. N /\ N \in Nat /\ k = KindSeq[req[c].i] /\ k \in Kinds
        /\ \A j \in 1 .. N : KindSeq[j] \in Kinds
        /\ \A j \in 1 .. N : j # req[c].i => KindSeq[j] # k
    BY <1>1, AtKind
  <1>3. req'[c] = [req[c] EXCEPT !.status[k] = x]
    BY <1>0 DEF ReadStatus
  <1>4. req[c].info = "real" => x = status[k]
    BY DEF Lookup
  <1> HIDE DEF k, x
  <1>5. /\ req'[c].op = req[c].op /\ req'[c].i = req[c].i /\ req'[c].read = req[c].read
        /\ req'[c].info = req[c].info /\ req'[c].state = req[c].state
        /\ req'[c].status = [req[c].status EXCEPT ![k] = x]
        /\ req[c].status \in [Kinds -> Answers]
    BY <1>0, <1>3 DEF ReqRec
  <1>6. /\ req'[c].status[KindSeq[req[c].i]] = x
        /\ \A j \in 1 .. N : j # req[c].i => req'[c].status[KindSeq[j]] = req[c].status[KindSeq[j]]
    BY <1>2, <1>5
  <1>7. ReadInOrder(pc'[c], req'[c])
    BY <1>0, <1>1, <1>5 DEF ReadInOrder, Filling, Configuring
  <1>8. alone[c] => MapsExact(pc'[c], req'[c], status, state)
    BY <1>0, <1>5 DEF MapsExact, Reading
  <1>9. alone[c] => AnswerExact(pc'[c], req'[c])
    <2> SUFFICES ASSUME alone[c], req[c].info = "real" PROVE AnswerExact(pc'[c], req'[c])
      BY <1>5 DEF AnswerExact
    <2>1. x = StatusOf(req[c].read[KindSeq[req[c].i]])
      BY <1>0, <1>1, <1>2, <1>4 DEF MapsExact, Reading
    <2>2. \A j \in 1 .. N : j < req[c].i =>
            /\ req[c].status[KindSeq[j]] = StatusOf(req[c].read[KindSeq[j]])
            /\ req[c].state[KindSeq[j]] = StateOf(req[c].read[KindSeq[j]])
      BY <1>0, <1>1 DEF AnswerExact, Reading
    <2> QED
      BY <1>0, <1>2, <1>5, <1>6, <2>1, <2>2 DEF AnswerExact
  <1> QED
    BY <1>0, <1>7, <1>8, <1>9 DEF Exact

LEMMA ReadStateExact ==
    ASSUME ApiInv, NEW c \in Requests, Exact(c), ReadState(c)
    PROVE  Exact(c)'
  <1>0. /\ pc \in [Requests -> Labels] /\ req \in [Requests -> ReqRec] /\ req[c] \in ReqRec
        /\ Located("readState", req[c])
        /\ alone[c] => MapsExact("readState", req[c], status, state)
        /\ alone[c] => AnswerExact("readState", req[c])
        /\ UNCHANGED <<status, state, alone>>
    BY ReqFacts DEF ApiInv, RequestsOK, Exact, ReadState, At, globals, history
  <1>1. req[c].i > 0 /\ req[c].op = "baseinfo"
    BY <1>0, ReqFacts DEF Located
  <1> DEFINE k == Kind(c)
             x == Lookup(c, state)
             i == NextRead(c)
  <1>2. /\ req[c].i \in 1 .. N /\ N \in Nat /\ k = KindSeq[req[c].i] /\ k \in Kinds
        /\ \A j \in 1 .. N : KindSeq[j] \in Kinds
        /\ \A j \in 1 .. N : j # req[c].i => KindSeq[j] # k
    BY <1>1, AtKind
  <1>3. /\ req'[c] = [req[c] EXCEPT !.state[k] = x, !.i = i]
        /\ pc'[c] = IF req[c].i = N THEN "done" ELSE "readStatus"
    BY <1>0, ReadStateIs DEF Goes, N
  <1>4. /\ req[c].info = "real" => x = state[k]
        /\ i = IF req[c].i = N THEN req[c].i ELSE req[c].i + 1
    BY DEF Lookup, NextRead, N
  <1> HIDE DEF k, x, i
  <1>5. /\ req'[c].op = req[c].op /\ req'[c].i = i /\ req'[c].read = req[c].read
        /\ req'[c].info = req[c].info /\ req'[c].status = req[c].status
        /\ req'[c].state = [req[c].state EXCEPT ![k] = x]
        /\ req[c].state \in [Kinds -> Item]
    BY <1>0, <1>3 DEF ReqRec
  <1>6. /\ req'[c].state[KindSeq[req[c].i]] = x
        /\ \A j \in 1 .. N : j # req[c].i => req'[c].state[KindSeq[j]] = req[c].state[KindSeq[j]]
    BY <1>2, <1>5
  <1>7. ReadInOrder(pc'[c], req'[c])
    BY <1>2, <1>3, <1>4, <1>5 DEF ReadInOrder, Filling, Configuring
  <1>8. alone[c] => MapsExact(pc'[c], req'[c], status, state)
    BY <1>0, <1>3, <1>5 DEF MapsExact, Reading, Filling, Configuring
  <1>9. alone[c] => AnswerExact(pc'[c], req'[c])
    <2> SUFFICES ASSUME alone[c], req[c].info = "real" PROVE AnswerExact(pc'[c], req'[c])
      BY <1>5 DEF AnswerExact
    <2>1. x = StateOf(req[c].read[KindSeq[req[c].i]])
      BY <1>0, <1>1, <1>2, <1>4 DEF MapsExact, Reading
    <2>2. /\ \A j \in 1 .. N : j < req[c].i =>
                /\ req[c].status[KindSeq[j]] = StatusOf(req[c].read[KindSeq[j]])
                /\ req[c].state[KindSeq[j]] = StateOf(req[c].read[KindSeq[j]])
          /\ req[c].status[KindSeq[req[c].i]] = StatusOf(req[c].read[KindSeq[req[c].i]])
      BY <1>0, <1>1 DEF AnswerExact, Reading
    <2>3. \A j \in 1 .. N : j <= req[c].i =>
            /\ req'[c].status[KindSeq[j]] = StatusOf(req[c].read[KindSeq[j]])
            /\ req'[c].state[KindSeq[j]] = StateOf(req[c].read[KindSeq[j]])
      BY <1>2, <1>5, <1>6, <2>1, <2>2
    <2>4. CASE req[c].i = N
      <3>1. pc'[c] = "done"
        BY <1>3, <2>4
      <3> QED
        BY <1>2, <1>5, <2>3, <2>4, <3>1 DEF AnswerExact
    <2>5. CASE req[c].i # N
      <3>1. pc'[c] = "readStatus" /\ req'[c].i = req[c].i + 1
        BY <1>3, <1>4, <1>5, <2>5
      <3> QED
        BY <1>2, <1>5, <2>3, <3>1 DEF AnswerExact
    <2> QED
      BY <2>4, <2>5
  <1> QED
    BY <1>0, <1>7, <1>8, <1>9 DEF Exact

LEMMA ExactInit == Init => ExactInv
  <1> SUFFICES ASSUME Init PROVE ExactInv
    OBVIOUS
  <1>1. AloneInside
    BY DEF Init, AloneInside
  <1>2. ASSUME NEW c \in Requests PROVE Owned(c)
    <2>1. setBy = None /\ req[c].setBy = None /\ None # c
      BY <1>2, RequestsAssumption DEF Init, Start
    <2> QED
      BY <2>1 DEF Owned
  <1>3. ASSUME NEW c \in Requests PROVE Exact(c)
    <2>1. ~alone[c] /\ req[c].i = 0 /\ req[c].read = NoEntries
      BY <1>3 DEF Init, Start
    <2>2. ReadInOrder(pc[c], req[c])
      BY <2>1, KindFacts DEF ReadInOrder, Filling, NoEntries
    <2> QED
      BY <2>1, <2>2 DEF Exact
  <1> QED
    BY <1>1, <1>2, <1>3 DEF ExactInv

LEMMA ExactStep == ApiInv /\ ExactInv /\ [Next]_vars => ExactInv'
  <1> SUFFICES ASSUME ApiInv, ExactInv, [Next]_vars PROVE ExactInv'
    OBVIOUS
  <1>1. ASSUME UNCHANGED <<globals, pc, req, history>> PROVE ExactInv'
    <2>1. AloneInside'
      BY <1>1 DEF ExactInv, AloneInside, InStatusGet, history
    <2>2. ASSUME NEW c \in Requests PROVE Owned(c)' /\ Exact(c)'
      BY <1>1 DEF ExactInv, Owned, Exact, globals, history
    <2> QED
      BY <2>1, <2>2 DEF ExactInv
  <1>2. CASE World
    BY <1>1, <1>2, WorldFits
  <1>3. CASE UNCHANGED vars
    BY <1>1, <1>3 DEF vars
  <1>4. ASSUME NEW c \in Requests, Arrive(c) \/ Step(c) \/ Fault(c) PROVE ExactInv'
    <2>0. AloneInside /\ \A d \in Requests : Owned(d) /\ Exact(d)
      BY DEF ExactInv
    <2>1. AloneInside'
      BY <1>4, <2>0, AloneStep
    <2>2. ASSUME NEW d \in Requests PROVE Owned(d)'
      BY <1>4, <2>0, OwnedStep
    <2>3. ASSUME NEW d \in Requests PROVE Exact(d)'
      <3>1. CASE d # c
        BY <1>4, <2>0, <3>1, OtherExact
      <3>2. CASE d = c
        BY <1>4, <2>0, <3>2, ConfigExact, ElsewhereExact, ResetExact, GetInfraExact,
           SetStatusExact, SetStateExact, ReadStatusExact, ReadStateExact
        DEF Step, Fault
      <3> QED
        BY <3>1, <3>2
    <2> QED
      BY <2>1, <2>2, <2>3 DEF ExactInv
  <1> QED
    BY <1>2, <1>3, <1>4 DEF Next

(* The maps and Service are shared without a lock (statusGet, BaseInfoGet, *)
(* syncService), and still a request that no other one met inside          *)
(* statusGet answers with exactly what it has read, for every list of      *)
(* infrastructures and any number of requests; and the port of an answer   *)
(* is that of its own Service unless another request assigned it since.    *)
THEOREM AnswersOfTheAlone == Spec => []AloneIsExact
  <1>1. ApiInv /\ ExactInv => AloneIsExact
    <2> SUFFICES ASSUME ApiInv, ExactInv, NEW c \in Requests, pc[c] = "done"
                 PROVE  StatusIsExact(c) /\ (req[c].setBy = c => req[c].port = req[c].kind)
      BY DEF AloneIsExact
    <2>1. req[c].setBy = c => req[c].port = req[c].kind
      BY DEF ExactInv, Owned
    <2>2. StatusIsExact(c)
      <3> SUFFICES ASSUME req[c].op = "baseinfo", alone[c], req[c].info = "real", NEW k \in Kinds
                   PROVE  /\ req[c].status[k] = StatusOf(req[c].read[k])
                          /\ req[c].state[k] = StateOf(req[c].read[k])
        BY DEF StatusIsExact, StatusOf, StateOf
      <3>1. PICK j \in 1 .. N : k = KindSeq[j]
        BY KindFacts
      <3>2. AnswerExact("done", req[c])
        BY DEF ExactInv, Exact
      <3> QED
        BY <3>1, <3>2 DEF AnswerExact
    <2> QED
      BY <2>1, <2>2
  <1> QED
    BY <1>1, ExactInit, ExactStep, ApiInvariant, PTL DEF Spec

=============================================================================
