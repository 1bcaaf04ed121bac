---------------------------- MODULE StartupProofs ----------------------------
(***************************************************************************)
(* Start-up and the key pair, for any number of processes and any number   *)
(* of failed calls, crashes and edits.                                     *)
(*                                                                         *)
(* OneKeyPair is not inductive.  It rests on two facts: the files of a     *)
(* process are written in one order, so that a public key is absent, torn  *)
(* or the one of the private key beside it (FilesInOrder); and the secret  *)
(* is written once, from such a pair of files (SecretFromFiles).           *)
(***************************************************************************)
EXTENDS Startup, TLAPS

(* The definitions are twelve, and all of them have names. *)
LEMMA CRDsLength == Len(CRDs) = 12 /\ Len(UserCRDDeploy) = 3
  BY DEF CRDs, UserCRDDeploy, InfrastructureCRDDeploy, LonghornCRDDeploys, RancherVMCRDDeploys

(* The type of every half of a key pair. *)
LEMMA PairTypes ==
    /\ NoPair \in [priv : Keys, pub : Keys]
    /\ Absent \in Keys /\ Torn \in Keys /\ Absent # Torn
    /\ \A a, b \in Keys : [priv |-> a, pub |-> b] \in [priv : Keys, pub : Keys]
    /\ \A s \in [priv : Keys, pub : Keys] : s.priv \in Keys /\ s.pub \in Keys
  BY TornAssumption DEF NoPair, Absent, Keys

(* A process that is not running has no step behind it; with this the type *)
(* invariant is inductive.                                                 *)
DownIsFresh == \A p \in Procs : pc[p] = "down" => step[p] = 0

TypeInv == TypeOK /\ DownIsFresh

(* What happens to an event's budget. *)
LEMMA SpendType ==
    ASSUME TypeOK, NEW c \in Costs, Spend(c)
    PROVE  budget' \in [Costs -> Nat]
  <1>1. budget[c] \in Nat /\ budget[c] - 1 \in Nat
    BY DEF TypeOK, Spend
  <1> QED
    BY <1>1 DEF TypeOK, Spend

(* What a process keeps in memory, by its type. *)
ProcTypeOK ==
    /\ pc \in [Procs -> Places]
    /\ step \in [Procs -> 0 .. Len(CRDs)]
    /\ \A p \in Procs : pc[p] \in {"crds", "getAdmin", "createAdmin"} => step[p] < Len(CRDs)
    /\ \A p \in Procs : pc[p] = "down" => step[p] = 0
    /\ pair \in [Procs -> [priv : Keys, pub : Keys]]

(* The four ways in which a process goes on keep the types of its memory. *)
LEMMA GoToType ==
    ASSUME TypeInv, NEW p \in Procs, NEW l \in Places \ {"down"}, GoTo(p, l),
           l \in {"crds", "getAdmin", "createAdmin"} => step[p] < Len(CRDs)
    PROVE  ProcTypeOK'
  BY DEF TypeInv, TypeOK, DownIsFresh, ProcTypeOK, GoTo

LEMMA ExitType ==
    ASSUME TypeInv, NEW p \in Procs, Exit(p)
    PROVE  ProcTypeOK'
  BY PairTypes, CRDsLength DEF TypeInv, TypeOK, DownIsFresh, ProcTypeOK, Exit, Places

LEMMA FatalType ==
    ASSUME TypeInv, NEW p \in Procs, Fatal(p)
    PROVE  ProcTypeOK' /\ budget' \in [Costs -> Nat]
  BY ExitType, SpendType DEF Fatal, Costs, TypeInv

LEMMA ParseType ==
    ASSUME TypeInv, NEW p \in Procs, NEW s \in [priv : Keys, pub : Keys], ParseRSAKey(p, s)
    PROVE  ProcTypeOK'
  <1>1. CASE Exit(p)
    BY <1>1, ExitType
  <1>2. CASE /\ pc' = [pc EXCEPT ![p] = "serve"]
             /\ pair' = [pair EXCEPT ![p] = s]
             /\ UNCHANGED step
    BY <1>2 DEF TypeInv, TypeOK, DownIsFresh, ProcTypeOK, Places
  <1> QED
    BY <1>1, <1>2 DEF ParseRSAKey

(* One definition is seen to, or given up. *)
LEMMA CRDDeployType ==
    ASSUME TypeInv, NEW p \in Procs, CRDDeploy(p)
    PROVE  TypeInv'
  <1> DEFINE n == step[p]
             c == CRDs[n + 1]
  <1>1. n \in 0 .. 11 /\ pc[p] = "crds"
    BY CRDsLength DEF CRDDeploy, TypeInv, TypeOK
  <1>2. c \in CRDNames
    BY <1>1, CRDsLength DEF CRDNames
  <1>3. crds \subseteq crds' /\ crds' \subseteq CRDNames
    BY <1>2 DEF CRDDeploy, TypeInv, TypeOK
  <1>4. budget' \in [Costs -> Nat]
    BY SpendType DEF CRDDeploy, TypeInv, TypeOK, Costs
  <1>5. ASSUME Seen(p, n + 1) PROVE ProcTypeOK'
    BY <1>1, <1>5, CRDsLength DEF Seen, TypeInv, TypeOK, DownIsFresh, ProcTypeOK, Places
  <1>6. ASSUME Failed(p, n) PROVE ProcTypeOK'
    <2>1. step' \in [Procs -> 0 .. 12] /\ pc' \in [Procs -> Places]
      BY <1>1, <1>6, CRDsLength DEF Failed, TypeInv, TypeOK, Places
    <2>2. /\ pair' = pair
          /\ (pc'[p] = "crds" /\ step'[p] < 12) \/ pc'[p] = "configMap"
          /\ \A q \in Procs \ {p} : pc'[q] = pc[q] /\ step'[q] = step[q]
      BY <1>1, <1>6, CRDsLength DEF Failed, TypeInv, TypeOK
    <2> QED
      BY <2>1, <2>2, CRDsLength DEF TypeInv, TypeOK, DownIsFresh, ProcTypeOK
  <1>7. ProcTypeOK'
    BY <1>5, <1>6 DEF CRDDeploy
  <1>8. UNCHANGED <<served, admin, config, secret, fileVars, gen>>
    BY DEF CRDDeploy
  <1> QED
    BY <1>3, <1>4, <1>7, <1>8 DEF TypeInv, TypeOK, DownIsFresh, ProcTypeOK, fileVars

(* Every step of a process keeps the types. *)
LEMMA AdvanceType ==
    ASSUME TypeInv, NEW p \in Procs, Advance(p)
    PROVE  TypeInv'
  <1> USE DEF storeVars, fileVars, procVars, Costs
  <1>a. /\ step[p] \in 0 .. 12 /\ pc[p] \in Places /\ TypeOK
        /\ priv[p] \in Keys /\ pub[p] \in Keys
        /\ pair[p].priv \in Keys /\ pair[p].pub \in Keys
    BY CRDsLength, PairTypes DEF TypeInv, TypeOK
  <1>1. CASE Start(p)
    <2>1. step[p] < Len(CRDs)
      BY <1>1, CRDsLength DEF Start, TypeInv, DownIsFresh
    <2>2. ProcTypeOK' /\ budget' \in [Costs -> Nat]
      BY <1>1, <2>1, GoToType, FatalType DEF Start, TypeInv, TypeOK, Places
    <2> QED
      BY <1>1, <2>2 DEF Start, TypeInv, TypeOK, DownIsFresh, ProcTypeOK
  <1>2. CASE CRDDeploy(p)
    BY <1>2, CRDDeployType
  <1>3. CASE GetCubeAdmin(p)
    <2>1. step[p] < Len(CRDs)
      BY <1>3 DEF GetCubeAdmin, TypeInv, TypeOK
    <2>2. ProcTypeOK' /\ budget' \in [Costs -> Nat]
      BY <1>3, <1>a, <2>1, GoToType, SpendType DEF GetCubeAdmin, TypeOK, Places
    <2> QED
      BY <1>3, <2>2 DEF GetCubeAdmin, TypeInv, TypeOK, DownIsFresh, ProcTypeOK
  <1>4. CASE CreateCubeAdmin(p)
    <2>1. step[p] < Len(CRDs)
      BY <1>4 DEF CreateCubeAdmin, TypeInv, TypeOK
    <2>2. ProcTypeOK' /\ budget' \in [Costs -> Nat]
      BY <1>4, <1>a, <2>1, GoToType, SpendType DEF CreateCubeAdmin, TypeOK, Places
    <2>3. admin' \in {"none", "created", "edited"}
      BY <1>4, <1>a DEF CreateCubeAdmin, TypeOK
    <2> QED
      BY <1>4, <2>2, <2>3 DEF CreateCubeAdmin, TypeInv, TypeOK, DownIsFresh, ProcTypeOK
  <1>5. CASE ConfigMapDeploy(p)
    <2>1. ProcTypeOK' /\ budget' \in [Costs -> Nat]
      BY <1>5, <1>a, GoToType, SpendType DEF ConfigMapDeploy, TypeOK, Places
    <2> QED
      BY <1>5, <2>1 DEF ConfigMapDeploy, TypeInv, TypeOK, DownIsFresh, ProcTypeOK
  <1>6. CASE GetSecret(p)
    <2>1. secret \in [priv : Keys, pub : Keys]
      BY <1>a DEF TypeOK
    <2>2. ProcTypeOK' /\ budget' \in [Costs -> Nat]
      BY <1>6, <1>a, <2>1, GoToType, ParseType, FatalType DEF GetSecret, TypeOK, Places
    <2> QED
      BY <1>6, <2>2 DEF GetSecret, TypeInv, TypeOK, DownIsFresh, ProcTypeOK
  <1>7. CASE CheckRSAKeyFileExist(p)
    <2>1. ProcTypeOK'
      BY <1>7, GoToType DEF CheckRSAKeyFileExist, Places
    <2> QED
      BY <1>7, <2>1, PairTypes
      DEF CheckRSAKeyFileExist, TypeInv, TypeOK, DownIsFresh, ProcTypeOK
  <1>8. CASE OpenPrivateKey(p)
    <2>1. CASE Fatal(p) /\ UNCHANGED <<priv, gen>>
      BY <1>8, <2>1, FatalType DEF OpenPrivateKey, TypeInv, TypeOK, DownIsFresh, ProcTypeOK
    <2>2. CASE /\ gen' = gen + 1
               /\ pc' = [pc EXCEPT ![p] = "writePriv"]
               /\ pair' = [pair EXCEPT ![p] = [priv |-> gen + 1, pub |-> gen + 1]]
               /\ priv' = [priv EXCEPT ![p] = Torn]
               /\ UNCHANGED <<step, budget>>
      <3>1. gen + 1 \in Keys /\ gen' \in Nat
        BY <1>a, <2>2 DEF TypeOK, Keys
      <3>2. /\ pair' \in [Procs -> [priv : Keys, pub : Keys]]
            /\ priv' \in [Procs -> Keys]
        BY <1>a, <2>2, <3>1, PairTypes DEF TypeOK
      <3> QED
        BY <1>8, <2>2, <3>1, <3>2 DEF OpenPrivateKey, TypeInv, TypeOK, DownIsFresh, Places
    <2> QED
      BY <1>8, <2>1, <2>2 DEF OpenPrivateKey
  <1>9. CASE WritePrivateKey(p)
    <2>1. ProcTypeOK' /\ budget' \in [Costs -> Nat]
      BY <1>9, <1>a, GoToType, FatalType DEF WritePrivateKey, TypeOK, Places
    <2> QED
      BY <1>9, <1>a, <2>1 DEF WritePrivateKey, TypeInv, TypeOK, DownIsFresh, ProcTypeOK
  <1>10. CASE OpenPublicKey(p)
    <2>1. ProcTypeOK' /\ budget' \in [Costs -> Nat]
      BY <1>10, <1>a, GoToType, FatalType DEF OpenPublicKey, TypeOK, Places
    <2> QED
      BY <1>10, <2>1, PairTypes DEF OpenPublicKey, TypeInv, TypeOK, DownIsFresh, ProcTypeOK
  <1>11. CASE WritePublicKey(p)
    <2>1. ProcTypeOK' /\ budget' \in [Costs -> Nat]
      BY <1>11, <1>a, GoToType, FatalType DEF WritePublicKey, TypeOK, Places
    <2> QED
      BY <1>11, <1>a, <2>1 DEF WritePublicKey, TypeInv, TypeOK, DownIsFresh, ProcTypeOK
  <1>12. CASE readRSAKey(p)
    <2>1. CASE Exit(p) /\ UNCHANGED budget
      BY <1>12, <2>1, ExitType DEF readRSAKey, TypeInv, TypeOK, DownIsFresh, ProcTypeOK
    <2>2. CASE Fatal(p)
      BY <1>12, <2>2, FatalType DEF readRSAKey, TypeInv, TypeOK, DownIsFresh, ProcTypeOK
    <2>3. CASE /\ pair' = [pair EXCEPT ![p] = [priv |-> priv[p], pub |-> pub[p]]]
               /\ pc' = [pc EXCEPT ![p] = "createSecret"]
               /\ UNCHANGED <<step, budget>>
      <3>1. pair' \in [Procs -> [priv : Keys, pub : Keys]]
        BY <1>a, <2>3, PairTypes DEF TypeOK
      <3> QED
        BY <1>12, <2>3, <3>1 DEF readRSAKey, TypeInv, TypeOK, DownIsFresh, Places
    <2> QED
      BY <1>12, <2>1, <2>2, <2>3 DEF readRSAKey
  <1>13. CASE CreateSecret(p)
    <2>1. pair[p] \in [priv : Keys, pub : Keys]
      BY <1>a DEF TypeOK
    <2>2. ProcTypeOK' /\ budget' \in [Costs -> Nat]
      BY <1>13, <1>a, <2>1, ParseType, ExitType, FatalType DEF CreateSecret, TypeOK
    <2>3. secret' \in [priv : Keys, pub : Keys]
      BY <1>13, <1>a, <2>1 DEF CreateSecret, TypeOK
    <2> QED
      BY <1>13, <2>2, <2>3 DEF CreateSecret, TypeInv, TypeOK, DownIsFresh, ProcTypeOK
  <1> QED
    BY <1>1, <1>2, <1>3, <1>4, <1>5, <1>6, <1>7, <1>8, <1>9, <1>10, <1>11, <1>12, <1>13
    DEF Advance

(* Every step keeps the types. *)
LEMMA TypeStep ==
    ASSUME TypeInv, [Next]_vars
    PROVE  TypeInv'
  <1> USE DEF storeVars, fileVars, procVars
  <1>1. ASSUME NEW p \in Procs, Advance(p) PROVE TypeInv'
    BY <1>1, AdvanceType
  <1>2. ASSUME NEW p \in Procs, NEW keep \in BOOLEAN, Crash(p, keep) PROVE TypeInv'
    <2>1. ProcTypeOK' /\ budget' \in [Costs -> Nat]
      BY <1>2, ExitType, SpendType DEF Crash, TypeInv, Costs
    <2>2. priv' \in [Procs -> Keys] /\ pub' \in [Procs -> Keys]
      BY <1>2, PairTypes DEF Crash, TypeInv, TypeOK
    <2> QED
      BY <1>2, <2>1, <2>2 DEF Crash, TypeInv, TypeOK, DownIsFresh, ProcTypeOK
  <1>3. CASE Establish
    BY <1>3 DEF Establish, TypeInv, TypeOK, DownIsFresh
  <1>4. CASE EditAdmin
    <2>1. budget' \in [Costs -> Nat]
      BY <1>4, SpendType DEF EditAdmin, TypeInv, Costs
    <2> QED
      BY <1>4, <2>1 DEF EditAdmin, TypeInv, TypeOK, DownIsFresh
  <1>5. CASE UNCHANGED vars
    BY <1>5 DEF vars, TypeInv, TypeOK, DownIsFresh
  <1> QED
    BY <1>1, <1>2, <1>3, <1>4, <1>5 DEF Next

LEMMA TypeInit == Init => TypeInv
  <1> SUFFICES ASSUME Init PROVE TypeInv
    OBVIOUS
  <1>1. secret \in [priv : Keys, pub : Keys] /\ pair \in [Procs -> [priv : Keys, pub : Keys]]
    BY PairTypes DEF Init
  <1>2. priv \in [Procs -> Keys] /\ pub \in [Procs -> Keys]
    BY PairTypes DEF Init
  <1>3. pc \in [Procs -> Places] /\ step \in [Procs -> 0 .. Len(CRDs)] /\ DownIsFresh
    BY CRDsLength DEF Init, Places, DownIsFresh
  <1> QED
    BY <1>1, <1>2, <1>3, BudgetAssumption DEF Init, TypeInv, TypeOK

(* The variables keep their types, and no process goes on to a definition  *)
(* that there is not (startAPIServer), for any processes and budgets.      *)
THEOREM TypeCorrect == Spec => []TypeOK
  BY TypeInit, TypeStep, PTL DEF Spec, TypeInv

-----------------------------------------------------------------------------
(* The files of a process are written in one order, the private key first: *)
(* beside a private key that is absent or torn there is no public key.     *)
FilesInOrder(p) ==
    /\ priv[p] \in 0 .. gen \cup {Torn}
    /\ pub[p] \in {Absent, Torn, priv[p]}
    /\ priv[p] \in {Absent, Torn} => pub[p] = Absent

(* What a process that makes a key pair has in its memory and its files. *)
PairInHand(p) ==
    /\ pc[p] = "openPriv" => priv[p] = Absent
    /\ pc[p] \in {"writePriv", "openPub", "writePub"} =>
        pair[p].priv \in 1 .. gen /\ pair[p].pub = pair[p].priv
    /\ pc[p] = "writePriv" => priv[p] = Torn
    /\ pc[p] \in {"openPub", "writePub"} => priv[p] = pair[p].priv
    /\ pc[p] = "openPub" => pub[p] = Absent
    /\ pc[p] = "createSecret" =>
        pair[p].priv \in 1 .. gen /\ pair[p].pub \in {Torn, pair[p].priv}

(* A process that serves has read the secret, or written it. *)
ServesSecret(p) ==
    pc[p] = "serve" => secret # NoPair /\ pair[p] = secret /\ secret.pub = secret.priv

(* The secret was made from files: a whole private key, and its public key *)
(* or a torn one.                                                          *)
SecretFromFiles ==
    secret = NoPair \/ (secret.priv \in 1 .. gen /\ secret.pub \in {Torn, secret.priv})

KeyOf(p) == FilesInOrder(p) /\ PairInHand(p) /\ ServesSecret(p)

KeyInv == SecretFromFiles /\ \A p \in Procs : KeyOf(p)

(* KeyInv holds when nothing has been started. *)
LEMMA KeyInit == Init => KeyInv
  BY DEF Init, KeyInv, KeyOf, FilesInOrder, PairInHand, ServesSecret, SecretFromFiles, Absent

(* What a step of one process, or of none, may do to the others: they keep *)
(* what they have, a new generation is a later one, and a secret that      *)
(* exists stays.                                                           *)
LEMMA OthersKeep ==
    ASSUME TypeInv, KeyInv, NEW q \in Procs, gen' \in {gen, gen + 1},
           priv'[q] = priv[q], pub'[q] = pub[q], pc'[q] = pc[q], pair'[q] = pair[q],
           secret' = secret \/ secret = NoPair
    PROVE  KeyOf(q)'
  <1>1. KeyOf(q) /\ gen \in Nat /\ 0 .. gen \subseteq 0 .. gen' /\ 1 .. gen \subseteq 1 .. gen'
    BY DEF KeyInv, TypeInv, TypeOK
  <1>2. FilesInOrder(q)'
    BY <1>1 DEF KeyOf, FilesInOrder
  <1>3. PairInHand(q)'
    BY <1>1 DEF KeyOf, PairInHand
  <1>4. ServesSecret(q)'
    BY <1>1 DEF KeyOf, ServesSecret
  <1> QED
    BY <1>2, <1>3, <1>4 DEF KeyOf

(* A process that comes to have neither a key pair in hand nor clients has *)
(* only its files to keep in order.                                        *)
LEMMA EmptyHands ==
    ASSUME NEW p \in Procs, FilesInOrder(p)',
           pc'[p] \notin {"openPriv", "writePriv", "openPub", "writePub", "createSecret", "serve"}
    PROVE  KeyOf(p)'
  BY DEF KeyOf, PairInHand, ServesSecret

(* The effect of a step of the process p on the key pairs. *)
KeyMove(p) ==
    /\ gen' \in {gen, gen + 1}
    /\ secret' = secret \/ secret = NoPair
    /\ SecretFromFiles'
    /\ KeyOf(p)'
    /\ \A q \in Procs \ {p} :
        priv'[q] = priv[q] /\ pub'[q] = pub[q] /\ pc'[q] = pc[q] /\ pair'[q] = pair[q]

(* A step that leaves the files, the secret and the key pair alone. *)
LEMMA AsideMoves ==
    ASSUME TypeInv, KeyInv, NEW p \in Procs, UNCHANGED <<secret, priv, pub, gen>>,
           \A q \in Procs \ {p} : pc'[q] = pc[q] /\ pair'[q] = pair[q],
           pc'[p] \notin {"openPriv", "writePriv", "openPub", "writePub", "createSecret", "serve"}
    PROVE  KeyMove(p)
  <1>1. FilesInOrder(p)'
    BY DEF KeyInv, KeyOf, FilesInOrder
  <1>2. KeyOf(p)'
    BY <1>1, EmptyHands
  <1> QED
    BY <1>2 DEF KeyMove, KeyInv, SecretFromFiles

(* The end of a process: its files stay. *)
LEMMA ExitMoves ==
    ASSUME TypeInv, KeyInv, NEW p \in Procs, Exit(p), UNCHANGED <<secret, priv, pub, gen>>
    PROVE  KeyMove(p)
  <1>1. pc'[p] = "down" /\ \A q \in Procs \ {p} : pc'[q] = pc[q] /\ pair'[q] = pair[q]
    BY DEF Exit, TypeInv, TypeOK
  <1> QED
    BY <1>1, AsideMoves

LEMMA AdvanceMoves ==
    ASSUME TypeInv, KeyInv, NEW p \in Procs, Advance(p)
    PROVE  KeyMove(p)
  <1> USE DEF storeVars, fileVars, procVars
  <1>a. /\ pc \in [Procs -> Places] /\ pair \in [Procs -> [priv : Keys, pub : Keys]]
        /\ priv \in [Procs -> Keys] /\ pub \in [Procs -> Keys] /\ gen \in Nat
        /\ secret \in [priv : Keys, pub : Keys]
    BY DEF TypeInv, TypeOK
  <1>b. /\ FilesInOrder(p) /\ PairInHand(p) /\ ServesSecret(p) /\ SecretFromFiles
    BY DEF KeyInv, KeyOf
  <1>c. /\ Torn # Absent /\ Absent \in Nat /\ Torn \notin 0 .. gen /\ Torn \notin 1 .. gen
        /\ Absent \notin 1 .. gen /\ NoPair.priv = Absent
    BY <1>a, TornAssumption DEF Absent, NoPair
  <1>d. ASSUME Fatal(p), UNCHANGED <<secret, priv, pub, gen>> PROVE KeyMove(p)
    BY <1>d, ExitMoves DEF Fatal
  <1>1. CASE \/ Start(p) \/ CRDDeploy(p) \/ GetCubeAdmin(p) \/ CreateCubeAdmin(p)
             \/ ConfigMapDeploy(p)
    <2>1. UNCHANGED <<secret, priv, pub, gen>>
      BY <1>1 DEF Start, CRDDeploy, GetCubeAdmin, CreateCubeAdmin, ConfigMapDeploy
    <2>2. CASE Fatal(p)
      BY <2>1, <2>2, <1>d
    <2>3. CASE \E l \in {"crds", "createAdmin", "getSecret"} : GoTo(p, l)
      <3>1. /\ pc'[p] \in {"crds", "createAdmin", "getSecret"}
            /\ \A q \in Procs \ {p} : pc'[q] = pc[q] /\ pair'[q] = pair[q]
        BY <1>a, <2>3 DEF GoTo
      <3> QED
        BY <2>1, <3>1, AsideMoves
    <2>4. CASE CRDDeploy(p)
      <3>1. /\ pc'[p] \in {"crds", "getAdmin", "configMap"}
            /\ \A q \in Procs \ {p} : pc'[q] = pc[q] /\ pair'[q] = pair[q]
        BY <1>a, <2>4 DEF CRDDeploy, Seen, Failed
      <3> QED
        BY <2>1, <3>1, AsideMoves
    <2> QED
      BY <1>1, <2>2, <2>3, <2>4
      DEF Start, GetCubeAdmin, CreateCubeAdmin, ConfigMapDeploy
  <1>2. CASE GetSecret(p)
    <2>1. UNCHANGED <<secret, priv, pub, gen>>
      BY <1>2 DEF GetSecret
    <2>2. CASE secret = NoPair /\ GoTo(p, "checkFiles")
      <3>1. /\ pc'[p] = "checkFiles"
            /\ \A q \in Procs \ {p} : pc'[q] = pc[q] /\ pair'[q] = pair[q]
        BY <1>a, <2>2 DEF GoTo
      <3> QED
        BY <2>1, <3>1, AsideMoves
    <2>3. CASE /\ secret # NoPair /\ Torn \notin {secret.priv, secret.pub}
               /\ pc' = [pc EXCEPT ![p] = "serve"]
               /\ pair' = [pair EXCEPT ![p] = secret]
      <3>1. secret.pub = secret.priv
        BY <1>b, <2>3 DEF SecretFromFiles
      <3>2. pc'[p] = "serve" /\ pair'[p] = secret'
        BY <1>a, <2>1, <2>3
      <3>3. ServesSecret(p)' /\ PairInHand(p)'
        BY <2>1, <2>3, <3>1, <3>2 DEF ServesSecret, PairInHand
      <3>4. FilesInOrder(p)' /\ SecretFromFiles'
        BY <1>b, <2>1 DEF FilesInOrder, SecretFromFiles
      <3> QED
        BY <1>a, <2>1, <2>3, <3>3, <3>4 DEF KeyMove, KeyOf
    <2> QED
      BY <1>2, <2>1, <2>2, <2>3, <1>d, ExitMoves DEF GetSecret, ParseRSAKey
  <1>3. CASE CheckRSAKeyFileExist(p)
    <2>1. UNCHANGED <<secret, pub, pair, gen>>
      BY <1>3 DEF CheckRSAKeyFileExist, GoTo
    <2>2. CASE priv[p] # Absent /\ pub[p] # Absent
      <3>1. /\ pc'[p] = "readFiles" /\ priv' = priv
            /\ \A q \in Procs \ {p} : pc'[q] = pc[q] /\ pair'[q] = pair[q]
        BY <1>3, <1>a, <2>2 DEF CheckRSAKeyFileExist, GoTo
      <3> QED
        BY <2>1, <3>1, AsideMoves
    <2>3. CASE ~(priv[p] # Absent /\ pub[p] # Absent)
      <3>1. pc' = [pc EXCEPT ![p] = "openPriv"] /\ priv' = [priv EXCEPT ![p] = Absent]
        BY <1>3, <2>3 DEF CheckRSAKeyFileExist, GoTo
      <3>2. pub[p] = Absent
        BY <1>b, <2>3 DEF FilesInOrder
      <3>3. pc'[p] = "openPriv" /\ priv'[p] = Absent /\ pub'[p] = Absent
        BY <1>a, <2>1, <3>1, <3>2
      <3>4. FilesInOrder(p)'
        BY <1>a, <2>1, <3>3 DEF FilesInOrder, Absent
      <3>5. PairInHand(p)' /\ ServesSecret(p)' /\ SecretFromFiles'
        BY <1>b, <2>1, <3>3 DEF PairInHand, ServesSecret, SecretFromFiles
      <3> QED
        BY <1>a, <2>1, <3>1, <3>4, <3>5 DEF KeyMove, KeyOf
    <2> QED
      BY <2>2, <2>3
  <1>4. CASE OpenPrivateKey(p)
    <2>1. CASE /\ gen' = gen + 1
               /\ pc' = [pc EXCEPT ![p] = "writePriv"]
               /\ pair' = [pair EXCEPT ![p] = [priv |-> gen + 1, pub |-> gen + 1]]
               /\ priv' = [priv EXCEPT ![p] = Torn]
      <3>1. UNCHANGED <<secret, pub>> /\ pub[p] = Absent
        BY <1>4, <1>b DEF OpenPrivateKey, FilesInOrder, PairInHand
      <3>2. /\ pc'[p] = "writePriv" /\ priv'[p] = Torn /\ pub'[p] = Absent
            /\ pair'[p].priv = gen' /\ pair'[p].pub = gen' /\ gen' \in 1 .. gen'
        BY <1>a, <2>1, <3>1
      <3>3. FilesInOrder(p)' /\ PairInHand(p)' /\ ServesSecret(p)'
        BY <3>2 DEF FilesInOrder, PairInHand, ServesSecret
      <3>4. SecretFromFiles'
        BY <1>a, <1>b, <2>1, <3>1 DEF SecretFromFiles
      <3> QED
        BY <1>a, <2>1, <3>1, <3>3, <3>4 DEF KeyMove, KeyOf
    <2> QED
      BY <1>4, <2>1, <1>d DEF OpenPrivateKey
  <1>5. CASE WritePrivateKey(p)
    <2>1. CASE priv' = [priv EXCEPT ![p] = pair[p].priv] /\ GoTo(p, "openPub")
      <3>1. UNCHANGED <<secret, pub, pair, gen>>
        BY <1>5, <2>1 DEF WritePrivateKey, GoTo
      <3>2. /\ pair[p].priv \in 1 .. gen /\ pair[p].pub = pair[p].priv /\ pub[p] = Absent
        BY <1>5, <1>b DEF WritePrivateKey, PairInHand, FilesInOrder
      <3>3. pc'[p] = "openPub" /\ priv'[p] = pair[p].priv
        BY <1>a, <2>1 DEF GoTo
      <3>4. FilesInOrder(p)' /\ PairInHand(p)' /\ ServesSecret(p)' /\ SecretFromFiles'
        BY <1>a, <1>b, <1>c, <3>1, <3>2, <3>3
        DEF FilesInOrder, PairInHand, ServesSecret, SecretFromFiles
      <3> QED
        BY <1>a, <2>1, <3>1, <3>4 DEF KeyMove, KeyOf, GoTo
    <2> QED
      BY <1>5, <2>1, <1>d DEF WritePrivateKey
  <1>6. CASE OpenPublicKey(p)
    <2>1. CASE pub' = [pub EXCEPT ![p] = Torn] /\ GoTo(p, "writePub")
      <3>1. UNCHANGED <<secret, priv, pair, gen>>
        BY <1>6, <2>1 DEF OpenPublicKey, GoTo
      <3>2. /\ pair[p].priv \in 1 .. gen /\ pair[p].pub = pair[p].priv
            /\ priv[p] = pair[p].priv
        BY <1>6, <1>b DEF OpenPublicKey, PairInHand
      <3>3. pc'[p] = "writePub" /\ pub'[p] = Torn
        BY <1>a, <2>1 DEF GoTo
      <3>4. FilesInOrder(p)' /\ PairInHand(p)' /\ ServesSecret(p)' /\ SecretFromFiles'
        BY <1>a, <1>b, <1>c, <3>1, <3>2, <3>3
        DEF FilesInOrder, PairInHand, ServesSecret, SecretFromFiles
      <3> QED
        BY <1>a, <2>1, <3>1, <3>4 DEF KeyMove, KeyOf, GoTo
    <2> QED
      BY <1>6, <2>1, <1>d DEF OpenPublicKey
  <1>7. CASE WritePublicKey(p)
    <2>1. CASE pub' = [pub EXCEPT ![p] = pair[p].pub] /\ GoTo(p, "readFiles")
      <3>1. UNCHANGED <<secret, priv, pair, gen>>
        BY <1>7, <2>1 DEF WritePublicKey, GoTo
      <3>2. /\ pair[p].priv \in 1 .. gen /\ pair[p].pub = pair[p].priv
            /\ priv[p] = pair[p].priv
        BY <1>7, <1>b DEF WritePublicKey, PairInHand
      <3>3. pc'[p] = "readFiles" /\ pub'[p] = priv[p]
        BY <1>a, <2>1, <3>2 DEF GoTo
      <3>4. FilesInOrder(p)' /\ SecretFromFiles'
        BY <1>a, <1>b, <1>c, <3>1, <3>2, <3>3 DEF FilesInOrder, SecretFromFiles
      <3>5. KeyOf(p)'
        BY <3>3, <3>4, EmptyHands
      <3> QED
        BY <1>a, <2>1, <3>1, <3>4, <3>5 DEF KeyMove, GoTo
    <2> QED
      BY <1>7, <2>1, <1>d DEF WritePublicKey
  <1>8. CASE readRSAKey(p)
    <2>1. UNCHANGED <<secret, priv, pub, gen>>
      BY <1>8 DEF readRSAKey
    <2>2. CASE /\ Absent \notin {priv[p], pub[p]}
               /\ pair' = [pair EXCEPT ![p] = [priv |-> priv[p], pub |-> pub[p]]]
               /\ pc' = [pc EXCEPT ![p] = "createSecret"]
      <3>1. priv[p] \in 1 .. gen /\ pub[p] \in {Torn, priv[p]}
        BY <1>a, <1>b, <1>c, <2>2 DEF FilesInOrder, Absent
      <3>2. /\ pc'[p] = "createSecret" /\ pair'[p].priv = priv[p] /\ pair'[p].pub = pub[p]
        BY <1>a, <2>2
      <3>3. FilesInOrder(p)' /\ PairInHand(p)' /\ ServesSecret(p)' /\ SecretFromFiles'
        BY <1>b, <2>1, <3>1, <3>2 DEF FilesInOrder, PairInHand, ServesSecret, SecretFromFiles
      <3> QED
        BY <1>a, <2>1, <2>2, <3>3 DEF KeyMove, KeyOf
    <2> QED
      BY <1>8, <2>1, <2>2, <1>d, ExitMoves DEF readRSAKey
  <1>9. CASE CreateSecret(p)
    <2>1. /\ UNCHANGED <<priv, pub, gen>> /\ FilesInOrder(p)'
          /\ pair[p].priv \in 1 .. gen /\ pair[p].pub \in {Torn, pair[p].priv}
      BY <1>9, <1>b DEF CreateSecret, PairInHand, FilesInOrder
    <2>2. pair[p] # NoPair
      BY <1>c, <2>1
    <2>3. CASE Exit(p)
      <3>1. secret' = secret \/ (secret = NoPair /\ secret' = pair[p])
        BY <1>9 DEF CreateSecret
      <3>2. SecretFromFiles'
        BY <1>b, <2>1, <3>1 DEF SecretFromFiles
      <3>3. pc'[p] = "down" /\ \A q \in Procs \ {p} : pc'[q] = pc[q] /\ pair'[q] = pair[q]
        BY <1>a, <2>3 DEF Exit
      <3>4. KeyOf(p)'
        BY <2>1, <3>3, EmptyHands
      <3> QED
        BY <2>1, <3>1, <3>2, <3>3, <3>4 DEF KeyMove
    <2>4. CASE /\ secret = NoPair /\ secret' = pair[p]
               /\ Torn \notin {pair[p].priv, pair[p].pub}
               /\ pc' = [pc EXCEPT ![p] = "serve"]
               /\ pair' = [pair EXCEPT ![p] = pair[p]]
      <3>1. pc'[p] = "serve" /\ pair'[p] = pair[p]
        BY <1>a, <2>4
      <3>2. SecretFromFiles' /\ ServesSecret(p)' /\ PairInHand(p)'
        BY <2>1, <2>2, <2>4, <3>1 DEF SecretFromFiles, ServesSecret, PairInHand
      <3> QED
        BY <1>a, <2>1, <2>4, <3>2 DEF KeyMove, KeyOf
    <2> QED
      BY <1>9, <2>3, <2>4 DEF CreateSecret, ParseRSAKey, Fatal
  <1> QED
    BY <1>1, <1>2, <1>3, <1>4, <1>5, <1>6, <1>7, <1>8, <1>9 DEF Advance

(* Every step keeps the invariant of the key pairs. *)
LEMMA KeyStep ==
    ASSUME TypeInv, KeyInv, [Next]_vars
    PROVE  KeyInv'
  <1> USE DEF storeVars, fileVars, procVars
  <1>1. ASSUME NEW p \in Procs, KeyMove(p) PROVE KeyInv'
    BY <1>1, OthersKeep DEF KeyMove, KeyInv
  <1>2. ASSUME NEW p \in Procs, Advance(p) PROVE KeyInv'
    BY <1>1, <1>2, AdvanceMoves
  <1>3. ASSUME NEW p \in Procs, NEW keep \in BOOLEAN, Crash(p, keep) PROVE KeyInv'
    <2>1. CASE keep
      BY <1>1, <1>3, <2>1, ExitMoves DEF Crash
    <2>2. CASE ~keep
      <3>1. /\ UNCHANGED <<secret, gen>>
            /\ priv'[p] = Absent /\ pub'[p] = Absent /\ pc'[p] = "down"
            /\ \A q \in Procs \ {p} : /\ priv'[q] = priv[q] /\ pub'[q] = pub[q]
                                      /\ pc'[q] = pc[q] /\ pair'[q] = pair[q]
        BY <1>3, <2>2 DEF Crash, Exit, TypeInv, TypeOK
      <3>2. FilesInOrder(p)'
        BY <3>1 DEF FilesInOrder, Absent, TypeInv, TypeOK
      <3>3. KeyOf(p)'
        BY <3>1, <3>2, EmptyHands
      <3> QED
        BY <1>1, <3>1, <3>3 DEF KeyMove, KeyInv, SecretFromFiles
    <2> QED
      BY <2>1, <2>2
  <1>4. ASSUME UNCHANGED <<secret, priv, pub, pc, pair, gen>> PROVE KeyInv'
    BY <1>4, OthersKeep DEF KeyInv, SecretFromFiles
  <1> QED
    BY <1>2, <1>3, <1>4 DEF Next, vars, Establish, EditAdmin

(* All processes that serve have one key pair with matching halves, and    *)
(* the files and the secret hold no two halves of different pairs, for any *)
(* number of processes, crashes and failures (GetRSAKey, GenerateRSA256).  *)
THEOREM ServersShareOneKeyPair == Spec => []OneKeyPair
  <1>1. TypeInv /\ KeyInv => OneKeyPair
    <2> SUFFICES ASSUME TypeInv, KeyInv PROVE OneKeyPair
      OBVIOUS
    <2>1. \A p \in Procs : FilesInOrder(p) /\ ServesSecret(p)
      BY DEF KeyInv, KeyOf
    <2>2. Torn \in {secret.priv, secret.pub} \/ secret.priv = secret.pub
      BY DEF KeyInv, SecretFromFiles, NoPair
    <2>3. \A p \in Procs : {priv[p], pub[p]} \cap {Torn, Absent} # {} \/ priv[p] = pub[p]
      BY <2>1 DEF FilesInOrder
    <2>4. ASSUME NEW p \in Procs, NEW q \in Procs, pc[p] = "serve", pc[q] = "serve"
          PROVE  /\ pair[p] = pair[q]
                 /\ pair[p].priv = pair[p].pub
                 /\ pair[p].priv \in 1 .. gen
      BY <2>1, <2>4 DEF ServesSecret, KeyInv, SecretFromFiles
    <2> QED
      BY <2>2, <2>3, <2>4 DEF OneKeyPair, HalvesMatch
  <1> QED
    BY TypeInit, TypeStep, KeyInit, KeyStep, <1>1, PTL DEF Spec

(* No step but the administrator's own touches a cube-admin that has been  *)
(* edited (InitCubeAdmin), for any processes.                              *)
THEOREM EditedAdminStays == Spec => AdminKept
  <1>1. ASSUME [Next]_vars PROVE [admin = "edited" => admin' = "edited"]_vars
    <2> USE DEF storeVars, fileVars, procVars
    <2>1. ASSUME NEW p \in Procs, Advance(p) PROVE admin = "edited" => admin' = "edited"
      BY <2>1 DEF Advance, Start, CRDDeploy, GetCubeAdmin, CreateCubeAdmin, ConfigMapDeploy,
         GetSecret, CheckRSAKeyFileExist, OpenPrivateKey, WritePrivateKey, OpenPublicKey,
         WritePublicKey, readRSAKey, CreateSecret
    <2>2. ASSUME NEW p \in Procs, NEW keep \in BOOLEAN, Crash(p, keep)
          PROVE  admin = "edited" => admin' = "edited"
      BY <2>2 DEF Crash
    <2> QED
      BY <1>1, <2>1, <2>2 DEF Next, vars, Establish, EditAdmin
  <1> QED
    BY <1>1, PTL DEF Spec, AdminKept

=============================================================================
