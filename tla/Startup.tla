------------------------------- MODULE Startup -------------------------------
(***************************************************************************)
(* startAPIServer (app/apiserver.go): the resource definitions, cube-admin *)
(* and the ConfigMap are created, then the RSA key pair that signs and     *)
(* verifies the tokens is taken from the secret, or made and put there.    *)
(*                                                                         *)
(* Every call to the API server and every write of a file is a step.  A    *)
(* call may fail, with or without having been carried out, and a process   *)
(* may die between any two steps.  Several processes may start at once, as *)
(* during a rolling update: they share the API server and not their files. *)
(*                                                                         *)
(* A key pair is a number, its generation.  A file that was opened for     *)
(* writing and not written yet is Torn.                                    *)
(***************************************************************************)
EXTENDS Naturals, Sequences, FiniteSets

CONSTANTS
    Procs,      \* the processes that are started
    Torn,       \* a key file that is not written to its end
    Budget      \* how often each event outside the program's control happens

Costs == {"fault", "crash", "edit"}

ASSUME ProcsAssumption == IsFiniteSet(Procs)
ASSUME TornAssumption == Torn \notin Nat
ASSUME BudgetAssumption == Budget \in [Costs -> Nat]

Absent == 0

(* The definitions in the order they are created. *)
UserCRDDeploy == <<"User", "Principal", "Token">>
InfrastructureCRDDeploy == <<"Infrastructure">>
LonghornCRDDeploys == <<"Engine", "Replica", "Setting", "Volume", "EngineImage">>
RancherVMCRDDeploys == <<"Credential", "Arptable", "VirtualMachine">>

CRDs == UserCRDDeploy \o InfrastructureCRDDeploy \o LonghornCRDDeploys \o RancherVMCRDDeploys

VARIABLES
    crds,       \* API server: the definitions there are
    served,     \* API server: it serves Users
    admin,      \* API server: the User cube-admin: none, as created, edited
    config,     \* API server: the ConfigMap exists
    secret,     \* API server: the key pair in cube-rancher-token
    priv, pub,  \* id_rsa and id_rsa.pub of each process
    pc,         \* where each process is
    step,       \* how many definitions it has seen to
    pair,       \* the key pair it has made or read
    gen,        \* the last key pair made by anyone
    budget

storeVars == <<crds, served, admin, config, secret>>
fileVars == <<priv, pub>>
procVars == <<pc, step, pair>>
vars == <<storeVars, fileVars, procVars, gen, budget>>

NoPair == [priv |-> Absent, pub |-> Absent]

Init ==
    /\ crds = {}
    /\ served = FALSE
    /\ admin = "none"
    /\ config = FALSE
    /\ secret = NoPair
    /\ priv = [p \in Procs |-> Absent]
    /\ pub = [p \in Procs |-> Absent]
    /\ pc = [p \in Procs |-> "down"]
    /\ step = [p \in Procs |-> 0]
    /\ pair = [p \in Procs |-> NoPair]
    /\ gen = 0
    /\ budget = Budget

Spend(c) ==
    /\ budget[c] > 0
    /\ budget' = [budget EXCEPT ![c] = @ - 1]

GoTo(p, s) ==
    /\ pc' = [pc EXCEPT ![p] = s]
    /\ UNCHANGED <<step, pair>>

(* The process ends: logrus.Fatal, an error of startAPIServer, a crash. *)
Exit(p) ==
    /\ pc' = [pc EXCEPT ![p] = "down"]
    /\ step' = [step EXCEPT ![p] = 0]
    /\ pair' = [pair EXCEPT ![p] = NoPair]

Fatal(p) == Spend("fault") /\ Exit(p)

-----------------------------------------------------------------------------
(* What happens outside the program. *)

(* Users are served some time after their definition was created. *)
Establish ==
    /\ "User" \in crds
    /\ ~served
    /\ served' = TRUE
    /\ UNCHANGED <<crds, admin, config, secret, fileVars, procVars, gen, budget>>

(* The administrator changes his password. *)
EditAdmin ==
    /\ Spend("edit")
    /\ admin # "none"
    /\ admin' = "edited"
    /\ UNCHANGED <<crds, served, config, secret, fileVars, procVars, gen>>

(* The process dies; with keep = FALSE its container and so its files go. *)
Crash(p, keep) ==
    /\ pc[p] # "down"
    /\ Spend("crash")
    /\ Exit(p)
    /\ IF keep THEN UNCHANGED fileVars
       ELSE /\ priv' = [priv EXCEPT ![p] = Absent]
            /\ pub' = [pub EXCEPT ![p] = Absent]
    /\ UNCHANGED <<storeVars, gen>>

-----------------------------------------------------------------------------
(* startAPIServer up to the controllers.  The results of the calls are not *)
(* looked at, except that UserCRDDeploy returns at its first error.        *)

(* The configuration is read; an error ends the process. *)
Start(p) ==
    /\ pc[p] = "down"
    /\ \/ GoTo(p, "crds") /\ UNCHANGED budget
       \/ Fatal(p)
    /\ UNCHANGED <<storeVars, fileVars, gen>>

Seen(p, n) ==
    /\ step' = [step EXCEPT ![p] = n]
    /\ pc' = [pc EXCEPT ![p] = IF n = Len(UserCRDDeploy) THEN "getAdmin"
                               ELSE IF n = Len(CRDs) THEN "configMap" ELSE "crds"]
    /\ UNCHANGED pair

(* Mutant of Failed: after an error of the last definition it is tried     *)
(* again, one further on.                                                  *)
FailedGoesOn(p, n) ==
    /\ step' = [step EXCEPT ![p] = n + 1]
    /\ UNCHANGED <<pc, pair>>

(* After an error the rest of UserCRDDeploy is left out, cube-admin too. *)
Failed(p, n) ==
    IF n < Len(UserCRDDeploy)
    THEN /\ step' = [step EXCEPT ![p] = Len(UserCRDDeploy)]
         /\ UNCHANGED <<pc, pair>>
    ELSE /\ step' = [step EXCEPT ![p] = n + 1]
         /\ pc' = [pc EXCEPT ![p] = IF n + 1 = Len(CRDs) THEN "configMap" ELSE "crds"]
         /\ UNCHANGED pair

(* Mutant of CRDDeploy: AlreadyExists is an error. *)
CRDDeployOnce(p) ==
    LET n == step[p]
        c == CRDs[n + 1]
    IN  /\ pc[p] = "crds"
        /\ \/ /\ crds' = crds \cup {c}
              /\ IF c \in crds THEN Failed(p, n) ELSE Seen(p, n + 1)
              /\ UNCHANGED budget
           \/ /\ Spend("fault")
              /\ crds' \in {crds, crds \cup {c}}
              /\ Failed(p, n)
        /\ UNCHANGED <<served, admin, config, secret, fileVars, gen>>

(* One Create; AlreadyExists is no error. *)
CRDDeploy(p) ==
    LET n == step[p]
        c == CRDs[n + 1]
    IN  /\ pc[p] = "crds"
        /\ \/ /\ crds' = crds \cup {c}
              /\ Seen(p, n + 1)
              /\ UNCHANGED budget
           \/ /\ Spend("fault")
              /\ crds' \in {crds, crds \cup {c}}
              /\ Failed(p, n)
        /\ UNCHANGED <<served, admin, config, secret, fileVars, gen>>

(* InitCubeAdmin: after any error of the Get, cube-admin is created. *)
GetCubeAdmin(p) ==
    /\ pc[p] = "getAdmin"
    /\ \/ /\ GoTo(p, IF served /\ admin # "none" THEN "crds" ELSE "createAdmin")
          /\ UNCHANGED budget
       \/ /\ Spend("fault")
          /\ GoTo(p, "createAdmin")
    /\ UNCHANGED <<storeVars, fileVars, gen>>

(* Mutant of CreateCubeAdmin: the User is replaced when there is one. *)
ReplaceCubeAdmin(p) ==
    /\ pc[p] = "createAdmin"
    /\ GoTo(p, "crds")
    /\ IF served THEN admin' = "created" ELSE UNCHANGED admin
    /\ UNCHANGED <<crds, served, config, secret, fileVars, gen, budget>>

(* An error is dropped, be it that the definition is not served yet. *)
CreateCubeAdmin(p) ==
    LET made == IF served /\ admin = "none" THEN "created" ELSE admin
    IN  /\ pc[p] = "createAdmin"
        /\ GoTo(p, "crds")
        /\ \/ admin' = made /\ UNCHANGED budget
           \/ admin' \in {admin, made} /\ Spend("fault")
        /\ UNCHANGED <<crds, served, config, secret, fileVars, gen>>

ConfigMapDeploy(p) ==
    /\ pc[p] = "configMap"
    /\ GoTo(p, "getSecret")
    /\ \/ config' = TRUE /\ UNCHANGED budget
       \/ config' \in {config, TRUE} /\ Spend("fault")
    /\ UNCHANGED <<crds, served, admin, secret, fileVars, gen>>

-----------------------------------------------------------------------------
(* NewRouter: generateRSAKey calls GetRSAKey, and any error is fatal.      *)

(* ParseRSAKey of what the API server returned: a torn key is fatal. *)
ParseRSAKey(p, s) ==
    IF Torn \in {s.priv, s.pub} THEN Exit(p)
    ELSE /\ pc' = [pc EXCEPT ![p] = "serve"]
         /\ pair' = [pair EXCEPT ![p] = s]
         /\ UNCHANGED step

GetSecret(p) ==
    /\ pc[p] = "getSecret"
    /\ \/ /\ IF secret = NoPair THEN GoTo(p, "checkFiles") ELSE ParseRSAKey(p, secret)
          /\ UNCHANGED budget
       \/ Fatal(p)
    /\ UNCHANGED <<storeVars, fileVars, gen>>

(* Mutant of CheckRSAKeyFileExist: the private key alone is enough. *)
CheckPrivateKeyFileExist(p) ==
    /\ pc[p] = "checkFiles"
    /\ GoTo(p, IF priv[p] # Absent THEN "readFiles" ELSE "openPriv")
    /\ UNCHANGED <<storeVars, fileVars, gen, budget>>

(* A private key without its public key is removed. *)
CheckRSAKeyFileExist(p) ==
    /\ pc[p] = "checkFiles"
    /\ IF priv[p] # Absent /\ pub[p] # Absent
       THEN GoTo(p, "readFiles") /\ UNCHANGED fileVars
       ELSE /\ GoTo(p, "openPriv")
            /\ priv' = [priv EXCEPT ![p] = Absent]
            /\ UNCHANGED pub
    /\ UNCHANGED <<storeVars, gen, budget>>

(* GeneratePrivateKey, GeneratePublicKey, and WriteKeyToFile of the        *)
(* private key, which empties the file and then writes it.                 *)
OpenPrivateKey(p) ==
    /\ pc[p] = "openPriv"
    /\ \/ /\ gen' = gen + 1
          /\ pc' = [pc EXCEPT ![p] = "writePriv"]
          /\ pair' = [pair EXCEPT ![p] = [priv |-> gen + 1, pub |-> gen + 1]]
          /\ priv' = [priv EXCEPT ![p] = Torn]
          /\ UNCHANGED <<step, budget>>
       \/ Fatal(p) /\ UNCHANGED <<priv, gen>>
    /\ UNCHANGED <<storeVars, pub>>

WritePrivateKey(p) ==
    /\ pc[p] = "writePriv"
    /\ \/ /\ priv' = [priv EXCEPT ![p] = pair[p].priv]
          /\ GoTo(p, "openPub")
          /\ UNCHANGED budget
       \/ Fatal(p) /\ UNCHANGED priv
    /\ UNCHANGED <<storeVars, pub, gen>>

OpenPublicKey(p) ==
    /\ pc[p] = "openPub"
    /\ \/ /\ pub' = [pub EXCEPT ![p] = Torn]
          /\ GoTo(p, "writePub")
          /\ UNCHANGED budget
       \/ Fatal(p) /\ UNCHANGED pub
    /\ UNCHANGED <<storeVars, priv, gen>>

WritePublicKey(p) ==
    /\ pc[p] = "writePub"
    /\ \/ /\ pub' = [pub EXCEPT ![p] = pair[p].pub]
          /\ GoTo(p, "readFiles")
          /\ UNCHANGED budget
       \/ Fatal(p) /\ UNCHANGED pub
    /\ UNCHANGED <<storeVars, priv, gen>>

readRSAKey(p) ==
    /\ pc[p] = "readFiles"
    /\ \/ /\ IF Absent \in {priv[p], pub[p]} THEN Exit(p)
             ELSE /\ pair' = [pair EXCEPT ![p] = [priv |-> priv[p], pub |-> pub[p]]]
                  /\ pc' = [pc EXCEPT ![p] = "createSecret"]
                  /\ UNCHANGED step
          /\ UNCHANGED budget
       \/ Fatal(p)
    /\ UNCHANGED <<storeVars, fileVars, gen>>

(* Mutant of CreateSecret: after AlreadyExists the own key pair is used. *)
CreateSecretOrGoOn(p) ==
    /\ pc[p] = "createSecret"
    /\ secret' = IF secret = NoPair THEN pair[p] ELSE secret
    /\ ParseRSAKey(p, pair[p])
    /\ UNCHANGED <<crds, served, admin, config, fileVars, gen, budget>>

(* Another process may have created the secret: AlreadyExists is fatal. *)
CreateSecret(p) ==
    /\ pc[p] = "createSecret"
    /\ \/ /\ secret = NoPair
          /\ secret' = pair[p]
          /\ ParseRSAKey(p, pair[p])
          /\ UNCHANGED budget
       \/ /\ secret # NoPair
          /\ Exit(p)
          /\ UNCHANGED <<secret, budget>>
       \/ /\ Fatal(p)
          /\ secret' \in {secret, IF secret = NoPair THEN pair[p] ELSE secret}
    /\ UNCHANGED <<crds, served, admin, config, fileVars, gen>>

-----------------------------------------------------------------------------
Advance(p) ==
    \/ Start(p) \/ CRDDeploy(p) \/ GetCubeAdmin(p) \/ CreateCubeAdmin(p)
    \/ ConfigMapDeploy(p) \/ GetSecret(p) \/ CheckRSAKeyFileExist(p)
    \/ OpenPrivateKey(p) \/ WritePrivateKey(p) \/ OpenPublicKey(p) \/ WritePublicKey(p)
    \/ readRSAKey(p) \/ CreateSecret(p)

Next ==
    \/ \E p \in Procs : Advance(p) \/ Crash(p, TRUE) \/ Crash(p, FALSE)
    \/ Establish
    \/ EditAdmin

Spec == Init /\ [][Next]_vars

(* A process goes on, and one that ended is started again by whoever       *)
(* supervises it.                                                          *)
LiveSpec == Spec /\ \A p \in Procs : WF_vars(Advance(p))

-----------------------------------------------------------------------------
Keys == Nat \cup {Torn}
Places ==
    {"down", "crds", "getAdmin", "createAdmin", "configMap", "getSecret",
     "checkFiles", "openPriv", "writePriv", "openPub", "writePub", "readFiles",
     "createSecret", "serve"}
CRDNames == {CRDs[n] : n \in 1 .. Len(CRDs)}

(* Every variable has its type, and Users are not served undefined. *)
TypeOK ==
    /\ crds \subseteq CRDNames
    /\ served \in BOOLEAN
    /\ served => "User" \in crds
    /\ admin \in {"none", "created", "edited"}
    /\ config \in BOOLEAN
    /\ secret \in [priv : Keys, pub : Keys]
    /\ priv \in [Procs -> Keys]
    /\ pub \in [Procs -> Keys]
    /\ pc \in [Procs -> Places]
    /\ step \in [Procs -> 0 .. Len(CRDs)]
    /\ \A p \in Procs : pc[p] \in {"crds", "getAdmin", "createAdmin"} => step[p] < Len(CRDs)
    /\ pair \in [Procs -> [priv : Keys, pub : Keys]]
    /\ gen \in Nat
    /\ budget \in [Costs -> Nat]

(* The halves in the secret and in the files of a process are of one       *)
(* generation, or a half is torn (CheckRSAKeyFileExist removes a private   *)
(* key without its public key).                                            *)
HalvesMatch ==
    /\ Torn \in {secret.priv, secret.pub} \/ secret.priv = secret.pub
    /\ \A p \in Procs :
        {priv[p], pub[p]} \cap {Torn, Absent} # {} \/ priv[p] = pub[p]

(* All processes that serve sign and verify with one key pair, whose two   *)
(* halves belong together, whatever died between the files and the secret  *)
(* (GetRSAKey, GenerateRSA256).                                            *)
OneKeyPair ==
    /\ HalvesMatch
    /\ \A p, q \in Procs :
        pc[p] = "serve" /\ pc[q] = "serve" =>
            /\ pair[p] = pair[q]
            /\ pair[p].priv = pair[p].pub
            /\ pair[p].priv \in 1 .. gen

(* No start of the process touches a cube-admin that has been edited, also *)
(* when its Get fails (InitCubeAdmin).                                     *)
AdminKept == [][admin = "edited" => admin' = "edited"]_vars

(* A start that meets neither error nor crash leaves everything in place,  *)
(* whatever earlier starts left: all definitions, the ConfigMap, and       *)
(* cube-admin if Users were served by then (startAPIServer, UserCRDDeploy).*)
CleanStartCompletes ==
    \A p \in Procs :
        (pc[p] = "crds" /\ step[p] = 0 /\ served
            /\ budget["fault"] = 0 /\ budget["crash"] = 0)
        ~> (crds = CRDNames /\ config /\ admin # "none")

(* Every process serves in the end, unless a torn public key has reached   *)
(* the secret (GetRSAKey, ParseRSAKey).                                    *)
Recovers ==
    [](Torn \notin {secret.priv, secret.pub}) => \A p \in Procs : <>[](pc[p] = "serve")

=============================================================================
