--------------------------- MODULE ClusterResources ---------------------------
(***************************************************************************)
(* ClusterResources (backend/cluster.go): the resources of all nodes, and  *)
(* what the pods on them request and are limited to.                       *)
(*                                                                         *)
(* The nodes are listed once and the pods of each node with a call of its  *)
(* own, while pods and nodes come and go.  A node whose pods cannot be     *)
(* listed is left out.                                                     *)
(*                                                                         *)
(* A resource.Quantity is a natural number; a resource list is a function  *)
(* from the names it has, which need not be all.                           *)
(***************************************************************************)
EXTENDS Naturals, Sequences, FiniteSets, FiniteSetsExt, SequencesExt

CONSTANTS
    Nodes,      \* the nodes there may be
    Resources,  \* what a container may request or be limited in
    Pods,       \* the pods there may be: name, node, containers, inits
    Capacity,   \* what each node has
    Allocatable,
    Budget      \* bound on failed calls and on changes

Names == {"pods", "memory", "cpu"}      \* the resources that are summed up

ASSUME NodesAssumption == IsFiniteSet(Nodes) /\ IsFiniteSet(Pods)
ASSUME ResourcesAssumption == "pods" \notin Resources   \* no container requests pods
ASSUME PodsAssumption ==
    \A p \in Pods :
        /\ p.node \in Nodes
        /\ \A cs \in {p.containers, p.inits} :
            /\ cs \in Seq(Range(cs))
            /\ \A c \in Range(cs), f \in {"requests", "limits"} :
                DOMAIN c[f] \subseteq Resources /\ c[f] \in [DOMAIN c[f] -> Nat]
ASSUME CapacityAssumption ==
    Capacity \in [Nodes -> [Names -> Nat]] /\ Allocatable \in [Nodes -> [Names -> Nat]]
ASSUME BudgetAssumption == Budget \in Nat

VARIABLES
    nodes,      \* API server: the nodes
    phase,      \* API server: the phase of each pod
    pc,         \* where the call is
    todo,       \* the nodes whose pods it has still to list
    rows,       \* clusterResources: the row of each node it has listed
    answer,
    listed,     \* history: the pods it has counted
    calm,       \* history: nothing failed or changed since the call began
    budget

world == <<nodes, phase>>
vars == <<world, pc, todo, rows, answer, listed, calm, budget>>

Empty == [n \in {} |-> 0]

Init ==
    /\ nodes \in SUBSET Nodes
    /\ phase \in [Pods -> {"absent", "Running", "Deleting", "Finished"}]
    /\ \A p \in Pods : phase[p] # "absent" => p.node \in nodes
    /\ pc = "start"
    /\ todo = {}
    /\ rows = Empty
    /\ answer = Empty
    /\ listed = {}
    /\ calm = TRUE
    /\ budget = Budget

-----------------------------------------------------------------------------
(* The pods of a node.                                                     *)

(* data2 with the quantities of data1 added. *)
addMap(data1, data2) ==
    [n \in DOMAIN data1 \cup DOMAIN data2 |->
        IF n \notin DOMAIN data2 THEN data1[n]
        ELSE IF n \notin DOMAIN data1 THEN data2[n] ELSE data1[n] + data2[n]]

(* Mutant of addMapForInit: init containers are added up like the others. *)
addMapForInitSum(data1, data2) == addMap(data1, data2)

(* data2 with the quantities of data1 where these are greater. *)
addMapForInit(data1, data2) ==
    [n \in DOMAIN data1 \cup DOMAIN data2 |->
        IF n \notin DOMAIN data2 THEN data1[n]
        ELSE IF n \in DOMAIN data1 /\ data1[n] > data2[n] THEN data1[n] ELSE data2[n]]

(* What a pod requests, or is limited to: f names the list. *)
getPodData(pod, f) ==
    LET main == FoldLeft(LAMBDA acc, c : addMap(c[f], acc), Empty, pod.containers)
    IN  FoldLeft(LAMBDA acc, c : addMapForInit(c[f], acc), main, pod.inits)

(* podsData has one entry for each name: of pods with the same name, from  *)
(* different namespaces, the last one stays.                               *)
PodsData(items) ==
    {items[i] : i \in {i \in 1 .. Len(items) :
                          \A j \in i + 1 .. Len(items) : items[j].name # items[i].name}}

(* aggregateRequestAndLimitsForNode: the requests start with the number of *)
(* all pods.  The map podsData is gone through in any order.               *)
Aggregate(items, f) ==
    FoldFunction(addMap,
                 IF f = "requests" THEN [n \in {"pods"} |-> Len(items)] ELSE Empty,
                 [p \in PodsData(items) |-> getPodData(p, f)])

-----------------------------------------------------------------------------
(* The world.                                                              *)

Spend ==
    /\ budget > 0
    /\ budget' = budget - 1
    /\ calm' = (pc = "start" /\ calm)

PodChanges(p) ==
    /\ pc # "done"
    /\ Spend
    /\ \E s \in CASE phase[p] = "absent" -> IF p.node \in nodes THEN {"Running"} ELSE {}
                  [] phase[p] = "Running" -> {"Deleting", "Finished"}
                  [] phase[p] \in {"Deleting", "Finished"} -> {"absent"} :
        phase' = [phase EXCEPT ![p] = s]
    /\ UNCHANGED <<nodes, pc, todo, rows, answer, listed>>

NodeJoins(n) ==
    /\ pc # "done"
    /\ n \notin nodes
    /\ Spend
    /\ nodes' = nodes \cup {n}
    /\ UNCHANGED <<phase, pc, todo, rows, answer, listed>>

(* A node leaves with its pods. *)
NodeLeaves(n) ==
    /\ pc # "done"
    /\ n \in nodes
    /\ Spend
    /\ nodes' = nodes \ {n}
    /\ phase' = [p \in Pods |-> IF p.node = n THEN "absent" ELSE phase[p]]
    /\ UNCHANGED <<pc, todo, rows, answer, listed>>

-----------------------------------------------------------------------------
(* The call.                                                               *)

ListNodes ==
    /\ pc = "start"
    /\ todo' = nodes
    /\ pc' = "pods"
    /\ UNCHANGED <<world, rows, answer, listed, calm, budget>>

ListNodesFails ==
    /\ pc = "start"
    /\ Spend
    /\ pc' = "error"
    /\ UNCHANGED <<world, todo, rows, answer, listed>>

(* getNodePods: the selector leaves out the pods that have finished, the   *)
(* loop those that are being deleted.                                      *)
Matches(n) == {p \in Pods : p.node = n /\ phase[p] = "Running"}

(* The pods of one node, in any order. *)
GetNodePods(n) ==
    /\ pc = "pods"
    /\ n \in todo
    /\ todo' = todo \ {n}
    /\ \E items \in SetToSeqs(Matches(n)) :
        rows' = [m \in DOMAIN rows \cup {n} |->
            IF m # n THEN rows[m]
            ELSE [capacity |-> Capacity[n], allocatable |-> Allocatable[n],
                  requests |-> Aggregate(items, "requests"),
                  limits |-> Aggregate(items, "limits")]]
    /\ listed' = listed \cup Matches(n)
    /\ UNCHANGED <<world, pc, answer, calm, budget>>

(* The node is passed over, with its capacity. *)
GetNodePodsFails(n) ==
    /\ pc = "pods"
    /\ n \in todo
    /\ Spend
    /\ todo' = todo \ {n}
    /\ UNCHANGED <<world, pc, rows, answer, listed>>

Quantity(list, name) == IF name \in DOMAIN list THEN list[name] ELSE 0

(* Mutant of Total: the rows overwrite each other. *)
TotalOfOne(f) ==
    [name \in Names |->
        IF rows = Empty THEN 0
        ELSE Quantity(rows[CHOOSE n \in DOMAIN rows : TRUE][f], name)]

(* The sums over the rows. *)
Total(f) ==
    [name \in Names |->
        SumFunction([n \in DOMAIN rows |-> Quantity(rows[n][f], name)])]

SumUp ==
    /\ pc = "pods"
    /\ todo = {}
    /\ pc' = "done"
    /\ answer' = [f \in {"capacity", "allocatable", "requests", "limits"} |-> Total(f)]
    /\ UNCHANGED <<world, todo, rows, listed, calm, budget>>

Next ==
    \/ \E p \in Pods : PodChanges(p)
    \/ \E n \in Nodes : NodeJoins(n) \/ NodeLeaves(n)
    \/ ListNodes \/ ListNodesFails
    \/ \E n \in Nodes : GetNodePods(n) \/ GetNodePodsFails(n)
    \/ SumUp

Spec == Init /\ [][Next]_vars

-----------------------------------------------------------------------------
(* What a pod needs of a resource, by definition: its containers run       *)
(* together, its init containers one after the other before them.          *)
Needs(p, f, name) ==
    LET together == SumFunction([i \in DOMAIN p.containers |->
                                    Quantity(p.containers[i][f], name)])
        alone == {Quantity(p.inits[i][f], name) : i \in DOMAIN p.inits}
    IN  Max(alone \cup {together})

SumOfNeeds(ps, f, name) == SumFunction([p \in ps |-> Needs(p, f, name)])

NamesClash(ps) == \E p, q \in ps : p # q /\ p.name = q.name /\ p.node = q.node

(* What the answer says is requested, and the limits, is what the listed   *)
(* pods need: exactly, when no two pods of a node have the same name, and  *)
(* never more.  The number of pods is exact, those included that share     *)
(* their name with one of another namespace.                               *)
NeverOverstated ==
    pc = "done" =>
        /\ answer["requests"]["pods"] = Cardinality(listed)
        /\ \A f \in {"requests", "limits"}, name \in {"memory", "cpu"} :
            /\ answer[f][name] <= SumOfNeeds(listed, f, name)
            /\ ~NamesClash(listed) => answer[f][name] = SumOfNeeds(listed, f, name)

(* When nothing failed and nothing changed during the call, the answer is  *)
(* about the whole cluster: every node and every pod that runs.            *)
CalmIsWhole ==
    pc = "done" /\ calm =>
        /\ \A name \in Names :
            /\ answer["capacity"][name] = SumFunction([n \in nodes |-> Capacity[n][name]])
            /\ answer["allocatable"][name] =
                  SumFunction([n \in nodes |-> Allocatable[n][name]])
        /\ listed = {p \in Pods : phase[p] = "Running"}

=============================================================================
