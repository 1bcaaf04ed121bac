------------------------ MODULE ClusterResourcesProofs ------------------------
(***************************************************************************)
(* What ClusterResources answers, for any nodes, pods and capacities: it   *)
(* is about the whole cluster when nothing failed or changed during the    *)
(* call, and never says that more is requested than the counted pods need. *)
(*                                                                         *)
(* For the first, the nodes that are listed and not yet done are a part of *)
(* the cluster, and the rows and the counted pods are exactly those of the *)
(* other part (Covered).  That no pod runs on a node that is not there is  *)
(* what makes the pods of all nodes all the pods.                          *)
(*                                                                         *)
(* For the second, each row is right about the counted pods of its node    *)
(* (RowsOK), because addMap adds and addMapForInit maximises quantities,   *)
(* whatever the order; the rows' sums are then right about all the pods.   *)
(* The folds are reasoned about as functions on the subsets of a set, by   *)
(* well-founded induction on these.                                        *)
(***************************************************************************)
EXTENDS ClusterResources, FiniteSetTheorems, TLAPS

-----------------------------------------------------------------------------
(* The answer is about the whole cluster.                                  *)

Phases == {"absent", "Running", "Deleting", "Finished"}

(* What the API server stores: pods are on nodes that are there. *)
WorldOK ==
    /\ nodes \subseteq Nodes
    /\ phase \in [Pods -> Phases]
    /\ \A p \in Pods : phase[p] # "absent" => p.node \in nodes

(* The rows and the counted pods are those of the nodes in done. *)
Covered(done) ==
    /\ DOMAIN rows = done
    /\ \A n \in done : /\ rows[n]["capacity"] = Capacity[n]
                       /\ rows[n]["allocatable"] = Allocatable[n]
    /\ listed = {p \in Pods : phase[p] = "Running" /\ p.node \in done}

CallOK ==
    /\ pc = "start" => Covered({})
    /\ pc = "pods" /\ calm => todo \subseteq nodes /\ Covered(nodes \ todo)

CalmInv == WorldOK /\ CallOK /\ CalmIsWhole

(* CalmInv holds before the call. *)
LEMMA CalmInit == Init => CalmInv
  <1> SUFFICES ASSUME Init PROVE CalmInv
    OBVIOUS
  <1>1. WorldOK
    BY DEF Init, WorldOK, Phases
  <1>2. Covered({})
    BY DEF Init, Covered, Empty
  <1> QED
    BY <1>1, <1>2 DEF Init, CalmInv, CallOK, CalmIsWhole

(* A change in the cluster keeps it a cluster, and a call under way is not *)
(* calm any more.                                                          *)
LEMMA WorldStep ==
    ASSUME CalmInv,
           \/ \E p \in Pods : PodChanges(p)
           \/ \E n \in Nodes : NodeJoins(n) \/ NodeLeaves(n)
    PROVE  CalmInv'
  <1>1. /\ UNCHANGED <<pc, todo, rows, listed>> /\ pc # "done"
        /\ calm' = (pc = "start" /\ calm)
    BY DEF PodChanges, NodeJoins, NodeLeaves, Spend
  <1>2. WorldOK'
    <2> USE DEF WorldOK, CalmInv, Phases
    <2>1. CASE \E p \in Pods : PodChanges(p)
      <3>1. PICK p \in Pods : PodChanges(p)
        BY <2>1
      <3>2. PICK s \in Phases : /\ phase' = [phase EXCEPT ![p] = s]
                                /\ phase[p] = "absent" => p.node \in nodes
        BY <3>1 DEF PodChanges
      <3>3. nodes' = nodes
        BY <3>1 DEF PodChanges
      <3> QED
        BY <3>2, <3>3
    <2>2. CASE \E n \in Nodes : NodeJoins(n)
      BY <2>2 DEF NodeJoins
    <2>3. CASE \E n \in Nodes : NodeLeaves(n)
      BY <2>3 DEF NodeLeaves
    <2> QED
      BY <2>1, <2>2, <2>3
  <1>3. pc = "start" => Covered({})'
    BY <1>1 DEF CalmInv, CallOK, Covered
  <1> QED
    BY <1>1, <1>2, <1>3 DEF CalmInv, CallOK, CalmIsWhole

(* Listing the pods of a node moves it to the nodes that are done. *)
LEMMA GetNodePodsStep ==
    ASSUME CalmInv, NEW n \in Nodes, GetNodePods(n)
    PROVE  CalmInv'
  <1>1. /\ pc = "pods" /\ pc' = "pods" /\ calm' = calm
        /\ n \in todo /\ todo' = todo \ {n} /\ nodes' = nodes /\ phase' = phase
        /\ listed' = listed \cup Matches(n)
    BY DEF GetNodePods, world
  <1>2. DOMAIN rows' = DOMAIN rows \cup {n}
    BY DEF GetNodePods
  <1>3. \A m \in DOMAIN rows \cup {n} :
            IF m = n THEN rows'[m]["capacity"] = Capacity[n]
                          /\ rows'[m]["allocatable"] = Allocatable[n]
            ELSE rows'[m] = rows[m]
    BY DEF GetNodePods
  <1>4. ASSUME calm PROVE todo' \subseteq nodes' /\ Covered(nodes \ todo)'
    <2>1. todo \subseteq nodes /\ Covered(nodes \ todo)
      BY <1>1, <1>4 DEF CalmInv, CallOK
    <2>2. (nodes \ todo)' = (nodes \ todo) \cup {n}
      BY <1>1, <2>1
    <2>3. listed' = {p \in Pods : phase[p] = "Running" /\ p.node \in (nodes \ todo)'}
      BY <1>1, <2>1, <2>2 DEF Covered, Matches
    <2> QED
      BY <1>1, <1>2, <1>3, <2>1, <2>2, <2>3 DEF Covered
  <1> QED
    BY <1>1, <1>4 DEF CalmInv, WorldOK, CallOK, CalmIsWhole

(* The sums over the rows are those over all nodes. *)
LEMMA SumUpStep ==
    ASSUME CalmInv, SumUp
    PROVE  CalmInv'
  <1>1. /\ pc = "pods" /\ pc' = "done" /\ todo = {} /\ calm' = calm
        /\ nodes' = nodes /\ phase' = phase /\ listed' = listed
        /\ answer'["capacity"] = Total("capacity")
        /\ answer'["allocatable"] = Total("allocatable")
    BY DEF SumUp, world
  <1>2. ASSUME calm PROVE CalmIsWhole'
    <2>1. Covered(nodes) /\ WorldOK
      BY <1>1, <1>2 DEF CalmInv, CallOK
    <2>2. ASSUME NEW name \in Names, NEW n \in nodes
          PROVE  /\ Quantity(rows[n]["capacity"], name) = Capacity[n][name]
                 /\ Quantity(rows[n]["allocatable"], name) = Allocatable[n][name]
      BY <2>1, CapacityAssumption DEF Covered, Quantity, WorldOK
    <2>3. ASSUME NEW name \in Names
          PROVE  /\ Total("capacity")[name] = SumFunction([n \in nodes |-> Capacity[n][name]])
                 /\ Total("allocatable")[name] =
                        SumFunction([n \in nodes |-> Allocatable[n][name]])
      <3>1. [n \in DOMAIN rows |-> Quantity(rows[n]["capacity"], name)]
                = [n \in nodes |-> Capacity[n][name]]
        BY <2>1, <2>2 DEF Covered
      <3>2. [n \in DOMAIN rows |-> Quantity(rows[n]["allocatable"], name)]
                = [n \in nodes |-> Allocatable[n][name]]
        BY <2>1, <2>2 DEF Covered
      <3> QED
        BY <3>1, <3>2 DEF Total
    <2>4. listed = {p \in Pods : phase[p] = "Running"}
      BY <2>1 DEF Covered, WorldOK
    <2> QED
      BY <1>1, <2>3, <2>4 DEF CalmIsWhole
  <1> QED
    BY <1>1, <1>2 DEF CalmInv, WorldOK, CallOK, CalmIsWhole

(* CalmInv is kept by every step. *)
LEMMA CalmStep ==
    ASSUME CalmInv, [Next]_vars
    PROVE  CalmInv'
  <1>1. CASE ListNodes
    <2>1. /\ pc = "start" /\ pc' = "pods" /\ todo' = nodes
          /\ UNCHANGED <<nodes, phase, rows, listed, calm>>
      BY <1>1 DEF ListNodes, world
    <2>2. (nodes \ todo)' = {} /\ Covered({})
      BY <2>1 DEF CalmInv, CallOK
    <2> QED
      BY <2>1, <2>2 DEF CalmInv, WorldOK, CallOK, Covered, CalmIsWhole
  <1>2. CASE ListNodesFails
    BY <1>2 DEF ListNodesFails, world, CalmInv, WorldOK, CallOK, CalmIsWhole
  <1>3. ASSUME NEW n \in Nodes, GetNodePodsFails(n) PROVE CalmInv'
    BY <1>3 DEF GetNodePodsFails, Spend, world, CalmInv, WorldOK, CallOK, CalmIsWhole
  <1>4. CASE UNCHANGED vars
    BY <1>4 DEF vars, world, CalmInv, WorldOK, CallOK, Covered, CalmIsWhole
  <1> QED
    BY <1>1, <1>2, <1>3, <1>4, WorldStep, GetNodePodsStep, SumUpStep DEF Next

(* When no call failed and nothing changed while ClusterResources listed   *)
(* the nodes and their pods, the answer sums up every node of the cluster  *)
(* and counts every running pod, for any cluster.                          *)
THEOREM CalmAnswersAreWhole == Spec => []CalmIsWhole
  <1>1. CalmInv => CalmIsWhole
    BY DEF CalmInv
  <1> QED
    BY CalmInit, CalmStep, <1>1, PTL DEF Spec

-----------------------------------------------------------------------------
(* Folds over a finite set.  Induction and recursion are stated about sets *)
(* and functions, never about operators.                                   *)

(* The subsets of a finite set are well-founded. *)
LEMMA SubsetsWellFounded ==
    ASSUME NEW S, IsFiniteSet(S)
    PROVE  IsWellFoundedOn(StrictSubsetOrdering(S), SUBSET S)
  BY FS_StrictSubsetOrderingWellFounded, FS_FiniteSubsetsOfFinite

(* A set of subsets of S that has every subset all of whose strict subsets *)
(* it has, has them all.                                                   *)
LEMMA SubsetInduction ==
    ASSUME NEW S, IsFiniteSet(S), NEW Good \in SUBSET (SUBSET S),
           \A T \in SUBSET S : (\A U \in SUBSET T : U # T => U \in Good) => T \in Good
    PROVE  \A T \in SUBSET S : T \in Good
  <1> DEFINE Bad == (SUBSET S) \ Good
  <1> SUFFICES ASSUME NEW B \in SUBSET S, B \notin Good PROVE FALSE
    OBVIOUS
  <1>0. B \in Bad
    OBVIOUS
  <1>1. IsWellFoundedOn(StrictSubsetOrdering(S), SUBSET S)
    BY SubsetsWellFounded
  <1>2. Bad \subseteq SUBSET S
    OBVIOUS
  <1>3. PICK T \in Bad : \A U \in Bad : <<U, T>> \notin StrictSubsetOrdering(S)
    <2> HIDE DEF Bad
    <2> QED
      BY <1>0, <1>1, <1>2, WFMin
  <1>4. \A U \in SUBSET T : U # T => U \in Good
    BY <1>3 DEF StrictSubsetOrdering
  <1> QED
    BY <1>4

(* A finite set is reached by adding its elements one at a time. *)
LEMMA ElementInduction ==
    ASSUME NEW S, IsFiniteSet(S), NEW Good \in SUBSET (SUBSET S), {} \in Good,
           \A T \in SUBSET S : \A x \in T : T \ {x} \in Good => T \in Good
    PROVE  S \in Good
  <1>1. ASSUME NEW T \in SUBSET S, \A U \in SUBSET T : U # T => U \in Good
        PROVE  T \in Good
    <2>1. CASE T = {}
      BY <2>1
    <2>2. CASE T # {}
      <3>1. PICK x \in T : TRUE
        BY <2>2
      <3>2. T \ {x} \in Good
        BY <1>1, <3>1
      <3> QED
        BY <3>1, <3>2
    <2> QED
      BY <2>1, <2>2
  <1> QED
    BY <1>1, SubsetInduction

(* P takes an element out of every subset, and h folds the rest into it: G *)
(* gives for each element what it does to the result so far.               *)
Picks(P, S) == \A T \in (SUBSET S) \ {{}} : P[T] \in T

IsFold(h, S, P, G, b) ==
    \A T \in SUBSET S : h[T] = IF T = {} THEN b ELSE G[P[T]][h[T \ {P[T]}]]

(* What a fold gives for a set does not depend on the rest. *)
LEMMA FoldUnique ==
    ASSUME NEW S, IsFiniteSet(S), NEW P, Picks(P, S), NEW G, NEW b, NEW g, NEW h,
           IsFold(g, S, P, G, b), IsFold(h, S, P, G, b)
    PROVE  g[S] = h[S]
  <1> DEFINE Good == {T \in SUBSET S : g[T] = h[T]}
  <1>1. ASSUME NEW T \in SUBSET S, \A U \in SUBSET T : U # T => U \in Good
        PROVE  T \in Good
    <2>1. CASE T = {}
      BY <2>1 DEF IsFold
    <2>2. CASE T # {}
      <3>1. P[T] \in T
        BY <2>2 DEF Picks
      <3>2. g[T \ {P[T]}] = h[T \ {P[T]}]
        BY <1>1, <3>1
      <3> QED
        BY <2>2, <3>2 DEF IsFold
    <2> QED
      BY <2>1, <2>2
  <1>2. Good \in SUBSET (SUBSET S)
    OBVIOUS
  <1>3. S \in Good
    <2> HIDE DEF Good
    <2> QED
      BY <1>1, <1>2, SubsetInduction
  <1> QED
    BY <1>3

(* There is a fold, and its results are in X. *)
LEMMA FoldExists ==
    ASSUME NEW S, IsFiniteSet(S), NEW P, Picks(P, S), NEW X, NEW b \in X,
           NEW G \in [S -> [X -> X]]
    PROVE  \E h \in [SUBSET S -> X] : IsFold(h, S, P, G, b)
  <1> DEFINE FoldOf(T, h) == h \in [SUBSET T -> X] /\ IsFold(h, T, P, G, b)
             The(T) == CHOOSE h : FoldOf(T, h)
             Value(T) == The(T)[T]
             Good == {T \in SUBSET S : \E h : FoldOf(T, h)}
  <1>1. ASSUME NEW T \in SUBSET S, \A U \in SUBSET T : U # T => U \in Good
        PROVE  T \in Good
    <2>1. ASSUME NEW U \in SUBSET T, U # T PROVE FoldOf(U, The(U))
      <3>1. \E h : FoldOf(U, h)
        BY <1>1, <2>1
      <3> HIDE DEF FoldOf
      <3> QED
        BY <3>1
    <2>2. \A U \in SUBSET T : U # T => Value(U) \in X
      BY <2>1
    <2>3. ASSUME NEW U \in SUBSET T, U # T
          PROVE  Value(U) = IF U = {} THEN b ELSE G[P[U]][Value(U \ {P[U]})]
      <3> DEFINE V == U \ {P[U]}
      <3>1. Value(U) = IF U = {} THEN b ELSE G[P[U]][The(U)[V]]
        BY <2>1, <2>3 DEF IsFold
      <3>2. CASE U # {}
        <4>1. IsFold(The(U), V, P, G, b)
          BY <2>1, <2>3 DEF IsFold
        <4>2. V \in SUBSET T /\ V # T /\ V \in SUBSET S
          BY <2>3
        <4>3. IsFold(The(V), V, P, G, b)
          BY <2>1, <4>2
        <4>4. IsFiniteSet(V) /\ Picks(P, V)
          BY <4>2, FS_Subset DEF Picks
        <4>5. The(U)[V] = The(V)[V]
          <5> HIDE DEF The, V
          <5> QED
            BY <4>1, <4>3, <4>4, FoldUnique
        <4>6. Value(V) = The(V)[V]
          OBVIOUS
        <4>7. Value(U) = G[P[U]][Value(V)]
          <5> HIDE DEF The, Value, V
          <5> QED
            BY <3>1, <3>2, <4>5, <4>6
        <4> HIDE DEF The, Value
        <4> QED
          BY <3>2, <4>7
      <3> QED
        BY <3>1, <3>2
    <2> DEFINE top == IF T = {} THEN b ELSE G[P[T]][Value(T \ {P[T]})]
               h == [U \in SUBSET T |-> IF U = T THEN top ELSE Value(U)]
    <2>4. T # {} => P[T] \in T /\ T \ {P[T]} # T /\ T \ {P[T]} \in SUBSET T
      BY DEF Picks
    <2>5. top \in X
      <3> HIDE DEF Value
      <3>1. CASE T # {}
        <4>1. G[P[T]] \in [X -> X] /\ Value(T \ {P[T]}) \in X
          BY <2>2, <2>4, <3>1
        <4> QED
          BY <3>1, <4>1
      <3> QED
        BY <3>1
    <2>6. h \in [SUBSET T -> X]
      <3> HIDE DEF Value, top
      <3> QED
        BY <2>2, <2>5
    <2>7. IsFold(h, T, P, G, b)
      <3> SUFFICES ASSUME NEW U \in SUBSET T
                   PROVE  h[U] = IF U = {} THEN b ELSE G[P[U]][h[U \ {P[U]}]]
        BY DEF IsFold
      <3> HIDE DEF Value
      <3>1. U # {} => P[U] \in U /\ U \ {P[U]} # T /\ U \ {P[U]} \in SUBSET T
        BY DEF Picks
      <3>2. U # {} => h[U \ {P[U]}] = Value(U \ {P[U]})
        BY <3>1
      <3>3. CASE U = T
        BY <3>2, <3>3
      <3>4. CASE U # T
        BY <2>3, <3>2, <3>4
      <3> QED
        BY <3>3, <3>4
    <2> HIDE DEF h
    <2> QED
      BY <2>6, <2>7
  <1>2. Good \in SUBSET (SUBSET S)
    OBVIOUS
  <1>3. S \in Good
    <2> HIDE DEF Good
    <2> QED
      BY <1>1, <1>2, SubsetInduction
  <1> QED
    BY <1>3

(* h folds as long as its results are in X. *)
FoldsIn(h, S, P, G, b, X) ==
    /\ h[{}] = b
    /\ \A T \in (SUBSET S) \ {{}} :
            h[T \ {P[T]}] \in X => h[T] = G[P[T]][h[T \ {P[T]}]]

(* A function that folds as long as its results are in X has them in X. *)
LEMMA FoldTyped ==
    ASSUME NEW S, IsFiniteSet(S), NEW P, Picks(P, S), NEW X, NEW b \in X,
           NEW G \in [S -> [X -> X]], NEW h, FoldsIn(h, S, P, G, b, X)
    PROVE  \A T \in SUBSET S : h[T] \in X
  <1> USE DEF FoldsIn
  <1> DEFINE Good == {T \in SUBSET S : h[T] \in X}
  <1>1. ASSUME NEW T \in SUBSET S, \A U \in SUBSET T : U # T => U \in Good
        PROVE  T \in Good
    <2>1. CASE T = {}
      BY <2>1
    <2>2. CASE T # {}
      <3>1. P[T] \in T
        BY <2>2 DEF Picks
      <3>2. h[T \ {P[T]}] \in X
        BY <1>1, <3>1
      <3>3. G[P[T]] \in [X -> X] /\ h[T] = G[P[T]][h[T \ {P[T]}]]
        BY <2>2, <3>1, <3>2
      <3> QED
        BY <3>2, <3>3
    <2> QED
      BY <2>1, <2>2
  <1>2. Good \in SUBSET (SUBSET S)
    OBVIOUS
  <1>3. \A T \in SUBSET S : T \in Good
    <2> HIDE DEF Good
    <2> QED
      BY <1>1, <1>2, SubsetInduction
  <1> QED
    BY <1>3

-----------------------------------------------------------------------------
(* Sums.                                                                   *)

Pick(s) == CHOOSE x \in s : TRUE

(* SumFunctionOnSet, with its recursion in the open. *)
Adder(g, S, h) == [s \in SUBSET S |-> IF s = {} THEN 0 ELSE g[Pick(s)] + h[s \ {Pick(s)}]]

(* Pick as a function. *)
PickOf(S) == [T \in SUBSET S |-> Pick(T)]

(* Pick takes an element out of every set but the empty one. *)
LEMMA PickPicks == ASSUME NEW S PROVE Picks(PickOf(S), S)
  BY DEF Picks, PickOf, Pick

(* h adds up g over the subsets of S. *)
Adds(h, S, g) ==
    /\ h[{}] = 0
    /\ \A T \in (SUBSET S) \ {{}} : h[T] = g[Pick(T)] + h[T \ {Pick(T)}]

(* SumFunction adds up what its argument gives for each element. *)
LEMMA SumIsFold ==
    ASSUME NEW S, IsFiniteSet(S), NEW g \in [S -> Nat]
    PROVE  \E h : /\ SumFunction(g) = h[S]
                  /\ h \in [SUBSET S -> Nat]
                  /\ Adds(h, S, g)
  <1> DEFINE G == [x \in S |-> [v \in Nat |-> g[x] + v]]
             P == PickOf(S)
             sum == CHOOSE h : h = Adder(g, S, h)
  <1>1. SumFunction(g) = sum[S]
    BY DEF SumFunction, SumFunctionOnSet, FoldFunctionOnSet, MapThenFoldSet, Pick, Adder
  <1>2. Picks(P, S) /\ \A T \in SUBSET S : P[T] = Pick(T)
    BY PickPicks DEF PickOf
  <1>3. G \in [S -> [Nat -> Nat]] /\ \A x \in S, v \in Nat : G[x][v] = g[x] + v
    OBVIOUS
  <1>4. PICK hh \in [SUBSET S -> Nat] : IsFold(hh, S, P, G, 0)
    <2> HIDE DEF G, P
    <2>1. 0 \in Nat
      OBVIOUS
    <2> QED
      BY <1>2, <1>3, <2>1, FoldExists
  <1>5. ASSUME NEW T \in (SUBSET S) \ {{}}
        PROVE  Pick(T) \in S /\ T \ {Pick(T)} \in SUBSET S
    BY DEF Pick
  <1>6. hh = Adder(g, S, hh)
    <2>1. ASSUME NEW T \in SUBSET S
          PROVE  hh[T] = IF T = {} THEN 0 ELSE g[Pick(T)] + hh[T \ {Pick(T)}]
      <3>1. CASE T = {}
        BY <1>4, <3>1 DEF IsFold
      <3>2. CASE T # {}
        <4>1. hh[T] = G[P[T]][hh[T \ {P[T]}]]
          BY <1>4, <3>2 DEF IsFold
        <4>2. hh[T] = G[Pick(T)][hh[T \ {Pick(T)}]]
          BY <1>2, <4>1
        <4>3. hh[T \ {Pick(T)}] \in Nat /\ Pick(T) \in S
          BY <1>5, <3>2
        <4> QED
          BY <1>3, <3>2, <4>2, <4>3
      <3> QED
        BY <3>1, <3>2
    <2> QED
      BY <2>1 DEF Adder
  <1>7. sum = Adder(g, S, sum)
    <2> HIDE DEF Adder
    <2> QED
      BY <1>6
  <1> HIDE DEF sum
  <1>8. sum[{}] = 0 /\ \A T \in (SUBSET S) \ {{}} : sum[T] = g[Pick(T)] + sum[T \ {Pick(T)}]
    BY <1>7 DEF Adder
  <1>9. DOMAIN sum = SUBSET S /\ sum = [T \in SUBSET S |-> sum[T]]
    BY <1>7 DEF Adder
  <1> HIDE DEF G, P
  <1>10. ASSUME NEW T \in (SUBSET S) \ {{}}, sum[T \ {P[T]}] \in Nat
         PROVE  sum[T] = G[P[T]][sum[T \ {P[T]}]]
    <2>1. P[T] = Pick(T) /\ Pick(T) \in S
      BY <1>2, <1>5
    <2>2. G[P[T]][sum[T \ {P[T]}]] = g[P[T]] + sum[T \ {P[T]}]
      BY <1>3, <1>10, <2>1
    <2>3. sum[T] = g[Pick(T)] + sum[T \ {Pick(T)}]
      BY <1>8
    <2> QED
      BY <2>1, <2>2, <2>3
  <1>11. \A T \in SUBSET S : sum[T] \in Nat
    <2>1. 0 \in Nat /\ FoldsIn(sum, S, P, G, 0, Nat)
      BY <1>8, <1>10 DEF FoldsIn
    <2>2. G \in [S -> [Nat -> Nat]] /\ Picks(P, S)
      BY <1>2, <1>3
    <2> QED
      BY <2>1, <2>2, FoldTyped
  <1>12. Adds(sum, S, g)
    BY <1>8 DEF Adds
  <1>13. sum \in [SUBSET S -> Nat]
    BY <1>9, <1>11
  <1> QED
    BY <1>1, <1>12, <1>13

(* A sum of natural numbers is one. *)
LEMMA SumType ==
    ASSUME NEW S, IsFiniteSet(S), NEW g \in [S -> Nat]
    PROVE  SumFunction(g) \in Nat
  <1>1. PICK h : SumFunction(g) = h[S] /\ h \in [SUBSET S -> Nat]
    BY SumIsFold
  <1> QED
    BY <1>1

(* The part of g on T. *)
On(g, T) == [x \in T |-> g[x]]

(* Only one function does. *)
LEMMA AddsUnique ==
    ASSUME NEW S, IsFiniteSet(S), NEW g, NEW h, NEW k, Adds(h, S, g), Adds(k, S, g)
    PROVE  h[S] = k[S]
  <1> DEFINE Good == {T \in SUBSET S : h[T] = k[T]}
  <1>1. ASSUME NEW T \in SUBSET S, \A U \in SUBSET T : U # T => U \in Good
        PROVE  T \in Good
    <2>1. CASE T = {}
      BY <2>1 DEF Adds
    <2>2. CASE T # {}
      <3>1. Pick(T) \in T
        BY <2>2 DEF Pick
      <3>2. h[T \ {Pick(T)}] = k[T \ {Pick(T)}]
        BY <1>1, <3>1
      <3> QED
        BY <2>2, <3>2 DEF Adds
    <2> QED
      BY <2>1, <2>2
  <1>2. Good \in SUBSET (SUBSET S)
    OBVIOUS
  <1>3. S \in Good
    <2> HIDE DEF Good
    <2> QED
      BY <1>1, <1>2, SubsetInduction
  <1> QED
    BY <1>3

(* The sums over all parts of S are one such function. *)
LEMMA SumAdds ==
    ASSUME NEW S, IsFiniteSet(S), NEW g \in [S -> Nat]
    PROVE  \E h \in [SUBSET S -> Nat] :
              Adds(h, S, g) /\ \A T \in SUBSET S : h[T] = SumFunction(On(g, T))
  <1>1. PICK h : h \in [SUBSET S -> Nat] /\ Adds(h, S, g)
    BY SumIsFold
  <1>2. ASSUME NEW T \in SUBSET S PROVE h[T] = SumFunction(On(g, T))
    <2>1. IsFiniteSet(T) /\ On(g, T) \in [T -> Nat]
      BY FS_Subset DEF On
    <2>2. PICK k : SumFunction(On(g, T)) = k[T] /\ Adds(k, T, On(g, T))
      BY <2>1, SumIsFold
    <2>3. \A U \in (SUBSET T) \ {{}} : Pick(U) \in T
      BY DEF Pick
    <2>4. Adds(h, T, On(g, T))
      BY <1>1, <2>3 DEF Adds, On
    <2> QED
      BY <2>1, <2>2, <2>4, AddsUnique
  <1> QED
    BY <1>1, <1>2

(* Any element can be taken out of a sum, not only the one picked. *)
LEMMA AddsAny ==
    ASSUME NEW S, IsFiniteSet(S), NEW g \in [S -> Nat], NEW h \in [SUBSET S -> Nat],
           Adds(h, S, g), NEW R \in SUBSET S, NEW e \in R
    PROVE  h[R] = g[e] + h[R \ {e}]
  <1> DEFINE Good == {T \in SUBSET S : \A x \in T : h[T] = g[x] + h[T \ {x}]}
  <1>1. ASSUME NEW T \in SUBSET S, \A U \in SUBSET T : U # T => U \in Good
        PROVE  T \in Good
    <2> SUFFICES ASSUME NEW x \in T PROVE h[T] = g[x] + h[T \ {x}]
      OBVIOUS
    <2> DEFINE p == Pick(T)
               U == T \ {x}
               V == T \ {p}
    <2>1. p \in T /\ h[T] = g[p] + h[V]
      BY DEF Pick, Adds
    <2> HIDE DEF p
    <2>2. CASE x = p
      BY <2>1, <2>2
    <2>3. CASE x # p
      <3>1. U \in Good /\ V \in Good /\ p \in U /\ x \in V
        BY <1>1, <2>1, <2>3
      <3>2. h[U] = g[p] + h[U \ {p}] /\ h[V] = g[x] + h[V \ {x}]
        BY <3>1
      <3>3. U \ {p} = V \ {x} /\ U \ {p} \in SUBSET S
        OBVIOUS
      <3>4. h[U \ {p}] \in Nat /\ g[p] \in Nat /\ g[x] \in Nat
        BY <3>3, <2>1
      <3> DEFINE w == h[U \ {p}]
      <3>5. h[T] = g[p] + (g[x] + w) /\ h[U] = g[p] + w
        BY <2>1, <3>2, <3>3
      <3>6. w \in Nat
        BY <3>4
      <3> HIDE DEF U, V, w
      <3>7. g[p] + (g[x] + w) = g[x] + (g[p] + w)
        BY <3>4, <3>6
      <3>8. h[T] = g[x] + h[U]
        BY <3>5, <3>7
      <3> QED
        BY <3>8 DEF U
    <2> QED
      BY <2>2, <2>3
  <1>2. Good \in SUBSET (SUBSET S)
    OBVIOUS
  <1>3. \A T \in SUBSET S : T \in Good
    <2> HIDE DEF Good
    <2> QED
      BY <1>1, <1>2, SubsetInduction
  <1> QED
    BY <1>3

(* h has the sums over all parts of S. *)
HasSums(h, S, g) ==
    /\ h \in [SUBSET S -> Nat]
    /\ h[{}] = 0
    /\ \A T \in SUBSET S : h[T] = SumFunction(On(g, T))
    /\ \A T \in SUBSET S : \A x \in T : h[T] = g[x] + h[T \ {x}]

(* There is such a function. *)
LEMMA SumParts ==
    ASSUME NEW S, IsFiniteSet(S), NEW g \in [S -> Nat]
    PROVE  \E h : HasSums(h, S, g)
  <1>1. PICK h \in [SUBSET S -> Nat] :
            Adds(h, S, g) /\ \A U \in SUBSET S : h[U] = SumFunction(On(g, U))
    BY SumAdds
  <1>2. ASSUME NEW T \in SUBSET S, NEW x \in T
        PROVE  h[T] = g[x] + h[T \ {x}]
    <2>1. Adds(h, S, g)
      BY <1>1
    <2> QED
      BY <2>1, AddsAny
  <1>3. h[{}] = 0
    BY <1>1 DEF Adds
  <1> QED
    BY <1>1, <1>2, <1>3 DEF HasSums

(* The sum over two disjoint sets. *)
LEMMA SumUnion ==
    ASSUME NEW S, IsFiniteSet(S), NEW g \in [S -> Nat], NEW A \in SUBSET S,
           NEW B \in SUBSET S, A \cap B = {}
    PROVE  SumFunction(On(g, A \cup B)) = SumFunction(On(g, A)) + SumFunction(On(g, B))
  <1>1. PICK h : HasSums(h, S, g)
    BY SumParts
  <1> USE <1>1 DEF HasSums
  <1> DEFINE Good == {T \in SUBSET B : h[A \cup T] = h[A] + h[T]}
  <1>2. {} \in Good
    <2>1. A \cup {} = A /\ h[{}] = 0 /\ h[A] \in Nat
      BY <1>1
    <2> QED
      BY <2>1
  <1>3. ASSUME NEW T \in SUBSET B, NEW x \in T, T \ {x} \in Good
        PROVE  T \in Good
    <2>1. (A \cup T) \ {x} = A \cup (T \ {x}) /\ x \in A \cup T /\ A \cup T \in SUBSET S
          /\ T \in SUBSET S /\ x \in S /\ T \ {x} \in SUBSET S
      OBVIOUS
    <2>2. h[A \cup T] = g[x] + h[A \cup (T \ {x})] /\ h[T] = g[x] + h[T \ {x}]
      BY <1>1, <2>1
    <2>3. h[A \cup (T \ {x})] = h[A] + h[T \ {x}]
      BY <1>3
    <2>4. h[A] \in Nat /\ h[T \ {x}] \in Nat /\ g[x] \in Nat
      BY <2>1
    <2>5. h[A \cup T] = h[A] + h[T]
      BY <2>2, <2>3, <2>4
    <2> QED
      BY <2>5
  <1>4. B \in Good
    <2>1. IsFiniteSet(B) /\ Good \in SUBSET (SUBSET B)
      BY FS_Subset
    <2> HIDE DEF Good
    <2> QED
      BY <1>2, <1>3, <2>1, ElementInduction
  <1> QED
    BY <1>1, <1>4

(* The sum over a part is at most that over the whole. *)
LEMMA SumOfPart ==
    ASSUME NEW S, IsFiniteSet(S), NEW g \in [S -> Nat], NEW T \in SUBSET S
    PROVE  SumFunction(On(g, T)) <= SumFunction(On(g, S))
  <1>1. SumFunction(On(g, T \cup (S \ T)))
            = SumFunction(On(g, T)) + SumFunction(On(g, S \ T))
    BY SumUnion
  <1>2. SumFunction(On(g, S)) = SumFunction(On(g, T)) + SumFunction(On(g, S \ T))
    <2>1. T \cup (S \ T) = S
      OBVIOUS
    <2> QED
      BY <1>1, <2>1
  <1>3. SumFunction(On(g, T)) \in Nat /\ SumFunction(On(g, S \ T)) \in Nat
    <2>1. /\ IsFiniteSet(T) /\ IsFiniteSet(S \ T)
          /\ On(g, T) \in [T -> Nat] /\ On(g, S \ T) \in [S \ T -> Nat]
      BY FS_Subset DEF On
    <2> QED
      BY <2>1, SumType
  <1> QED
    BY <1>2, <1>3

-----------------------------------------------------------------------------
(* Resource lists.                                                         *)

(* The lists of the resources R, which need not have them all. *)
Lists(R) == UNION {[D -> Nat] : D \in SUBSET R}

(* A list is a function from some of the resources to quantities. *)
LEMMA ListDef ==
    ASSUME NEW R, NEW l
    PROVE  l \in Lists(R) <=> DOMAIN l \subseteq R /\ l \in [DOMAIN l -> Nat]
  BY DEF Lists

(* A list has a natural number of everything. *)
LEMMA QuantityType ==
    ASSUME NEW R, NEW l \in Lists(R), NEW name
    PROVE  Quantity(l, name) \in Nat
  BY ListDef DEF Quantity

(* addMap adds up the quantities, one that is missing counting as none. *)
LEMMA AddMapAdds ==
    ASSUME NEW R, NEW a \in Lists(R), NEW b \in Lists(R)
    PROVE  /\ addMap(a, b) \in Lists(R)
           /\ \A name : Quantity(addMap(a, b), name) = Quantity(a, name) + Quantity(b, name)
  <1>1. /\ DOMAIN a \subseteq R /\ a \in [DOMAIN a -> Nat]
        /\ DOMAIN b \subseteq R /\ b \in [DOMAIN b -> Nat]
    BY ListDef
  <1> DEFINE s == addMap(a, b)
  <1>2. DOMAIN s = DOMAIN a \cup DOMAIN b
    BY DEF addMap
  <1>3. ASSUME NEW n \in DOMAIN a \cup DOMAIN b
        PROVE  s[n] = Quantity(a, n) + Quantity(b, n) /\ s[n] \in Nat
    BY <1>1 DEF addMap, Quantity
  <1>4. s = [n \in DOMAIN s |-> s[n]]
    BY DEF addMap
  <1> HIDE DEF s
  <1>5. s \in Lists(R)
    <2>1. DOMAIN s \subseteq R
      BY <1>1, <1>2
    <2>2. s \in [DOMAIN s -> Nat]
      BY <1>2, <1>3, <1>4
    <2> QED
      BY <2>1, <2>2, ListDef
  <1>6. ASSUME NEW name PROVE Quantity(s, name) = Quantity(a, name) + Quantity(b, name)
    BY <1>2, <1>3 DEF Quantity
  <1> QED
    BY <1>5, <1>6 DEF s

(* addMapForInit takes the greater quantity. *)
LEMMA AddMapForInitMaximises ==
    ASSUME NEW R, NEW a \in Lists(R), NEW b \in Lists(R)
    PROVE  /\ addMapForInit(a, b) \in Lists(R)
           /\ \A name : Quantity(addMapForInit(a, b), name)
                  = IF Quantity(a, name) > Quantity(b, name) THEN Quantity(a, name)
                    ELSE Quantity(b, name)
  <1>1. /\ DOMAIN a \subseteq R /\ a \in [DOMAIN a -> Nat]
        /\ DOMAIN b \subseteq R /\ b \in [DOMAIN b -> Nat]
    BY ListDef
  <1> DEFINE s == addMapForInit(a, b)
  <1>2. DOMAIN s = DOMAIN a \cup DOMAIN b
    BY DEF addMapForInit
  <1>3. ASSUME NEW n \in DOMAIN a \cup DOMAIN b
        PROVE  /\ s[n] = IF Quantity(a, n) > Quantity(b, n) THEN Quantity(a, n)
                         ELSE Quantity(b, n)
               /\ s[n] \in Nat
    BY <1>1 DEF addMapForInit, Quantity
  <1>4. s = [n \in DOMAIN s |-> s[n]]
    BY DEF addMapForInit
  <1> HIDE DEF s
  <1>5. s \in Lists(R)
    <2>1. DOMAIN s \subseteq R
      BY <1>1, <1>2
    <2>2. s \in [DOMAIN s -> Nat]
      BY <1>2, <1>3, <1>4
    <2> QED
      BY <2>1, <2>2, ListDef
  <1>6. ASSUME NEW name
        PROVE  Quantity(s, name) = IF Quantity(a, name) > Quantity(b, name)
                                   THEN Quantity(a, name) ELSE Quantity(b, name)
    BY <1>2, <1>3 DEF Quantity
  <1> QED
    BY <1>5, <1>6 DEF s

(* Both, for the folds: kind says which. *)
Join(kind, a, b) == IF kind = "sum" THEN addMap(a, b) ELSE addMapForInit(a, b)

(* Joined lists are a list. *)
LEMMA JoinType ==
    ASSUME NEW kind, NEW R, NEW a \in Lists(R), NEW b \in Lists(R)
    PROVE  Join(kind, a, b) \in Lists(R)
  BY AddMapAdds, AddMapForInitMaximises DEF Join

(* h joins the lists of e to base, in the order in which P picks them. *)
ListFold(kind, h, S, P, e, base) ==
    /\ h[{}] = base
    /\ \A T \in (SUBSET S) \ {{}} : h[T] = Join(kind, e[P[T]], h[T \ {P[T]}])

(* A function that does so exists. *)
LEMMA ListFoldExists ==
    ASSUME NEW kind, NEW S, IsFiniteSet(S), NEW P, Picks(P, S), NEW R,
           NEW e \in [S -> Lists(R)], NEW base \in Lists(R)
    PROVE  \E h : h \in [SUBSET S -> Lists(R)] /\ ListFold(kind, h, S, P, e, base)
  <1> DEFINE X == Lists(R)
             G == [x \in S |-> [v \in X |-> Join(kind, e[x], v)]]
  <1>1. \A x \in S, v \in X : Join(kind, e[x], v) \in X
    BY JoinType
  <1>2. G \in [S -> [X -> X]] /\ \A x \in S, v \in X : G[x][v] = Join(kind, e[x], v)
    <2> HIDE DEF X
    <2> QED
      BY <1>1
  <1>3. PICK h \in [SUBSET S -> X] : IsFold(h, S, P, G, base)
    <2> HIDE DEF G, X
    <2>1. base \in X
      BY DEF X
    <2> QED
      BY <1>2, <2>1, FoldExists
  <1> HIDE DEF G, X
  <1>4. h[{}] = base
    BY <1>3 DEF IsFold
  <1>5. ASSUME NEW T \in (SUBSET S) \ {{}}
        PROVE  h[T] = Join(kind, e[P[T]], h[T \ {P[T]}])
    <2>1. P[T] \in S /\ h[T \ {P[T]}] \in X
      BY DEF Picks
    <2>2. h[T] = G[P[T]][h[T \ {P[T]}]]
      BY <1>3 DEF IsFold
    <2> QED
      BY <1>2, <2>1, <2>2
  <1> QED
    BY <1>4, <1>5 DEF ListFold, X

(* And what it gives are lists. *)
LEMMA ListFoldType ==
    ASSUME NEW kind, NEW S, IsFiniteSet(S), NEW P, Picks(P, S), NEW R,
           NEW e \in [S -> Lists(R)], NEW base \in Lists(R),
           NEW h, ListFold(kind, h, S, P, e, base)
    PROVE  \A T \in SUBSET S : h[T] \in Lists(R)
  <1> DEFINE X == Lists(R)
             G == [x \in S |-> [v \in X |-> Join(kind, e[x], v)]]
  <1>1. \A x \in S, v \in X : Join(kind, e[x], v) \in X
    BY JoinType
  <1>2. G \in [S -> [X -> X]] /\ \A x \in S, v \in X : G[x][v] = Join(kind, e[x], v)
    <2> HIDE DEF X
    <2> QED
      BY <1>1
  <1>3. base \in X
    OBVIOUS
  <1> HIDE DEF G, X
  <1>4. ASSUME NEW T \in (SUBSET S) \ {{}}, h[T \ {P[T]}] \in X
        PROVE  h[T] = G[P[T]][h[T \ {P[T]}]]
    <2>1. P[T] \in S
      BY DEF Picks
    <2>2. h[T] = Join(kind, e[P[T]], h[T \ {P[T]}])
      BY DEF ListFold
    <2> QED
      BY <1>2, <1>4, <2>1, <2>2
  <1>5. FoldsIn(h, S, P, G, base, X)
    BY <1>4 DEF FoldsIn, ListFold
  <1>6. \A T \in SUBSET S : h[T] \in X
    BY <1>2, <1>3, <1>5, FoldTyped
  <1> QED
    BY <1>6 DEF X

(* What each list of e has of a resource. *)
QuantitiesOf(e, S, name) == [x \in S |-> Quantity(e[x], name)]

(* Lists that are added up have the sum of the quantities. *)
LEMMA ListFoldSum ==
    ASSUME NEW S, IsFiniteSet(S), NEW P, Picks(P, S), NEW R,
           NEW e \in [S -> Lists(R)], NEW base \in Lists(R),
           NEW h, ListFold("sum", h, S, P, e, base), NEW name
    PROVE  Quantity(h[S], name)
              = Quantity(base, name) + SumFunction(QuantitiesOf(e, S, name))
  <1> DEFINE q == QuantitiesOf(e, S, name)
             b == Quantity(base, name)
             H(T) == Quantity(h[T], name)
  <1>1. q \in [S -> Nat] /\ b \in Nat /\ \A x \in S : q[x] = Quantity(e[x], name)
    BY QuantityType DEF QuantitiesOf
  <1>2. \A T \in SUBSET S : h[T] \in Lists(R)
    BY ListFoldType
  <1>3. ASSUME NEW T \in (SUBSET S) \ {{}}
        PROVE  P[T] \in T /\ H(T) = q[P[T]] + H(T \ {P[T]})
    <2>1. P[T] \in T
      BY DEF Picks
    <2>2. h[T] = addMap(e[P[T]], h[T \ {P[T]}])
      BY DEF ListFold, Join
    <2>3. e[P[T]] \in Lists(R) /\ h[T \ {P[T]}] \in Lists(R)
      BY <1>2, <2>1
    <2> QED
      BY <1>1, <2>1, <2>2, <2>3, AddMapAdds
  <1>4. H({}) = b
    BY DEF ListFold
  <1>5. PICK s : HasSums(s, S, q)
    <2> HIDE DEF q
    <2> QED
      BY <1>1, SumParts
  <1>6. q = On(q, S)
    BY <1>1 DEF On
  <1> HIDE DEF q, b, H
  <1> DEFINE Good == {T \in SUBSET S : H(T) = b + s[T]}
  <1>7. ASSUME NEW T \in SUBSET S, \A U \in SUBSET T : U # T => U \in Good
        PROVE  T \in Good
    <2>1. CASE T = {}
      BY <1>1, <1>4, <1>5, <2>1 DEF HasSums
    <2>2. CASE T # {}
      <3> DEFINE x == P[T]
                 V == T \ {x}
      <3>1. x \in T /\ H(T) = q[x] + H(V)
        BY <1>3, <2>2
      <3>2. V \in Good /\ V \in SUBSET S
        BY <1>7, <3>1
      <3>3. H(V) = b + s[V]
        BY <3>2
      <3>4. s[T] = q[x] + s[V]
        BY <1>5, <3>1 DEF HasSums
      <3>5. s[V] \in Nat /\ q[x] \in Nat
        BY <1>1, <1>5, <3>1, <3>2 DEF HasSums
      <3> HIDE DEF x, V
      <3>6. q[x] + (b + s[V]) = b + (q[x] + s[V])
        BY <1>1, <3>5
      <3>7. H(T) = b + s[T]
        BY <3>1, <3>3, <3>4, <3>6
      <3> QED
        BY <3>7
    <2> QED
      BY <2>1, <2>2
  <1>8. S \in Good
    <2>1. Good \in SUBSET (SUBSET S)
      OBVIOUS
    <2> HIDE DEF Good
    <2> QED
      BY <1>7, <2>1, SubsetInduction
  <1>9. s[S] = SumFunction(q)
    BY <1>5, <1>6 DEF HasSums
  <1>10. H(S) = b + SumFunction(q)
    BY <1>8, <1>9
  <1> QED
    BY <1>10 DEF H, b, q

(* Lists of which the greater quantity stays have the greatest: at least   *)
(* each one's, and one of them.                                            *)
LEMMA ListFoldMax ==
    ASSUME NEW S, IsFiniteSet(S), NEW P, Picks(P, S), NEW R,
           NEW e \in [S -> Lists(R)], NEW base \in Lists(R),
           NEW h, ListFold("max", h, S, P, e, base), NEW name
    PROVE  /\ Quantity(h[S], name) \in {Quantity(e[x], name) : x \in S}
                                            \cup {Quantity(base, name)}
           /\ Quantity(h[S], name) >= Quantity(base, name)
           /\ \A x \in S : Quantity(h[S], name) >= Quantity(e[x], name)
  <1> DEFINE q(x) == Quantity(e[x], name)
             b == Quantity(base, name)
             H(T) == Quantity(h[T], name)
  <1>1. b \in Nat /\ \A x \in S : q(x) \in Nat
    BY QuantityType
  <1>2. \A T \in SUBSET S : h[T] \in Lists(R)
    BY ListFoldType
  <1>3. \A T \in SUBSET S : H(T) \in Nat
    BY <1>2, QuantityType
  <1>4. ASSUME NEW T \in (SUBSET S) \ {{}}
        PROVE  /\ P[T] \in T
               /\ H(T) = IF q(P[T]) > H(T \ {P[T]}) THEN q(P[T]) ELSE H(T \ {P[T]})
    <2>1. P[T] \in T
      BY DEF Picks
    <2>2. h[T] = addMapForInit(e[P[T]], h[T \ {P[T]}])
      BY DEF ListFold, Join
    <2>3. e[P[T]] \in Lists(R) /\ h[T \ {P[T]}] \in Lists(R)
      BY <1>2, <2>1
    <2> QED
      BY <2>1, <2>2, <2>3, AddMapForInitMaximises
  <1>5. H({}) = b
    BY DEF ListFold
  <1> HIDE DEF q, b, H
  <1> DEFINE Greatest(T) == /\ H(T) = b \/ \E x \in T : H(T) = q(x)
                            /\ H(T) >= b
                            /\ \A x \in T : H(T) >= q(x)
             Good == {T \in SUBSET S : Greatest(T)}
  <1>6. ASSUME NEW T \in SUBSET S, \A U \in SUBSET T : U # T => U \in Good
        PROVE  T \in Good
    <2>1. CASE T = {}
      BY <1>1, <1>5, <2>1
    <2>2. CASE T # {}
      <3> DEFINE x == P[T]
                 V == T \ {x}
      <3>1. x \in T /\ H(T) = IF q(x) > H(V) THEN q(x) ELSE H(V)
        BY <1>4, <2>2
      <3>2. V \in Good /\ V \in SUBSET S /\ V \subseteq T /\ \A y \in T : y = x \/ y \in V
        BY <1>6, <3>1
      <3>3. Greatest(V)
        BY <3>2
      <3>4. H(V) \in Nat /\ q(x) \in Nat /\ H(T) \in Nat /\ \A y \in T : q(y) \in Nat
        BY <1>1, <1>3, <3>1, <3>2
      <3> HIDE DEF x, V
      <3>5. Greatest(T)
        BY <1>1, <3>1, <3>2, <3>3, <3>4
      <3> QED
        BY <3>5
    <2> QED
      BY <2>1, <2>2
  <1>7. S \in Good
    <2>1. Good \in SUBSET (SUBSET S)
      OBVIOUS
    <2> HIDE DEF Good
    <2> QED
      BY <1>6, <2>1, SubsetInduction
  <1>8. Greatest(S)
    BY <1>7
  <1> QED
    BY <1>8 DEF H, b, q

(* Max gives an element of a set of numbers that is not empty. *)
LEMMA MaxIsElement ==
    ASSUME NEW S \in SUBSET Nat, IsFiniteSet(S), S # {}
    PROVE  Max(S) \in S
  <1> DEFINE Good == {T \in SUBSET S : T = {} \/ \E m \in T : \A y \in T : m >= y}
  <1>1. ASSUME NEW T \in SUBSET S, NEW x \in T, T \ {x} \in Good
        PROVE  T \in Good
    <2>1. CASE T \ {x} = {}
      <3>1. \A y \in T : y = x /\ y \in Nat
        BY <2>1
      <3> QED
        BY <3>1
    <2>2. CASE T \ {x} # {}
      <3>1. PICK m \in T \ {x} : \A y \in T \ {x} : m >= y
        BY <1>1, <2>2
      <3>2. \A y \in T : y \in Nat
        OBVIOUS
      <3>3. CASE x >= m
        <4>1. \A y \in T : x >= y
          BY <3>1, <3>2, <3>3
        <4> QED
          BY <4>1
      <3>4. CASE ~(x >= m)
        <4>1. \A y \in T : m >= y
          BY <3>1, <3>2, <3>4
        <4> QED
          BY <4>1
      <3> QED
        BY <3>3, <3>4
    <2> QED
      BY <2>1, <2>2
  <1>2. S \in Good
    <2>1. Good \in SUBSET (SUBSET S) /\ {} \in Good
      OBVIOUS
    <2> HIDE DEF Good
    <2> QED
      BY <1>1, <2>1, ElementInduction
  <1>3. \E m \in S : \A y \in S : m >= y
    BY <1>2
  <1> QED
    BY <1>3 DEF Max

(* There is only one maximum. *)
LEMMA MaxIs ==
    ASSUME NEW S \in SUBSET Nat, NEW m \in S, \A y \in S : m >= y
    PROVE  Max(S) = m
  <1>1. Max(S) \in S /\ \A y \in S : Max(S) >= y
    BY DEF Max
  <1>2. Max(S) >= m /\ m >= Max(S) /\ m \in Nat /\ Max(S) \in Nat
    BY <1>1
  <1> QED
    BY <1>2

-----------------------------------------------------------------------------
(* What a pod needs.                                                       *)

(* The lists of the containers cs. *)
ListsOf(cs, f) == [i \in DOMAIN cs |-> cs[i][f]]

MaxOf(S) == [T \in SUBSET S |-> Max(T)]

(* Max takes an element out of every set but the empty one. *)
LEMMA MaxPicks ==
    ASSUME NEW S \in SUBSET Nat, IsFiniteSet(S)
    PROVE  Picks(MaxOf(S), S)
  BY MaxIsElement, FS_Subset DEF Picks, MaxOf

(* The empty list has nothing. *)
LEMMA EmptyList ==
    ASSUME NEW R
    PROVE  Empty \in Lists(R) /\ \A name : Quantity(Empty, name) = 0
  BY ListDef DEF Empty, Quantity

(* What the containers of a pod request, or are limited to, are lists. *)
LEMMA PodLists ==
    ASSUME NEW p \in Pods, NEW cs \in {p.containers, p.inits}, NEW f \in {"requests", "limits"}
    PROVE  /\ IsFiniteSet(DOMAIN cs) /\ DOMAIN cs \in SUBSET Nat
           /\ ListsOf(cs, f) \in [DOMAIN cs -> Lists(Resources)]
  <1>1. cs \in Seq(Range(cs))
    BY PodsAssumption
  <1>2. DOMAIN cs = 1 .. Len(cs) /\ Len(cs) \in Nat
    BY <1>1
  <1>3. IsFiniteSet(DOMAIN cs) /\ DOMAIN cs \in SUBSET Nat
    BY <1>2, FS_Interval
  <1>4. \A i \in DOMAIN cs : cs[i] \in Range(cs)
    BY DEF Range
  <1>5. \A i \in DOMAIN cs : cs[i][f] \in Lists(Resources)
    BY <1>4, PodsAssumption, ListDef
  <1> QED
    BY <1>3, <1>5 DEF ListsOf

(* The containers' lists, added up by FoldLeft. *)
Main(cs, f) == FoldLeft(LAMBDA acc, c : addMap(c[f], acc), Empty, cs)

(* FoldLeft goes through the containers by their indices. *)
LEMMA MainFold ==
    ASSUME NEW cs, NEW f, IsFiniteSet(DOMAIN cs), DOMAIN cs \in SUBSET Nat,
           ListsOf(cs, f) \in [DOMAIN cs -> Lists(Resources)]
    PROVE  \E h : /\ Main(cs, f) = h[DOMAIN cs]
                  /\ ListFold("sum", h, DOMAIN cs, MaxOf(DOMAIN cs), ListsOf(cs, f), Empty)
  <1> DEFINE S == DOMAIN cs
             P == MaxOf(S)
             e == ListsOf(cs, f)
             Turn(h) == [s \in SUBSET S |-> IF s = {} THEN Empty
                                            ELSE addMap(cs[Max(s)][f], h[s \ {Max(s)}])]
             it == CHOOSE h : h = Turn(h)
  <1>1. Main(cs, f) = it[S]
    BY DEF Main, FoldLeft, MapThenFoldSet
  <1>2. Picks(P, S) /\ \A T \in SUBSET S : P[T] = Max(T)
    BY MaxPicks DEF MaxOf
  <1>3. \A T \in (SUBSET S) \ {{}} : e[P[T]] = cs[Max(T)][f]
    BY <1>2 DEF ListsOf, Picks
  <1>4. Empty \in Lists(Resources)
    BY EmptyList
  <1>5. PICK hh : hh \in [SUBSET S -> Lists(Resources)] /\ ListFold("sum", hh, S, P, e, Empty)
    <2> HIDE DEF P, e, S
    <2> QED
      BY <1>2, <1>4, ListFoldExists DEF S, e
  <1>6. hh = Turn(hh)
    <2>1. ASSUME NEW T \in SUBSET S
          PROVE  hh[T] = IF T = {} THEN Empty ELSE addMap(cs[Max(T)][f], hh[T \ {Max(T)}])
      BY <1>2, <1>3, <1>5 DEF ListFold, Join
    <2> HIDE DEF S
    <2> QED
      BY <1>5, <2>1
  <1>7. it = Turn(it)
    <2> HIDE DEF Turn
    <2> QED
      BY <1>6
  <1> HIDE DEF it
  <1>8. it[{}] = Empty
    BY <1>7
  <1>9. ASSUME NEW T \in (SUBSET S) \ {{}}
        PROVE  it[T] = Join("sum", e[P[T]], it[T \ {P[T]}])
    <2>1. it[T] = addMap(cs[Max(T)][f], it[T \ {Max(T)}])
      BY <1>7
    <2> QED
      BY <1>2, <1>3, <2>1 DEF Join
  <1>10. ListFold("sum", it, S, P, e, Empty)
    BY <1>8, <1>9 DEF ListFold
  <1> QED
    BY <1>1, <1>10

(* The init containers' lists, joined to it by FoldLeft. *)
WithInits(main, cs, f) == FoldLeft(LAMBDA acc, c : addMapForInit(c[f], acc), main, cs)

(* FoldLeft goes through the init containers by their indices. *)
LEMMA InitsFold ==
    ASSUME NEW cs, NEW f, IsFiniteSet(DOMAIN cs), DOMAIN cs \in SUBSET Nat,
           ListsOf(cs, f) \in [DOMAIN cs -> Lists(Resources)],
           NEW main \in Lists(Resources)
    PROVE  \E h : /\ WithInits(main, cs, f) = h[DOMAIN cs]
                  /\ ListFold("max", h, DOMAIN cs, MaxOf(DOMAIN cs), ListsOf(cs, f), main)
  <1> DEFINE S == DOMAIN cs
             P == MaxOf(S)
             e == ListsOf(cs, f)
             Turn(h) == [s \in SUBSET S |->
                            IF s = {} THEN main
                            ELSE addMapForInit(cs[Max(s)][f], h[s \ {Max(s)}])]
             it == CHOOSE h : h = Turn(h)
  <1>1. WithInits(main, cs, f) = it[S]
    BY DEF WithInits, FoldLeft, MapThenFoldSet
  <1>2. Picks(P, S) /\ \A T \in SUBSET S : P[T] = Max(T)
    BY MaxPicks DEF MaxOf
  <1>3. \A T \in (SUBSET S) \ {{}} : e[P[T]] = cs[Max(T)][f]
    BY <1>2 DEF ListsOf, Picks
  <1>4. PICK hh : hh \in [SUBSET S -> Lists(Resources)] /\ ListFold("max", hh, S, P, e, main)
    <2> HIDE DEF P, e, S
    <2> QED
      BY <1>2, ListFoldExists DEF S, e
  <1>5. hh = Turn(hh)
    <2>1. ASSUME NEW T \in SUBSET S
          PROVE  hh[T] = IF T = {} THEN main
                         ELSE addMapForInit(cs[Max(T)][f], hh[T \ {Max(T)}])
      BY <1>2, <1>3, <1>4 DEF ListFold, Join
    <2> HIDE DEF S
    <2> QED
      BY <1>4, <2>1
  <1>6. it = Turn(it)
    <2> HIDE DEF Turn
    <2> QED
      BY <1>5
  <1> HIDE DEF it
  <1>7. it[{}] = main
    BY <1>6
  <1>8. ASSUME NEW T \in (SUBSET S) \ {{}}
        PROVE  it[T] = Join("max", e[P[T]], it[T \ {P[T]}])
    <2>1. it[T] = addMapForInit(cs[Max(T)][f], it[T \ {Max(T)}])
      BY <1>6
    <2> QED
      BY <1>2, <1>3, <2>1 DEF Join
  <1>9. ListFold("max", it, S, P, e, main)
    BY <1>7, <1>8 DEF ListFold
  <1> QED
    BY <1>1, <1>9

(* getPodData computes what the pod needs of each resource. *)
LEMMA PodDataIsNeeds ==
    ASSUME NEW p \in Pods, NEW f \in {"requests", "limits"}
    PROVE  /\ getPodData(p, f) \in Lists(Resources)
           /\ \A name : Quantity(getPodData(p, f), name) = Needs(p, f, name)
  <1> DEFINE C == DOMAIN p.containers
             I == DOMAIN p.inits
             ce == ListsOf(p.containers, f)
             ie == ListsOf(p.inits, f)
             main == Main(p.containers, f)
  <1>1. /\ IsFiniteSet(C) /\ C \in SUBSET Nat /\ ce \in [C -> Lists(Resources)]
        /\ IsFiniteSet(I) /\ I \in SUBSET Nat /\ ie \in [I -> Lists(Resources)]
    BY PodLists
  <1>2. getPodData(p, f) = WithInits(main, p.inits, f)
    BY DEF getPodData, WithInits, Main
  <1>3. Picks(MaxOf(C), C) /\ Picks(MaxOf(I), I) /\ Empty \in Lists(Resources)
    BY <1>1, MaxPicks, EmptyList
  <1>4. PICK h : main = h[C] /\ ListFold("sum", h, C, MaxOf(C), ce, Empty)
    BY <1>1, MainFold
  <1>5. main \in Lists(Resources)
    <2> HIDE DEF C, ce, main
    <2> QED
      BY <1>1, <1>3, <1>4, ListFoldType
  <1>6. PICK k : /\ WithInits(main, p.inits, f) = k[I]
                 /\ ListFold("max", k, I, MaxOf(I), ie, main)
    BY <1>1, <1>5, InitsFold
  <1>7. k[I] \in Lists(Resources)
    <2> HIDE DEF I, ie, main
    <2> QED
      BY <1>1, <1>3, <1>5, <1>6, ListFoldType
  <1>8. ASSUME NEW name PROVE Quantity(k[I], name) = Needs(p, f, name)
    <2> DEFINE together == SumFunction([i \in C |-> Quantity(p.containers[i][f], name)])
               alone == {Quantity(p.inits[i][f], name) : i \in I}
               m == Quantity(k[I], name)
    <2>1. Needs(p, f, name) = Max(alone \cup {together})
      BY DEF Needs
    <2>2. Quantity(main, name) = together
      <3>1. Quantity(h[C], name) = Quantity(Empty, name) + SumFunction(QuantitiesOf(ce, C, name))
        <4> HIDE DEF C, ce, main
        <4>1. IsFiniteSet(C) /\ Picks(MaxOf(C), C) /\ ce \in [C -> Lists(Resources)]
          BY <1>1, <1>3
        <4>2. Empty \in Lists(Resources) /\ ListFold("sum", h, C, MaxOf(C), ce, Empty)
          BY <1>3, <1>4
        <4> QED
          BY <4>1, <4>2, ListFoldSum
      <3>2. QuantitiesOf(ce, C, name) = [i \in C |-> Quantity(p.containers[i][f], name)]
        BY DEF QuantitiesOf, ListsOf
      <3>3. QuantitiesOf(ce, C, name) \in [C -> Nat]
        <4> HIDE DEF C, ce
        <4> QED
          BY <1>1, QuantityType DEF QuantitiesOf
      <3>4. SumFunction(QuantitiesOf(ce, C, name)) \in Nat
        BY <1>1, <3>3, SumType
      <3>5. Quantity(Empty, name) = 0
        BY EmptyList
      <3> QED
        BY <1>4, <3>1, <3>2, <3>4, <3>5
    <2>3. /\ m \in {Quantity(ie[i], name) : i \in I} \cup {Quantity(main, name)}
          /\ m >= Quantity(main, name)
          /\ \A i \in I : m >= Quantity(ie[i], name)
      <3> HIDE DEF I, ie, main
      <3> QED
        BY <1>1, <1>3, <1>5, <1>6, ListFoldMax
    <2>4. alone = {Quantity(ie[i], name) : i \in I}
      BY DEF ListsOf
    <2>5. m \in alone \cup {together} /\ \A y \in alone \cup {together} : m >= y
      <3> HIDE DEF I, ie, main, together, m
      <3> QED
        BY <2>2, <2>3, <2>4
    <2>6. alone \cup {together} \in SUBSET Nat
      <3> HIDE DEF I, ie, main, together
      <3> QED
        BY <1>1, <1>5, <2>2, <2>4, QuantityType
    <2> HIDE DEF alone, together, m
    <2>7. Max(alone \cup {together}) = m
      BY <2>5, <2>6, MaxIs
    <2> QED
      BY <2>1, <2>7 DEF m
  <1> QED
    BY <1>2, <1>6, <1>7, <1>8

(* What a pod needs is a natural number. *)
LEMMA NeedsType ==
    ASSUME NEW p \in Pods, NEW f \in {"requests", "limits"}, NEW name
    PROVE  Needs(p, f, name) \in Nat
  BY PodDataIsNeeds, QuantityType

-----------------------------------------------------------------------------
(* What the pods of a node need.                                           *)

Base(items, f) == IF f = "requests" THEN [n \in {"pods"} |-> Len(items)] ELSE Empty

(* Aggregate adds up the data of the pods in podsData. *)
LEMMA AggregateFold ==
    ASSUME NEW items, NEW f \in {"requests", "limits"},
           IsFiniteSet(PodsData(items)), PodsData(items) \subseteq Pods, NEW R,
           Resources \subseteq R, Base(items, f) \in Lists(R)
    PROVE  /\ Aggregate(items, f) \in Lists(R)
           /\ \A name : Quantity(Aggregate(items, f), name)
                 = Quantity(Base(items, f), name)
                     + SumFunction([p \in PodsData(items) |-> Needs(p, f, name)])
  <1> DEFINE S == PodsData(items)
             P == PickOf(S)
             e == [p \in S |-> getPodData(p, f)]
             b == Base(items, f)
             Turn(h) == [s \in SUBSET S |-> IF s = {} THEN b
                                            ELSE addMap(e[Pick(s)], h[s \ {Pick(s)}])]
             it == CHOOSE h : h = Turn(h)
  <1>1. Aggregate(items, f) = it[S]
    BY DEF Aggregate, FoldFunction, FoldFunctionOnSet, MapThenFoldSet, Pick, Base
  <1>2. Picks(P, S) /\ \A T \in SUBSET S : P[T] = Pick(T)
    BY PickPicks DEF PickOf
  <1>3. e \in [S -> Lists(R)]
    <2>1. ASSUME NEW p \in S PROVE getPodData(p, f) \in Lists(R)
      BY PodDataIsNeeds, ListDef
    <2> QED
      BY <2>1
  <1>4. PICK hh : hh \in [SUBSET S -> Lists(R)] /\ ListFold("sum", hh, S, P, e, b)
    <2> HIDE DEF P, e, S, b
    <2> QED
      BY <1>2, <1>3, ListFoldExists DEF S, b
  <1> HIDE DEF S, e, b
  <1>5. hh = Turn(hh)
    <2>1. ASSUME NEW T \in SUBSET S
          PROVE  hh[T] = IF T = {} THEN b ELSE addMap(e[Pick(T)], hh[T \ {Pick(T)}])
      BY <1>2, <1>4 DEF ListFold, Join
    <2> QED
      BY <1>4, <2>1
  <1>6. it = Turn(it)
    <2> HIDE DEF Turn
    <2> QED
      BY <1>5
  <1> HIDE DEF it
  <1>7. it[{}] = b
    BY <1>6
  <1>8. ASSUME NEW T \in (SUBSET S) \ {{}}
        PROVE  it[T] = Join("sum", e[P[T]], it[T \ {P[T]}])
    <2>1. it[T] = addMap(e[Pick(T)], it[T \ {Pick(T)}])
      BY <1>6
    <2> QED
      BY <1>2, <2>1 DEF Join
  <1>9. ListFold("sum", it, S, P, e, b)
    BY <1>7, <1>8 DEF ListFold
  <1> HIDE DEF P
  <1>10. IsFiniteSet(S) /\ b \in Lists(R)
    BY DEF S, b
  <1>11. it[S] \in Lists(R)
    BY <1>2, <1>3, <1>9, <1>10, ListFoldType
  <1>12. ASSUME NEW name
         PROVE  Quantity(it[S], name)
                    = Quantity(b, name) + SumFunction([p \in S |-> Needs(p, f, name)])
    <2>1. Quantity(it[S], name) = Quantity(b, name) + SumFunction(QuantitiesOf(e, S, name))
      BY <1>2, <1>3, <1>9, <1>10, ListFoldSum
    <2>2. \A p \in S : Quantity(e[p], name) = Needs(p, f, name)
      BY PodDataIsNeeds DEF S, e
    <2>3. QuantitiesOf(e, S, name) = [p \in S |-> Needs(p, f, name)]
      BY <2>2 DEF QuantitiesOf
    <2> QED
      BY <2>1, <2>3
  <1> QED
    BY <1>1, <1>11, <1>12 DEF S, b

(* Pods that need nothing need nothing together. *)
LEMMA SumOfNothing ==
    ASSUME NEW S, IsFiniteSet(S), NEW g \in [S -> Nat], \A x \in S : g[x] = 0
    PROVE  SumFunction(g) = 0
  <1>1. PICK h : HasSums(h, S, g)
    BY SumParts
  <1> DEFINE Good == {T \in SUBSET S : h[T] = 0}
  <1>2. {} \in Good
    BY <1>1 DEF HasSums
  <1>3. ASSUME NEW T \in SUBSET S, NEW x \in T, T \ {x} \in Good
        PROVE  T \in Good
    <2>1. h[T] = g[x] + h[T \ {x}] /\ g[x] = 0 /\ h[T \ {x}] = 0
      BY <1>1, <1>3 DEF HasSums
    <2> QED
      BY <2>1
  <1>4. S \in Good
    <2>1. Good \in SUBSET (SUBSET S)
      OBVIOUS
    <2> HIDE DEF Good
    <2> QED
      BY <1>2, <1>3, <2>1, ElementInduction
  <1>5. h[S] = SumFunction(On(g, S)) /\ On(g, S) = g
    BY <1>1 DEF HasSums, On
  <1> QED
    BY <1>4, <1>5

(* The items of a list of pods are the pods, each once. *)
LEMMA ItemsAreAll ==
    ASSUME NEW M, IsFiniteSet(M), NEW items \in SetToSeqs(M)
    PROVE  /\ Len(items) = Cardinality(M) /\ Len(items) \in Nat
           /\ \A i \in 1 .. Len(items) : items[i] \in M
           /\ \A i, j \in 1 .. Len(items) : i # j => items[i] # items[j]
           /\ \A p \in M : \E i \in 1 .. Len(items) : items[i] = p
  <1> DEFINE k == Cardinality(M)
             D == 1 .. k
  <1>1. k \in Nat
    BY FS_CardinalityType
  <1>2. items \in [D -> M] /\ \A i, j \in D : i # j => items[i] # items[j]
    BY DEF SetToSeqs
  <1>3. Len(items) = k
    <2> HIDE DEF k
    <2> QED
      BY <1>1, <1>2
  <1>4. IsFiniteSet(D) /\ Cardinality(D) = k
    <2>1. 1 \in Int /\ k \in Int
      BY <1>1
    <2>2. IsFiniteSet(D) /\ Cardinality(D) = IF 1 > k THEN 0 ELSE k - 1 + 1
      <3> HIDE DEF k
      <3> QED
        BY <2>1, FS_Interval
    <2> HIDE DEF k
    <2> QED
      BY <1>1, <2>2
  <1>5. items \in Injection(D, M)
    BY <1>2 DEF Injection, IsInjective
  <1>6. items \in Surjection(D, M)
    <2> HIDE DEF D
    <2> QED
      BY <1>4, <1>5, FS_Injection
  <1>7. \A p \in M : \E i \in D : items[i] = p
    BY <1>6 DEF Surjection
  <1>8. D = 1 .. Len(items) /\ Len(items) \in Nat
    BY <1>1, <1>3
  <1>9. Len(items) = Cardinality(M)
    BY <1>3
  <1> HIDE DEF D
  <1> QED
    BY <1>2, <1>7, <1>8, <1>9

(* podsData has pods of the list only, and all of them when no two have    *)
(* the same name.                                                          *)
LEMMA PodsDataIsPart ==
    ASSUME NEW M, IsFiniteSet(M), NEW items \in SetToSeqs(M)
    PROVE  /\ PodsData(items) \subseteq M
           /\ (\A p, q \in M : p # q => p.name # q.name) => PodsData(items) = M
  <1>1. /\ Len(items) \in Nat
        /\ \A i \in 1 .. Len(items) : items[i] \in M
        /\ \A i, j \in 1 .. Len(items) : i # j => items[i] # items[j]
        /\ \A p \in M : \E i \in 1 .. Len(items) : items[i] = p
    BY ItemsAreAll
  <1>2. PodsData(items) \subseteq M
    BY <1>1 DEF PodsData
  <1>3. ASSUME \A p, q \in M : p # q => p.name # q.name, NEW p \in M
        PROVE  p \in PodsData(items)
    <2>1. PICK i \in 1 .. Len(items) : items[i] = p
      BY <1>1
    <2>2. ASSUME NEW j \in i + 1 .. Len(items) PROVE items[j].name # items[i].name
      <3>1. j \in 1 .. Len(items) /\ j # i
        BY <1>1
      <3> QED
        BY <1>1, <1>3, <3>1
    <2> QED
      BY <2>1, <2>2 DEF PodsData
  <1> QED
    BY <1>2, <1>3

(* What a row may have. *)
RowResources == Resources \cup {"pods"}

(* The list of a node is right about the pods M. *)
RowList(l, f, M) ==
    /\ DOMAIN l \subseteq RowResources /\ l \in [DOMAIN l -> Nat]
    /\ f = "requests" => Quantity(l, "pods") = Cardinality(M)
    /\ \A name \in {"memory", "cpu"} :
        /\ Quantity(l, name) <= SumOfNeeds(M, f, name)
        /\ ~NamesClash(M) => Quantity(l, name) = SumOfNeeds(M, f, name)

(* aggregateRequestAndLimitsForNode is right about the pods of a node. *)
LEMMA AggregateIsRight ==
    ASSUME NEW n, NEW M \in SUBSET Pods, \A p \in M : p.node = n,
           NEW items \in SetToSeqs(M), NEW f \in {"requests", "limits"}
    PROVE  RowList(Aggregate(items, f), f, M)
  <1> DEFINE D == PodsData(items)
             b == Base(items, f)
             l == Aggregate(items, f)
  <1>1. IsFiniteSet(M)
    BY NodesAssumption, FS_Subset
  <1>2. Len(items) = Cardinality(M) /\ Len(items) \in Nat
    BY <1>1, ItemsAreAll
  <1>3. /\ D \subseteq M
        /\ (\A p, q \in M : p # q => p.name # q.name) => D = M
    BY <1>1, PodsDataIsPart
  <1>4. ~NamesClash(M) => D = M
    BY <1>3 DEF NamesClash
  <1>5. IsFiniteSet(D) /\ D \subseteq Pods
    BY <1>1, <1>3, FS_Subset
  <1>6. b \in Lists(RowResources)
    BY <1>2, EmptyList, ListDef DEF Base, RowResources
  <1>7. /\ l \in Lists(RowResources)
        /\ \A name : Quantity(l, name)
              = Quantity(b, name) + SumFunction([p \in D |-> Needs(p, f, name)])
    <2>1. Resources \subseteq RowResources
      BY DEF RowResources
    <2> HIDE DEF RowResources
    <2> QED
      BY <1>5, <1>6, <2>1, AggregateFold
  <1> HIDE DEF D, l
  <1>8. ASSUME f = "requests" PROVE Quantity(l, "pods") = Cardinality(M)
    <2> DEFINE g == [p \in D |-> Needs(p, f, "pods")]
    <2>1. ASSUME NEW p \in D PROVE Needs(p, f, "pods") = 0
      <3>1. getPodData(p, f) \in Lists(Resources)
            /\ Quantity(getPodData(p, f), "pods") = Needs(p, f, "pods")
        BY <1>5, PodDataIsNeeds
      <3> QED
        BY <3>1, ListDef, ResourcesAssumption DEF Quantity
    <2>2. g \in [D -> Nat] /\ \A p \in D : g[p] = 0
      BY <2>1
    <2>3. SumFunction(g) = 0
      <3> HIDE DEF g
      <3> QED
        BY <1>5, <2>2, SumOfNothing
    <2>4. Quantity(b, "pods") = Len(items)
      BY <1>8 DEF Base, Quantity
    <2>5. Quantity(l, "pods") = Quantity(b, "pods") + SumFunction(g)
      BY <1>7
    <2> HIDE DEF g, b
    <2> QED
      BY <1>2, <2>3, <2>4, <2>5
  <1>9. ASSUME NEW name \in {"memory", "cpu"}
        PROVE  /\ Quantity(l, name) <= SumOfNeeds(M, f, name)
               /\ ~NamesClash(M) => Quantity(l, name) = SumOfNeeds(M, f, name)
    <2> DEFINE g == [p \in M |-> Needs(p, f, name)]
    <2>1. g \in [M -> Nat]
      BY NeedsType
    <2>2. On(g, D) = [p \in D |-> Needs(p, f, name)] /\ On(g, M) = g
      BY <1>3 DEF On, D
    <2>3. Quantity(b, name) = 0
      BY EmptyList DEF Base, Quantity
    <2>4. SumOfNeeds(M, f, name) = SumFunction(On(g, M))
      BY <2>2 DEF SumOfNeeds
    <2> HIDE DEF g, b
    <2>5. On(g, D) \in [D -> Nat]
      BY <1>3, <2>1 DEF On, D
    <2>6. SumFunction(On(g, D)) \in Nat
      BY <1>5, <2>5, SumType DEF D
    <2>7. Quantity(l, name) = SumFunction(On(g, D))
      <3>1. Quantity(l, name) = 0 + SumFunction(On(g, D))
        BY <1>7, <2>2, <2>3 DEF D
      <3> QED
        BY <2>6, <3>1
    <2>8. SumFunction(On(g, D)) <= SumFunction(On(g, M))
      BY <1>1, <1>3, <2>1, SumOfPart DEF D
    <2> QED
      BY <1>4, <2>4, <2>7, <2>8 DEF D
  <1>10. DOMAIN l \subseteq RowResources /\ l \in [DOMAIN l -> Nat]
    BY <1>7, ListDef
  <1> QED
    BY <1>8, <1>9, <1>10 DEF RowList, l

-----------------------------------------------------------------------------
(* The sums over the rows.                                                 *)

(* The pods of L on the nodes N. *)
PodsOn(L, N) == {p \in L : p.node \in N}

(* mu measures sets of pods: a part at a time, or all at once. *)
IsMeasure(mu) ==
    /\ mu \in [SUBSET Pods -> Nat]
    /\ mu[{}] = 0
    /\ \A A, B \in SUBSET Pods : A \cap B = {} => mu[A \cup B] = mu[A] + mu[B]

(* q bounds the measure of the pods of each node, or gives it. *)
Bounded(q, N, mu, L, exact) ==
    /\ \A n \in N : q[n] <= mu[PodsOn(L, {n})]
    /\ exact => \A n \in N : q[n] = mu[PodsOn(L, {n})]

(* What bounds, or gives, the part of each node does so for all of them. *)
LEMMA SumOverNodes ==
    ASSUME NEW mu, IsMeasure(mu), NEW L \in SUBSET Pods, NEW N, IsFiniteSet(N),
           NEW q \in [N -> Nat], NEW exact \in BOOLEAN, Bounded(q, N, mu, L, exact)
    PROVE  /\ SumFunction(q) <= mu[PodsOn(L, N)]
           /\ exact => SumFunction(q) = mu[PodsOn(L, N)]
  <1>1. PICK s : HasSums(s, N, q)
    BY SumParts
  <1> DEFINE W(T) == mu[PodsOn(L, T)]
             Good == {T \in SUBSET N : s[T] <= W(T) /\ (exact => s[T] = W(T))}
  <1>2. {} \in Good
    <2>1. PodsOn(L, {}) = {}
      BY DEF PodsOn
    <2> QED
      BY <1>1, <2>1 DEF HasSums, IsMeasure
  <1>3. ASSUME NEW T \in SUBSET N, NEW x \in T, T \ {x} \in Good
        PROVE  T \in Good
    <2> DEFINE V == T \ {x}
    <2>1. s[T] = q[x] + s[V] /\ s[V] \in Nat /\ q[x] \in Nat
      BY <1>1 DEF HasSums
    <2>2. s[V] <= W(V) /\ (exact => s[V] = W(V))
      BY <1>3
    <2>3. q[x] <= W({x}) /\ (exact => q[x] = W({x}))
      BY DEF Bounded
    <2>4. W(T) = W({x}) + W(V) /\ W(V) \in Nat /\ W({x}) \in Nat
      <3>1. /\ PodsOn(L, {x}) \cup PodsOn(L, V) = PodsOn(L, T)
            /\ PodsOn(L, {x}) \cap PodsOn(L, V) = {}
            /\ PodsOn(L, {x}) \in SUBSET Pods /\ PodsOn(L, V) \in SUBSET Pods
        BY DEF PodsOn
      <3> QED
        BY <3>1 DEF IsMeasure
    <2> HIDE DEF V, W
    <2>5. s[T] <= W(T) /\ (exact => s[T] = W(T))
      BY <2>1, <2>2, <2>3, <2>4
    <2> QED
      BY <2>5
  <1>4. N \in Good
    <2>1. Good \in SUBSET (SUBSET N)
      OBVIOUS
    <2> HIDE DEF Good
    <2> QED
      BY <1>2, <1>3, <2>1, ElementInduction
  <1>5. s[N] = SumFunction(On(q, N)) /\ On(q, N) = q
    BY <1>1 DEF HasSums, On
  <1> QED
    BY <1>4, <1>5

(* What pods need is a measure. *)
LEMMA NeedsMeasure ==
    ASSUME NEW f \in {"requests", "limits"}, NEW name
    PROVE  IsMeasure([A \in SUBSET Pods |-> SumOfNeeds(A, f, name)])
  <1> DEFINE g == [p \in Pods |-> Needs(p, f, name)]
  <1>1. g \in [Pods -> Nat] /\ IsFiniteSet(Pods)
    BY NeedsType, NodesAssumption
  <1>2. ASSUME NEW A \in SUBSET Pods PROVE SumOfNeeds(A, f, name) = SumFunction(On(g, A))
    <2>1. On(g, A) = [p \in A |-> Needs(p, f, name)]
      BY DEF On
    <2> QED
      BY <2>1 DEF SumOfNeeds
  <1> HIDE DEF g
  <1>3. PICK s : HasSums(s, Pods, g)
    BY <1>1, SumParts
  <1>4. \A A \in SUBSET Pods : SumOfNeeds(A, f, name) = s[A]
    BY <1>2, <1>3 DEF HasSums
  <1>5. ASSUME NEW A \in SUBSET Pods, NEW B \in SUBSET Pods, A \cap B = {}
        PROVE  s[A \cup B] = s[A] + s[B]
    <2>1. SumFunction(On(g, A \cup B)) = SumFunction(On(g, A)) + SumFunction(On(g, B))
      BY <1>1, <1>5, SumUnion
    <2>2. A \cup B \in SUBSET Pods
      OBVIOUS
    <2> QED
      BY <1>3, <2>1, <2>2 DEF HasSums
  <1>6. s \in [SUBSET Pods -> Nat] /\ s[{}] = 0
    BY <1>3 DEF HasSums
  <1>7. [A \in SUBSET Pods |-> SumOfNeeds(A, f, name)] = s
    BY <1>4, <1>6
  <1>8. IsMeasure(s)
    BY <1>5, <1>6 DEF IsMeasure
  <1> QED
    BY <1>7, <1>8

(* So is their number. *)
LEMMA NumberMeasure == IsMeasure([A \in SUBSET Pods |-> Cardinality(A)])
  <1>1. \A A \in SUBSET Pods : IsFiniteSet(A) /\ Cardinality(A) \in Nat
    BY NodesAssumption, FS_Subset, FS_CardinalityType
  <1>2. Cardinality({}) = 0
    BY FS_EmptySet
  <1>3. ASSUME NEW A \in SUBSET Pods, NEW B \in SUBSET Pods, A \cap B = {}
        PROVE  Cardinality(A \cup B) = Cardinality(A) + Cardinality(B)
    <2>1. Cardinality(A \cup B) = Cardinality(A) + Cardinality(B) - Cardinality(A \cap B)
      BY <1>1, FS_Union
    <2>2. Cardinality(A \cap B) = 0
      BY <1>2, <1>3
    <2>3. Cardinality(A) \in Nat /\ Cardinality(B) \in Nat
      BY <1>1
    <2> QED
      BY <2>1, <2>2, <2>3
  <1> QED
    BY <1>1, <1>2, <1>3 DEF IsMeasure

-----------------------------------------------------------------------------
(* The call.                                                               *)

(* The rows are right about the counted pods of their nodes, no node is    *)
(* listed twice, and no pod is counted whose node has no row.              *)
RowsOK ==
    /\ nodes \subseteq Nodes
    /\ DOMAIN rows \subseteq Nodes
    /\ pc = "start" => DOMAIN rows = {}
    /\ todo \subseteq Nodes /\ todo \cap DOMAIN rows = {}
    /\ listed \subseteq Pods
    /\ \A p \in listed : p.node \in DOMAIN rows
    /\ \A n \in DOMAIN rows, f \in {"requests", "limits"} :
            RowList(rows[n][f], f, PodsOn(listed, {n}))

CountInv == RowsOK /\ NeverOverstated

(* CountInv holds before the call. *)
LEMMA CountInit == Init => CountInv
  BY DEF Init, CountInv, RowsOK, NeverOverstated, Empty

(* A step that leaves the call alone keeps CountInv, as one that only      *)
(* takes nodes off its list.                                               *)
LEMMA ElsewhereStep ==
    ASSUME CountInv, UNCHANGED <<rows, answer, listed>>, nodes' \subseteq Nodes,
           todo' \subseteq todo, pc' = pc \/ pc' = "error"
    PROVE  CountInv'
  BY DEF CountInv, RowsOK, NeverOverstated

(* The row of a node is right about its pods, and the other rows and their *)
(* pods stay as they are.                                                  *)
LEMMA CountNodePods ==
    ASSUME CountInv, NEW n \in Nodes, GetNodePods(n)
    PROVE  CountInv'
  <1>1. /\ pc = "pods" /\ pc' = "pods" /\ nodes' = nodes
        /\ n \in todo /\ todo' = todo \ {n}
        /\ listed' = listed \cup Matches(n)
    BY DEF GetNodePods, world
  <1>2. PICK items \in SetToSeqs(Matches(n)) :
            rows' = [m \in DOMAIN rows \cup {n} |->
                        IF m # n THEN rows[m]
                        ELSE [capacity |-> Capacity[n], allocatable |-> Allocatable[n],
                              requests |-> Aggregate(items, "requests"),
                              limits |-> Aggregate(items, "limits")]]
    BY DEF GetNodePods
  <1>3. DOMAIN rows' = DOMAIN rows \cup {n}
    BY <1>2
  <1>4. Matches(n) \in SUBSET Pods /\ \A p \in Matches(n) : p.node = n
    BY DEF Matches
  <1>5. n \notin DOMAIN rows /\ \A p \in listed : p.node # n
    BY <1>1 DEF CountInv, RowsOK
  <1>6. PodsOn(listed', {n}) = Matches(n)
    BY <1>1, <1>4, <1>5 DEF PodsOn
  <1>7. \A m \in DOMAIN rows : PodsOn(listed', {m}) = PodsOn(listed, {m})
    BY <1>1, <1>4, <1>5 DEF PodsOn
  <1>8. ASSUME NEW m \in DOMAIN rows', NEW f \in {"requests", "limits"}
        PROVE  RowList(rows'[m][f], f, PodsOn(listed', {m}))
    <2>1. CASE m = n
      <3>1. rows'[m][f] = Aggregate(items, f)
        BY <1>2, <2>1
      <3>2. RowList(Aggregate(items, f), f, Matches(n))
        BY <1>4, AggregateIsRight
      <3> QED
        BY <1>6, <2>1, <3>1, <3>2
    <2>2. CASE m # n
      <3>1. m \in DOMAIN rows
        BY <1>3, <2>2
      <3>2. rows'[m][f] = rows[m][f]
        BY <1>2, <2>2, <3>1
      <3>3. RowList(rows[m][f], f, PodsOn(listed, {m}))
        BY <3>1 DEF CountInv, RowsOK
      <3> QED
        BY <1>7, <3>1, <3>2, <3>3
    <2> QED
      BY <2>1, <2>2
  <1>9. RowsOK'
    <2>1. listed' \subseteq Pods /\ \A p \in listed' : p.node \in DOMAIN rows'
      BY <1>1, <1>3, <1>4 DEF CountInv, RowsOK
    <2>2. /\ nodes' \subseteq Nodes /\ DOMAIN rows' \subseteq Nodes
          /\ todo' \subseteq Nodes /\ todo' \cap DOMAIN rows' = {}
      BY <1>1, <1>3 DEF CountInv, RowsOK
    <2> QED
      BY <1>1, <1>8, <2>1, <2>2 DEF RowsOK
  <1> QED
    BY <1>1, <1>9 DEF CountInv, NeverOverstated

(* The total of what the rows have of a resource is right about all the    *)
(* counted pods when each row is about those of its node.                  *)
LEMMA TotalIsRight ==
    ASSUME RowsOK, NEW f \in {"requests", "limits"}, NEW name \in Names,
           NEW mu, IsMeasure(mu), NEW exact \in BOOLEAN,
           \A n \in DOMAIN rows :
              Quantity(rows[n][f], name) <= mu[PodsOn(listed, {n})],
           exact => \A n \in DOMAIN rows :
                       Quantity(rows[n][f], name) = mu[PodsOn(listed, {n})]
    PROVE  /\ Total(f)[name] <= mu[listed]
           /\ exact => Total(f)[name] = mu[listed]
  <1> DEFINE N == DOMAIN rows
             q == [n \in N |-> Quantity(rows[n][f], name)]
  <1>1. IsFiniteSet(N) /\ listed \in SUBSET Pods
    BY NodesAssumption, FS_Subset DEF RowsOK
  <1>2. PodsOn(listed, N) = listed
    BY DEF PodsOn, RowsOK
  <1>3. q \in [N -> Nat]
    <2>1. \A n \in N : rows[n][f] \in Lists(RowResources)
      BY ListDef DEF RowsOK, RowList
    <2> QED
      BY <2>1, QuantityType
  <1>4. Total(f)[name] = SumFunction(q)
    BY DEF Total
  <1>5. Bounded(q, N, mu, listed, exact)
    BY DEF Bounded
  <1> HIDE DEF q, N
  <1>6. /\ SumFunction(q) <= mu[PodsOn(listed, N)]
        /\ exact => SumFunction(q) = mu[PodsOn(listed, N)]
    BY <1>1, <1>3, <1>5, SumOverNodes
  <1> QED
    BY <1>2, <1>4, <1>6

(* Adding up the rows gives an answer that is right. *)
LEMMA CountSumUp ==
    ASSUME CountInv, SumUp
    PROVE  CountInv'
  <1>1. /\ pc' = "done" /\ nodes' = nodes /\ UNCHANGED <<todo, rows, listed>>
        /\ \A f \in {"requests", "limits"} : answer'[f] = Total(f)
    BY DEF SumUp, world
  <1>2. RowsOK /\ listed \in SUBSET Pods
    BY DEF CountInv, RowsOK
  <1>3. RowsOK'
    BY <1>1, <1>2 DEF RowsOK
  <1>4. \A n : PodsOn(listed, {n}) \in SUBSET Pods
    BY <1>2 DEF PodsOn
  <1>5. Total("requests")["pods"] = Cardinality(listed)
    <2> DEFINE mu == [A \in SUBSET Pods |-> Cardinality(A)]
    <2>1. IsMeasure(mu)
      BY NumberMeasure
    <2>2. \A A \in SUBSET Pods : mu[A] = Cardinality(A)
      OBVIOUS
    <2> HIDE DEF mu
    <2>3. ASSUME NEW n \in DOMAIN rows
          PROVE  /\ Quantity(rows[n]["requests"], "pods") = mu[PodsOn(listed, {n})]
                 /\ mu[PodsOn(listed, {n})] \in Nat
      <3>1. RowList(rows[n]["requests"], "requests", PodsOn(listed, {n}))
        BY <1>2 DEF RowsOK
      <3> QED
        BY <1>4, <2>1, <2>2, <3>1 DEF RowList, IsMeasure
    <2>4. \A n \in DOMAIN rows :
             Quantity(rows[n]["requests"], "pods") <= mu[PodsOn(listed, {n})]
      BY <2>3
    <2>5. "pods" \in Names /\ TRUE \in BOOLEAN
      BY DEF Names
    <2>6. Total("requests")["pods"] = mu[listed]
      BY <1>2, <2>1, <2>3, <2>4, <2>5, TotalIsRight
    <2> QED
      BY <1>2, <2>2, <2>6
  <1>6. ASSUME NEW f \in {"requests", "limits"}, NEW name \in {"memory", "cpu"}
        PROVE  /\ Total(f)[name] <= SumOfNeeds(listed, f, name)
               /\ ~NamesClash(listed) => Total(f)[name] = SumOfNeeds(listed, f, name)
    <2> DEFINE mu == [A \in SUBSET Pods |-> SumOfNeeds(A, f, name)]
               exact == ~NamesClash(listed)
    <2>1. IsMeasure(mu)
      BY NeedsMeasure
    <2>2. \A A \in SUBSET Pods : mu[A] = SumOfNeeds(A, f, name)
      OBVIOUS
    <2>3. exact \in BOOLEAN /\ name \in Names
      BY DEF Names, NamesClash
    <2>4. ASSUME NEW n \in DOMAIN rows
          PROVE  /\ Quantity(rows[n][f], name) <= mu[PodsOn(listed, {n})]
                 /\ exact => Quantity(rows[n][f], name) = mu[PodsOn(listed, {n})]
      <3>1. RowList(rows[n][f], f, PodsOn(listed, {n}))
        BY <1>2 DEF RowsOK
      <3>2. exact => ~NamesClash(PodsOn(listed, {n}))
        BY DEF NamesClash, PodsOn
      <3> HIDE DEF mu, exact
      <3> QED
        BY <1>4, <2>2, <3>1, <3>2 DEF RowList
    <2> HIDE DEF mu, exact
    <2>5. /\ Total(f)[name] <= mu[listed]
          /\ exact => Total(f)[name] = mu[listed]
      BY <1>2, <2>1, <2>3, <2>4, TotalIsRight
    <2> QED
      BY <1>2, <2>2, <2>5 DEF exact
  <1>7. NeverOverstated'
    BY <1>1, <1>5, <1>6 DEF NeverOverstated, SumOfNeeds, NamesClash
  <1> QED
    BY <1>3, <1>7 DEF CountInv

(* CountInv is kept by every step. *)
LEMMA CountStep ==
    ASSUME CountInv, [Next]_vars
    PROVE  CountInv'
  <1>1. CASE ListNodes
    BY <1>1 DEF ListNodes, world, CountInv, RowsOK, NeverOverstated
  <1>2. CASE \/ ListNodesFails
             \/ \E n \in Nodes : GetNodePodsFails(n) \/ NodeJoins(n) \/ NodeLeaves(n)
             \/ \E p \in Pods : PodChanges(p)
             \/ UNCHANGED vars
    <2>1. /\ UNCHANGED <<rows, answer, listed>> /\ nodes' \subseteq Nodes
          /\ todo' \subseteq todo /\ (pc' = pc \/ pc' = "error")
      BY <1>2 DEF ListNodesFails, GetNodePodsFails, NodeJoins, NodeLeaves, PodChanges,
                  vars, world, CountInv, RowsOK
    <2> QED
      BY <2>1, ElsewhereStep
  <1> QED
    BY <1>1, <1>2, CountNodePods, CountSumUp DEF Next

(* What ClusterResources answers is requested, and the limits, is never    *)
(* more than what the pods it has counted need, and exactly that when no   *)
(* two pods of a node have the same name; the number of pods is exact: for *)
(* any cluster, however nodes and pods come and go while it asks for them. *)
THEOREM AnswersNeverOverstate == Spec => []NeverOverstated
  <1>1. CountInv => NeverOverstated
    BY DEF CountInv
  <1> QED
    BY CountInit, CountStep, <1>1, PTL DEF Spec

=============================================================================
