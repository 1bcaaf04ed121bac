------------------------------ MODULE MCCluster ------------------------------
(* Two nodes, two pods with the same name on one of them, a pod with an    *)
(* init container greater than its containers, and one with a smaller.     *)
EXTENDS ClusterResources

Container(c, m) == [requests |-> [cpu |-> c, memory |-> m], limits |-> [memory |-> m + 1]]
Bare == [requests |-> Empty, limits |-> Empty]

MCPods ==
    {[name |-> "web", ns |-> "a", node |-> "n1",
      containers |-> <<Container(1, 2), Container(2, 1)>>, inits |-> << >>],
     [name |-> "web", ns |-> "b", node |-> "n1",
      containers |-> <<Container(4, 1)>>, inits |-> <<Container(3, 3), Bare>>],
     [name |-> "job", ns |-> "a", node |-> "n1",
      containers |-> <<Bare, Container(1, 1)>>, inits |-> <<Container(2, 1), Container(3, 1)>>],
     [name |-> "job", ns |-> "b", node |-> "n2",
      containers |-> <<Container(1, 5)>>, inits |-> << >>]}

MCCapacity == [n \in Nodes |-> [pods |-> 10, memory |-> 9, cpu |-> IF n = "n1" THEN 8 ELSE 4]]
MCAllocatable == [n \in Nodes |-> [pods |-> 10, memory |-> 7, cpu |-> IF n = "n1" THEN 7 ELSE 3]]

=============================================================================
