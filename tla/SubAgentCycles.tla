--------------------------- MODULE SubAgentCycles --------------------------
(* What the search for a cycle of app/modules/registry/dependency_validator.py *)
(* decides of a graph, a function from a node to the nodes it lists: whether   *)
(* from the checked node one can go round a cycle, be the node on it or not.   *)

Closed(graph, set) == \A n \in set : graph[n] \subseteq set

\* The nodes that can be reached from node, itself among them.
Reachable(graph, node) ==
    {n \in DOMAIN graph :
        \A set \in SUBSET DOMAIN graph : node \in set /\ Closed(graph, set) => n \in set}

\* The search need never leave the set: each of its nodes lists one of the set.
Endless(graph, set) == set # {} /\ \A n \in set : graph[n] \cap set # {}

CycleBelow(graph, node) == \E set \in SUBSET Reachable(graph, node) : Endless(graph, set)

=============================================================================
