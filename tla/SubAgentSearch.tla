--------------------------- MODULE SubAgentSearch --------------------------
(* The depth-first search of CircularDependencyValidator.validate, one step   *)
(* for each turn of the loop of has_cycle and one for its return, on any      *)
(* graph, from any node and with a node's neighbours in any order.            *)
EXTENDS Naturals, SequencesExt, SubAgentCycles

CONSTANT Nodes        \* the agents of the proposed graph

VARIABLES
    graph,      \* [Nodes -> SUBSET Nodes], the proposed graph
    root,       \* the checked agent
    callStack,  \* the calls of has_cycle that have not returned, by their node
    left,       \* [Nodes -> SUBSET Nodes], the neighbours the loop of a call has left
    visited,
    recStack,   \* rec_stack
    answer      \* "searching", "cycle" or "none"

searchVars == <<graph, root, callStack, left, visited, recStack, answer>>

SearchTypeOK ==
    /\ graph \in [Nodes -> SUBSET Nodes]
    /\ root \in Nodes
    /\ callStack \in Seq(Nodes)
    /\ left \in [Nodes -> SUBSET Nodes]
    /\ visited \subseteq Nodes
    /\ recStack = ToSet(callStack)
    /\ answer \in {"searching", "cycle", "none"}

SearchInit ==
    /\ graph \in [Nodes -> SUBSET Nodes]
    /\ root \in Nodes
    /\ callStack = <<root>>
    /\ left = [n \in Nodes |-> IF n = root THEN graph[n] ELSE {}]
    /\ visited = {root}
    /\ recStack = {root}
    /\ answer = "searching"

----------------------------------------------------------------------------

Node == Last(callStack)

\* The loop of the innermost call takes its next neighbour.
TakesNeighbour(n) == answer = "searching" /\ n \in left[Node]

\* A neighbour that was not visited is searched by a call of its own.
Descend(n) ==
    /\ TakesNeighbour(n)
    /\ n \notin visited
    /\ callStack' = Append(callStack, n)
    /\ left' = [left EXCEPT ![Node] = @ \ {n}, ![n] = graph[n]]
    /\ visited' = visited \cup {n}
    /\ recStack' = recStack \cup {n}
    /\ UNCHANGED <<graph, root, answer>>

\* A visited neighbour on the stack closes a cycle, and every call returns True.
CloseCycle(n) ==
    /\ TakesNeighbour(n)
    /\ n \in visited \cap recStack
    /\ answer' = "cycle"
    /\ UNCHANGED <<graph, root, callStack, left, visited, recStack>>

\* Any other visited neighbour was searched before.
PassOver(n) ==
    /\ TakesNeighbour(n)
    /\ n \in visited \ recStack
    /\ left' = [left EXCEPT ![Node] = @ \ {n}]
    /\ UNCHANGED <<graph, root, callStack, visited, recStack, answer>>

\* Mutant of Return: the node stays in rec_stack.
ReturnOnStack ==
    /\ answer = "searching"
    /\ left[Node] = {}
    /\ callStack' = Front(callStack)
    /\ answer' = IF Len(callStack) = 1 THEN "none" ELSE answer
    /\ UNCHANGED <<graph, root, left, visited, recStack>>

\* Nothing is left to the innermost call: it returns False.
Return ==
    /\ answer = "searching"
    /\ left[Node] = {}
    /\ recStack' = recStack \ {Node}
    /\ callStack' = Front(callStack)
    /\ answer' = IF Len(callStack) = 1 THEN "none" ELSE answer
    /\ UNCHANGED <<graph, root, left, visited>>

SearchNext ==
    \/ \E n \in Nodes : Descend(n) \/ CloseCycle(n) \/ PassOver(n)
    \/ Return

SearchSpec == SearchInit /\ [][SearchNext]_searchVars

----------------------------------------------------------------------------
(* Properties *)

\* The validator refuses a proposal exactly when one can go round a cycle from
\* the checked agent, whatever the graph and the order of the lists.
SearchDecides ==
    /\ answer = "cycle" => CycleBelow(graph, root)
    /\ answer = "none" => ~CycleBelow(graph, root)

=============================================================================
