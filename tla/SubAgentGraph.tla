--------------------------- MODULE SubAgentGraph ---------------------------
(* Which agents an orchestrator agent lists as its sub-agents: the check of   *)
(* app/modules/registry/dependency_validator.py and the methods of            *)
(* AgentRegistryStore that run it, or do not, before a version becomes an     *)
(* agent's current one.  Here a version is its list of sub-agents.  A save    *)
(* reads the graph and checks it, and writes in a second step.  What the      *)
(* check's search finds is an operator of SubAgentCycles; the search itself   *)
(* is in SubAgentSearch.                                                      *)
EXTENDS Integers, SubAgentCycles

CONSTANTS
    GraphAgents,          \* the identifiers an agent can be given
    Savers,               \* the requests that may be under way at once
    MaxSaves,             \* bound on the changes where they come one at a time
    MaxOverlappingSaves   \* bound on the changes where they overlap

\* An identifier is a slug of the agent's name and a suffix: never the name
\* under which a new agent is checked.
NewAgent == "__new_agent__"

ASSUME GraphAssumption ==
    /\ NewAgent \notin GraphAgents
    /\ MaxSaves \in Nat
    /\ MaxOverlappingSaves \in 0 .. MaxSaves

VARIABLES
    lists,           \* the versions table: a set of VersionList
    current,         \* [GraphAgents -> Nat], the current version, 0 when there is no agent
    save,            \* [Savers -> SaveInFlight]
    saves,           \* how many changes have begun
    namedAbsent,     \* has an agent been listed that did not, or no longer, exist?
    repointed,       \* has a project's rollback run?
    savesOverlap     \* may requests overlap?  fixed by the initial state

graphVars == <<lists, current, save, saves, namedAbsent, repointed, savesOverlap>>

----------------------------------------------------------------------------

VersionList == [agent : GraphAgents, version : Nat \ {0}, list : SUBSET GraphAgents]

SaveInFlight ==
    [agent : GraphAgents, list : SUBSET GraphAgents, saw : Nat, kind : {"create", "update"}]

NoSave == [agent |-> "none", list |-> {}, saw |-> 0, kind |-> "none"]

GraphTypeOK ==
    /\ lists \subseteq VersionList
    /\ current \in [GraphAgents -> Nat]
    /\ \A a \in GraphAgents :
          current[a] # 0 => \E v \in lists : v.agent = a /\ v.version = current[a]
    /\ \A v, w \in lists : v.agent = w.agent /\ v.version = w.version => v = w
    /\ save \in [Savers -> SaveInFlight \cup {NoSave}]
    /\ saves \in 0 .. MaxSaves
    /\ namedAbsent \in BOOLEAN /\ repointed \in BOOLEAN /\ savesOverlap \in BOOLEAN

GraphInit ==
    /\ lists = {}
    /\ current = [a \in GraphAgents |-> 0]
    /\ save = [s \in Savers |-> NoSave]
    /\ saves = 0
    /\ namedAbsent = FALSE
    /\ repointed = FALSE
    /\ savesOverlap \in BOOLEAN

----------------------------------------------------------------------------
(* The check *)

InRegistry(a) == current[a] # 0

\* The list of the current version: nobody when there is no agent, or no such version.
SubAgents(a) == UNION {v.list : v \in {w \in lists : w.agent = a /\ w.version = current[a]}}

\* Mutant of ProposedGraph: the graph as it was saved, without the proposal.
SavedGraph(agent, list) ==
    [n \in GraphAgents \cup {NewAgent} |-> IF n = NewAgent THEN list ELSE SubAgents(n)]

\* _build_sub_agent_graph, with the proposed list injected for the agent itself.
\* The pages of list_agents are read as one.
ProposedGraph(agent, list) ==
    [n \in GraphAgents \cup {NewAgent} |->
        IF n = agent THEN list ELSE IF n = NewAgent THEN {} ELSE SubAgents(n)]

\* What the validator's search from the checked agent decides.
HasCycle(agent, list) == CycleBelow(ProposedGraph(agent, list), agent)

----------------------------------------------------------------------------
(* A change *)

MayBegin(s) ==
    /\ save[s] = NoSave
    /\ saves < IF savesOverlap THEN MaxOverlappingSaves ELSE MaxSaves
    /\ savesOverlap \/ \A t \in Savers : save[t] = NoSave
    /\ saves' = saves + 1

\* create_agent and clone_agent: the check runs before the agent has an
\* identifier, under a name of its own.
CheckNewAgent(s, agent, list) ==
    /\ MayBegin(s)
    /\ ~InRegistry(agent)
    /\ IF HasCycle(NewAgent, list) THEN UNCHANGED save        \* CircularDependencyError
       ELSE save' = [save EXCEPT ![s] =
               [agent |-> agent, list |-> list, saw |-> 0, kind |-> "create"]]
    /\ UNCHANGED <<lists, current, namedAbsent, repointed, savesOverlap>>

\* _create_new_version, called by update_agent and rollback_agent.
CheckNewVersion(s, agent, list) ==
    /\ MayBegin(s)
    /\ InRegistry(agent)
    /\ IF list # {} /\ HasCycle(agent, list) THEN UNCHANGED save
       ELSE save' = [save EXCEPT ![s] =
               [agent |-> agent, list |-> list, saw |-> current[agent], kind |-> "update"]]
    /\ UNCHANGED <<lists, current, namedAbsent, repointed, savesOverlap>>

\* The version item is put under the condition that it is new; the agent item
\* is put over whatever is there.
WriteSave(s) ==
    LET agent == save[s].agent
        next == save[s].saw + 1
    IN  /\ save[s] # NoSave
        /\ save' = [save EXCEPT ![s] = NoSave]
        /\ IF \E v \in lists : v.agent = agent /\ v.version = next
           THEN UNCHANGED <<lists, current>>
           ELSE /\ lists' = lists \cup
                      {[agent |-> agent, version |-> next, list |-> save[s].list]}
                /\ current' = [current EXCEPT ![agent] = next]
        /\ namedAbsent' = (namedAbsent \/ \E a \in save[s].list : ~InRegistry(a))
        /\ UNCHANGED <<saves, repointed, savesOverlap>>

\* rollback_project_agent points the agent back to an old version: no check.
Repoint(s, agent, version) ==
    /\ MayBegin(s)
    /\ InRegistry(agent)
    /\ version # current[agent]
    /\ \E v \in lists : v.agent = agent /\ v.version = version
    /\ current' = [current EXCEPT ![agent] = version]
    /\ repointed' = TRUE
    /\ UNCHANGED <<lists, save, namedAbsent, savesOverlap>>

\* delete_project_agent: hard_delete_agent, refused while another agent lists this
\* one, unless a save in progress is about to.
Delete(s, agent) ==
    /\ MayBegin(s)
    /\ InRegistry(agent)
    /\ savesOverlap \/ \A a \in GraphAgents \ {agent} : agent \notin SubAgents(a)
    /\ lists' = {v \in lists : v.agent # agent}
    /\ current' = [current EXCEPT ![agent] = 0]
    /\ namedAbsent' = (namedAbsent \/ \E a \in GraphAgents \ {agent} : agent \in SubAgents(a))
    /\ UNCHANGED <<save, repointed, savesOverlap>>

GraphNext ==
    \E s \in Savers :
       \/ \E agent \in GraphAgents, list \in SUBSET GraphAgents :
             CheckNewAgent(s, agent, list) \/ CheckNewVersion(s, agent, list)
       \/ WriteSave(s)
       \/ \E agent \in GraphAgents : Delete(s, agent)
       \/ \E agent \in GraphAgents, version \in 1 .. MaxSaves : Repoint(s, agent, version)

GraphSpec == GraphInit /\ [][GraphNext]_graphVars

----------------------------------------------------------------------------
(* Properties *)

\* No agent can be reached from its own sub-agents: every cycle would be a set
\* of agents each of which lists one of the set.
Acyclic ==
    \A set \in (SUBSET GraphAgents) \ {{}} :
       \E a \in set : SubAgents(a) \cap set = {}

\* R12 where the check is enough: with changes one at a time, and as long as no
\* agent has listed one that did not exist and no project rolled an agent back,
\* the current versions' graph has no cycle, of whatever length and through
\* however many saves.
CheckedGraphAcyclic ==
    ~savesOverlap /\ ~namedAbsent /\ ~repointed => Acyclic

=============================================================================
