--------------------------- MODULE ProjectLibrary ---------------------------
(* A project, its agents and the skills they name: app/api/v1/projects.py and *)
(* skills.py over their stores.  Three tables refer to each other, and no     *)
(* request changes two of them at once: a project lists its agents, an agent  *)
(* names its project and, in its current version, skills.  The guards of the  *)
(* deletes query an index of the agents table that follows the table with a   *)
(* delay.  An agent is its item and the skills its versions name, written and *)
(* deleted with the item in one step (AgentRegistry has the steps between); a *)
(* project or skill that is created again is new.                             *)
EXTENDS Integers, FiniteSets

CONSTANTS
    LibraryAgents,       \* agents of the project that a behaviour creates
    LibrarySkills,       \* skills
    LibraryRequests,     \* the requests, numbered as they arrive
    MaxOverlappingCalls  \* bound on the requests served where they may overlap

ASSUME LibraryAssumption == LibraryRequests \subseteq Nat

VARIABLES
    project,         \* the projects table's item
    registered,      \* [LibraryAgents -> the agents table's item]
    versionSkills,   \* [LibraryAgents -> the skills each of its versions names]
    projectIndex,    \* the agents in project-index
    skillItems,      \* the skills in their table
    libRequest,      \* [LibraryRequests -> where the request is]
    libCutShort,     \* was a request cut short?
    libOverlap       \* may requests overlap?  fixed by the initial state

libVars ==
    <<project, registered, versionSkills, projectIndex, skillItems, libRequest, libCutShort,
      libOverlap>>

----------------------------------------------------------------------------

ProjectItem == [agent_ids : SUBSET LibraryAgents, status : {"active", "archived"}]
NoProject == [agent_ids |-> {}]

\* skills: those of the current version; found: the ones of them that were there
\* when that version was saved or rolled back to (history, for the properties).
RegisteredAgent ==
    [archived : BOOLEAN, skills : SUBSET LibrarySkills, found : SUBSET LibrarySkills]
NotRegistered == [skills |-> {}]

IdleLibrary ==
    [op |-> "none", at |-> "idle", arg |-> "none", saw |-> NoProject, sawAgent |-> NotRegistered]

LibraryOps ==
    {"createProject", "updateProject", "deleteProject", "createAgent", "updateAgent",
     "archiveAgent", "unarchiveAgent", "rollbackAgent", "deleteAgent",
     "createSkill", "updateSkill", "deleteSkill"}

LibTypeOK ==
    /\ project \in ProjectItem \cup {NoProject}
    /\ registered \in [LibraryAgents -> RegisteredAgent \cup {NotRegistered}]
    /\ versionSkills \in [LibraryAgents -> SUBSET SUBSET LibrarySkills]
    /\ projectIndex \subseteq LibraryAgents
    /\ skillItems \subseteq LibrarySkills
    /\ \A r \in LibraryRequests :
          /\ libRequest[r].op \in LibraryOps \cup {"none"}
          /\ libRequest[r].at \in
                {"idle", "get", "put", "write", "guard", "delete", "list", "relist", "done"}
          /\ libRequest[r].arg \in LibraryAgents \cup LibrarySkills \cup {"none"}
          /\ libRequest[r].saw \in ProjectItem \cup {NoProject}
          /\ libRequest[r].sawAgent \in RegisteredAgent \cup {NotRegistered}
    /\ libCutShort \in BOOLEAN
    /\ libOverlap \in BOOLEAN

LibInit ==
    /\ project = NoProject
    /\ registered = [a \in LibraryAgents |-> NotRegistered]
    /\ versionSkills = [a \in LibraryAgents |-> {}]
    /\ projectIndex = {}
    /\ skillItems = {}
    /\ libRequest = [r \in LibraryRequests |-> IdleLibrary]
    /\ libCutShort = FALSE
    /\ libOverlap \in BOOLEAN

----------------------------------------------------------------------------

ProjectThere == project # NoProject

AgentsThere == {a \in LibraryAgents : registered[a] # NotRegistered}

LibBusy(r) == libRequest[r].at \notin {"idle", "done"}

LibQuiescent == \A r \in LibraryRequests : ~LibBusy(r)

Reached(r, ops, state) == libRequest[r].op \in ops /\ libRequest[r].at = state

Continues(r, state) == libRequest' = [libRequest EXCEPT ![r].at = state]

Replies(r) == libRequest' = [libRequest EXCEPT ![r] = [IdleLibrary EXCEPT !.at = "done"]]

\* The first request creates the project, and an agent gets an id nothing uses.
\* Where requests come one at a time, the index has caught up before the next one.
Call(r, op, arg) ==
    /\ libRequest[r].at = "idle"
    /\ \A q \in LibraryRequests : q < r => libRequest[q].at # "idle"
    /\ IF libOverlap THEN r <= MaxOverlappingCalls
       ELSE LibQuiescent /\ projectIndex = AgentsThere
    /\ (op = "createProject") = (\A q \in LibraryRequests : r <= q)
    /\ op = "createAgent" =>
          /\ registered[arg] = NotRegistered
          /\ \A q \in LibraryRequests : libRequest[q].arg # arg
    /\ libRequest' = [libRequest EXCEPT
          ![r] = [IdleLibrary EXCEPT !.op = op, !.arg = arg, !.at = "get"]]
    /\ UNCHANGED <<project, registered, versionSkills, projectIndex, skillItems, libCutShort,
                   libOverlap>>

IndexFollows(a) ==
    /\ (a \in projectIndex) # (a \in AgentsThere)
    /\ projectIndex' = IF a \in AgentsThere THEN projectIndex \cup {a} ELSE projectIndex \ {a}
    /\ UNCHANGED <<project, registered, versionSkills, skillItems, libRequest, libCutShort,
                   libOverlap>>

----------------------------------------------------------------------------
(* Projects *)

CreateProject(r) ==
    /\ Reached(r, {"createProject"}, "get")
    /\ project' = [agent_ids |-> {}, status |-> "active"]
    /\ Replies(r)
    /\ UNCHANGED <<registered, versionSkills, projectIndex, skillItems, libCutShort,
                   libOverlap>>

\* _require of ProjectStore, or its ProjectNotFoundError.
RequireProject(r, state, next) ==
    /\ libRequest[r].at = state
    /\ IF ProjectThere THEN libRequest' = [libRequest EXCEPT ![r].saw = project, ![r].at = next]
       ELSE Replies(r)
    /\ UNCHANGED <<project, registered, versionSkills, projectIndex, skillItems, libCutShort,
                   libOverlap>>

GetProject(r) ==
    \/ Reached(r, {"updateProject"}, "get") /\ RequireProject(r, "get", "put")
    \/ Reached(r, {"deleteProject"}, "get") /\ RequireProject(r, "get", "guard")
    \/ Reached(r, {"createAgent"}, "get") /\ RequireProject(r, "get", "write")

PutProject(r) ==
    /\ Reached(r, {"updateProject"}, "put")
    /\ \E state \in {"active", "archived"} :
          project' = [libRequest[r].saw EXCEPT !.status = state]
    /\ Replies(r)
    /\ UNCHANGED <<registered, versionSkills, projectIndex, skillItems, libCutShort,
                   libOverlap>>

\* Mutant of AgentsReferencingProject: the agents the project lists.
AgentsListed(r) == libRequest[r].saw.agent_ids

AgentsReferencingProject(r) == projectIndex

GuardProject(r) ==
    /\ Reached(r, {"deleteProject"}, "guard")
    /\ IF AgentsReferencingProject(r) = {} THEN Continues(r, "delete") ELSE Replies(r)
    /\ UNCHANGED <<project, registered, versionSkills, projectIndex, skillItems, libCutShort,
                   libOverlap>>

DeleteProject(r) ==
    /\ Reached(r, {"deleteProject"}, "delete")
    /\ project' = NoProject
    /\ Replies(r)
    /\ UNCHANGED <<registered, versionSkills, projectIndex, skillItems, libCutShort,
                   libOverlap>>

----------------------------------------------------------------------------
(* A project's agents *)

\* A version that names these skills is current.  Nothing looks them up.
Naming(item, skills) == [item EXCEPT !.skills = skills, !.found = skills \cap skillItems]

BlankAgent == [archived |-> FALSE, skills |-> {}, found |-> {}]

\* create_agent of the registry.
RegisterAgent(r) ==
    LET a == libRequest[r].arg IN
    /\ Reached(r, {"createAgent"}, "write")
    /\ \E skills \in SUBSET LibrarySkills :
          /\ registered' = [registered EXCEPT ![a] = Naming(BlankAgent, skills)]
          /\ versionSkills' = [versionSkills EXCEPT ![a] = {skills}]
    /\ Continues(r, "list")
    /\ UNCHANGED <<project, projectIndex, skillItems, libCutShort, libOverlap>>

\* What changes an agent reads it and puts it back.
GetProjectAgent(r) ==
    /\ Reached(r, {"updateAgent", "archiveAgent", "unarchiveAgent", "rollbackAgent",
                   "deleteAgent"}, "get")
    /\ LET item == registered[libRequest[r].arg] IN
       IF item = NotRegistered \/ (libRequest[r].op = "deleteAgent" /\ ~item.archived)
       THEN Replies(r)
       ELSE libRequest' = [libRequest EXCEPT ![r].sawAgent = item, ![r].at = "write"]
    /\ UNCHANGED <<project, registered, versionSkills, projectIndex, skillItems, libCutShort,
                   libOverlap>>

\* The answers that write nothing: a create or an update that would close a cycle of
\* sub-agents, a rollback to no other version, the delete of someone's sub-agent.
RefusesAgent(r) ==
    /\ Reached(r, {"createAgent", "updateAgent", "rollbackAgent", "deleteAgent"}, "write")
    /\ Replies(r)
    /\ UNCHANGED <<project, registered, versionSkills, projectIndex, skillItems, libCutShort,
                   libOverlap>>

\* update_agent, after which the route of the project makes the agent a draft, and
\* that of the pipeline, whose rollback is such an update too, does not.
PutVersion(r) ==
    LET a == libRequest[r].arg IN
    /\ Reached(r, {"updateAgent"}, "write")
    /\ \E skills \in SUBSET LibrarySkills :
          /\ registered' = [registered EXCEPT ![a] = Naming(libRequest[r].sawAgent, skills)]
          /\ versionSkills' = [versionSkills EXCEPT ![a] = @ \cup {skills}]
    /\ \/ Replies(r)
       \/ libRequest' = [libRequest EXCEPT ![r].op = "unarchiveAgent", ![r].at = "get"]
    /\ UNCHANGED <<project, projectIndex, skillItems, libCutShort, libOverlap>>

\* rollback_project_agent publishes the old version, with whatever skills it names.
RollBack(r) ==
    LET a == libRequest[r].arg IN
    /\ Reached(r, {"rollbackAgent"}, "write")
    /\ \E skills \in versionSkills[a] :
          registered' = [registered EXCEPT
             ![a] = [Naming(libRequest[r].sawAgent, skills) EXCEPT !.archived = FALSE]]
    /\ Replies(r)
    /\ UNCHANGED <<project, versionSkills, projectIndex, skillItems, libCutShort, libOverlap>>

\* archive_agent; and set_project_draft_after_edit and publish_agent, which take an
\* agent out of the archive.
PutLifecycle(r) ==
    /\ Reached(r, {"archiveAgent", "unarchiveAgent"}, "write")
    /\ registered' = [registered EXCEPT
          ![libRequest[r].arg] = [libRequest[r].sawAgent EXCEPT
             !.archived = (libRequest[r].op = "archiveAgent")]]
    /\ Replies(r)
    /\ UNCHANGED <<project, versionSkills, projectIndex, skillItems, libCutShort, libOverlap>>

HardDeleteAgent(r) ==
    /\ Reached(r, {"deleteAgent"}, "write")
    /\ registered' = [registered EXCEPT ![libRequest[r].arg] = NotRegistered]
    /\ versionSkills' = [versionSkills EXCEPT ![libRequest[r].arg] = {}]
    /\ Continues(r, "list")
    /\ UNCHANGED <<project, projectIndex, skillItems, libCutShort, libOverlap>>

\* add_agent_id and remove_agent_id read the project again.
GetProjectAgain(r) ==
    /\ Reached(r, {"createAgent", "deleteAgent"}, "list")
    /\ RequireProject(r, "list", "relist")

PutAgentIds(r) ==
    /\ Reached(r, {"createAgent", "deleteAgent"}, "relist")
    /\ LET a == libRequest[r].arg
           listed == libRequest[r].saw.agent_ids
           ids == IF libRequest[r].op = "createAgent" THEN listed \cup {a} ELSE listed \ {a}
       IN  project' = IF ids = listed THEN project
                      ELSE [libRequest[r].saw EXCEPT !.agent_ids = ids]
    /\ Replies(r)
    /\ UNCHANGED <<registered, versionSkills, projectIndex, skillItems, libCutShort,
                   libOverlap>>

----------------------------------------------------------------------------
(* Skills *)

CreateSkill(r) ==
    /\ Reached(r, {"createSkill"}, "get")
    /\ skillItems' = skillItems \cup {libRequest[r].arg}
    /\ Replies(r)
    /\ UNCHANGED <<project, registered, versionSkills, projectIndex, libCutShort, libOverlap>>

GetSkill(r) ==
    /\ Reached(r, {"updateSkill", "deleteSkill"}, "get")
    /\ IF libRequest[r].arg \notin skillItems THEN Replies(r)
       ELSE Continues(r, IF libRequest[r].op = "updateSkill" THEN "put" ELSE "guard")
    /\ UNCHANGED <<project, registered, versionSkills, projectIndex, skillItems, libCutShort,
                   libOverlap>>

\* The put of the copy, which brings back a skill deleted in between.
PutSkill(r) ==
    /\ Reached(r, {"updateSkill"}, "put")
    /\ skillItems' = skillItems \cup {libRequest[r].arg}
    /\ Replies(r)
    /\ UNCHANGED <<project, registered, versionSkills, projectIndex, libCutShort, libOverlap>>

GuardSkill(r) ==
    /\ Reached(r, {"deleteSkill"}, "guard")
    /\ IF \E a \in AgentsThere : libRequest[r].arg \in registered[a].skills
       THEN Replies(r)
       ELSE Continues(r, "delete")
    /\ UNCHANGED <<project, registered, versionSkills, projectIndex, skillItems, libCutShort,
                   libOverlap>>

DeleteSkill(r) ==
    /\ Reached(r, {"deleteSkill"}, "delete")
    /\ skillItems' = skillItems \ {libRequest[r].arg}
    /\ Replies(r)
    /\ UNCHANGED <<project, registered, versionSkills, projectIndex, libCutShort, libOverlap>>

----------------------------------------------------------------------------

\* The process dies, or a call to DynamoDB raises, between two steps.
LibraryCutShort(r) ==
    /\ LibBusy(r)
    /\ ~libCutShort
    /\ libCutShort' = TRUE
    /\ Replies(r)
    /\ UNCHANGED <<project, registered, versionSkills, projectIndex, skillItems, libOverlap>>

LibraryStep(r) ==
    \/ CreateProject(r) \/ GetProject(r) \/ PutProject(r) \/ GuardProject(r) \/ DeleteProject(r)
    \/ RegisterAgent(r) \/ GetProjectAgent(r) \/ RefusesAgent(r) \/ PutVersion(r)
    \/ RollBack(r) \/ PutLifecycle(r) \/ HardDeleteAgent(r)
    \/ GetProjectAgain(r) \/ PutAgentIds(r)
    \/ CreateSkill(r) \/ GetSkill(r) \/ PutSkill(r) \/ GuardSkill(r) \/ DeleteSkill(r)
    \/ LibraryCutShort(r)

LibNext ==
    \/ \E r \in LibraryRequests :
          \/ \E op \in {"createProject", "updateProject", "deleteProject"} : Call(r, op, "none")
          \/ \E op \in {"createAgent", "updateAgent", "archiveAgent", "unarchiveAgent",
                        "rollbackAgent", "deleteAgent"},
                a \in LibraryAgents : Call(r, op, a)
          \/ \E op \in {"createSkill", "updateSkill", "deleteSkill"},
                s \in LibrarySkills : Call(r, op, s)
          \/ LibraryStep(r)
    \/ \E a \in LibraryAgents : IndexFollows(a)

LibSpec == LibInit /\ [][LibNext]_libVars

----------------------------------------------------------------------------
(* Properties *)

\* When requests come one at a time, an agent's project exists, and no delete takes a
\* skill away from an agent, although each write is to one table and a request may be
\* cut short after any: a skill that was there when an agent's version became current
\* stays there while it is.  A save or a rollback may well name a skill that is not
\* there, since neither looks it up.  And as long as no request was cut short, the
\* project lists exactly its agents between requests.
ReferencesHold ==
    ~libOverlap =>
        /\ AgentsThere # {} => ProjectThere
        /\ \A a \in AgentsThere : registered[a].found \subseteq skillItems
        /\ LibQuiescent /\ ~libCutShort /\ ProjectThere => project.agent_ids = AgentsThere

=============================================================================
