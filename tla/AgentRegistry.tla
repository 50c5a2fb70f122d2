--------------------------- MODULE AgentRegistry ---------------------------
(* One agent of the registry: its item in the agents table and its items in   *)
(* the versions table (app/modules/registry/store.py, versioner.py), under    *)
(* the requests of app/api/v1/agents.py and app/api/v1/projects.py that       *)
(* create, edit, roll back, publish, archive and delete it.                   *)
(*                                                                            *)
(* A version item is put under the condition that it does not exist.  The     *)
(* agent item never is: every method reads it, changes some fields of its     *)
(* copy and puts the whole copy back.  Between the calls of one method other  *)
(* requests run and the process may die.                                      *)
(*                                                                            *)
(* regOverlap, chosen once, says whether requests overlap.  served and        *)
(* crashed remember which operations have run and which were cut short: what  *)
(* the items guarantee depends on them.                                       *)
EXTENDS Integers, FiniteSets, FiniteSetsExt

CONSTANTS
    RegRequests,     \* the requests a behaviour serves, numbered as they arrive
    MaxOverlappingEdits,  \* bound on the requests served where they may overlap
    MaxVersion,      \* bound on the version numbers a behaviour reaches
    MaxRegCrashes    \* bound on the requests cut short

\* Numbers start at 1: the author 0 is a stub's.
ASSUME RegAssumption == RegRequests \subseteq Nat \ {0} /\ MaxVersion \in Nat \ {0}

VARIABLES
    agent,           \* the agents table's item, or NoAgent
    versions,        \* [1 .. MaxVersion -> VersionItem], the versions table's
    regRequest,      \* [RegRequests -> RegHandler]
    served,          \* the operations that have started
    crashed,         \* the operations that were cut short
    regOverlap       \* may requests overlap?  fixed by the initial state

regVars == <<agent, versions, regRequest, served, crashed, regOverlap>>

----------------------------------------------------------------------------
(* Types *)

VersionNumbers == 1 .. MaxVersion

Lifecycle == {"none", "draft", "published", "deprecated", "archived"}

NoAgent == [currentVersion |-> 0]

AgentItem ==
    [currentVersion : VersionNumbers, status : {"DRAFT", "DEPLOYED", "DEPRECATED"},
     lifecycle : Lifecycle]

\* author: the request that wrote the item, which stands for the configuration
\* snapshot, 0 in a stub: an item that record_derived_fields, an update_item
\* without a condition, brought into being.
VersionItem == [author : {0} \cup RegRequests, lifecycle : Lifecycle]

NoVersion == [author |-> -1]

Operations ==
    {"create", "clone", "edit", "flatEdit", "pipelineRollback", "publish", "archive",
     "projectRollback", "softDelete", "hardDelete", "pipelineMark", "generateIac"}

\* The operations that bring the agent into being; a clone copies another agent.
Creations == {"create", "clone"}

IdleReg ==
    [op |-> "none", at |-> "idle", saw |-> NoAgent, target |-> 0, listed |-> {}]

RegTypeOK ==
    /\ agent \in AgentItem \cup {NoAgent}
    /\ versions \in [VersionNumbers -> VersionItem \cup {NoVersion}]
    /\ \A r \in RegRequests :
          /\ regRequest[r].op \in Operations \cup {"none"}
          /\ regRequest[r].at \in
                {"idle", "read", "putNew", "putFirst", "putVersion", "putAgent", "reread",
                 "list", "unpublish", "mark", "putDraft", "unlist", "deleteAgent", "check",
                 "derive", "done"}
          /\ regRequest[r].saw \in AgentItem \cup {NoAgent}
          /\ regRequest[r].target \in 0 .. MaxVersion
          /\ regRequest[r].listed \subseteq VersionNumbers
    /\ served \subseteq Operations
    /\ crashed \subseteq Operations
    /\ regOverlap \in BOOLEAN

RegInit ==
    /\ agent = NoAgent
    /\ versions = [v \in VersionNumbers |-> NoVersion]
    /\ regRequest = [r \in RegRequests |-> IdleReg]
    /\ served = {}
    /\ crashed = {}
    /\ regOverlap \in BOOLEAN

----------------------------------------------------------------------------
(* Helpers *)

RegBusy(r) == regRequest[r].at \notin {"idle", "done"}

Quiescent == \A r \in RegRequests : ~RegBusy(r)

Exists(v) == versions[v] # NoVersion

\* _from_item raises on a stub: it lacks the fields an AgentVersionRecord must have.
Readable(v) == v \in VersionNumbers /\ Exists(v) /\ versions[v].author # 0

Moves(r, state) == regRequest' = [regRequest EXCEPT ![r].at = state]

Finishes(r) == regRequest' = [regRequest EXCEPT ![r] = [IdleReg EXCEPT !.at = "done"]]

RegAt(r, ops, state) == regRequest[r].op \in ops /\ regRequest[r].at = state

\* AgentVersioner.record_derived_fields: creates the item it does not find.
WithLifecycle(v, lifecycle) ==
    [versions EXCEPT ![v] = [author |-> IF Exists(v) THEN @.author ELSE 0,
                             lifecycle |-> lifecycle]]

----------------------------------------------------------------------------
(* A request arrives and, for all operations but creations, reads the agent *)

Arrive(r, op, target) ==
    /\ regRequest[r].at = "idle"
    /\ \A q \in RegRequests : q < r => regRequest[q].at # "idle"
    /\ IF regOverlap THEN r <= MaxOverlappingEdits ELSE Quiescent
    /\ (op \in Creations) = (r = Min(RegRequests))
    /\ regRequest' = [regRequest EXCEPT
          ![r] = [IdleReg EXCEPT !.op = op, !.target = target,
                                 !.at = IF op = "create" THEN "putNew" ELSE "read"]]
    /\ served' = served \cup {op}
    /\ UNCHANGED <<agent, versions, crashed, regOverlap>>

\* A method reads the agent; what it refuses ends the request.
Reads(r, op, refused, next) ==
    /\ RegAt(r, {op}, "read")
    /\ IF agent = NoAgent \/ refused THEN Finishes(r)
       ELSE regRequest' = [regRequest EXCEPT ![r].saw = agent, ![r].at = next]
    /\ UNCHANGED <<agent, versions, served, crashed, regOverlap>>

\* VersionNotFoundError and InvalidRollbackError.
NoRollbackTo(target) == ~Readable(target) \/ target = agent.currentVersion

\* Mutant of UpdateAgent: an edit puts the agent without its version.
UpdateAgentInPlace(r) == Reads(r, "flatEdit", FALSE, "putAgent")

UpdateAgent(r) == Reads(r, "flatEdit", FALSE, "putVersion")

RollbackAgent(r) ==
    Reads(r, "pipelineRollback", NoRollbackTo(regRequest[r].target), "putVersion")

DeprecateAgent(r) == Reads(r, "softDelete", FALSE, "putAgent")

MarkDeployed(r) == Reads(r, "pipelineMark", FALSE, "putAgent")

UpdateProjectAgent(r) == Reads(r, "edit", FALSE, "putVersion")

\* Mutant of PublishProjectAgent: it does not look for the version published before.
PublishWithoutLooking(r) == Reads(r, "publish", FALSE, "mark")

PublishProjectAgent(r) == Reads(r, "publish", FALSE, "list")

ArchiveProjectAgent(r) == Reads(r, "archive", FALSE, "mark")

RollbackProjectAgent(r) ==
    Reads(r, "projectRollback", NoRollbackTo(regRequest[r].target), "unpublish")

GenerateIac(r) == Reads(r, "generateIac", ~Readable(agent.currentVersion), "check")

\* An agent is archived before it is deleted for good.
DeleteProjectAgent(r) == Reads(r, "hardDelete", agent.lifecycle # "archived", "reread")

ReadAgent(r) ==
    \/ UpdateAgent(r) \/ RollbackAgent(r) \/ DeprecateAgent(r) \/ MarkDeployed(r)
    \/ UpdateProjectAgent(r) \/ PublishProjectAgent(r) \/ ArchiveProjectAgent(r)
    \/ RollbackProjectAgent(r) \/ DeleteProjectAgent(r) \/ GenerateIac(r)

----------------------------------------------------------------------------
(* Create: the agent item first, then its first version *)

\* The agent to copy is there with its version, or it is not.
CloneAgent(r) ==
    /\ RegAt(r, {"clone"}, "read")
    /\ Moves(r, "putNew") \/ Finishes(r)
    /\ UNCHANGED <<agent, versions, served, crashed, regOverlap>>

\* A project's agent starts as a draft, a clone belongs to no project.
PutNewAgent(r) ==
    /\ RegAt(r, Creations, "putNew")
    /\ \E lifecycle \in IF regRequest[r].op = "clone" THEN {"none"} ELSE {"none", "draft"} :
          agent' = [currentVersion |-> 1, status |-> "DRAFT", lifecycle |-> lifecycle]
    /\ Moves(r, "putFirst")
    /\ UNCHANGED <<versions, served, crashed, regOverlap>>

PutFirstVersion(r) ==
    /\ RegAt(r, Creations, "putFirst")
    /\ IF Exists(1) THEN UNCHANGED versions      \* VersionAlreadyExistsError
       ELSE versions' = [versions EXCEPT ![1] = [author |-> r, lifecycle |-> "none"]]
    /\ Finishes(r)
    /\ UNCHANGED <<agent, served, crashed, regOverlap>>

----------------------------------------------------------------------------
(* _create_new_version: the version item first, then the agent item *)

\* Mutant of PutNewVersion: the put has no condition.
PutOverVersion(r) ==
    /\ RegAt(r, {"edit", "flatEdit", "pipelineRollback"}, "putVersion")
    /\ LET next == regRequest[r].saw.currentVersion + 1 IN
          /\ next <= MaxVersion
          /\ versions' = [versions EXCEPT ![next] = [author |-> r, lifecycle |-> "none"]]
    /\ Moves(r, "putAgent")
    /\ UNCHANGED <<agent, served, crashed, regOverlap>>

PutNewVersion(r) ==
    /\ RegAt(r, {"edit", "flatEdit", "pipelineRollback"}, "putVersion")
    /\ LET next == regRequest[r].saw.currentVersion + 1 IN
          /\ next <= MaxVersion
          /\ IF Exists(next)
             THEN Finishes(r) /\ UNCHANGED versions      \* VersionAlreadyExistsError
             ELSE /\ versions' = [versions EXCEPT ![next] = [author |-> r, lifecycle |-> "none"]]
                  /\ Moves(r, "putAgent")
    /\ UNCHANGED <<agent, served, crashed, regOverlap>>

\* What each method changes in its copy of the agent item.
Edited(item) == [item EXCEPT !.currentVersion = @ + 1, !.status = "DRAFT"]
RolledBack(item) == [item EXCEPT !.currentVersion = @ + 1]
Published(item) == [item EXCEPT !.lifecycle = "published"]
Archived(item) == [item EXCEPT !.lifecycle = "archived"]
Repointed(item, target) == [item EXCEPT !.lifecycle = "published", !.currentVersion = target]
SoftDeleted(item) == [item EXCEPT !.status = "DEPRECATED"]
MarkedDeployed(item) == [item EXCEPT !.status = "DEPLOYED"]

Updated(item, op, target) ==
    CASE op \in {"edit", "flatEdit"} -> Edited(item)
      [] op = "pipelineRollback" -> RolledBack(item)
      [] op = "publish" -> Published(item)
      [] op = "archive" -> Archived(item)
      [] op = "projectRollback" -> Repointed(item, target)
      [] op = "softDelete" -> SoftDeleted(item)
      [] op = "pipelineMark" -> MarkedDeployed(item)

\* The put of the whole copy.  A project's edit goes on with
\* set_project_draft_after_edit.
PutAgent(r) ==
    /\ regRequest[r].at = "putAgent"
    /\ agent' = Updated(regRequest[r].saw, regRequest[r].op, regRequest[r].target)
    /\ IF regRequest[r].op = "edit" THEN Moves(r, "reread") ELSE Finishes(r)
    /\ UNCHANGED <<versions, served, crashed, regOverlap>>

\* set_project_draft_after_edit and hard_delete_agent read the agent once more.
RereadAgent(r) ==
    /\ RegAt(r, {"edit", "hardDelete"}, "reread")
    /\ IF agent = NoAgent THEN Finishes(r)
       ELSE regRequest' = [regRequest EXCEPT
               ![r].saw = agent,
               ![r].at = IF regRequest[r].op = "edit" THEN "mark" ELSE "list"]
    /\ UNCHANGED <<agent, versions, served, crashed, regOverlap>>

----------------------------------------------------------------------------
(* The project lifecycle: publish, archive, roll back, the draft after an edit *)

\* list_all, newest first, raises on a stub.  Publish keeps the newest
\* published version, a delete keeps them all.
ListVersions(r) ==
    /\ RegAt(r, {"publish", "hardDelete"}, "list")
    /\ LET items == {v \in VersionNumbers : Exists(v)}
           published == {v \in items : versions[v].lifecycle = "published"}
       IN  IF \E v \in items : ~Readable(v) THEN Finishes(r)
           ELSE IF regRequest[r].op = "hardDelete"
           THEN regRequest' = [regRequest EXCEPT
                   ![r] = [@ EXCEPT !.listed = items, !.at = "unlist"]]
           ELSE IF published \subseteq {regRequest[r].saw.currentVersion}
                   \/ Max(published) = regRequest[r].saw.currentVersion
           THEN Moves(r, "mark")
           ELSE regRequest' = [regRequest EXCEPT
                   ![r] = [@ EXCEPT !.target = Max(published), !.at = "unpublish"]]
    /\ UNCHANGED <<agent, versions, served, crashed, regOverlap>>

\* Publish deprecates the version published before; a project's rollback
\* deprecates the version that is current.
Deprecate(r) ==
    /\ RegAt(r, {"publish", "projectRollback"}, "unpublish")
    /\ versions' = WithLifecycle(IF regRequest[r].op = "publish" THEN regRequest[r].target
                                 ELSE regRequest[r].saw.currentVersion, "deprecated")
    /\ Moves(r, "mark")
    /\ UNCHANGED <<agent, served, crashed, regOverlap>>

\* The second half of the edit only changes the lifecycle: as a mark of its own.
MarkVersion(r) ==
    /\ regRequest[r].at = "mark"
    /\ LET current == regRequest[r].saw.currentVersion IN
       versions' =
          CASE regRequest[r].op = "publish" -> WithLifecycle(current, "published")
            [] regRequest[r].op = "archive" -> WithLifecycle(current, "archived")
            [] regRequest[r].op = "projectRollback" ->
                  WithLifecycle(regRequest[r].target, "published")
            [] regRequest[r].op = "edit" -> WithLifecycle(current, "draft")
    /\ Moves(r, IF regRequest[r].op = "edit" THEN "putDraft" ELSE "putAgent")
    /\ UNCHANGED <<agent, served, crashed, regOverlap>>

PutDraft(r) ==
    /\ RegAt(r, {"edit"}, "putDraft")
    /\ agent' = [regRequest[r].saw EXCEPT !.lifecycle = "draft"]
    /\ Finishes(r)
    /\ UNCHANGED <<versions, served, crashed, regOverlap>>

----------------------------------------------------------------------------
(* generate_iac: the generated code is derived from a version and noted on it *)

\* record_iac_artifact reads the agent and the version once more.
CheckArtifact(r) ==
    /\ RegAt(r, {"generateIac"}, "check")
    /\ IF agent # NoAgent /\ Readable(regRequest[r].saw.currentVersion)
       THEN Moves(r, "derive")
       ELSE Finishes(r)
    /\ UNCHANGED <<agent, versions, served, crashed, regOverlap>>

\* The fields it writes are not the model's, but a version that is gone comes back.
RecordArtifact(r) ==
    /\ RegAt(r, {"generateIac"}, "derive")
    /\ LET v == regRequest[r].saw.currentVersion IN
       versions' = IF Exists(v) THEN versions ELSE WithLifecycle(v, "none")
    /\ Finishes(r)
    /\ UNCHANGED <<agent, served, crashed, regOverlap>>

----------------------------------------------------------------------------
(* hard_delete_agent: the versions, newest first, then the agent *)

DeleteVersion(r) ==
    /\ RegAt(r, {"hardDelete"}, "unlist")
    /\ IF regRequest[r].listed = {} THEN Moves(r, "deleteAgent") /\ UNCHANGED versions
       ELSE LET v == Max(regRequest[r].listed) IN
            /\ versions' = [versions EXCEPT ![v] = NoVersion]
            /\ regRequest' = [regRequest EXCEPT ![r].listed = @ \ {v}]
    /\ UNCHANGED <<agent, served, crashed, regOverlap>>

DeleteAgent(r) ==
    /\ RegAt(r, {"hardDelete"}, "deleteAgent")
    /\ agent' = NoAgent
    /\ Finishes(r)
    /\ UNCHANGED <<versions, served, crashed, regOverlap>>

----------------------------------------------------------------------------
(* Faults *)

\* The process dies, or a call to DynamoDB raises, between two steps.
CutShort(r) ==
    /\ RegBusy(r)
    /\ Cardinality(crashed) < MaxRegCrashes
    /\ crashed' = crashed \cup {regRequest[r].op}
    /\ Finishes(r)
    /\ UNCHANGED <<agent, versions, served, regOverlap>>

RegStep(r) ==
    \/ CloneAgent(r) \/ CheckArtifact(r) \/ RecordArtifact(r)
    \/ ReadAgent(r) \/ PutNewAgent(r) \/ PutFirstVersion(r) \/ PutNewVersion(r) \/ PutAgent(r)
    \/ RereadAgent(r) \/ ListVersions(r) \/ Deprecate(r) \/ MarkVersion(r) \/ PutDraft(r)
    \/ DeleteVersion(r) \/ DeleteAgent(r) \/ CutShort(r)

RegNext ==
    \E r \in RegRequests :
       \/ \E op \in Operations \ {"pipelineRollback", "projectRollback"} : Arrive(r, op, 0)
       \/ \E op \in {"pipelineRollback", "projectRollback"}, target \in VersionNumbers :
             Arrive(r, op, target)
       \/ RegStep(r)

RegSpec == RegInit /\ [][RegNext]_regVars

----------------------------------------------------------------------------
(* Properties *)

\* R08, a version is never overwritten: whatever requests overlap or die, and
\* also after a project's rollback has moved current_version back, the snapshot
\* under a version number stays the one first written there.
VersionsImmutable ==
    [][\A v \in VersionNumbers : Readable(v) => versions'[v] = NoVersion
                                              \/ versions'[v].author = versions[v].author]_regVars

\* GET of an agent finds the version its item names, at every moment and after
\* a crash anywhere, when requests come one at a time: the version is there
\* before an agent points to it.  Creating an agent and deleting it for good,
\* which write in the other order, are the exceptions while they run and when
\* they were cut short.
CurrentVersionReadable ==
    LET unsafe == Creations \cup {"hardDelete"} IN
    /\ ~regOverlap
    /\ agent # NoAgent
    /\ crashed \cap unsafe = {}
    /\ \A r \in RegRequests : RegBusy(r) => regRequest[r].op \notin unsafe
    => Readable(agent.currentVersion)

\* After requests that came one at a time and ran to their end, none of them a
\* project's rollback, the next edit's version number is free, or every later
\* edit would be refused for good.  And when the project's agent is published,
\* its current version is and no other, if none of the requests was an edit or a
\* rollback of the flat agents routes, which leave the lifecycle alone.
VersionsFollowAgent ==
    /\ ~regOverlap
    /\ Quiescent
    /\ crashed = {}
    /\ "projectRollback" \notin served
    /\ agent # NoAgent
    => /\ \A v \in VersionNumbers : v > agent.currentVersion => ~Exists(v)
       /\ served \cap {"flatEdit", "pipelineRollback"} = {} /\ agent.lifecycle = "published" =>
             \A v \in VersionNumbers :
                Exists(v) => (versions[v].lifecycle = "published") = (v = agent.currentVersion)

=============================================================================
