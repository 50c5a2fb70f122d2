---- MODULE Deployment ----
(***************************************************************************)
(* Deployments of one agent, as the Factory Runtime triggers them          *)
(* (app/api/v1/agents.py _trigger_deployment), lets a human approve them   *)
(* (approve_deployment) and, where no customer pipeline exists, runs them  *)
(* (app/modules/deployment/pipeline_simulator.py). The agent item and the  *)
(* deployment records live in DynamoDB; every update of either is a get    *)
(* followed by an unconditional put of the whole item.                     *)
(*                                                                         *)
(* A deployment names the process that triggers it and then runs its       *)
(* pipeline; <<a, d>> is the handler in which approver a approves d and    *)
(* then finishes its pipeline.                                             *)
(***************************************************************************)
EXTENDS Naturals, Sequences

CONSTANTS
    Deployments,     \* deployment ids, one per call of the deploy or rollback route
    Approvers,       \* clients of the approve route
    Editors,         \* clients that edit the agent
    Versions,        \* version numbers the agent's current version may have
    Modes,           \* approval modes the tenant's settings may hold
    NoVersion,       \* live_version of an agent that was never live
    Serial,          \* TRUE: requests for the agent, and the background tasks they
                     \* start, never overlap in time
    MaxAborts        \* bound on handlers and tasks that die or raise half way

Approvals == Approvers \X Deployments
Proc == Deployments \cup Approvals \cup Editors

ASSUME ProcAssumption ==
    /\ Deployments \cap (Approvals \cup Editors) = {}
    /\ Approvals \cap Editors = {}
ASSUME ModesAssumption == Modes \subseteq {"automated", "manual"}
ASSUME VersionsAssumption == NoVersion \notin Versions
ASSUME SerialRequestsAssumption == Serial \in BOOLEAN
ASSUME DeployAbortsAssumption == MaxAborts \in Nat

\* The deployment a trigger, a pipeline or an approval is about.
Of(p) == IF p \in Deployments THEN p ELSE p[2]

VARIABLES
    agent,      \* the agent item: its status and live_version
    record,     \* the deployment records, "absent" until created
    repo,       \* whether the agent's git repository exists
    pull,       \* pull[d]: the pull request of deployment d
    pc,         \* where each process is
    next,       \* next stage result a process writes
    readAgent,  \* the agent item a process has read and not yet put
    readRecord, \* the deployment record a process has read and not yet put
    finished,   \* finished[d]: times the pipeline of d made its version live
    aborts      \* processes aborted so far

vars == <<agent, record, repo, pull, pc, next, readAgent, readRecord, finished, aborts>>

Stage == {"VALIDATING", "CHANGE_IMPACT", "GENERATING_IAC", "SECURITY_SCANNING",
          "EVALUATING", "TERRAFORM_VALIDATE", "TERRAFORM_PLAN", "POLICY_CHECK",
          "APPLYING", "DEPLOYING", "HEALTH_CHECK"}
StageStatus == {"PENDING", "RUNNING", "PASSED", "FAILED", "BLOCKED"}
Settled == {"ACTIVE", "BLOCKED", "FAILED"}

Absent == [status |-> "absent"]
Unread == [status |-> "unread"]
NewRecord(v, mode) ==
    [status |-> "PENDING", version |-> v, mode |-> mode, approved |-> FALSE,
     stages |-> [s \in Stage |-> "PENDING"]]

Init ==
    /\ agent = [status |-> "DRAFT", live |-> NoVersion]
    /\ record = [d \in Deployments |-> Absent]
    /\ repo = FALSE
    /\ pull = [d \in Deployments |-> "none"]
    /\ pc = [p \in Proc |-> "idle"]
    /\ next = [p \in Proc |-> 1]
    /\ readAgent = [p \in Proc |-> Unread]
    /\ readRecord = [p \in Proc |-> Unread]
    /\ finished = [d \in Deployments |-> 0]
    /\ aborts = 0

(***************************************************************************)
(* The two halves of a read-modify-write. Until a deployment is parked or  *)
(* passes its policy check only its own process touches its record, so up  *)
(* to there the two halves of an update of the record are one step.        *)
(***************************************************************************)
ReadsAgent == {"stamp", "block", "activate", "edit"}
ReadsRecord == {"approve", "apply", "complete"}

Goto(p, label) == pc' = [pc EXCEPT ![p] = label]

\* The processes an answered or failed handler leaves behind: a deployment is
\* triggered once, an approver may call again.
Stop(p) == Goto(p, IF p \in Deployments THEN "done" ELSE "idle")

\* No request for the agent is being handled.
Quiet == \A p \in Proc : pc[p] \in {"idle", "done"}

\* _require_agent, at the head of every registry update.
ReadAgent(p) ==
    /\ pc[p] \in ReadsAgent
    /\ readAgent[p] = Unread
    /\ readAgent' = [readAgent EXCEPT ![p] = agent]
    /\ UNCHANGED <<agent, record, repo, pull, pc, next, readRecord, finished, aborts>>

PutAgent(p, item) ==
    /\ readAgent[p] # Unread
    /\ agent' = item
    /\ readAgent' = [readAgent EXCEPT ![p] = Unread]

\* get_deployment, at the head of every update of a record.
ReadRecord(p) ==
    /\ pc[p] \in ReadsRecord
    /\ readRecord[p] = Unread
    /\ readRecord' = [readRecord EXCEPT ![p] = record[Of(p)]]
    /\ UNCHANGED <<agent, record, repo, pull, pc, next, readAgent, finished, aborts>>

PutRecord(p, item) ==
    /\ readRecord[p] # Unread
    /\ record' = [record EXCEPT ![Of(p)] = item]
    /\ readRecord' = [readRecord EXCEPT ![p] = Unread]

Update(d, item) == record' = [record EXCEPT ![d] = item]

\* update_stage's record: one stage's result and, when given, the overall status.
WithStage(r, stage, result) == [r EXCEPT !.stages[stage] = result]
\* Mutant of WithStatus: the two results are swapped.
WithStatusSwapped(r, stage, result, status) ==
    [r EXCEPT !.stages[stage] = status, !.status = result]
WithStatus(r, stage, result, status) ==
    [r EXCEPT !.stages[stage] = result, !.status = status]

(***************************************************************************)
(* The trigger: deploy_agent and _trigger_deployment.                      *)
(***************************************************************************)
\* The settings are read once, the IaC is generated, the record is created.
CreateDeployment(d) ==
    /\ pc[d] = "idle"
    /\ Serial => Quiet
    /\ \E v \in Versions, mode \in Modes : Update(d, NewRecord(v, mode))
    /\ Goto(d, "git")
    /\ UNCHANGED <<agent, repo, pull, next, readAgent, readRecord, finished, aborts>>

\* A repository that did not exist is created and pushed to; otherwise a branch
\* and a pull request are opened. Then record_git_reference.
GitOperations(d) ==
    /\ pc[d] = "git"
    /\ pull' = [pull EXCEPT ![d] = IF repo THEN "open" ELSE "none"]
    /\ repo' = TRUE
    /\ Goto(d, "publish")
    /\ UNCHANGED <<agent, record, next, readAgent, readRecord, finished, aborts>>

\* The git provider or EventBridge raises: the record is FAILED and the client
\* gets a 502. The repository may have been created by then.
TriggerFails(d) ==
    /\ pc[d] \in {"git", "publish"}
    /\ Update(d, WithStatus(record[d], "GENERATING_IAC", "FAILED", "FAILED"))
    /\ repo' \in {repo, TRUE}
    /\ Stop(d)
    /\ UNCHANGED <<agent, pull, next, readAgent, readRecord, finished, aborts>>

PublishEvent(d) ==
    /\ pc[d] = "publish"
    /\ Goto(d, "stamp")
    /\ UNCHANGED <<agent, record, repo, pull, next, readAgent, readRecord, finished, aborts>>

\* record_deployment_trigger's put; the pipeline is then started as a background
\* task of the request.
RecordTrigger(d) ==
    /\ pc[d] = "stamp"
    /\ PutAgent(d, [readAgent[d] EXCEPT !.status = "DEPLOYING"])
    /\ Goto(d, "run")
    /\ UNCHANGED <<record, repo, pull, next, readRecord, finished, aborts>>

(***************************************************************************)
(* The pipeline: DeploymentPipelineSimulator.                              *)
(***************************************************************************)
Advance(stage) == << <<stage, {"RUNNING"}>>, <<stage, {"PASSED"}>> >>

\* The stage results run() writes before POLICY_CHECK, in order. A validation
\* report that failed is recorded and does not stop the run. Both callers give run()
\* the configuration and the IaC files, so its fallback without a scan is not here.
RunPlan ==
    Advance("VALIDATING") \o Advance("CHANGE_IMPACT") \o Advance("GENERATING_IAC")
    \o Advance("SECURITY_SCANNING") \o Advance("EVALUATING")
    \o << <<"TERRAFORM_VALIDATE", {"PASSED", "FAILED"}>> >>
    \o Advance("TERRAFORM_PLAN")

\* The stage results _finish() writes before the version goes live.
FinishPlan == Advance("APPLYING") \o Advance("DEPLOYING")

\* The loop of _advance_stages over a plan, and where it goes when it is done.
NextInPlan(p, plan, label) ==
    IF next[p] = Len(plan)
    THEN Goto(p, label) /\ next' = [next EXCEPT ![p] = 1]
    ELSE next' = [next EXCEPT ![p] = @ + 1] /\ UNCHANGED pc

Run(d) ==
    /\ pc[d] = "run"
    /\ \E result \in RunPlan[next[d]][2] :
         Update(d, WithStage(record[d], RunPlan[next[d]][1], result))
    /\ NextInPlan(d, RunPlan, "policy")
    /\ UNCHANGED <<agent, repo, pull, readAgent, readRecord, finished, aborts>>

\* Mutant of PolicyPass: the approval mode is not looked at.
PolicyPassUnattended(d) ==
    /\ pc[d] = "policy"
    /\ Update(d, WithStage(record[d], "POLICY_CHECK", "PASSED"))
    /\ Goto(d, "merge")
    /\ UNCHANGED <<agent, repo, pull, next, readAgent, readRecord, finished, aborts>>

\* POLICY_CHECK passes: a manual deployment parks, an automated one goes on.
PolicyPass(d) ==
    /\ pc[d] = "policy"
    /\ Update(d, WithStage(record[d], "POLICY_CHECK", "PASSED"))
    /\ Goto(d, IF record[d].mode = "manual" THEN "park" ELSE "merge")
    /\ UNCHANGED <<agent, repo, pull, next, readAgent, readRecord, finished, aborts>>

\* POLICY_CHECK blocks: _block closes the pull request, ...
PolicyBlock(d) ==
    /\ pc[d] = "policy"
    /\ pull' = [pull EXCEPT ![d] = IF @ = "open" THEN "closed" ELSE @]
    /\ Goto(d, "block")
    /\ UNCHANGED <<agent, record, repo, next, readAgent, readRecord, finished, aborts>>

\* Mutants of MarkBlocked: the live version is dropped; the agent is ACTIVE with or
\* without one; the status is left as it was.
MarkBlockedOutright(d) ==
    /\ pc[d] = "block"
    /\ PutAgent(d, [status |-> "BLOCKED", live |-> NoVersion])
    /\ Goto(d, "blocked")
    /\ UNCHANGED <<record, repo, pull, next, readRecord, finished, aborts>>
MarkBlockedActive(d) ==
    /\ pc[d] = "block"
    /\ PutAgent(d, [readAgent[d] EXCEPT !.status = "ACTIVE"])
    /\ Goto(d, "blocked")
    /\ UNCHANGED <<record, repo, pull, next, readRecord, finished, aborts>>
MarkBlockedNothing(d) ==
    /\ pc[d] = "block"
    /\ PutAgent(d, readAgent[d])
    /\ Goto(d, "blocked")
    /\ UNCHANGED <<record, repo, pull, next, readRecord, finished, aborts>>

\* ... gives the agent back its live version, if it has one, ...
MarkBlocked(d) ==
    /\ pc[d] = "block"
    /\ PutAgent(d, [readAgent[d] EXCEPT !.status =
                      IF readAgent[d].live # NoVersion THEN "ACTIVE" ELSE "BLOCKED"])
    /\ Goto(d, "blocked")
    /\ UNCHANGED <<record, repo, pull, next, readRecord, finished, aborts>>

\* ... and settles the record.
RecordBlocked(d) ==
    /\ pc[d] = "blocked"
    /\ Update(d, WithStatus(record[d], "POLICY_CHECK", "BLOCKED", "BLOCKED"))
    /\ Stop(d)
    /\ UNCHANGED <<agent, repo, pull, next, readAgent, readRecord, finished, aborts>>

\* A manual deployment waits for its approval; the task ends here.
Park(d) ==
    /\ pc[d] = "park"
    /\ Update(d, WithStatus(record[d], "POLICY_CHECK", "PASSED", "PENDING_APPROVAL"))
    /\ Stop(d)
    /\ UNCHANGED <<agent, repo, pull, next, readAgent, readRecord, finished, aborts>>

\* _finish, for a run that went on and for one a human has approved: the pull
\* request is merged if there is one, ...
MergePullRequest(p) ==
    /\ pc[p] = "merge"
    /\ pull' = [pull EXCEPT ![Of(p)] = IF @ = "open" THEN "merged" ELSE @]
    /\ Goto(p, "apply")
    /\ UNCHANGED <<agent, record, repo, next, readAgent, readRecord, finished, aborts>>

\* ... the apply stages are written, ...
Apply(p) ==
    /\ pc[p] = "apply"
    /\ \E result \in FinishPlan[next[p]][2] :
         PutRecord(p, WithStage(readRecord[p], FinishPlan[next[p]][1], result))
    /\ NextInPlan(p, FinishPlan, "activate")
    /\ UNCHANGED <<agent, repo, pull, readAgent, finished, aborts>>

\* ... the version goes live, ...
MarkActive(p) ==
    /\ pc[p] = "activate"
    /\ PutAgent(p, [status |-> "ACTIVE", live |-> record[Of(p)].version])
    /\ finished' = [finished EXCEPT ![Of(p)] = @ + 1]
    /\ Goto(p, "complete")
    /\ UNCHANGED <<record, repo, pull, next, readRecord, aborts>>

\* ... and the record is settled.
RecordActive(p) ==
    /\ pc[p] = "complete"
    /\ PutRecord(p, WithStatus(readRecord[p], "HEALTH_CHECK", "PASSED", "ACTIVE"))
    /\ Stop(p)
    /\ UNCHANGED <<agent, repo, pull, next, readAgent, finished, aborts>>

(***************************************************************************)
(* The approve route.                                                      *)
(***************************************************************************)
\* Mutants of Approvable: an approved deployment is approvable again; the status
\* is not looked at.
ApprovableAgain(d) ==
    record[d].status = "PENDING_APPROVAL" /\ record[d].mode = "manual"
ApprovableAnyStatus(d) ==
    record[d].status # "absent" /\ record[d].mode = "manual" /\ ~record[d].approved

Approvable(d) ==
    /\ record[d].status = "PENDING_APPROVAL"
    /\ record[d].mode = "manual"
    /\ ~record[d].approved

\* The 409s; what passes them reads the record again before it writes.
CheckApprovable(a, d) ==
    /\ pc[<<a, d>>] = "idle"
    /\ Serial => Quiet
    /\ Approvable(d)
    /\ Goto(<<a, d>>, "approve")
    /\ UNCHANGED <<agent, record, repo, pull, next, readAgent, readRecord, finished, aborts>>

RecordApproval(p) ==
    /\ pc[p] = "approve"
    /\ PutRecord(p, [readRecord[p] EXCEPT !.approved = TRUE])
    /\ Goto(p, "notify")
    /\ UNCHANGED <<agent, repo, pull, next, readAgent, finished, aborts>>

\* Mutant of NotifyApproved: the pipeline is not resumed.
NotifyOnly(p) ==
    /\ pc[p] = "notify"
    /\ Stop(p)
    /\ UNCHANGED <<agent, record, repo, pull, next, readAgent, readRecord, finished, aborts>>

\* The event is published and resume_after_approval started as a background task.
NotifyApproved(p) ==
    /\ pc[p] = "notify"
    /\ Goto(p, "merge")
    /\ UNCHANGED <<agent, record, repo, pull, next, readAgent, readRecord, finished, aborts>>

(***************************************************************************)
(* Any other writer of the agent item that leaves live_version alone; the  *)
(* one modelled is update_agent, which resets the status to DRAFT.         *)
(***************************************************************************)
StartEdit(e) ==
    /\ pc[e] = "idle"
    /\ Serial => Quiet
    /\ Goto(e, "edit")
    /\ UNCHANGED <<agent, record, repo, pull, next, readAgent, readRecord, finished, aborts>>

UpdateAgent(e) ==
    /\ pc[e] = "edit"
    /\ PutAgent(e, [readAgent[e] EXCEPT !.status = "DRAFT"])
    /\ Stop(e)
    /\ UNCHANGED <<record, repo, pull, next, readRecord, finished, aborts>>

\* The process stops, or a store, git or EventBridge call raises out of it (a
\* provider may refuse to merge a pull request a second time); a trigger that dies
\* among its git calls may have created the repository.
Abort(p) ==
    /\ pc[p] \notin {"idle", "done"}
    /\ aborts < MaxAborts
    /\ aborts' = aborts + 1
    /\ repo' \in IF pc[p] = "git" THEN {repo, TRUE} ELSE {repo}
    /\ next' = [next EXCEPT ![p] = 1]
    /\ readAgent' = [readAgent EXCEPT ![p] = Unread]
    /\ readRecord' = [readRecord EXCEPT ![p] = Unread]
    /\ Stop(p)
    /\ UNCHANGED <<agent, record, pull, finished>>

TriggerStep(d) ==
    GitOperations(d) \/ TriggerFails(d) \/ PublishEvent(d) \/ RecordTrigger(d)

RunStep(d) ==
    \/ Run(d) \/ PolicyPass(d) \/ PolicyBlock(d) \/ MarkBlocked(d)
    \/ RecordBlocked(d) \/ Park(d)

FinishStep(p) ==
    MergePullRequest(p) \/ Apply(p) \/ MarkActive(p) \/ RecordActive(p)

ApproveStep(p) == RecordApproval(p) \/ NotifyApproved(p)

\* The steps a started process takes on its own.
Step(p) ==
    \/ ReadAgent(p) \/ ReadRecord(p) \/ FinishStep(p) \/ ApproveStep(p) \/ UpdateAgent(p)
    \/ p \in Deployments /\ (TriggerStep(p) \/ RunStep(p))

Next ==
    \/ \E d \in Deployments : CreateDeployment(d)
    \/ \E a \in Approvers, d \in Deployments : CheckApprovable(a, d)
    \/ \E e \in Editors : StartEdit(e)
    \/ \E p \in Proc : Step(p) \/ Abort(p)

Spec == Init /\ [][Next]_vars

\* A handler or background task that has started runs on until it ends or aborts.
Fairness == \A p \in Proc : WF_vars(Step(p))

FairSpec == Spec /\ Fairness

----
(***************************************************************************)
(* Properties.                                                             *)
(***************************************************************************)
AgentItem == [status : {"DRAFT", "DEPLOYING", "ACTIVE", "BLOCKED"},
              live : Versions \cup {NoVersion}]

DeploymentRecord ==
    [status : {"PENDING", "PENDING_APPROVAL"} \cup Settled, version : Versions,
     mode : Modes, approved : BOOLEAN, stages : [Stage -> StageStatus]]

Label == {"idle", "git", "publish", "run", "policy", "park", "blocked", "merge",
          "notify", "done"}
           \cup ReadsAgent \cup ReadsRecord

\* Type invariant of the tables and of what the processes hold.
TypeOK ==
    /\ agent \in AgentItem
    /\ record \in [Deployments -> DeploymentRecord \cup {Absent}]
    /\ repo \in BOOLEAN
    /\ pull \in [Deployments -> {"none", "open", "merged", "closed"}]
    /\ pc \in [Proc -> Label]
    /\ next \in [Proc -> Nat \ {0}]
    /\ readAgent \in [Proc -> AgentItem \cup {Unread}]
    /\ readRecord \in [Proc -> DeploymentRecord \cup {Unread}]
    /\ finished \in [Deployments -> Nat]
    /\ aborts \in Nat

\* A deployment whose version may be put in front of users: its policy check has
\* passed and, in manual mode, a human has approved it.
Vetted(d) ==
    /\ record[d].status # "absent"
    /\ record[d].stages["POLICY_CHECK"] = "PASSED"
    /\ record[d].mode = "manual" => record[d].approved

\* A version goes live only through a deployment of it that was vetted, however
\* deployments and approvals overlap (policy gate and manual mode of
\* DeploymentPipelineSimulator.run and approve_deployment).
LiveIsVetted ==
    agent.live # NoVersion =>
        \E d \in Deployments : Vetted(d) /\ record[d].version = agent.live

\* No stage of the apply half runs, and no pull request is merged, for a
\* deployment that is not vetted (_finish is reached only past both gates).
ApplyIsVetted ==
    \A d \in Deployments :
        \/ pull[d] = "merged"
        \/ record[d].status # "absent" /\ record[d].stages["APPLYING"] # "PENDING"
        => Vetted(d)

\* The agent's status and its live version agree: an ACTIVE agent has one, a
\* BLOCKED one has none (mark_deployment_blocked's "previous version remains LIVE").
StatusMatchesLive ==
    /\ agent.status = "ACTIVE" => agent.live # NoVersion
    /\ agent.status = "BLOCKED" => agent.live = NoVersion

\* R22: only MarkActive moves live_version, and only to its deployment's version;
\* triggers, failures, blocks, approvals and edits leave it alone.
LiveMovesOnlyByMarkActive ==
    [][agent'.live # agent.live =>
         \E d \in Deployments :
            finished'[d] = finished[d] + 1 /\ agent'.live = record[d].version]_vars

\* The outcome of a deployment is final: update_stage never takes a record out of
\* ACTIVE, BLOCKED or FAILED.
OutcomeIsFinal ==
    [][\A d \in Deployments :
         record[d].status \in Settled => record'[d].status = record[d].status]_vars

\* approve_deployment: a second approval never re-approves, so a deployment is
\* applied and made live at most once.
AppliedAtMostOnce == \A d \in Deployments : finished[d] <= 1

\* An approved deployment goes live (record_approval, resume_after_approval).
ApprovedGoesLive ==
    \A d \in Deployments :
        record[d].status = "PENDING_APPROVAL" /\ record[d].approved
            ~> record[d].status = "ACTIVE"

\* The agent does not stay DEPLOYING unless a deployment waits for a human.
DeployingEnds ==
    agent.status = "DEPLOYING" ~>
        \/ agent.status # "DEPLOYING"
        \/ \E d \in Deployments : record[d].status = "PENDING_APPROVAL"

\* The abstract specification this one implements however requests overlap. Being
\* applied is having made the version live: the simulator applies nothing else.
Contract == INSTANCE DeploymentContract WITH
    status <- [d \in Deployments |->
                 IF finished[d] > 0 THEN "applied"
                 ELSE IF Vetted(d) THEN "cleared"
                 ELSE IF record[d].status # "absent" THEN "requested" ELSE "absent"],
    version <- [d \in Deployments |->
                  IF record[d].status # "absent" THEN record[d].version ELSE NoVersion],
    live <- agent.live

\* A deployment is vetted before it goes live, and an agent item written back late
\* holds a version that was live before or none (run, approve_deployment, _finish and
\* the read-modify-writes of the two stores).
ImplementsContract == Contract!Spec
====
