---- MODULE DeploymentWorkflow ----
(***************************************************************************)
(* The two pipelines that carry a triggered deployment of one agent out:   *)
(* the Step Functions workflow (step_functions/deployment_workflow.json,   *)
(* its Lambdas in lambda_handlers/ and its CodeBuild projects in           *)
(* codebuild/), started by an EventBridge event, and the customer's own    *)
(* CI, which runs the workflow file committed to the agent's repository    *)
(* and reports back to app/api/v1/internal.py.                             *)
(*                                                                         *)
(* A Lambda's update of a deployment record is a get and a put of the      *)
(* whole item; a build's is a get and an update of the attributes stages,  *)
(* current_stage and status. Nothing retries: a task that raises goes to   *)
(* MarkFailed, a Mark task that raises ends the execution. Versions are    *)
(* named by the deployment that carries them.                              *)
(***************************************************************************)
EXTENDS Naturals, Sequences

CONSTANTS
    Deployments,    \* deployment ids
    Executions,     \* executions EventBridge may start
    Scans,          \* branches of the Parallel state
    Modes,          \* approval modes the workflow file may have been rendered for
    Installations,  \* what may be installed: subsets of {"step_functions", "ci"}
    NoDeployment,   \* not a deployment
    Overlap,        \* may a repeated event start an execution while another one runs?
    MaxFaults       \* bound on raised tasks, lost or repeated events, broken builds

ASSUME NoDeploymentAssumption == NoDeployment \notin Deployments
ASSUME ModesAssumption == Modes \subseteq {"automated", "manual"}
ASSUME InstallationsAssumption == Installations \subseteq SUBSET {"step_functions", "ci"}
ASSUME ScansAssumption == Scans # {}
ASSUME OverlapAssumption == Overlap \in BOOLEAN
ASSUME FaultsAssumption == MaxFaults \in Nat

VARIABLES
    installed,  \* which of the two pipelines this installation has
    agent,      \* the agent item: status and live version
    record,     \* deployment records
    pull,       \* pull request of each deployment; "direct": pushed to the default branch
    events,     \* deployments whose AgentDeploymentRequested event is on the bus
    trigger,    \* what the trigger of each deployment does next
    of,         \* deployment an execution is about
    state,      \* state of the workflow an execution is in
    phase,      \* how far the task of that state is
    verdict,    \* what that task has found and not yet reported
    build,      \* scan builds of an execution
    passed,     \* stages whose build reported PASSED to this execution
    ci,         \* stage the customer's pipeline of a deployment is in
    readAgent,  \* agent item a writer has read and not yet put
    readRecord, \* deployment record a writer has read and not yet put
    applied,    \* executions and customer pipelines that ran terraform apply
    faults

flow == <<of, state, phase, verdict, build, passed>>
outside == <<installed, events, trigger, of, ci>>
vars == <<installed, agent, record, pull, events, trigger, flow, ci,
          readAgent, readRecord, applied, faults>>

Branches == Executions \X Scans
Ci == {"ci"} \X Deployments
Writer == Deployments \cup Executions \cup Branches \cup Ci

ASSUME WritersAssumption ==
    /\ Deployments \cap (Executions \cup Branches \cup Ci) = {}
    /\ Executions \cap (Branches \cup Ci) = {}
    /\ Branches \cap Ci = {}

\* DEPLOYMENT_STAGE_ORDER; the workflow's states run in this order.
Pipeline == <<"VALIDATING", "CHANGE_IMPACT", "GENERATING_IAC", "SECURITY_SCANNING",
              "EVALUATING", "TERRAFORM_VALIDATE", "TERRAFORM_PLAN", "POLICY_CHECK",
              "APPLYING", "DEPLOYING", "HEALTH_CHECK">>
Stage == {Pipeline[i] : i \in 1..11}
StageStatus == {"PENDING", "RUNNING", "PASSED", "FAILED", "BLOCKED"}
Settled == {"ACTIVE", "BLOCKED", "FAILED"}

\* The tasks that are Lambdas around update_stage, and the builds.
LambdaTask == {"VALIDATING", "CHANGE_IMPACT", "GENERATING_IAC", "DEPLOYING", "HEALTH_CHECK"}
BuildTask == {"EVALUATING", "TERRAFORM_VALIDATE", "TERRAFORM_PLAN", "APPLYING"}
MarkTask == {"MarkActive", "MarkBlocked", "MarkFailed"}
Ended == {"ended", "died"}

\* Next of each state of the workflow; PolicyGateChoice is part of POLICY_CHECK.
NextState(s) ==
    IF s = "HEALTH_CHECK" THEN "MarkActive"
    ELSE CHOOSE t \in Stage : \E i \in 1..10 : Pipeline[i] = s /\ Pipeline[i + 1] = t

Absent == [status |-> "absent"]
Unread == [status |-> "unread"]
NewRecord == [status |-> "PENDING", stages |-> [s \in Stage |-> "PENDING"]]

Init ==
    /\ installed \in Installations
    /\ agent = [status |-> "DRAFT", live |-> NoDeployment]
    /\ record = [d \in Deployments |-> Absent]
    /\ pull = [d \in Deployments |-> "none"]
    /\ events = {}
    /\ trigger = [d \in Deployments |-> "idle"]
    /\ of = [e \in Executions |-> NoDeployment]
    /\ state = [e \in Executions |-> "idle"]
    /\ phase = [e \in Executions |-> "start"]
    /\ verdict = [e \in Executions |-> "none"]
    /\ build = [b \in Branches |-> "none"]
    /\ passed = [e \in Executions |-> {}]
    /\ ci = [d \in Deployments |-> "idle"]
    /\ readAgent = [w \in Writer |-> Unread]
    /\ readRecord = [w \in Writer |-> Unread]
    /\ applied = {}
    /\ faults = 0

Fault == faults < MaxFaults /\ faults' = faults + 1

(***************************************************************************)
(* The halves of a read-modify-write of the two items.                     *)
(***************************************************************************)
GetAgent(w) == readAgent' = [readAgent EXCEPT ![w] = agent]
PutAgent(w, item) == agent' = item /\ readAgent' = [readAgent EXCEPT ![w] = Unread]
GetRecord(w, d) == readRecord' = [readRecord EXCEPT ![w] = record[d]]
PutRecord(w, d, item) ==
    /\ record' = [record EXCEPT ![d] = item]
    /\ readRecord' = [readRecord EXCEPT ![w] = Unread]

\* What update_stage puts: one stage result, and the status when one is given.
WithStage(item, s, result, status) ==
    [item EXCEPT !.stages = [@ EXCEPT ![s] = result], !.status = status]

\* Mutants of WithFailure: the stage's name becomes the status; no status is passed.
StatusUnknown(item) == [item EXCEPT !.status = "UNKNOWN"]
StageOnly(item) == item

\* MarkFailed's stage result goes under "UNKNOWN", a stage nobody reads.
WithFailure(item) == [item EXCEPT !.status = "FAILED"]

\* Mutant of ShellUpdate: the stages it did not run are written from scratch.
ShellOverwrite(w, d, s, result) ==
    /\ record' = [record EXCEPT ![d].stages = [NewRecord.stages EXCEPT ![s] = result],
                                ![d].status = s]
    /\ readRecord' = [readRecord EXCEPT ![w] = Unread]

\* What write_stage_result.sh updates: the stages it read with one replaced, and
\* the status, which it sets to the stage's name whatever the result is.
ShellUpdate(w, d, s, result) ==
    /\ record' = [record EXCEPT ![d].stages = [readRecord[w].stages EXCEPT ![s] = result],
                                ![d].status = s]
    /\ readRecord' = [readRecord EXCEPT ![w] = Unread]

\* mark_deployment_blocked and mark_deployment_failed: fall back to ACTIVE when
\* some version is live.
FallBack(item, status) ==
    [item EXCEPT !.status = IF item.live # NoDeployment THEN "ACTIVE" ELSE status]

(***************************************************************************)
(* The trigger, from the commit on. The event goes out before the agent    *)
(* item is updated; put_events may fail for an entry without raising, and  *)
(* may raise although the event got through.                               *)
(***************************************************************************)
Trigger(d) ==
    /\ trigger[d] = "idle"
    /\ trigger' = [trigger EXCEPT ![d] = "publish"]
    /\ record' = [record EXCEPT ![d] = NewRecord]
    /\ \E p \in {"direct", "open"} : pull' = [pull EXCEPT ![d] = p]
    /\ UNCHANGED <<installed, agent, events, flow, ci, readAgent, readRecord,
                   applied, faults>>

PublishEvent(d) ==
    /\ trigger[d] = "publish"
    /\ \/ /\ trigger' = [trigger EXCEPT ![d] = "record"]
          /\ events' = events \cup {d}
          /\ UNCHANGED faults
       \/ /\ trigger' = [trigger EXCEPT ![d] = "record"]
          /\ Fault
          /\ UNCHANGED events
       \/ /\ trigger' = [trigger EXCEPT ![d] = "fail"]
          /\ Fault
          /\ events' \in {events, events \cup {d}}
    /\ UNCHANGED <<installed, agent, record, pull, flow, ci, readAgent,
                   readRecord, applied>>

\* The except branch around trigger_deployment.
TriggerFailed(d) ==
    /\ \/ /\ trigger[d] = "fail"
          /\ trigger' = [trigger EXCEPT ![d] = "failing"]
          /\ GetRecord(d, d)
          /\ UNCHANGED record
       \/ /\ trigger[d] = "failing"
          /\ trigger' = [trigger EXCEPT ![d] = "failed"]
          /\ PutRecord(d, d, WithStage(readRecord[d], "GENERATING_IAC", "FAILED", "FAILED"))
    /\ UNCHANGED <<installed, agent, pull, events, flow, ci, readAgent, applied,
                   faults>>

RecordTrigger(d) ==
    /\ \/ /\ trigger[d] = "record"
          /\ trigger' = [trigger EXCEPT ![d] = "recording"]
          /\ GetAgent(d)
          /\ UNCHANGED agent
       \/ /\ trigger[d] = "recording"
          /\ trigger' = [trigger EXCEPT ![d] = "done"]
          /\ PutAgent(d, [readAgent[d] EXCEPT !.status = "DEPLOYING"])
    /\ UNCHANGED <<installed, record, pull, events, flow, ci, readRecord, applied,
                   faults>>

(***************************************************************************)
(* The workflow. EventBridge delivers at least once.                       *)
(***************************************************************************)
StartExecution(e, d) ==
    /\ "step_functions" \in installed
    /\ state[e] = "idle"
    /\ d \in events
    /\ IF \E f \in Executions : of[f] = d THEN Fault ELSE UNCHANGED faults
    /\ Overlap \/ \A f \in Executions : of[f] = d => state[f] \in Ended
    /\ of' = [of EXCEPT ![e] = d]
    /\ state' = [state EXCEPT ![e] = "VALIDATING"]
    /\ UNCHANGED <<installed, agent, record, pull, events, trigger, phase,
                   verdict, build, passed, ci, readAgent, readRecord, applied>>

Goto(e, s) ==
    /\ state' = [state EXCEPT ![e] = s]
    /\ phase' = [phase EXCEPT ![e] = "start"]
    /\ verdict' = [verdict EXCEPT ![e] = "none"]

Within(e, p) ==
    /\ phase' = [phase EXCEPT ![e] = p]
    /\ UNCHANGED state

\* A Lambda stage reads its inputs and the record ...
ReadStage(e) ==
    /\ state[e] \in LambdaTask
    /\ phase[e] = "start"
    /\ GetRecord(e, of[e])
    /\ Within(e, "read")
    /\ UNCHANGED <<outside, agent, record, pull, verdict, build, passed, readAgent,
                   applied, faults>>

\* Mutant of PassTask: DEPLOYING already says ACTIVE, HEALTH_CHECK says that it runs.
PassTaskEarly(e, s, status) ==
    /\ state[e] = s
    /\ phase[e] = "read"
    /\ PutRecord(e, of[e], WithStage(readRecord[e], s, "PASSED",
                                     IF s = "DEPLOYING" THEN "ACTIVE" ELSE s))
    /\ Goto(e, NextState(s))
    /\ UNCHANGED <<outside, agent, pull, build, passed, readAgent, applied, faults>>

\* ... and puts it back with the stage passed.
PassTask(e, s, status) ==
    /\ state[e] = s
    /\ phase[e] = "read"
    /\ PutRecord(e, of[e], WithStage(readRecord[e], s, "PASSED", status))
    /\ Goto(e, NextState(s))
    /\ UNCHANGED <<outside, agent, pull, build, passed, readAgent, applied, faults>>

Validating(e) == PassTask(e, "VALIDATING", "CHANGE_IMPACT")
ChangeImpact(e) == PassTask(e, "CHANGE_IMPACT", "GENERATING_IAC")
GeneratingIac(e) == PassTask(e, "GENERATING_IAC", "SECURITY_SCANNING")
Deploying(e) == PassTask(e, "DEPLOYING", "HEALTH_CHECK")
\* The status is ACTIVE before MarkActive has moved the agent.
HealthCheck(e) == PassTask(e, "HEALTH_CHECK", "ACTIVE")

\* VALIDATING finds no contract or a cycle. HEALTH_CHECK rejects only what it can
\* probe, and nothing records a health_check_url.
RejectStage(e) ==
    /\ state[e] = "VALIDATING"
    /\ phase[e] = "read"
    /\ PutRecord(e, of[e], WithStage(readRecord[e], "VALIDATING", "FAILED", "FAILED"))
    /\ Goto(e, "MarkFailed")
    /\ UNCHANGED <<outside, agent, pull, build, passed, readAgent, applied, faults>>

(***************************************************************************)
(* The five scans run in parallel and write the same stage. When one       *)
(* fails, so does the Parallel state: the others are stopped, or are not.  *)
(***************************************************************************)
StartScans(e) ==
    /\ state[e] = "SECURITY_SCANNING"
    /\ phase[e] = "start"
    /\ build' = [b \in Branches |-> IF b[1] = e THEN "running" ELSE build[b]]
    /\ Within(e, "waiting")
    /\ UNCHANGED <<outside, agent, record, pull, verdict, passed, readAgent, readRecord,
                   applied, faults>>

Scanned(b) ==
    /\ build[b] = "running"
    /\ \E found \in {"clean", "critical"} : build' = [build EXCEPT ![b] = found]
    /\ GetRecord(b, of[b[1]])
    /\ UNCHANGED <<outside, agent, record, pull, state, phase, verdict, passed,
                   readAgent, applied, faults>>

ReportScan(b) ==
    /\ \/ /\ build[b] = "clean"
          /\ ShellUpdate(b, of[b[1]], "SECURITY_SCANNING", "PASSED")
          /\ build' = [build EXCEPT ![b] = "passed"]
       \/ /\ build[b] = "critical"
          /\ ShellUpdate(b, of[b[1]], "SECURITY_SCANNING", "FAILED")
          /\ build' = [build EXCEPT ![b] = "failed"]
    /\ UNCHANGED <<outside, agent, pull, state, phase, verdict, passed, readAgent,
                   applied, faults>>

ScanBreaks(b) ==
    /\ build[b] = "running"
    /\ Fault
    /\ build' = [build EXCEPT ![b] = "broken"]
    /\ UNCHANGED <<outside, agent, record, pull, state, phase, verdict, passed,
                   readAgent, readRecord, applied>>

StopScan(b) ==
    /\ build[b] \in {"running", "clean", "critical"}
    /\ state[b[1]] # "SECURITY_SCANNING"
    /\ build' = [build EXCEPT ![b] = "stopped"]
    /\ readRecord' = [readRecord EXCEPT ![b] = Unread]
    /\ UNCHANGED <<outside, agent, record, pull, state, phase, verdict, passed,
                   readAgent, applied, faults>>

\* Mutants of JoinScans: the first clean scan is enough; a failed scan is not noticed.
JoinAnyScan(e) ==
    /\ state[e] = "SECURITY_SCANNING"
    /\ phase[e] = "waiting"
    /\ \/ /\ \E s \in Scans : build[<<e, s>>] = "passed"
          /\ Goto(e, "EVALUATING")
       \/ /\ \E s \in Scans : build[<<e, s>>] \in {"failed", "broken"}
          /\ Goto(e, "MarkFailed")
    /\ UNCHANGED <<outside, agent, record, pull, build, passed, readAgent, readRecord, applied,
                   faults>>

JoinAllScans(e) ==
    /\ state[e] = "SECURITY_SCANNING"
    /\ phase[e] = "waiting"
    /\ \A s \in Scans : build[<<e, s>>] = "passed"
    /\ Goto(e, "EVALUATING")
    /\ UNCHANGED <<outside, agent, record, pull, build, passed, readAgent, readRecord, applied,
                   faults>>

JoinScans(e) ==
    /\ state[e] = "SECURITY_SCANNING"
    /\ phase[e] = "waiting"
    /\ \/ /\ \A s \in Scans : build[<<e, s>>] = "passed"
          /\ Goto(e, "EVALUATING")
       \/ /\ \E s \in Scans : build[<<e, s>>] \in {"failed", "broken"}
          /\ Goto(e, "MarkFailed")
    /\ UNCHANGED <<outside, agent, record, pull, build, passed, readAgent, readRecord, applied,
                   faults>>

(***************************************************************************)
(* The sequential builds. The three terraform builds announce themselves   *)
(* first; all but the evaluation may find a failure of their own.          *)
(***************************************************************************)
AnnounceBuild(e) ==
    /\ state[e] \in BuildTask \ {"EVALUATING"}
    /\ \/ /\ phase[e] = "start"
          /\ GetRecord(e, of[e])
          /\ Within(e, "announce")
          /\ UNCHANGED record
       \/ /\ phase[e] = "announce"
          /\ ShellUpdate(e, of[e], state[e], "RUNNING")
          /\ Within(e, "running")
    /\ UNCHANGED <<outside, agent, pull, verdict, build, passed, readAgent, applied,
                   faults>>

RunBuild(e) ==
    /\ state[e] \in BuildTask
    /\ phase[e] = IF state[e] = "EVALUATING" THEN "start" ELSE "running"
    /\ \E v \in IF state[e] = "EVALUATING" THEN {"PASSED"} ELSE {"PASSED", "FAILED"} :
           verdict' = [verdict EXCEPT ![e] = v]
    /\ applied' = IF state[e] = "APPLYING" THEN applied \cup {e} ELSE applied
    /\ GetRecord(e, of[e])
    /\ Within(e, "report")
    /\ UNCHANGED <<outside, agent, record, pull, build, passed, readAgent, faults>>

ReportBuild(e) ==
    /\ state[e] \in BuildTask
    /\ phase[e] = "report"
    /\ ShellUpdate(e, of[e], state[e], verdict[e])
    /\ \/ /\ verdict[e] = "PASSED"
          /\ passed' = [passed EXCEPT ![e] = @ \cup {state[e]}]
          /\ Goto(e, NextState(state[e]))
       \/ /\ verdict[e] = "FAILED"
          /\ Goto(e, "MarkFailed")
          /\ UNCHANGED passed
    /\ UNCHANGED <<outside, agent, pull, build, readAgent, applied, faults>>

(***************************************************************************)
(* The policy check decides on the record as it is, writes the decision,   *)
(* moves the agent on a block, and then merges or closes the pull request. *)
(***************************************************************************)
\* policy_gate: every blocking issue the scan builds write is one of
\* CRITICAL_BLOCK_CONDITIONS.
PolicyGate(item) == IF item.stages["SECURITY_SCANNING"] = "FAILED" THEN "BLOCK" ELSE "PASS"

Decision(item) == IF item.stages["EVALUATING"] = "FAILED" THEN "BLOCK" ELSE PolicyGate(item)

Decide(e) ==
    /\ state[e] = "POLICY_CHECK"
    /\ phase[e] = "start"
    /\ verdict' = [verdict EXCEPT ![e] = Decision(record[of[e]])]
    /\ Within(e, "decided")
    /\ UNCHANGED <<outside, agent, record, pull, build, passed, readAgent, readRecord, applied,
                   faults>>

EnforcePolicyGate(e) ==
    /\ state[e] = "POLICY_CHECK"
    /\ \/ /\ phase[e] = "decided"
          /\ GetRecord(e, of[e])
          /\ Within(e, "read")
          /\ UNCHANGED record
       \/ /\ phase[e] = "read"
          /\ verdict[e] = "BLOCK"
          /\ PutRecord(e, of[e], WithStage(readRecord[e], "POLICY_CHECK", "BLOCKED", "BLOCKED"))
          /\ Within(e, "block")
       \/ /\ phase[e] = "read"
          /\ verdict[e] = "PASS"
          /\ PutRecord(e, of[e], WithStage(readRecord[e], "POLICY_CHECK", "PASSED", "APPLYING"))
          /\ Within(e, "pull")
    /\ UNCHANGED <<outside, agent, pull, verdict, build, passed, readAgent, applied,
                   faults>>

MarkBlockedAgent(e) ==
    /\ state[e] = "POLICY_CHECK"
    /\ \/ /\ phase[e] = "block"
          /\ GetAgent(e)
          /\ Within(e, "blocking")
          /\ UNCHANGED agent
       \/ /\ phase[e] = "blocking"
          /\ PutAgent(e, FallBack(readAgent[e], "BLOCKED"))
          /\ Within(e, "pull")
    /\ UNCHANGED <<outside, record, pull, verdict, build, passed, readRecord, applied,
                   faults>>

\* The provider refuses to close what is merged and to merge what is not open.
PullRequest(e) ==
    LET d == of[e] IN
    /\ state[e] = "POLICY_CHECK"
    /\ phase[e] = "pull"
    /\ \/ /\ verdict[e] = "BLOCK"
          /\ pull[d] # "merged"
          /\ pull' = [pull EXCEPT ![d] = IF @ = "direct" THEN @ ELSE "closed"]
          /\ Goto(e, "MarkBlocked")
       \/ /\ verdict[e] = "PASS"
          /\ pull[d] \in {"direct", "open"}
          /\ pull' = [pull EXCEPT ![d] = IF @ = "direct" THEN @ ELSE "merged"]
          /\ Goto(e, "APPLYING")
       \/ /\ \/ verdict[e] = "BLOCK" /\ pull[d] = "merged"
             \/ verdict[e] = "PASS" /\ pull[d] \in {"merged", "closed"}
          /\ Goto(e, "MarkFailed")
          /\ UNCHANGED pull
    /\ UNCHANGED <<outside, agent, record, build, passed, readAgent, readRecord,
                   applied, faults>>

(***************************************************************************)
(* MarkBlocked does nothing. MarkActive and MarkFailed move the agent and  *)
(* then the record.                                                        *)
(***************************************************************************)
MarkBlocked(e) ==
    /\ state[e] = "MarkBlocked"
    /\ Goto(e, "ended")
    /\ UNCHANGED <<outside, agent, record, pull, build, passed, readAgent, readRecord, applied,
                   faults>>

MarkAgent(e) ==
    /\ state[e] \in {"MarkActive", "MarkFailed"}
    /\ \/ /\ phase[e] = "start"
          /\ GetAgent(e)
          /\ Within(e, "agent")
          /\ UNCHANGED agent
       \/ /\ phase[e] = "agent"
          /\ PutAgent(e, IF state[e] = "MarkActive"
                         THEN [status |-> "ACTIVE", live |-> of[e]]
                         ELSE FallBack(readAgent[e], "FAILED"))
          /\ Within(e, "marked")
    /\ UNCHANGED <<outside, record, pull, verdict, build, passed, readRecord, applied,
                   faults>>

MarkRecord(e) ==
    /\ state[e] \in {"MarkActive", "MarkFailed"}
    /\ \/ /\ phase[e] = "marked"
          /\ GetRecord(e, of[e])
          /\ Within(e, "read")
          /\ UNCHANGED <<record, verdict>>
       \/ /\ phase[e] = "read"
          /\ PutRecord(e, of[e], IF state[e] = "MarkActive"
                                 THEN WithStage(readRecord[e], "HEALTH_CHECK", "PASSED", "ACTIVE")
                                 ELSE WithFailure(readRecord[e]))
          /\ Goto(e, "ended")
    /\ UNCHANGED <<outside, agent, pull, build, passed, readAgent, applied, faults>>

\* Catch: States.ALL of every task before the Mark tasks, wherever it has got to.
Raise(e) ==
    /\ state[e] \in Stage \ {"SECURITY_SCANNING"}
    /\ Fault
    /\ Goto(e, "MarkFailed")
    /\ readAgent' = [readAgent EXCEPT ![e] = Unread]
    /\ readRecord' = [readRecord EXCEPT ![e] = Unread]
    /\ UNCHANGED <<outside, agent, record, pull, build, passed, applied>>

\* The Mark tasks have no Catch and no Retry.
Die(e) ==
    /\ state[e] \in MarkTask
    /\ Fault
    /\ Goto(e, "died")
    /\ readAgent' = [readAgent EXCEPT ![e] = Unread]
    /\ readRecord' = [readRecord EXCEPT ![e] = Unread]
    /\ UNCHANGED <<outside, agent, record, pull, build, passed, applied>>

(***************************************************************************)
(* The customer's pipeline runs on what reaches the default branch: scans, *)
(* terraform and policy checks and plan, a gate in manual mode, apply and  *)
(* the deployment-complete webhook. Its runs are not serialised.           *)
(***************************************************************************)
\* Whoever reviews the pull request in the provider merges it.
CustomerMerges(d) ==
    /\ "ci" \in installed
    /\ pull[d] = "open"
    /\ pull' = [pull EXCEPT ![d] = "merged"]
    /\ UNCHANGED <<installed, agent, record, events, trigger, flow, ci, readAgent,
                   readRecord, applied, faults>>

CiStarts(d) ==
    /\ "ci" \in installed
    /\ ci[d] = "idle"
    /\ pull[d] \in {"direct", "merged"}
    /\ ci' = [ci EXCEPT ![d] = "checks"]
    /\ UNCHANGED <<installed, agent, record, pull, events, trigger, flow,
                   readAgent, readRecord, applied, faults>>

\* Scans, terraform checks, policy checks, plan. The mode is the one the workflow file
\* was rendered for when it was first committed.
CiChecks(d) ==
    /\ ci[d] = "checks"
    /\ \E mode \in Modes : ci' = [ci EXCEPT ![d] = IF mode = "manual" THEN "gate" ELSE "apply"]
    /\ UNCHANGED <<installed, agent, record, pull, events, trigger, flow,
                   readAgent, readRecord, applied, faults>>

CiApplies(d) ==
    /\ ci[d] = "apply"
    /\ ci' = [ci EXCEPT ![d] = "notify"]
    /\ applied' = applied \cup {<<"ci", d>>}
    /\ UNCHANGED <<installed, agent, record, pull, events, trigger, flow,
                   readAgent, readRecord, faults>>

CiApproved(d) ==
    /\ ci[d] = "gate"
    /\ ci' = [ci EXCEPT ![d] = "apply"]
    /\ UNCHANGED <<installed, agent, record, pull, events, trigger, flow,
                   readAgent, readRecord, applied, faults>>

CiFails(d) ==
    /\ ci[d] \in {"checks", "apply", "notify"}
    /\ ci' = [ci EXCEPT ![d] = "failed"]
    /\ applied' \in IF ci[d] = "apply" THEN {applied, applied \cup {<<"ci", d>>}} ELSE {applied}
    /\ UNCHANGED <<installed, agent, record, pull, events, trigger, flow,
                   readAgent, readRecord, faults>>

\* The webhook: mark_deployment_active, then update_stage.
DeploymentComplete(d) ==
    LET w == <<"ci", d>> IN
    /\ \/ /\ ci[d] = "notify"
          /\ ci' = [ci EXCEPT ![d] = "agent"]
          /\ GetAgent(w)
          /\ UNCHANGED <<agent, record, readRecord>>
       \/ /\ ci[d] = "agent"
          /\ ci' = [ci EXCEPT ![d] = "marked"]
          /\ PutAgent(w, [status |-> "ACTIVE", live |-> d])
          /\ UNCHANGED <<record, readRecord>>
       \/ /\ ci[d] = "marked"
          /\ ci' = [ci EXCEPT ![d] = "read"]
          /\ GetRecord(w, d)
          /\ UNCHANGED <<agent, record, readAgent>>
       \/ /\ ci[d] = "read"
          /\ ci' = [ci EXCEPT ![d] = "done"]
          /\ PutRecord(w, d, WithStage(readRecord[w], "HEALTH_CHECK", "PASSED", "ACTIVE"))
          /\ UNCHANGED <<agent, readAgent>>
    /\ UNCHANGED <<installed, pull, events, trigger, flow, applied, faults>>

Execution(e) ==
    \/ \E d \in Deployments : StartExecution(e, d)
    \/ ReadStage(e) \/ RejectStage(e)
    \/ Validating(e) \/ ChangeImpact(e) \/ GeneratingIac(e) \/ Deploying(e) \/ HealthCheck(e)
    \/ StartScans(e) \/ JoinScans(e)
    \/ AnnounceBuild(e) \/ RunBuild(e) \/ ReportBuild(e)
    \/ Decide(e) \/ EnforcePolicyGate(e) \/ MarkBlockedAgent(e) \/ PullRequest(e)
    \/ MarkBlocked(e) \/ MarkAgent(e) \/ MarkRecord(e)

Branch(b) == Scanned(b) \/ ReportScan(b)

Next ==
    \/ \E d \in Deployments :
          \/ Trigger(d) \/ PublishEvent(d) \/ TriggerFailed(d) \/ RecordTrigger(d)
          \/ CustomerMerges(d)
          \/ CiStarts(d) \/ CiChecks(d) \/ CiApproved(d) \/ CiApplies(d) \/ CiFails(d)
          \/ DeploymentComplete(d)
    \/ \E e \in Executions : Execution(e) \/ Raise(e) \/ Die(e)
    \/ \E b \in Branches : Branch(b) \/ ScanBreaks(b) \/ StopScan(b)

Spec == Init /\ [][Next]_vars

\* Step Functions and CodeBuild run what they have started.
Fairness ==
    /\ \A e \in Executions : WF_vars(Execution(e))
    /\ \A b \in Branches : WF_vars(Branch(b))

FairSpec == Spec /\ Fairness

(***************************************************************************)
(* Properties.                                                             *)
(***************************************************************************)
RecordType == [status : {"PENDING"} \cup Stage \cup Settled, stages : [Stage -> StageStatus]]
AgentType == [status : {"DRAFT", "DEPLOYING", "ACTIVE", "BLOCKED", "FAILED"},
              live : Deployments \cup {NoDeployment}]
TypeOK ==
    /\ installed \in Installations
    /\ agent \in AgentType
    /\ record \in [Deployments -> RecordType \cup {Absent}]
    /\ pull \in [Deployments -> {"none", "direct", "open", "merged", "closed"}]
    /\ events \subseteq Deployments
    /\ trigger \in [Deployments -> {"idle", "publish", "record", "recording", "done", "fail",
                                     "failing", "failed"}]
    /\ of \in [Executions -> Deployments \cup {NoDeployment}]
    /\ state \in [Executions -> {"idle"} \cup Stage \cup MarkTask \cup Ended]
    /\ phase \in [Executions -> {"start", "read", "waiting", "announce", "running", "report",
                                  "decided", "block", "blocking", "pull", "agent", "marked"}]
    /\ verdict \in [Executions -> {"none", "PASSED", "FAILED", "PASS", "BLOCK"}]
    /\ build \in [Branches -> {"none", "running", "clean", "critical", "passed", "failed",
                                "broken", "stopped"}]
    /\ passed \in [Executions -> SUBSET BuildTask]
    /\ ci \in [Deployments -> {"idle", "checks", "gate", "apply", "notify", "agent", "marked",
                                "read", "done", "failed"}]
    /\ readAgent \in [Writer -> AgentType \cup {Unread}]
    /\ readRecord \in [Writer -> RecordType \cup {Unread}]
    /\ applied \subseteq Executions \cup Ci
    /\ faults \in 0..MaxFaults

\* What the workflow applies went through every gate before it: all its own scans
\* reported clean, its evaluation, validation and plan passed, and its pull request,
\* if it had one, is merged - whichever other execution or human also acts on it. The
\* customer's pipeline applies only what is on the default branch.
AppliedIsVetted ==
    /\ \A e \in applied \cap Executions :
           /\ \A s \in Scans : build[<<e, s>>] = "passed"
           /\ {"EVALUATING", "TERRAFORM_VALIDATE", "TERRAFORM_PLAN"} \subseteq passed[e]
           /\ pull[of[e]] \in {"direct", "merged"}
    /\ \A d \in Deployments : <<"ci", d>> \in applied => pull[d] \in {"direct", "merged"}

\* R22: whatever overlaps, fails or is repeated, the live version of the agent is one
\* whose terraform apply has run.
LiveIsApplied ==
    agent.live = NoDeployment \/ <<"ci", agent.live>> \in applied
    \/ \E e \in applied \cap Executions : of[e] = agent.live

\* No other writer of the record than this execution: its event was delivered once,
\* its trigger did not report a failure, no customer pipeline runs.
Alone(e) ==
    /\ "ci" \notin installed
    /\ \A f \in Executions : of[f] = of[e] => f = e
    /\ trigger[of[e]] \notin {"fail", "failing", "failed"}

\* None of its scan builds can have written after it moved on.
Orderly(e) == \A s \in Scans : build[<<e, s>>] \in {"none", "passed"}

\* DeploymentStatusStore.update_stage calls its read-modify-write safe because stages
\* run sequentially. The scans do not; still, an execution alone with its record finds
\* there, when it is past a stage, that the stage passed.
EarlierStagesRecorded ==
    \A e \in Executions :
        state[e] \in Stage \cup {"MarkActive"} /\ Alone(e) =>
            \A i \in 1..11 :
                (\A j \in 1..i : Pipeline[j] # state[e])
                    => record[of[e]].stages[Pipeline[i]] = "PASSED"

\* An execution that ends leaves its record settled: ACTIVE only if it applied, BLOCKED
\* only if it did not.
EndIsSettled ==
    \A e \in Executions :
        state[e] = "ended" /\ Alone(e) /\ Orderly(e) =>
            /\ record[of[e]].status \in Settled
            /\ record[of[e]].status = "ACTIVE" => e \in applied
            /\ record[of[e]].status = "BLOCKED" => e \notin applied

\* A settled record is never taken back to a running stage, as long as its executions
\* were alone with it and their scans had finished when they moved on.
SettledStays ==
    [][\A d \in Deployments :
          /\ record[d].status \in Settled
          /\ \A e \in Executions : of'[e] = d => Alone(e)' /\ Orderly(e)
          => record'[d].status \in Settled]_vars

\* Every execution that starts reaches a Mark task, and gets through it or dies in it.
ExecutionEnds == \A e \in Executions : state[e] # "idle" ~> state[e] \in Ended

\* Terraform apply has run for d.
IsApplied(d) == <<"ci", d>> \in applied \/ \E e \in applied \cap Executions : of[e] = d

\* A pipeline of d is about to apply, past all its gates.
IsCleared(d) ==
    /\ pull[d] \in {"direct", "merged"}
    /\ \/ ci[d] = "apply"
       \/ \E e \in Executions :
             /\ of[e] = d /\ state[e] = "APPLYING"
             /\ \A s \in Scans : build[<<e, s>>] = "passed"
             /\ {"EVALUATING", "TERRAFORM_VALIDATE", "TERRAFORM_PLAN"} \subseteq passed[e]

\* The abstract specification that the two pipelines together implement.
Contract == INSTANCE DeploymentContract WITH
    Versions <- Deployments,
    NoVersion <- NoDeployment,
    status <- [d \in Deployments |->
                 IF IsApplied(d) THEN "applied"
                 ELSE IF IsCleared(d) THEN "cleared"
                 ELSE IF trigger[d] # "idle" THEN "requested" ELSE "absent"],
    version <- [d \in Deployments |-> IF trigger[d] # "idle" THEN d ELSE NoDeployment],
    live <- agent.live

\* Whatever overlaps, fails or is repeated, nothing is applied before its gates and
\* the agent is put on nothing that was not applied (the workflow's states, the
\* customer's jobs and the Mark tasks' writes of the agent item).
ImplementsContract == Contract!Spec
====
