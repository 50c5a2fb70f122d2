---- MODULE DeploymentWorkflowProofs ----
(***************************************************************************)
(* Proofs about DeploymentWorkflow for every set of deployments,           *)
(* executions and scans, however often an event is delivered and however   *)
(* many faults there are.                                                  *)
(***************************************************************************)
EXTENDS DeploymentWorkflow, TLAPS

(***************************************************************************)
(* The inductive invariant. The first part is TypeOK, with a name for each *)
(* conjunct.                                                               *)
(***************************************************************************)
TInstalled == installed \in Installations
TAgent == agent \in AgentType
TRecord == record \in [Deployments -> RecordType \cup {Absent}]
TPull == pull \in [Deployments -> {"none", "direct", "open", "merged", "closed"}]
TEvents == events \subseteq Deployments
TTrigger == trigger \in [Deployments -> {"idle", "publish", "record", "recording", "done",
    "fail", "failing", "failed"}]
TOf == of \in [Executions -> Deployments \cup {NoDeployment}]
TState == state \in [Executions -> {"idle"} \cup Stage \cup MarkTask \cup Ended]
TPhase == phase \in [Executions -> {"start", "read", "waiting", "announce", "running",
    "report", "decided", "block", "blocking", "pull", "agent", "marked"}]
TVerdict == verdict \in [Executions -> {"none", "PASSED", "FAILED", "PASS", "BLOCK"}]
TBuild == build \in [Branches -> {"none", "running", "clean", "critical", "passed",
    "failed", "broken", "stopped"}]
TPassed == passed \in [Executions -> SUBSET BuildTask]
TCi == ci \in [Deployments -> {"idle", "checks", "gate", "apply", "notify", "agent",
    "marked", "read", "done", "failed"}]
TReadAgent == readAgent \in [Writer -> AgentType \cup {Unread}]
TReadRecord == readRecord \in [Writer -> RecordType \cup {Unread}]
TApplied == applied \subseteq Executions \cup Ci
TFaults == faults \in 0..MaxFaults

AfterScans == {"EVALUATING", "TERRAFORM_VALIDATE", "TERRAFORM_PLAN", "POLICY_CHECK", "APPLYING",
               "DEPLOYING", "HEALTH_CHECK", "MarkActive"}
AfterPlan == {"POLICY_CHECK", "APPLYING", "DEPLOYING", "HEALTH_CHECK", "MarkActive"}
AfterPull == {"APPLYING", "DEPLOYING", "HEALTH_CHECK", "MarkActive"}
AfterApply == {"DEPLOYING", "HEALTH_CHECK", "MarkActive"}

\* Nothing happens to a deployment before its trigger.
Untriggered ==
    \A d \in Deployments :
        trigger[d] = "idle" => pull[d] = "none" /\ d \notin events /\ ci[d] = "idle"
\* What is triggered has a record.
Recorded ==
    \A d \in Deployments : trigger[d] # "idle" => record[d] \in RecordType
\* An execution is about a deployment that was triggered.
About ==
    \A e \in Executions : state[e] # "idle" => of[e] \in Deployments /\ trigger[of[e]] # "idle"
NotStarted ==
    \A e \in Executions : state[e] = "idle" => \A s \in Scans : build[<<e, s>>] = "none"
\* A writer puts only what it has read.
AgentByTrigger ==
    \A d \in Deployments : trigger[d] = "recording" => readAgent[d] \in AgentType
RecordByTrigger ==
    \A d \in Deployments : trigger[d] = "failing" => readRecord[d] \in RecordType
AgentHeld ==
    \A e \in Executions : phase[e] \in {"agent", "blocking"} => readAgent[e] \in AgentType
RecordHeld ==
    \A e \in Executions :
        phase[e] \in {"read", "announce", "report"} => readRecord[e] \in RecordType
HeldByScan ==
    \A b \in Branches : build[b] \in {"clean", "critical"} => readRecord[b] \in RecordType
HeldByCi ==
    \A d \in Deployments : ci[d] = "read" => readRecord[<<"ci", d>>] \in RecordType
\* A build reports what it found.
Reports ==
    \A e \in Executions : phase[e] = "report" => verdict[e] \in {"PASSED", "FAILED"}
\* The customer's pipeline runs on the default branch, and reports what it applied.
CiRuns ==
    \A d \in Deployments : ci[d] # "idle" => pull[d] \in {"direct", "merged"}
CiApplied ==
    \A d \in Deployments :
        /\ ci[d] \in {"notify", "agent", "marked", "read", "done"} => <<"ci", d>> \in applied
        /\ <<"ci", d>> \in applied => ci[d] # "idle"
\* What each gate leaves behind, in the states after it and once applied.
ScansPassed ==
    \A e \in Executions :
        state[e] \in AfterScans \/ e \in applied => \A s \in Scans : build[<<e, s>>] = "passed"
BuildsPassed ==
    \A e \in Executions :
        /\ state[e] \in AfterScans \ {"EVALUATING"} \/ e \in applied => "EVALUATING" \in passed[e]
        /\ state[e] \in AfterPlan \cup {"TERRAFORM_PLAN"} \/ e \in applied
             => "TERRAFORM_VALIDATE" \in passed[e]
        /\ state[e] \in AfterPlan \/ e \in applied => "TERRAFORM_PLAN" \in passed[e]
Merged ==
    \A e \in Executions :
        state[e] \in AfterPull \/ e \in applied => pull[of[e]] \in {"direct", "merged"}
\* An execution is past its apply exactly when it ran.
ApplyRan ==
    \A e \in Executions :
        /\ state[e] \in AfterApply \/ (state[e] = "APPLYING" /\ phase[e] = "report") => e \in applied
        /\ e \in applied => state[e] \in AfterPull \cup {"MarkFailed", "ended", "died"}
\* A live version, also one in an agent item read some time ago, has been applied.
LiveApplied ==
    agent.live = NoDeployment \/ IsApplied(agent.live)
ReadApplied ==
    \A w \in Writer :
        readAgent[w] = Unread \/ readAgent[w].live = NoDeployment \/ IsApplied(readAgent[w].live)

IInv == /\ TInstalled /\ TAgent /\ TRecord /\ TPull /\ TEvents /\ TTrigger /\ TOf /\ TState
        /\ TPhase /\ TVerdict /\ TBuild /\ TPassed /\ TCi /\ TReadAgent /\ TReadRecord
        /\ TApplied /\ TFaults /\ Untriggered /\ Recorded /\ About /\ NotStarted
        /\ AgentByTrigger /\ RecordByTrigger /\ AgentHeld /\ RecordHeld /\ HeldByScan
        /\ HeldByCi /\ Reports /\ CiRuns /\ CiApplied /\ ScansPassed /\ BuildsPassed
        /\ Merged /\ ApplyRan /\ LiveApplied /\ ReadApplied

(***************************************************************************)
(* The order of the stages, the items, and who writes them.                *)
(***************************************************************************)
LEMMA StageIs ==
    Stage = {"VALIDATING", "CHANGE_IMPACT", "GENERATING_IAC", "SECURITY_SCANNING",
             "EVALUATING", "TERRAFORM_VALIDATE", "TERRAFORM_PLAN", "POLICY_CHECK",
             "APPLYING", "DEPLOYING", "HEALTH_CHECK"}
<1>1. Stage = {Pipeline[1], Pipeline[2], Pipeline[3], Pipeline[4], Pipeline[5], Pipeline[6],
               Pipeline[7], Pipeline[8], Pipeline[9], Pipeline[10], Pipeline[11]}
  BY DEF Stage
<1>2. QED  BY <1>1 DEF Pipeline

LEMMA NextStateIs ==
    /\ NextState("VALIDATING") = "CHANGE_IMPACT"
    /\ NextState("CHANGE_IMPACT") = "GENERATING_IAC"
    /\ NextState("GENERATING_IAC") = "SECURITY_SCANNING"
    /\ NextState("SECURITY_SCANNING") = "EVALUATING"
    /\ NextState("EVALUATING") = "TERRAFORM_VALIDATE"
    /\ NextState("TERRAFORM_VALIDATE") = "TERRAFORM_PLAN"
    /\ NextState("TERRAFORM_PLAN") = "POLICY_CHECK"
    /\ NextState("APPLYING") = "DEPLOYING"
    /\ NextState("DEPLOYING") = "HEALTH_CHECK"
    /\ NextState("HEALTH_CHECK") = "MarkActive"
<1>1. ASSUME NEW k \in 1..10
      PROVE  NextState(Pipeline[k]) = Pipeline[k + 1]
  <2>1. Pipeline[k] # "HEALTH_CHECK"  BY DEF Pipeline
  <2>2. \A i \in 1..10 : Pipeline[i] = Pipeline[k] => i = k  BY DEF Pipeline
  <2>3. Pipeline[k + 1] \in Stage  BY DEF Stage
  <2>4. \A t \in Stage : (\E i \in 1..10 : Pipeline[i] = Pipeline[k] /\ Pipeline[i + 1] = t)
                          <=> t = Pipeline[k + 1]
    BY <2>2
  <2>5. QED  BY <2>1, <2>3, <2>4 DEF NextState
<1>2. NextState("HEALTH_CHECK") = "MarkActive"  BY DEF NextState
<1>3. QED  BY <1>1, <1>2 DEF Pipeline


LEMMA NewRecordType == NewRecord \in RecordType
BY DEF NewRecord, RecordType, StageStatus

LEMMA NotRead == Unread \notin RecordType /\ Unread \notin AgentType /\ Absent \notin RecordType
BY DEF Unread, Absent, RecordType, AgentType

LEMMA UpdateStageType ==
    ASSUME NEW r \in RecordType, NEW s \in Stage, NEW x \in StageStatus
    PROVE  /\ \A t \in {"PENDING"} \cup Stage \cup Settled : WithStage(r, s, x, t) \in RecordType
           /\ WithFailure(r) \in RecordType
BY DEF RecordType, WithStage, WithFailure, Settled

LEMMA ShellUpdateType ==
    ASSUME TRecord, NEW w, NEW d \in Deployments, NEW s \in Stage, NEW x \in StageStatus,
           record[d] \in RecordType, readRecord[w] \in RecordType, ShellUpdate(w, d, s, x)
    PROVE  /\ record'[d] \in RecordType
           /\ TRecord'
           /\ \A c \in Deployments : c # d => record'[c] = record[c]
BY DEF TRecord, RecordType, ShellUpdate, Absent

LEMMA AgentItem ==
    /\ \A d \in Deployments : [status |-> "ACTIVE", live |-> d] \in AgentType
    /\ \A a \in AgentType :
          /\ a.live \in Deployments \cup {NoDeployment}
          /\ [a EXCEPT !.status = "DEPLOYING"] \in AgentType
          /\ [a EXCEPT !.status = "DEPLOYING"].live = a.live
          /\ \A t \in {"BLOCKED", "FAILED"} : FallBack(a, t) \in AgentType /\ FallBack(a, t).live = a.live
BY DEF AgentType, FallBack

LEMMA Writers ==
    /\ \A d \in Deployments : d \in Writer /\ <<"ci", d>> \in Writer
    /\ \A e \in Executions : e \in Writer /\ \A s \in Scans : <<e, s>> \in Branches
    /\ \A b \in Branches : b \in Writer /\ b[1] \in Executions /\ b[2] \in Scans /\ b = <<b[1], b[2]>>
    /\ \A d \in Deployments, e \in Executions : d # e /\ <<"ci", d>> # e
    /\ \A d \in Deployments, b \in Branches : d # b /\ <<"ci", d>> # b
    /\ \A e \in Executions, b \in Branches : e # b
    /\ \A c, d \in Deployments : c # <<"ci", d>>
BY WritersAssumption DEF Writer, Branches, Ci

(***************************************************************************)
(* Every action keeps the invariant.                                       *)
(***************************************************************************)
LEMMA TriggerKeeps ==
    ASSUME IInv, NEW d \in Deployments, Trigger(d)
    PROVE  IInv'
<1>1. TRecord'
  BY NewRecordType DEF Trigger, IInv, TRecord, flow
<1>2. TPull'
  BY DEF Trigger, IInv, TPull, flow
<1>3. TTrigger'
  BY DEF Trigger, IInv, TTrigger, flow
<1>4. Untriggered'
  BY DEF Trigger, IInv, TTrigger, TPull, TEvents, TCi, Untriggered, flow
<1>5. Recorded'
  BY NewRecordType DEF Trigger, IInv, TTrigger, TRecord, Recorded, flow
<1>6. About'
  BY DEF Trigger, IInv, TState, TOf, TTrigger, About, LambdaTask, BuildTask, MarkTask,
     Ended, flow
<1>7. AgentByTrigger'
  BY DEF Trigger, IInv, TTrigger, TReadAgent, AgentByTrigger, flow
<1>8. RecordByTrigger'
  BY DEF Trigger, IInv, TTrigger, TReadRecord, RecordByTrigger, flow
<1>9. CiRuns'
  BY DEF Trigger, IInv, TCi, TPull, CiRuns, Untriggered, flow
<1>10. Merged'
  BY DEF Trigger, IInv, TState, TPull, TOf, TApplied, Merged, LambdaTask, BuildTask,
     MarkTask, Ended, Untriggered, AfterPull, About, ApplyRan, flow
<1>11. QED
  BY <1>1, <1>2, <1>3, <1>4, <1>5, <1>6, <1>7, <1>8, <1>9, <1>10 DEF Trigger, outside,
     flow, IInv, TInstalled, TAgent, TEvents, TOf, TState, TPhase, TVerdict, TBuild,
     TPassed, TCi, TReadAgent, TReadRecord, TApplied, TFaults, NotStarted, AgentHeld,
     RecordHeld, HeldByScan, HeldByCi, Reports, CiApplied, ScansPassed, BuildsPassed,
     ApplyRan, LiveApplied, ReadApplied, IsApplied

LEMMA PublishEventKeeps ==
    ASSUME IInv, NEW d \in Deployments, PublishEvent(d)
    PROVE  IInv'
<1>1. TEvents'
  BY DEF PublishEvent, IInv, TEvents, flow
<1>2. TTrigger'
  BY DEF PublishEvent, IInv, TTrigger, flow
<1>3. TFaults'
  BY FaultsAssumption DEF PublishEvent, Fault, IInv, TFaults, flow
<1>4. Untriggered'
  BY DEF PublishEvent, IInv, TTrigger, TPull, TEvents, TCi, Untriggered, flow
<1>5. Recorded'
  BY DEF PublishEvent, IInv, TTrigger, TRecord, Recorded, flow
<1>6. About'
  BY DEF PublishEvent, IInv, TState, TOf, TTrigger, About, LambdaTask, BuildTask, MarkTask,
     Ended, flow
<1>7. AgentByTrigger'
  BY DEF PublishEvent, IInv, TTrigger, TReadAgent, AgentByTrigger, flow
<1>8. RecordByTrigger'
  BY DEF PublishEvent, IInv, TTrigger, TReadRecord, RecordByTrigger, flow
<1>9. QED
  BY <1>1, <1>2, <1>3, <1>4, <1>5, <1>6, <1>7, <1>8 DEF PublishEvent, Fault, outside, flow,
     IInv, TInstalled, TAgent, TRecord, TPull, TOf, TState, TPhase, TVerdict, TBuild,
     TPassed, TCi, TReadAgent, TReadRecord, TApplied, NotStarted, AgentHeld, RecordHeld,
     HeldByScan, HeldByCi, Reports, CiRuns, CiApplied, ScansPassed, BuildsPassed, Merged,
     ApplyRan, LiveApplied, ReadApplied, IsApplied

LEMMA TriggerFailedKeeps ==
    ASSUME IInv, NEW d \in Deployments, TriggerFailed(d)
    PROVE  IInv'
<1>1. TRecord'
  BY UpdateStageType, StageIs, NextStateIs DEF TriggerFailed, PutRecord, IInv, TRecord,
     RecordByTrigger, Recorded, StageStatus, Settled, LambdaTask, BuildTask, TOf, flow
<1>2. TTrigger'
  BY DEF TriggerFailed, IInv, TTrigger, flow
<1>3. TReadRecord'
  BY Writers, NotRead DEF TriggerFailed, GetRecord, PutRecord, IInv, TReadRecord, Recorded,
     TRecord, TOf, flow
<1>4. Untriggered'
  BY DEF TriggerFailed, IInv, TTrigger, TPull, TEvents, TCi, Untriggered, flow
<1>5. Recorded'
  BY UpdateStageType, StageIs, NextStateIs DEF TriggerFailed, PutRecord, IInv, TTrigger,
     TRecord, Recorded, RecordByTrigger, StageStatus, Settled, LambdaTask, BuildTask, TOf,
     flow
<1>6. About'
  BY DEF TriggerFailed, IInv, TState, TOf, TTrigger, About, LambdaTask, BuildTask,
     MarkTask, Ended, flow
<1>7. AgentByTrigger'
  BY DEF TriggerFailed, IInv, TTrigger, TReadAgent, AgentByTrigger, flow
<1>8. RecordByTrigger'
  <2>1. /\ readRecord' = [readRecord EXCEPT ![d] = readRecord'[d]]
        /\ trigger' = [trigger EXCEPT ![d] = trigger'[d]]
    BY Writers DEF TriggerFailed, GetRecord, PutRecord, IInv, TReadRecord, TTrigger
  <2>2. \A c \in Deployments : c # d => readRecord'[c] = readRecord[c] /\ trigger'[c] = trigger[c]
    BY <2>1, Writers DEF IInv, TReadRecord, TTrigger
  <2>3. trigger'[d] = "failing" => readRecord'[d] \in RecordType
    BY Writers DEF TriggerFailed, GetRecord, IInv, TReadRecord, TTrigger, Recorded
  <2>4. QED  BY <2>2, <2>3 DEF IInv, RecordByTrigger
<1>9. RecordHeld'
  BY Writers, NotRead DEF TriggerFailed, GetRecord, PutRecord, IInv, TPhase, TReadRecord,
     RecordHeld, Recorded, TRecord, TOf, flow
<1>10. HeldByScan'
  BY Writers, NotRead DEF TriggerFailed, GetRecord, PutRecord, IInv, TBuild, TReadRecord,
     HeldByScan, Recorded, TRecord, TOf, Branches, flow
<1>11. HeldByCi'
  BY Writers, NotRead DEF TriggerFailed, GetRecord, PutRecord, IInv, TCi, TReadRecord,
     HeldByCi, Recorded, TRecord, TOf, flow
<1>12. QED
  BY <1>1, <1>2, <1>3, <1>4, <1>5, <1>6, <1>7, <1>8, <1>9, <1>10, <1>11 DEF TriggerFailed,
     GetRecord, PutRecord, outside, flow, IInv, TInstalled, TAgent, TPull, TEvents, TOf,
     TState, TPhase, TVerdict, TBuild, TPassed, TCi, TReadAgent, TApplied, TFaults,
     NotStarted, AgentHeld, Reports, CiRuns, CiApplied, ScansPassed, BuildsPassed, Merged,
     ApplyRan, LiveApplied, ReadApplied, IsApplied

LEMMA RecordTriggerKeeps ==
    ASSUME IInv, NEW d \in Deployments, RecordTrigger(d)
    PROVE  IInv'
<1>1. trigger[d] = "recording" =>
        readAgent[d] \in AgentType /\ (readAgent[d].live = NoDeployment \/ IsApplied(readAgent[d].live))
  <2>1. trigger[d] = "recording" => readAgent[d] \in AgentType
    BY DEF IInv, AgentByTrigger
  <2>2. QED  BY <2>1, Writers, NotRead DEF IInv, ReadApplied
<1>2. \/ agent' = agent
      \/ trigger[d] = "recording" /\ agent' = [readAgent[d] EXCEPT !.status = "DEPLOYING"]
  BY DEF RecordTrigger, PutAgent
<1>3. applied' = applied /\ of' = of
  BY DEF RecordTrigger, flow
<1>4. \A c \in Deployments : c # d => readAgent'[c] = readAgent[c] /\ trigger'[c] = trigger[c]
  BY Writers DEF RecordTrigger, GetAgent, PutAgent, IInv, TReadAgent, TTrigger
<1>5. TAgent'
  BY <1>1, <1>2, <1>3, AgentItem DEF IInv, TAgent
<1>6. TTrigger'
  BY <1>1 DEF RecordTrigger, IInv, TTrigger, flow
<1>7. TReadAgent'
  BY <1>1, Writers, AgentItem, NotRead DEF RecordTrigger, GetAgent, PutAgent, IInv,
     TReadAgent, AgentByTrigger, TAgent, flow
<1>8. Untriggered'
  BY <1>1 DEF RecordTrigger, IInv, TTrigger, TPull, TEvents, TCi, Untriggered, flow
<1>9. Recorded'
  BY <1>1 DEF RecordTrigger, IInv, TTrigger, TRecord, Recorded, flow
<1>10. About'
  BY <1>1 DEF RecordTrigger, IInv, TState, TOf, TTrigger, About, LambdaTask, BuildTask,
     MarkTask, Ended, flow
<1>11. AgentByTrigger'
  <2>1. trigger'[d] = "recording" => readAgent'[d] \in AgentType
    BY Writers DEF RecordTrigger, GetAgent, IInv, TReadAgent, TTrigger, TAgent
  <2>2. QED  BY <1>4, <2>1 DEF IInv, AgentByTrigger
<1>12. RecordByTrigger'
  BY <1>1 DEF RecordTrigger, IInv, TTrigger, TReadRecord, RecordByTrigger, flow
<1>13. AgentHeld'
  BY <1>1, Writers, AgentItem, NotRead DEF RecordTrigger, GetAgent, PutAgent, IInv, TPhase,
     TReadAgent, AgentHeld, AgentByTrigger, TAgent, flow
<1>14. LiveApplied'
  BY <1>1, <1>2, <1>3, AgentItem DEF IInv, LiveApplied, IsApplied, ApplyRan, AfterApply
<1>15. ReadApplied'
  BY <1>1, Writers, AgentItem, NotRead DEF RecordTrigger, GetAgent, PutAgent, IInv,
     TReadAgent, TApplied, TOf, ReadApplied, AgentByTrigger, TAgent, IsApplied, CiApplied,
     ApplyRan, AfterApply, LiveApplied, flow
<1>16. QED
  BY <1>1, <1>2, <1>3, <1>4, <1>5, <1>6, <1>7, <1>8, <1>9, <1>10, <1>11, <1>12, <1>13,
     <1>14, <1>15 DEF RecordTrigger, GetAgent, PutAgent, outside, flow, IInv, TInstalled,
     TRecord, TPull, TEvents, TOf, TState, TPhase, TVerdict, TBuild, TPassed, TCi,
     TReadRecord, TApplied, TFaults, NotStarted, RecordHeld, HeldByScan, HeldByCi, Reports,
     CiRuns, CiApplied, ScansPassed, BuildsPassed, Merged, ApplyRan

LEMMA CustomerMergesKeeps ==
    ASSUME IInv, NEW d \in Deployments, CustomerMerges(d)
    PROVE  IInv'
<1>1. TPull'
  BY DEF CustomerMerges, IInv, TPull, Untriggered, flow
<1>2. Untriggered'
  BY DEF CustomerMerges, IInv, TTrigger, TPull, TEvents, TCi, Untriggered, flow
<1>3. CiRuns'
  BY DEF CustomerMerges, IInv, TCi, TPull, CiRuns, Untriggered, flow
<1>4. Merged'
  BY DEF CustomerMerges, IInv, TState, TPull, TOf, TApplied, Merged, LambdaTask, BuildTask,
     MarkTask, Ended, AfterPull, About, Untriggered, ApplyRan, flow
<1>5. QED
  BY <1>1, <1>2, <1>3, <1>4 DEF CustomerMerges, outside, flow, IInv, TInstalled, TAgent,
     TRecord, TEvents, TTrigger, TOf, TState, TPhase, TVerdict, TBuild, TPassed, TCi,
     TReadAgent, TReadRecord, TApplied, TFaults, Recorded, About, NotStarted,
     AgentByTrigger, RecordByTrigger, AgentHeld, RecordHeld, HeldByScan, HeldByCi, Reports,
     CiApplied, ScansPassed, BuildsPassed, ApplyRan, LiveApplied, ReadApplied, IsApplied

LEMMA CiStartsKeeps ==
    ASSUME IInv, NEW d \in Deployments, CiStarts(d)
    PROVE  IInv'
<1>1. TCi'
  BY DEF CiStarts, IInv, TCi, Untriggered, flow
<1>2. Untriggered'
  BY DEF CiStarts, IInv, TTrigger, TPull, TEvents, TCi, Untriggered, flow
<1>3. HeldByCi'
  BY DEF CiStarts, IInv, TCi, TReadRecord, HeldByCi, Untriggered, flow
<1>4. CiRuns'
  BY DEF CiStarts, IInv, TCi, TPull, CiRuns, Untriggered, flow
<1>5. CiApplied'
  BY DEF CiStarts, IInv, TCi, TApplied, CiApplied, Untriggered, flow
<1>6. QED
  BY <1>1, <1>2, <1>3, <1>4, <1>5 DEF CiStarts, outside, flow, IInv, TInstalled, TAgent,
     TRecord, TPull, TEvents, TTrigger, TOf, TState, TPhase, TVerdict, TBuild, TPassed,
     TReadAgent, TReadRecord, TApplied, TFaults, Recorded, About, NotStarted,
     AgentByTrigger, RecordByTrigger, AgentHeld, RecordHeld, HeldByScan, Reports,
     ScansPassed, BuildsPassed, Merged, ApplyRan, LiveApplied, ReadApplied, IsApplied

LEMMA CiChecksKeeps ==
    ASSUME IInv, NEW d \in Deployments, CiChecks(d)
    PROVE  IInv'
<1>1. TCi'
  BY DEF CiChecks, IInv, TCi, flow
<1>2. Untriggered'
  BY DEF CiChecks, IInv, TTrigger, TPull, TEvents, TCi, Untriggered, flow
<1>3. HeldByCi'
  BY DEF CiChecks, IInv, TCi, TReadRecord, HeldByCi, flow
<1>4. CiRuns'
  BY DEF CiChecks, IInv, TCi, TPull, CiRuns, flow
<1>5. CiApplied'
  BY DEF CiChecks, IInv, TCi, TApplied, CiApplied, flow
<1>6. QED
  BY <1>1, <1>2, <1>3, <1>4, <1>5 DEF CiChecks, outside, flow, IInv, TInstalled, TAgent,
     TRecord, TPull, TEvents, TTrigger, TOf, TState, TPhase, TVerdict, TBuild, TPassed,
     TReadAgent, TReadRecord, TApplied, TFaults, Recorded, About, NotStarted,
     AgentByTrigger, RecordByTrigger, AgentHeld, RecordHeld, HeldByScan, Reports,
     ScansPassed, BuildsPassed, Merged, ApplyRan, LiveApplied, ReadApplied, IsApplied

LEMMA CiAppliesKeeps ==
    ASSUME IInv, NEW d \in Deployments, CiApplies(d)
    PROVE  IInv'
<1>1. TCi'
  BY DEF CiApplies, IInv, TCi, flow
<1>2. TApplied'
  BY Writers DEF CiApplies, IInv, TApplied, Ci, flow
<1>3. Untriggered'
  BY DEF CiApplies, IInv, TTrigger, TPull, TEvents, TCi, Untriggered, flow
<1>4. HeldByCi'
  BY DEF CiApplies, IInv, TCi, TReadRecord, HeldByCi, flow
<1>5. CiRuns'
  BY DEF CiApplies, IInv, TCi, TPull, CiRuns, flow
<1>6. CiApplied'
  <2>1. \A c \in Deployments : c # d => (<<"ci", c>> \in applied' <=> <<"ci", c>> \in applied) /\ ci'[c] = ci[c]
    BY DEF CiApplies, IInv, TCi
  <2>2. /\ ci'[d] \in {"notify", "agent", "marked", "read", "done"} => <<"ci", d>> \in applied'
        /\ <<"ci", d>> \in applied' => ci'[d] # "idle"
    BY DEF CiApplies, IInv, TCi, CiApplied
  <2>3. QED  BY <2>1, <2>2 DEF IInv, CiApplied
<1>7. ScansPassed'
  BY Writers DEF CiApplies, IInv, TState, TBuild, TApplied, ScansPassed, LambdaTask,
     BuildTask, MarkTask, Ended, AfterScans, Branches, ApplyRan, AfterPull, flow
<1>8. BuildsPassed'
  BY Writers DEF CiApplies, IInv, TState, TPassed, TApplied, BuildsPassed, LambdaTask,
     BuildTask, MarkTask, Ended, AfterScans, AfterPlan, ApplyRan, AfterPull, flow
<1>9. Merged'
  BY Writers DEF CiApplies, IInv, TState, TPull, TOf, TApplied, Merged, LambdaTask,
     BuildTask, MarkTask, Ended, AfterPull, About, Untriggered, ApplyRan, flow
<1>10. ApplyRan'
  BY Writers, StageIs, NextStateIs DEF CiApplies, IInv, TState, TPhase, TApplied, ApplyRan,
     LambdaTask, BuildTask, MarkTask, Ended, AfterApply, AfterPull, flow
<1>11. LiveApplied'
  BY Writers DEF CiApplies, IInv, TAgent, TApplied, TOf, LiveApplied, IsApplied, CiApplied,
     ApplyRan, AfterApply, ReadApplied, flow
<1>12. ReadApplied'
  BY Writers DEF CiApplies, IInv, TReadAgent, TApplied, TOf, ReadApplied, IsApplied,
     CiApplied, ApplyRan, AfterApply, LiveApplied, TAgent, flow
<1>13. QED
  BY <1>1, <1>2, <1>3, <1>4, <1>5, <1>6, <1>7, <1>8, <1>9, <1>10, <1>11, <1>12 DEF
     CiApplies, outside, flow, IInv, TInstalled, TAgent, TRecord, TPull, TEvents, TTrigger,
     TOf, TState, TPhase, TVerdict, TBuild, TPassed, TReadAgent, TReadRecord, TFaults,
     Recorded, About, NotStarted, AgentByTrigger, RecordByTrigger, AgentHeld, RecordHeld,
     HeldByScan, Reports

LEMMA CiApprovedKeeps ==
    ASSUME IInv, NEW d \in Deployments, CiApproved(d)
    PROVE  IInv'
<1>1. TCi'
  BY DEF CiApproved, IInv, TCi, flow
<1>2. Untriggered'
  BY DEF CiApproved, IInv, TTrigger, TPull, TEvents, TCi, Untriggered, flow
<1>3. HeldByCi'
  BY DEF CiApproved, IInv, TCi, TReadRecord, HeldByCi, flow
<1>4. CiRuns'
  BY DEF CiApproved, IInv, TCi, TPull, CiRuns, flow
<1>5. CiApplied'
  BY DEF CiApproved, IInv, TCi, TApplied, CiApplied, flow
<1>6. QED
  BY <1>1, <1>2, <1>3, <1>4, <1>5 DEF CiApproved, outside, flow, IInv, TInstalled, TAgent,
     TRecord, TPull, TEvents, TTrigger, TOf, TState, TPhase, TVerdict, TBuild, TPassed,
     TReadAgent, TReadRecord, TApplied, TFaults, Recorded, About, NotStarted,
     AgentByTrigger, RecordByTrigger, AgentHeld, RecordHeld, HeldByScan, Reports,
     ScansPassed, BuildsPassed, Merged, ApplyRan, LiveApplied, ReadApplied, IsApplied

LEMMA CiFailsKeeps ==
    ASSUME IInv, NEW d \in Deployments, CiFails(d)
    PROVE  IInv'
<1>1. TCi'
  BY DEF CiFails, IInv, TCi, flow
<1>2. TApplied'
  BY Writers DEF CiFails, IInv, TApplied, Ci, flow
<1>3. Untriggered'
  BY DEF CiFails, IInv, TTrigger, TPull, TEvents, TCi, Untriggered, flow
<1>4. HeldByCi'
  BY DEF CiFails, IInv, TCi, TReadRecord, HeldByCi, flow
<1>5. CiRuns'
  BY DEF CiFails, IInv, TCi, TPull, CiRuns, flow
<1>6. CiApplied'
  <2>1. \A c \in Deployments : c # d => (<<"ci", c>> \in applied' <=> <<"ci", c>> \in applied) /\ ci'[c] = ci[c]
    BY DEF CiFails, IInv, TCi
  <2>2. /\ ci'[d] \in {"notify", "agent", "marked", "read", "done"} => <<"ci", d>> \in applied'
        /\ <<"ci", d>> \in applied' => ci'[d] # "idle"
    BY DEF CiFails, IInv, TCi, CiApplied
  <2>3. QED  BY <2>1, <2>2 DEF IInv, CiApplied
<1>7. ScansPassed'
  BY Writers DEF CiFails, IInv, TState, TBuild, TApplied, ScansPassed, LambdaTask,
     BuildTask, MarkTask, Ended, AfterScans, Branches, ApplyRan, AfterPull, flow
<1>8. BuildsPassed'
  BY Writers DEF CiFails, IInv, TState, TPassed, TApplied, BuildsPassed, LambdaTask,
     BuildTask, MarkTask, Ended, AfterScans, AfterPlan, ApplyRan, AfterPull, flow
<1>9. Merged'
  BY Writers DEF CiFails, IInv, TState, TPull, TOf, TApplied, Merged, LambdaTask,
     BuildTask, MarkTask, Ended, AfterPull, About, Untriggered, ApplyRan, flow
<1>10. ApplyRan'
  BY Writers, StageIs, NextStateIs DEF CiFails, IInv, TState, TPhase, TApplied, ApplyRan,
     LambdaTask, BuildTask, MarkTask, Ended, AfterApply, AfterPull, flow
<1>11. LiveApplied'
  BY Writers DEF CiFails, IInv, TAgent, TApplied, TOf, LiveApplied, IsApplied, CiApplied,
     ApplyRan, AfterApply, ReadApplied, flow
<1>12. ReadApplied'
  BY Writers DEF CiFails, IInv, TReadAgent, TApplied, TOf, ReadApplied, IsApplied,
     CiApplied, ApplyRan, AfterApply, LiveApplied, TAgent, flow
<1>13. QED
  BY <1>1, <1>2, <1>3, <1>4, <1>5, <1>6, <1>7, <1>8, <1>9, <1>10, <1>11, <1>12 DEF CiFails,
     outside, flow, IInv, TInstalled, TAgent, TRecord, TPull, TEvents, TTrigger, TOf,
     TState, TPhase, TVerdict, TBuild, TPassed, TReadAgent, TReadRecord, TFaults, Recorded,
     About, NotStarted, AgentByTrigger, RecordByTrigger, AgentHeld, RecordHeld, HeldByScan,
     Reports

LEMMA DeploymentCompleteKeeps ==
    ASSUME IInv, NEW d \in Deployments, DeploymentComplete(d)
    PROVE  IInv'
<1>1. TAgent'
  BY AgentItem, NotRead, Writers DEF DeploymentComplete, PutAgent, IInv, TAgent,
     TReadAgent, flow
<1>2. TRecord'
  BY UpdateStageType, StageIs, NextStateIs DEF DeploymentComplete, PutRecord, IInv,
     TRecord, HeldByCi, Recorded, CiRuns, Untriggered, StageStatus, Settled, LambdaTask,
     BuildTask, TOf, flow
<1>3. TCi'
  BY DEF DeploymentComplete, IInv, TCi, flow
<1>4. TReadAgent'
  BY Writers, AgentItem, NotRead DEF DeploymentComplete, GetAgent, PutAgent, IInv,
     TReadAgent, TAgent, flow
<1>5. TReadRecord'
  BY Writers, NotRead DEF DeploymentComplete, GetRecord, PutRecord, IInv, TReadRecord,
     Recorded, CiRuns, Untriggered, TRecord, TOf, flow
<1>6. Untriggered'
  BY DEF DeploymentComplete, IInv, TTrigger, TPull, TEvents, TCi, Untriggered, flow
<1>7. Recorded'
  BY UpdateStageType, StageIs, NextStateIs DEF DeploymentComplete, PutRecord, IInv,
     TTrigger, TRecord, Recorded, HeldByCi, CiRuns, Untriggered, StageStatus, Settled,
     LambdaTask, BuildTask, TOf, flow
<1>8. AgentByTrigger'
  <2>1. \A c \in Deployments : readAgent'[c] = readAgent[c]
    BY Writers DEF DeploymentComplete, GetAgent, PutAgent, IInv, TReadAgent
  <2>2. QED  BY <2>1 DEF DeploymentComplete, IInv, AgentByTrigger
<1>9. RecordByTrigger'
  <2>1. \A c \in Deployments : readRecord'[c] = readRecord[c]
    BY Writers DEF DeploymentComplete, GetRecord, PutRecord, IInv, TReadRecord
  <2>2. QED  BY <2>1 DEF DeploymentComplete, IInv, RecordByTrigger
<1>10. AgentHeld'
  BY Writers, AgentItem, NotRead DEF DeploymentComplete, GetAgent, PutAgent, IInv, TPhase,
     TReadAgent, AgentHeld, TAgent, flow
<1>11. RecordHeld'
  BY Writers, NotRead DEF DeploymentComplete, GetRecord, PutRecord, IInv, TPhase,
     TReadRecord, RecordHeld, Recorded, CiRuns, Untriggered, TRecord, TOf, flow
<1>12. HeldByScan'
  BY Writers, NotRead DEF DeploymentComplete, GetRecord, PutRecord, IInv, TBuild,
     TReadRecord, HeldByScan, Recorded, CiRuns, Untriggered, TRecord, TOf, Branches, flow
<1>13. HeldByCi'
  BY Writers, NotRead DEF DeploymentComplete, GetRecord, PutRecord, IInv, TCi, TReadRecord,
     HeldByCi, Recorded, CiRuns, Untriggered, TRecord, TOf, flow
<1>14. CiRuns'
  BY DEF DeploymentComplete, IInv, TCi, TPull, CiRuns, flow
<1>15. CiApplied'
  BY DEF DeploymentComplete, IInv, TCi, TApplied, CiApplied, flow
<1>16. LiveApplied'
  BY AgentItem, NotRead, Writers DEF DeploymentComplete, PutAgent, IInv, TAgent, TApplied,
     TOf, LiveApplied, TReadAgent, IsApplied, CiApplied, ApplyRan, AfterApply, ReadApplied,
     flow
<1>17. ReadApplied'
  BY Writers, AgentItem, NotRead DEF DeploymentComplete, GetAgent, PutAgent, IInv,
     TReadAgent, TApplied, TOf, ReadApplied, TAgent, IsApplied, CiApplied, ApplyRan,
     AfterApply, LiveApplied, flow
<1>18. QED
  BY <1>1, <1>2, <1>3, <1>4, <1>5, <1>6, <1>7, <1>8, <1>9, <1>10, <1>11, <1>12, <1>13,
     <1>14, <1>15, <1>16, <1>17 DEF DeploymentComplete, GetAgent, PutAgent, GetRecord,
     PutRecord, outside, flow, IInv, TInstalled, TPull, TEvents, TTrigger, TOf, TState,
     TPhase, TVerdict, TBuild, TPassed, TApplied, TFaults, About, NotStarted, Reports,
     ScansPassed, BuildsPassed, Merged, ApplyRan

LEMMA StartExecutionKeeps ==
    ASSUME IInv, NEW e \in Executions, NEW d \in Deployments, StartExecution(e, d)
    PROVE  IInv'
<1>1. TOf'
  BY DEF StartExecution, IInv, TOf, ApplyRan, AfterPull
<1>2. TState'
  BY StageIs, NextStateIs DEF StartExecution, IInv, TState, LambdaTask, BuildTask,
     MarkTask, Ended, ApplyRan, AfterPull
<1>3. TFaults'
  BY FaultsAssumption DEF StartExecution, Fault, IInv, TFaults, ApplyRan, AfterPull
<1>4. About'
  BY StageIs, NextStateIs DEF StartExecution, IInv, TState, TOf, TTrigger, About,
     LambdaTask, BuildTask, MarkTask, Ended, Untriggered, ApplyRan, AfterPull
<1>5. NotStarted'
  BY StageIs, NextStateIs DEF StartExecution, IInv, TState, TBuild, NotStarted, LambdaTask,
     BuildTask, MarkTask, Ended, ApplyRan, AfterPull, Branches
<1>6. ScansPassed'
  BY StageIs, NextStateIs DEF StartExecution, IInv, TState, TBuild, TApplied, ScansPassed,
     LambdaTask, BuildTask, MarkTask, Ended, AfterScans, Branches, ApplyRan, AfterPull
<1>7. BuildsPassed'
  BY StageIs, NextStateIs DEF StartExecution, IInv, TState, TPassed, TApplied,
     BuildsPassed, LambdaTask, BuildTask, MarkTask, Ended, AfterScans, AfterPlan, ApplyRan,
     AfterPull
<1>8. Merged'
  BY StageIs, NextStateIs DEF StartExecution, IInv, TState, TPull, TOf, TApplied, Merged,
     LambdaTask, BuildTask, MarkTask, Ended, AfterPull, About, Untriggered, ApplyRan
<1>9. ApplyRan'
  BY StageIs, NextStateIs DEF StartExecution, IInv, TState, TPhase, TApplied, ApplyRan,
     LambdaTask, BuildTask, MarkTask, Ended, AfterApply, AfterPull
<1>10. LiveApplied'
  BY DEF StartExecution, IInv, TAgent, TApplied, TOf, LiveApplied, IsApplied, CiApplied,
     ApplyRan, AfterApply, ReadApplied, AfterPull
<1>11. ReadApplied'
  BY DEF StartExecution, IInv, TReadAgent, TApplied, TOf, ReadApplied, IsApplied,
     CiApplied, ApplyRan, AfterApply, LiveApplied, TAgent, AfterPull
<1>12. QED
  BY <1>1, <1>2, <1>3, <1>4, <1>5, <1>6, <1>7, <1>8, <1>9, <1>10, <1>11 DEF StartExecution,
     Fault, outside, flow, IInv, TInstalled, TAgent, TRecord, TPull, TEvents, TTrigger,
     TPhase, TVerdict, TBuild, TPassed, TCi, TReadAgent, TReadRecord, TApplied,
     Untriggered, Recorded, AgentByTrigger, RecordByTrigger, AgentHeld, RecordHeld,
     HeldByScan, HeldByCi, Reports, CiRuns, CiApplied

LEMMA ReadStageKeeps ==
    ASSUME IInv, NEW e \in Executions, ReadStage(e)
    PROVE  IInv'
<1>1. of[e] \in Deployments /\ trigger[of[e]] # "idle" /\ record[of[e]] \in RecordType
  BY DEF ReadStage, IInv, About, Recorded, LambdaTask
<1>2. TPhase'
  BY <1>1 DEF ReadStage, Within, IInv, TPhase, outside
<1>3. TReadRecord'
  BY <1>1, Writers, NotRead DEF ReadStage, GetRecord, IInv, TReadRecord, About, Recorded,
     TRecord, TOf, outside
<1>4. RecordByTrigger'
  BY <1>1, Writers, NotRead DEF ReadStage, GetRecord, IInv, TTrigger, TReadRecord,
     RecordByTrigger, About, Recorded, TRecord, TOf, outside
<1>5. AgentHeld'
  BY <1>1 DEF ReadStage, Within, IInv, TPhase, TReadAgent, AgentHeld, outside
<1>6. RecordHeld'
  BY <1>1, Writers, NotRead DEF ReadStage, GetRecord, Within, IInv, TPhase, TReadRecord,
     RecordHeld, About, Recorded, TRecord, TOf, outside
<1>7. HeldByScan'
  BY <1>1, Writers, NotRead DEF ReadStage, GetRecord, IInv, TBuild, TReadRecord,
     HeldByScan, About, Recorded, TRecord, TOf, Branches, outside
<1>8. HeldByCi'
  BY <1>1, Writers, NotRead DEF ReadStage, GetRecord, IInv, TCi, TReadRecord, HeldByCi,
     About, Recorded, TRecord, TOf, outside
<1>9. Reports'
  BY <1>1, StageIs, NextStateIs DEF ReadStage, Within, IInv, TPhase, TVerdict, Reports,
     outside
<1>10. ApplyRan'
  BY <1>1, StageIs, NextStateIs DEF ReadStage, Within, IInv, TState, TPhase, TApplied,
     ApplyRan, LambdaTask, BuildTask, MarkTask, Ended, AfterApply, AfterPull, outside
<1>11. QED
  BY <1>1, <1>2, <1>3, <1>4, <1>5, <1>6, <1>7, <1>8, <1>9, <1>10 DEF ReadStage, GetRecord,
     Within, outside, flow, IInv, TInstalled, TAgent, TRecord, TPull, TEvents, TTrigger,
     TOf, TState, TVerdict, TBuild, TPassed, TCi, TReadAgent, TApplied, TFaults,
     Untriggered, Recorded, About, NotStarted, AgentByTrigger, CiRuns, CiApplied,
     ScansPassed, BuildsPassed, Merged, LiveApplied, ReadApplied, IsApplied

LEMMA PassTaskKeeps ==
    ASSUME IInv, NEW e \in Executions,
           NEW s \in LambdaTask, NEW status \in Stage \cup Settled, PassTask(e, s, status)
    PROVE  IInv'
<1>1. of[e] \in Deployments /\ trigger[of[e]] # "idle" /\ record[of[e]] \in RecordType
  BY DEF PassTask, IInv, About, Recorded, LambdaTask
<1>2. TRecord'
  BY <1>1, UpdateStageType, StageIs, NextStateIs DEF PassTask, PutRecord, IInv, TRecord,
     RecordHeld, About, Recorded, StageStatus, Settled, LambdaTask, BuildTask, TOf, outside
<1>3. TState'
  BY <1>1, StageIs, NextStateIs DEF PassTask, Goto, IInv, TState, LambdaTask, BuildTask,
     MarkTask, Ended, outside
<1>4. TPhase'
  BY <1>1 DEF PassTask, Goto, IInv, TPhase, outside
<1>5. TVerdict'
  BY <1>1 DEF PassTask, Goto, IInv, TVerdict, outside
<1>6. TReadRecord'
  BY <1>1, Writers, NotRead DEF PassTask, PutRecord, IInv, TReadRecord, About, Recorded,
     TRecord, TOf, outside
<1>7. Recorded'
  BY <1>1, UpdateStageType, StageIs, NextStateIs DEF PassTask, PutRecord, IInv, TTrigger,
     TRecord, Recorded, RecordHeld, About, StageStatus, Settled, LambdaTask, BuildTask,
     TOf, outside
<1>8. About'
  BY <1>1, StageIs, NextStateIs DEF PassTask, Goto, IInv, TState, TOf, TTrigger, About,
     LambdaTask, BuildTask, MarkTask, Ended, outside
<1>9. NotStarted'
  BY <1>1, StageIs, NextStateIs DEF PassTask, Goto, IInv, TState, TBuild, NotStarted,
     LambdaTask, BuildTask, MarkTask, Ended, Branches, outside
<1>10. RecordByTrigger'
  BY <1>1, Writers, NotRead DEF PassTask, PutRecord, IInv, TTrigger, TReadRecord,
     RecordByTrigger, About, Recorded, TRecord, TOf, outside
<1>11. AgentHeld'
  BY <1>1 DEF PassTask, Goto, IInv, TPhase, TReadAgent, AgentHeld, outside
<1>12. RecordHeld'
  BY <1>1, Writers, NotRead DEF PassTask, PutRecord, Goto, IInv, TPhase, TReadRecord,
     RecordHeld, About, Recorded, TRecord, TOf, outside
<1>13. HeldByScan'
  BY <1>1, Writers, NotRead DEF PassTask, PutRecord, IInv, TBuild, TReadRecord, HeldByScan,
     About, Recorded, TRecord, TOf, Branches, outside
<1>14. HeldByCi'
  BY <1>1, Writers, NotRead DEF PassTask, PutRecord, IInv, TCi, TReadRecord, HeldByCi,
     About, Recorded, TRecord, TOf, outside
<1>15. Reports'
  BY <1>1, StageIs, NextStateIs DEF PassTask, Goto, IInv, TPhase, TVerdict, Reports, outside
<1>16. ScansPassed'
  BY <1>1, StageIs, NextStateIs DEF PassTask, Goto, IInv, TState, TBuild, TApplied,
     ScansPassed, LambdaTask, BuildTask, MarkTask, Ended, AfterScans, Branches, ApplyRan,
     AfterPull, outside
<1>17. BuildsPassed'
  BY <1>1, StageIs, NextStateIs DEF PassTask, Goto, IInv, TState, TPassed, TApplied,
     BuildsPassed, LambdaTask, BuildTask, MarkTask, Ended, AfterScans, AfterPlan, ApplyRan,
     AfterPull, outside
<1>18. Merged'
  BY <1>1, StageIs, NextStateIs DEF PassTask, Goto, IInv, TState, TPull, TOf, TApplied,
     Merged, LambdaTask, BuildTask, MarkTask, Ended, AfterPull, About, Untriggered,
     ApplyRan, outside
<1>19. ApplyRan'
  BY <1>1, StageIs, NextStateIs DEF PassTask, Goto, IInv, TState, TPhase, TApplied,
     ApplyRan, LambdaTask, BuildTask, MarkTask, Ended, AfterApply, AfterPull, outside
<1>20. QED
  BY <1>1, <1>2, <1>3, <1>4, <1>5, <1>6, <1>7, <1>8, <1>9, <1>10, <1>11, <1>12, <1>13,
     <1>14, <1>15, <1>16, <1>17, <1>18, <1>19 DEF PassTask, PutRecord, Goto, outside, flow,
     IInv, TInstalled, TAgent, TPull, TEvents, TTrigger, TOf, TBuild, TPassed, TCi,
     TReadAgent, TApplied, TFaults, Untriggered, AgentByTrigger, CiRuns, CiApplied,
     LiveApplied, ReadApplied, IsApplied

LEMMA RejectStageKeeps ==
    ASSUME IInv, NEW e \in Executions, RejectStage(e)
    PROVE  IInv'
<1>1. TRecord'
  BY UpdateStageType, StageIs, NextStateIs DEF RejectStage, PutRecord, IInv, TRecord,
     RecordHeld, About, Recorded, StageStatus, Settled, LambdaTask, BuildTask, TOf, outside
<1>2. TState'
  BY StageIs, NextStateIs DEF RejectStage, Goto, IInv, TState, LambdaTask, BuildTask,
     MarkTask, Ended, outside
<1>3. TPhase'
  BY DEF RejectStage, Goto, IInv, TPhase, outside
<1>4. TVerdict'
  BY DEF RejectStage, Goto, IInv, TVerdict, outside
<1>5. TReadRecord'
  BY Writers, NotRead DEF RejectStage, PutRecord, IInv, TReadRecord, About, Recorded,
     TRecord, TOf, outside
<1>6. Recorded'
  BY UpdateStageType, StageIs, NextStateIs DEF RejectStage, PutRecord, IInv, TTrigger,
     TRecord, Recorded, RecordHeld, About, StageStatus, Settled, LambdaTask, BuildTask,
     TOf, outside
<1>7. About'
  BY StageIs, NextStateIs DEF RejectStage, Goto, IInv, TState, TOf, TTrigger, About,
     LambdaTask, BuildTask, MarkTask, Ended, outside
<1>8. NotStarted'
  BY StageIs, NextStateIs DEF RejectStage, Goto, IInv, TState, TBuild, NotStarted,
     LambdaTask, BuildTask, MarkTask, Ended, Branches, outside
<1>9. RecordByTrigger'
  BY Writers, NotRead DEF RejectStage, PutRecord, IInv, TTrigger, TReadRecord,
     RecordByTrigger, About, Recorded, TRecord, TOf, outside
<1>10. AgentHeld'
  BY DEF RejectStage, Goto, IInv, TPhase, TReadAgent, AgentHeld, outside
<1>11. RecordHeld'
  BY Writers, NotRead DEF RejectStage, PutRecord, Goto, IInv, TPhase, TReadRecord,
     RecordHeld, About, Recorded, TRecord, TOf, outside
<1>12. HeldByScan'
  BY Writers, NotRead DEF RejectStage, PutRecord, IInv, TBuild, TReadRecord, HeldByScan,
     About, Recorded, TRecord, TOf, Branches, outside
<1>13. HeldByCi'
  BY Writers, NotRead DEF RejectStage, PutRecord, IInv, TCi, TReadRecord, HeldByCi, About,
     Recorded, TRecord, TOf, outside
<1>14. Reports'
  BY StageIs, NextStateIs DEF RejectStage, Goto, IInv, TPhase, TVerdict, Reports, outside
<1>15. ScansPassed'
  BY StageIs, NextStateIs DEF RejectStage, Goto, IInv, TState, TBuild, TApplied,
     ScansPassed, LambdaTask, BuildTask, MarkTask, Ended, AfterScans, Branches, ApplyRan,
     AfterPull, outside
<1>16. BuildsPassed'
  BY StageIs, NextStateIs DEF RejectStage, Goto, IInv, TState, TPassed, TApplied,
     BuildsPassed, LambdaTask, BuildTask, MarkTask, Ended, AfterScans, AfterPlan, ApplyRan,
     AfterPull, outside
<1>17. Merged'
  BY StageIs, NextStateIs DEF RejectStage, Goto, IInv, TState, TPull, TOf, TApplied,
     Merged, LambdaTask, BuildTask, MarkTask, Ended, AfterPull, About, Untriggered,
     ApplyRan, outside
<1>18. ApplyRan'
  BY StageIs, NextStateIs DEF RejectStage, Goto, IInv, TState, TPhase, TApplied, ApplyRan,
     LambdaTask, BuildTask, MarkTask, Ended, AfterApply, AfterPull, outside
<1>19. QED
  BY <1>1, <1>2, <1>3, <1>4, <1>5, <1>6, <1>7, <1>8, <1>9, <1>10, <1>11, <1>12, <1>13,
     <1>14, <1>15, <1>16, <1>17, <1>18 DEF RejectStage, PutRecord, Goto, outside, flow,
     IInv, TInstalled, TAgent, TPull, TEvents, TTrigger, TOf, TBuild, TPassed, TCi,
     TReadAgent, TApplied, TFaults, Untriggered, AgentByTrigger, CiRuns, CiApplied,
     LiveApplied, ReadApplied, IsApplied

LEMMA StartScansKeeps ==
    ASSUME IInv, NEW e \in Executions, StartScans(e)
    PROVE  IInv'
<1>1. TPhase'
  BY DEF StartScans, Within, IInv, TPhase, outside
<1>2. TBuild'
  BY Writers DEF StartScans, IInv, TBuild, Branches, outside
<1>3. NotStarted'
  BY Writers DEF StartScans, Within, IInv, TState, TBuild, NotStarted, LambdaTask,
     BuildTask, MarkTask, Ended, Branches, outside
<1>4. AgentHeld'
  BY DEF StartScans, Within, IInv, TPhase, TReadAgent, AgentHeld, outside
<1>5. RecordHeld'
  BY DEF StartScans, Within, IInv, TPhase, TReadRecord, RecordHeld, outside
<1>6. HeldByScan'
  BY Writers DEF StartScans, IInv, TBuild, TReadRecord, HeldByScan, Branches, outside
<1>7. Reports'
  BY StageIs, NextStateIs DEF StartScans, Within, IInv, TPhase, TVerdict, Reports, outside
<1>8. ScansPassed'
  BY Writers DEF StartScans, Within, IInv, TState, TBuild, TApplied, ScansPassed,
     LambdaTask, BuildTask, MarkTask, Ended, AfterScans, Branches, ApplyRan, AfterPull,
     outside
<1>9. ApplyRan'
  BY StageIs, NextStateIs DEF StartScans, Within, IInv, TState, TPhase, TApplied, ApplyRan,
     LambdaTask, BuildTask, MarkTask, Ended, AfterApply, AfterPull, outside
<1>10. QED
  BY <1>1, <1>2, <1>3, <1>4, <1>5, <1>6, <1>7, <1>8, <1>9 DEF StartScans, Within, outside,
     flow, IInv, TInstalled, TAgent, TRecord, TPull, TEvents, TTrigger, TOf, TState,
     TVerdict, TPassed, TCi, TReadAgent, TReadRecord, TApplied, TFaults, Untriggered,
     Recorded, About, AgentByTrigger, RecordByTrigger, HeldByCi, CiRuns, CiApplied,
     BuildsPassed, Merged, LiveApplied, ReadApplied, IsApplied

LEMMA JoinScansKeeps ==
    ASSUME IInv, NEW e \in Executions, JoinScans(e)
    PROVE  IInv'
<1>1. TState'
  BY StageIs, NextStateIs DEF JoinScans, Goto, IInv, TState, LambdaTask, BuildTask,
     MarkTask, Ended, outside
<1>2. TPhase'
  BY DEF JoinScans, Goto, IInv, TPhase, outside
<1>3. TVerdict'
  BY DEF JoinScans, Goto, IInv, TVerdict, outside
<1>4. About'
  BY StageIs, NextStateIs DEF JoinScans, Goto, IInv, TState, TOf, TTrigger, About,
     LambdaTask, BuildTask, MarkTask, Ended, outside
<1>5. NotStarted'
  BY StageIs, NextStateIs DEF JoinScans, Goto, IInv, TState, TBuild, NotStarted,
     LambdaTask, BuildTask, MarkTask, Ended, Branches, outside
<1>6. AgentHeld'
  BY DEF JoinScans, Goto, IInv, TPhase, TReadAgent, AgentHeld, outside
<1>7. RecordHeld'
  BY DEF JoinScans, Goto, IInv, TPhase, TReadRecord, RecordHeld, outside
<1>8. Reports'
  BY StageIs, NextStateIs DEF JoinScans, Goto, IInv, TPhase, TVerdict, Reports, outside
<1>9. ScansPassed'
  BY StageIs, NextStateIs DEF JoinScans, Goto, IInv, TState, TBuild, TApplied, ScansPassed,
     LambdaTask, BuildTask, MarkTask, Ended, AfterScans, Branches, ApplyRan, AfterPull,
     outside
<1>10. BuildsPassed'
  BY StageIs, NextStateIs DEF JoinScans, Goto, IInv, TState, TPassed, TApplied,
     BuildsPassed, LambdaTask, BuildTask, MarkTask, Ended, AfterScans, AfterPlan, ApplyRan,
     AfterPull, outside
<1>11. Merged'
  BY StageIs, NextStateIs DEF JoinScans, Goto, IInv, TState, TPull, TOf, TApplied, Merged,
     LambdaTask, BuildTask, MarkTask, Ended, AfterPull, About, Untriggered, ApplyRan,
     outside
<1>12. ApplyRan'
  BY StageIs, NextStateIs DEF JoinScans, Goto, IInv, TState, TPhase, TApplied, ApplyRan,
     LambdaTask, BuildTask, MarkTask, Ended, AfterApply, AfterPull, outside
<1>13. QED
  BY <1>1, <1>2, <1>3, <1>4, <1>5, <1>6, <1>7, <1>8, <1>9, <1>10, <1>11, <1>12 DEF
     JoinScans, Goto, outside, flow, IInv, TInstalled, TAgent, TRecord, TPull, TEvents,
     TTrigger, TOf, TBuild, TPassed, TCi, TReadAgent, TReadRecord, TApplied, TFaults,
     Untriggered, Recorded, AgentByTrigger, RecordByTrigger, HeldByScan, HeldByCi, CiRuns,
     CiApplied, LiveApplied, ReadApplied, IsApplied

LEMMA AnnounceBuildKeeps ==
    ASSUME IInv, NEW e \in Executions, AnnounceBuild(e)
    PROVE  IInv'
<1>1. of[e] \in Deployments /\ trigger[of[e]] # "idle" /\ record[of[e]] \in RecordType
  BY DEF AnnounceBuild, IInv, About, Recorded, BuildTask
<1>2. \/ record' = record
      \/ \E x \in StageStatus : ShellUpdate(e, of[e], state[e], x) /\ readRecord[e] \in RecordType
  BY DEF AnnounceBuild, IInv, RecordHeld, Reports, StageStatus
<1>3. state[e] \in Stage
  BY StageIs DEF AnnounceBuild, BuildTask
<1>4. TRecord'
  BY <1>1, <1>2, <1>3, ShellUpdateType DEF IInv, TRecord
<1>5. TPhase'
  BY <1>1 DEF AnnounceBuild, Within, IInv, TPhase, outside
<1>6. TReadRecord'
  BY <1>1, Writers, NotRead DEF AnnounceBuild, GetRecord, ShellUpdate, IInv, TReadRecord,
     About, Recorded, TRecord, TOf, outside
<1>7. Recorded'
  <2>1. \A d \in Deployments : record[d] \in RecordType => record'[d] \in RecordType
    BY <1>1, <1>2, <1>3, ShellUpdateType DEF IInv, TRecord
  <2>2. QED  BY <2>1 DEF AnnounceBuild, outside, IInv, Recorded
<1>8. RecordByTrigger'
  <2>1. readRecord' = [readRecord EXCEPT ![e] = readRecord'[e]]
    BY Writers DEF AnnounceBuild, GetRecord, ShellUpdate, IInv, TReadRecord
  <2>2. \A d \in Deployments : readRecord'[d] = readRecord[d]
    BY <2>1, Writers DEF IInv, TReadRecord
  <2>3. QED  BY <2>2 DEF AnnounceBuild, outside, IInv, RecordByTrigger
<1>9. AgentHeld'
  BY <1>1 DEF AnnounceBuild, Within, IInv, TPhase, TReadAgent, AgentHeld, outside
<1>10. RecordHeld'
  BY <1>1, Writers, NotRead DEF AnnounceBuild, GetRecord, ShellUpdate, Within, IInv,
     TPhase, TReadRecord, RecordHeld, About, Recorded, TRecord, TOf, outside
<1>11. HeldByScan'
  BY <1>1, Writers, NotRead DEF AnnounceBuild, GetRecord, ShellUpdate, IInv, TBuild,
     TReadRecord, HeldByScan, About, Recorded, TRecord, TOf, Branches, outside
<1>12. HeldByCi'
  BY <1>1, Writers, NotRead DEF AnnounceBuild, GetRecord, ShellUpdate, IInv, TCi,
     TReadRecord, HeldByCi, About, Recorded, TRecord, TOf, outside
<1>13. Reports'
  BY <1>1, StageIs, NextStateIs DEF AnnounceBuild, Within, IInv, TPhase, TVerdict, Reports,
     outside
<1>14. ApplyRan'
  BY <1>1, StageIs, NextStateIs DEF AnnounceBuild, Within, IInv, TState, TPhase, TApplied,
     ApplyRan, LambdaTask, BuildTask, MarkTask, Ended, AfterApply, AfterPull, outside
<1>15. QED
  BY <1>1, <1>2, <1>3, <1>4, <1>5, <1>6, <1>7, <1>8, <1>9, <1>10, <1>11, <1>12, <1>13,
     <1>14 DEF AnnounceBuild, GetRecord, ShellUpdate, Within, outside, flow, IInv,
     TInstalled, TAgent, TPull, TEvents, TTrigger, TOf, TState, TVerdict, TBuild, TPassed,
     TCi, TReadAgent, TApplied, TFaults, Untriggered, About, NotStarted, AgentByTrigger,
     CiRuns, CiApplied, ScansPassed, BuildsPassed, Merged, LiveApplied, ReadApplied,
     IsApplied

LEMMA RunBuildKeeps ==
    ASSUME IInv, NEW e \in Executions, RunBuild(e)
    PROVE  IInv'
<1>1. of[e] \in Deployments /\ trigger[of[e]] # "idle" /\ record[of[e]] \in RecordType
  BY DEF RunBuild, IInv, About, Recorded, BuildTask
<1>2. TPhase'
  BY <1>1 DEF RunBuild, Within, IInv, TPhase, outside
<1>3. TVerdict'
  BY <1>1 DEF RunBuild, IInv, TVerdict, outside
<1>4. TReadRecord'
  BY <1>1, Writers, NotRead DEF RunBuild, GetRecord, IInv, TReadRecord, About, Recorded,
     TRecord, TOf, outside
<1>5. TApplied'
  BY <1>1, Writers DEF RunBuild, IInv, TApplied, Ci, outside
<1>6. RecordByTrigger'
  BY <1>1, Writers, NotRead DEF RunBuild, GetRecord, IInv, TTrigger, TReadRecord,
     RecordByTrigger, About, Recorded, TRecord, TOf, outside
<1>7. AgentHeld'
  BY <1>1 DEF RunBuild, Within, IInv, TPhase, TReadAgent, AgentHeld, outside
<1>8. RecordHeld'
  BY <1>1, Writers, NotRead DEF RunBuild, GetRecord, Within, IInv, TPhase, TReadRecord,
     RecordHeld, About, Recorded, TRecord, TOf, outside
<1>9. HeldByScan'
  BY <1>1, Writers, NotRead DEF RunBuild, GetRecord, IInv, TBuild, TReadRecord, HeldByScan,
     About, Recorded, TRecord, TOf, Branches, outside
<1>10. HeldByCi'
  BY <1>1, Writers, NotRead DEF RunBuild, GetRecord, IInv, TCi, TReadRecord, HeldByCi,
     About, Recorded, TRecord, TOf, outside
<1>11. Reports'
  BY <1>1, StageIs, NextStateIs DEF RunBuild, Within, IInv, TPhase, TVerdict, Reports,
     outside
<1>12. CiApplied'
  BY <1>1, Writers DEF RunBuild, IInv, TCi, TApplied, CiApplied, outside
<1>13. ScansPassed'
  BY <1>1, Writers DEF RunBuild, Within, IInv, TState, TBuild, TApplied, ScansPassed,
     LambdaTask, BuildTask, MarkTask, Ended, AfterScans, Branches, ApplyRan, AfterPull,
     outside
<1>14. BuildsPassed'
  BY <1>1, Writers DEF RunBuild, Within, IInv, TState, TPassed, TApplied, BuildsPassed,
     LambdaTask, BuildTask, MarkTask, Ended, AfterScans, AfterPlan, ApplyRan, AfterPull,
     outside
<1>15. Merged'
  BY <1>1, Writers DEF RunBuild, Within, IInv, TState, TPull, TOf, TApplied, Merged,
     LambdaTask, BuildTask, MarkTask, Ended, AfterPull, About, Untriggered, ApplyRan,
     outside
<1>16. ApplyRan'
  BY <1>1, Writers, StageIs, NextStateIs DEF RunBuild, Within, IInv, TState, TPhase,
     TApplied, ApplyRan, LambdaTask, BuildTask, MarkTask, Ended, AfterApply, AfterPull,
     outside
<1>17. LiveApplied'
  BY <1>1, Writers DEF RunBuild, IInv, TAgent, TApplied, TOf, LiveApplied, IsApplied,
     CiApplied, ApplyRan, AfterApply, ReadApplied, outside
<1>18. ReadApplied'
  BY <1>1, Writers DEF RunBuild, IInv, TReadAgent, TApplied, TOf, ReadApplied, IsApplied,
     CiApplied, ApplyRan, AfterApply, LiveApplied, TAgent, outside
<1>19. QED
  BY <1>1, <1>2, <1>3, <1>4, <1>5, <1>6, <1>7, <1>8, <1>9, <1>10, <1>11, <1>12, <1>13,
     <1>14, <1>15, <1>16, <1>17, <1>18 DEF RunBuild, GetRecord, Within, outside, flow,
     IInv, TInstalled, TAgent, TRecord, TPull, TEvents, TTrigger, TOf, TState, TBuild,
     TPassed, TCi, TReadAgent, TFaults, Untriggered, Recorded, About, NotStarted,
     AgentByTrigger, CiRuns

LEMMA ReportBuildKeeps ==
    ASSUME IInv, NEW e \in Executions, ReportBuild(e)
    PROVE  IInv'
<1>1. of[e] \in Deployments /\ trigger[of[e]] # "idle" /\ record[of[e]] \in RecordType
  BY DEF ReportBuild, IInv, About, Recorded, BuildTask
<1>2. \/ record' = record
      \/ \E x \in StageStatus : ShellUpdate(e, of[e], state[e], x) /\ readRecord[e] \in RecordType
  BY DEF ReportBuild, IInv, RecordHeld, Reports, StageStatus
<1>3. state[e] \in Stage
  BY StageIs DEF ReportBuild, BuildTask
<1>4. TRecord'
  BY <1>1, <1>2, <1>3, ShellUpdateType DEF IInv, TRecord
<1>5. TState'
  BY <1>1, StageIs, NextStateIs DEF ReportBuild, Goto, IInv, TState, LambdaTask, BuildTask,
     MarkTask, Ended, outside
<1>6. TPhase'
  BY <1>1 DEF ReportBuild, Goto, IInv, TPhase, outside
<1>7. TVerdict'
  BY <1>1 DEF ReportBuild, Goto, IInv, TVerdict, outside
<1>8. TPassed'
  BY <1>1 DEF ReportBuild, IInv, TPassed, BuildTask, outside
<1>9. TReadRecord'
  BY <1>1, Writers, NotRead DEF ReportBuild, ShellUpdate, IInv, TReadRecord, About,
     Recorded, Reports, TRecord, TOf, outside
<1>10. Recorded'
  <2>1. \A d \in Deployments : record[d] \in RecordType => record'[d] \in RecordType
    BY <1>1, <1>2, <1>3, ShellUpdateType DEF IInv, TRecord
  <2>2. QED  BY <2>1 DEF ReportBuild, outside, IInv, Recorded
<1>11. About'
  BY <1>1, StageIs, NextStateIs DEF ReportBuild, Goto, IInv, TState, TOf, TTrigger, About,
     LambdaTask, BuildTask, MarkTask, Ended, outside
<1>12. NotStarted'
  BY <1>1, StageIs, NextStateIs DEF ReportBuild, Goto, IInv, TState, TBuild, NotStarted,
     LambdaTask, BuildTask, MarkTask, Ended, Branches, outside
<1>13. RecordByTrigger'
  BY <1>1, Writers, NotRead DEF ReportBuild, ShellUpdate, IInv, TTrigger, TReadRecord,
     RecordByTrigger, About, Recorded, Reports, TRecord, TOf, outside
<1>14. AgentHeld'
  BY <1>1 DEF ReportBuild, Goto, IInv, TPhase, TReadAgent, AgentHeld, outside
<1>15. RecordHeld'
  BY <1>1, Writers, NotRead DEF ReportBuild, ShellUpdate, Goto, IInv, TPhase, TReadRecord,
     RecordHeld, About, Recorded, Reports, TRecord, TOf, outside
<1>16. HeldByScan'
  BY <1>1, Writers, NotRead DEF ReportBuild, ShellUpdate, IInv, TBuild, TReadRecord,
     HeldByScan, About, Recorded, Reports, TRecord, TOf, Branches, outside
<1>17. HeldByCi'
  BY <1>1, Writers, NotRead DEF ReportBuild, ShellUpdate, IInv, TCi, TReadRecord, HeldByCi,
     About, Recorded, Reports, TRecord, TOf, outside
<1>18. Reports'
  BY <1>1, StageIs, NextStateIs DEF ReportBuild, Goto, IInv, TPhase, TVerdict, Reports,
     outside
<1>19. ScansPassed'
  BY <1>1, StageIs, NextStateIs DEF ReportBuild, Goto, IInv, TState, TBuild, TApplied,
     ScansPassed, LambdaTask, BuildTask, MarkTask, Ended, AfterScans, Branches, ApplyRan,
     AfterPull, outside
<1>20. BuildsPassed'
  BY <1>1, StageIs, NextStateIs DEF ReportBuild, Goto, IInv, TState, TPassed, TApplied,
     BuildsPassed, LambdaTask, BuildTask, MarkTask, Ended, AfterScans, AfterPlan, ApplyRan,
     AfterPull, outside
<1>21. Merged'
  BY <1>1, StageIs, NextStateIs DEF ReportBuild, Goto, IInv, TState, TPull, TOf, TApplied,
     Merged, LambdaTask, BuildTask, MarkTask, Ended, AfterPull, About, Untriggered,
     ApplyRan, outside
<1>22. ApplyRan'
  BY <1>1, StageIs, NextStateIs DEF ReportBuild, Goto, IInv, TState, TPhase, TApplied,
     ApplyRan, LambdaTask, BuildTask, MarkTask, Ended, AfterApply, AfterPull, outside
<1>23. QED
  BY <1>1, <1>2, <1>3, <1>4, <1>5, <1>6, <1>7, <1>8, <1>9, <1>10, <1>11, <1>12, <1>13,
     <1>14, <1>15, <1>16, <1>17, <1>18, <1>19, <1>20, <1>21, <1>22 DEF ReportBuild,
     ShellUpdate, Goto, outside, flow, IInv, TInstalled, TAgent, TPull, TEvents, TTrigger,
     TOf, TBuild, TCi, TReadAgent, TApplied, TFaults, Untriggered, AgentByTrigger, CiRuns,
     CiApplied, LiveApplied, ReadApplied, IsApplied

LEMMA DecideKeeps ==
    ASSUME IInv, NEW e \in Executions, Decide(e)
    PROVE  IInv'
<1>1. TPhase'
  BY DEF Decide, Within, IInv, TPhase, outside
<1>2. TVerdict'
  BY DEF Decide, Decision, PolicyGate, IInv, TVerdict, outside
<1>3. AgentHeld'
  BY DEF Decide, Within, IInv, TPhase, TReadAgent, AgentHeld, outside
<1>4. RecordHeld'
  BY DEF Decide, Within, IInv, TPhase, TReadRecord, RecordHeld, outside
<1>5. Reports'
  BY StageIs, NextStateIs DEF Decide, Within, Decision, PolicyGate, IInv, TPhase, TVerdict,
     Reports, outside
<1>6. ApplyRan'
  BY StageIs, NextStateIs DEF Decide, Within, IInv, TState, TPhase, TApplied, ApplyRan,
     LambdaTask, BuildTask, MarkTask, Ended, AfterApply, AfterPull, outside
<1>7. QED
  BY <1>1, <1>2, <1>3, <1>4, <1>5, <1>6 DEF Decide, Within, outside, flow, IInv,
     TInstalled, TAgent, TRecord, TPull, TEvents, TTrigger, TOf, TState, TBuild, TPassed,
     TCi, TReadAgent, TReadRecord, TApplied, TFaults, Untriggered, Recorded, About,
     NotStarted, AgentByTrigger, RecordByTrigger, HeldByScan, HeldByCi, CiRuns, CiApplied,
     ScansPassed, BuildsPassed, Merged, LiveApplied, ReadApplied, IsApplied

LEMMA EnforcePolicyGateKeeps ==
    ASSUME IInv, NEW e \in Executions, EnforcePolicyGate(e)
    PROVE  IInv'
<1>1. of[e] \in Deployments /\ trigger[of[e]] # "idle" /\ record[of[e]] \in RecordType
  BY DEF EnforcePolicyGate, IInv, About, Recorded
<1>2. TRecord'
  BY <1>1, UpdateStageType, StageIs, NextStateIs DEF EnforcePolicyGate, PutRecord, IInv,
     TRecord, RecordHeld, About, Recorded, StageStatus, Settled, LambdaTask, BuildTask,
     TOf, outside
<1>3. TPhase'
  BY <1>1 DEF EnforcePolicyGate, Within, IInv, TPhase, outside
<1>4. TReadRecord'
  BY <1>1, Writers, NotRead DEF EnforcePolicyGate, GetRecord, PutRecord, IInv, TReadRecord,
     About, Recorded, TRecord, TOf, outside
<1>5. Recorded'
  BY <1>1, UpdateStageType, StageIs, NextStateIs DEF EnforcePolicyGate, PutRecord, IInv,
     TTrigger, TRecord, Recorded, RecordHeld, About, StageStatus, Settled, LambdaTask,
     BuildTask, TOf, outside
<1>6. RecordByTrigger'
  <2>1. readRecord' = [readRecord EXCEPT ![e] = readRecord'[e]]
    BY Writers DEF EnforcePolicyGate, GetRecord, PutRecord, IInv, TReadRecord
  <2>2. \A d \in Deployments : readRecord'[d] = readRecord[d]
    BY <2>1, Writers DEF IInv, TReadRecord
  <2>3. QED  BY <2>2 DEF EnforcePolicyGate, outside, IInv, RecordByTrigger
<1>7. AgentHeld'
  BY <1>1 DEF EnforcePolicyGate, Within, IInv, TPhase, TReadAgent, AgentHeld, outside
<1>8. RecordHeld'
  BY <1>1, Writers, NotRead DEF EnforcePolicyGate, GetRecord, PutRecord, Within, IInv,
     TPhase, TReadRecord, RecordHeld, About, Recorded, TRecord, TOf, outside
<1>9. HeldByScan'
  BY <1>1, Writers, NotRead DEF EnforcePolicyGate, GetRecord, PutRecord, IInv, TBuild,
     TReadRecord, HeldByScan, About, Recorded, TRecord, TOf, Branches, outside
<1>10. HeldByCi'
  BY <1>1, Writers, NotRead DEF EnforcePolicyGate, GetRecord, PutRecord, IInv, TCi,
     TReadRecord, HeldByCi, About, Recorded, TRecord, TOf, outside
<1>11. Reports'
  BY <1>1, StageIs, NextStateIs DEF EnforcePolicyGate, Within, IInv, TPhase, TVerdict,
     Reports, outside
<1>12. ApplyRan'
  BY <1>1, StageIs, NextStateIs DEF EnforcePolicyGate, Within, IInv, TState, TPhase,
     TApplied, ApplyRan, LambdaTask, BuildTask, MarkTask, Ended, AfterApply, AfterPull,
     outside
<1>13. QED
  BY <1>1, <1>2, <1>3, <1>4, <1>5, <1>6, <1>7, <1>8, <1>9, <1>10, <1>11, <1>12 DEF
     EnforcePolicyGate, GetRecord, PutRecord, Within, outside, flow, IInv, TInstalled,
     TAgent, TPull, TEvents, TTrigger, TOf, TState, TVerdict, TBuild, TPassed, TCi,
     TReadAgent, TApplied, TFaults, Untriggered, About, NotStarted, AgentByTrigger, CiRuns,
     CiApplied, ScansPassed, BuildsPassed, Merged, LiveApplied, ReadApplied, IsApplied

LEMMA MarkBlockedAgentKeeps ==
    ASSUME IInv, NEW e \in Executions, MarkBlockedAgent(e)
    PROVE  IInv'
<1>1. of[e] \in Deployments
  BY DEF MarkBlockedAgent, IInv, About
<1>2. phase[e] \in {"agent", "blocking"} =>
        readAgent[e] \in AgentType /\ (readAgent[e].live = NoDeployment \/ IsApplied(readAgent[e].live))
  BY Writers, NotRead DEF IInv, AgentHeld, ReadApplied
<1>3. \/ agent' = agent
      \/ phase[e] = "blocking" /\ agent' = FallBack(readAgent[e], "BLOCKED")
  BY DEF MarkBlockedAgent, PutAgent
<1>4. applied' = applied /\ of' = of
  BY DEF MarkBlockedAgent, outside
<1>5. \A d \in Deployments : readAgent'[d] = readAgent[d]
  BY Writers DEF MarkBlockedAgent, GetAgent, PutAgent, IInv, TReadAgent
<1>6. TAgent'
  BY <1>1, <1>2, <1>3, <1>4, AgentItem DEF IInv, TAgent
<1>7. TPhase'
  BY <1>1, <1>2 DEF MarkBlockedAgent, Within, IInv, TPhase, outside
<1>8. TReadAgent'
  BY <1>1, <1>2, Writers, AgentItem, NotRead DEF MarkBlockedAgent, GetAgent, PutAgent,
     IInv, TReadAgent, AgentHeld, TAgent, outside
<1>9. AgentByTrigger'
  BY <1>5 DEF MarkBlockedAgent, outside, IInv, AgentByTrigger
<1>10. AgentHeld'
  BY <1>1, <1>2, Writers, AgentItem, NotRead DEF MarkBlockedAgent, GetAgent, PutAgent,
     Within, IInv, TPhase, TReadAgent, AgentHeld, TAgent, outside
<1>11. RecordHeld'
  BY <1>1, <1>2 DEF MarkBlockedAgent, Within, IInv, TPhase, TReadRecord, RecordHeld, outside
<1>12. Reports'
  BY <1>1, <1>2, StageIs, NextStateIs DEF MarkBlockedAgent, Within, IInv, TPhase, TVerdict,
     Reports, outside
<1>13. ApplyRan'
  BY <1>1, <1>2, StageIs, NextStateIs DEF MarkBlockedAgent, Within, IInv, TState, TPhase,
     TApplied, ApplyRan, LambdaTask, BuildTask, MarkTask, Ended, AfterApply, AfterPull,
     outside
<1>14. LiveApplied'
  BY <1>1, <1>2, <1>3, <1>4, AgentItem DEF IInv, LiveApplied, IsApplied, ApplyRan, AfterApply
<1>15. ReadApplied'
  <2>1. readAgent'[e] = agent \/ readAgent'[e] = Unread
    BY Writers DEF MarkBlockedAgent, GetAgent, PutAgent, IInv, TReadAgent
  <2>2. \A w \in Writer : w # e => readAgent'[w] = readAgent[w]
    BY Writers DEF MarkBlockedAgent, GetAgent, PutAgent, IInv, TReadAgent
  <2>3. QED  BY <1>4, <2>1, <2>2 DEF IInv, ReadApplied, LiveApplied, IsApplied
<1>16. QED
  BY <1>1, <1>2, <1>3, <1>4, <1>5, <1>6, <1>7, <1>8, <1>9, <1>10, <1>11, <1>12, <1>13,
     <1>14, <1>15 DEF MarkBlockedAgent, GetAgent, PutAgent, Within, outside, flow, IInv,
     TInstalled, TRecord, TPull, TEvents, TTrigger, TOf, TState, TVerdict, TBuild, TPassed,
     TCi, TReadRecord, TApplied, TFaults, Untriggered, Recorded, About, NotStarted,
     RecordByTrigger, HeldByScan, HeldByCi, CiRuns, CiApplied, ScansPassed, BuildsPassed,
     Merged

LEMMA PullRequestKeeps ==
    ASSUME IInv, NEW e \in Executions, PullRequest(e)
    PROVE  IInv'
<1>1. of[e] \in Deployments /\ trigger[of[e]] # "idle" /\ record[of[e]] \in RecordType
  BY DEF PullRequest, IInv, About, Recorded
<1>2. TPull'
  BY <1>1 DEF PullRequest, IInv, TPull, outside
<1>3. TState'
  BY <1>1, StageIs, NextStateIs DEF PullRequest, Goto, IInv, TState, LambdaTask, BuildTask,
     MarkTask, Ended, outside
<1>4. TPhase'
  BY <1>1 DEF PullRequest, Goto, IInv, TPhase, outside
<1>5. TVerdict'
  BY <1>1 DEF PullRequest, Goto, IInv, TVerdict, outside
<1>6. Untriggered'
  BY <1>1 DEF PullRequest, IInv, TTrigger, TPull, TEvents, TCi, Untriggered, outside
<1>7. About'
  BY <1>1, StageIs, NextStateIs DEF PullRequest, Goto, IInv, TState, TOf, TTrigger, About,
     LambdaTask, BuildTask, MarkTask, Ended, outside
<1>8. NotStarted'
  BY <1>1, StageIs, NextStateIs DEF PullRequest, Goto, IInv, TState, TBuild, NotStarted,
     LambdaTask, BuildTask, MarkTask, Ended, Branches, outside
<1>9. AgentHeld'
  BY <1>1 DEF PullRequest, Goto, IInv, TPhase, TReadAgent, AgentHeld, outside
<1>10. RecordHeld'
  BY <1>1 DEF PullRequest, Goto, IInv, TPhase, TReadRecord, RecordHeld, outside
<1>11. Reports'
  BY <1>1, StageIs, NextStateIs DEF PullRequest, Goto, IInv, TPhase, TVerdict, Reports,
     outside
<1>12. CiRuns'
  BY <1>1 DEF PullRequest, IInv, TCi, TPull, CiRuns, outside
<1>13. ScansPassed'
  BY <1>1, StageIs, NextStateIs DEF PullRequest, Goto, IInv, TState, TBuild, TApplied,
     ScansPassed, LambdaTask, BuildTask, MarkTask, Ended, AfterScans, Branches, ApplyRan,
     AfterPull, outside
<1>14. BuildsPassed'
  BY <1>1, StageIs, NextStateIs DEF PullRequest, Goto, IInv, TState, TPassed, TApplied,
     BuildsPassed, LambdaTask, BuildTask, MarkTask, Ended, AfterScans, AfterPlan, ApplyRan,
     AfterPull, outside
<1>15. Merged'
  BY <1>1, StageIs, NextStateIs DEF PullRequest, Goto, IInv, TState, TPull, TOf, TApplied,
     Merged, LambdaTask, BuildTask, MarkTask, Ended, AfterPull, About, Untriggered,
     ApplyRan, outside
<1>16. ApplyRan'
  BY <1>1, StageIs, NextStateIs DEF PullRequest, Goto, IInv, TState, TPhase, TApplied,
     ApplyRan, LambdaTask, BuildTask, MarkTask, Ended, AfterApply, AfterPull, outside
<1>17. QED
  BY <1>1, <1>2, <1>3, <1>4, <1>5, <1>6, <1>7, <1>8, <1>9, <1>10, <1>11, <1>12, <1>13,
     <1>14, <1>15, <1>16 DEF PullRequest, Goto, outside, flow, IInv, TInstalled, TAgent,
     TRecord, TEvents, TTrigger, TOf, TBuild, TPassed, TCi, TReadAgent, TReadRecord,
     TApplied, TFaults, Recorded, AgentByTrigger, RecordByTrigger, HeldByScan, HeldByCi,
     CiApplied, LiveApplied, ReadApplied, IsApplied

LEMMA MarkBlockedKeeps ==
    ASSUME IInv, NEW e \in Executions, MarkBlocked(e)
    PROVE  IInv'
<1>1. TState'
  BY StageIs, NextStateIs DEF MarkBlocked, Goto, IInv, TState, LambdaTask, BuildTask,
     MarkTask, Ended, outside
<1>2. TPhase'
  BY DEF MarkBlocked, Goto, IInv, TPhase, outside
<1>3. TVerdict'
  BY DEF MarkBlocked, Goto, IInv, TVerdict, outside
<1>4. About'
  BY StageIs, NextStateIs DEF MarkBlocked, Goto, IInv, TState, TOf, TTrigger, About,
     LambdaTask, BuildTask, MarkTask, Ended, outside
<1>5. NotStarted'
  BY StageIs, NextStateIs DEF MarkBlocked, Goto, IInv, TState, TBuild, NotStarted,
     LambdaTask, BuildTask, MarkTask, Ended, Branches, outside
<1>6. AgentHeld'
  BY DEF MarkBlocked, Goto, IInv, TPhase, TReadAgent, AgentHeld, outside
<1>7. RecordHeld'
  BY DEF MarkBlocked, Goto, IInv, TPhase, TReadRecord, RecordHeld, outside
<1>8. Reports'
  BY StageIs, NextStateIs DEF MarkBlocked, Goto, IInv, TPhase, TVerdict, Reports, outside
<1>9. ScansPassed'
  BY StageIs, NextStateIs DEF MarkBlocked, Goto, IInv, TState, TBuild, TApplied,
     ScansPassed, LambdaTask, BuildTask, MarkTask, Ended, AfterScans, Branches, ApplyRan,
     AfterPull, outside
<1>10. BuildsPassed'
  BY StageIs, NextStateIs DEF MarkBlocked, Goto, IInv, TState, TPassed, TApplied,
     BuildsPassed, LambdaTask, BuildTask, MarkTask, Ended, AfterScans, AfterPlan, ApplyRan,
     AfterPull, outside
<1>11. Merged'
  BY StageIs, NextStateIs DEF MarkBlocked, Goto, IInv, TState, TPull, TOf, TApplied,
     Merged, LambdaTask, BuildTask, MarkTask, Ended, AfterPull, About, Untriggered,
     ApplyRan, outside
<1>12. ApplyRan'
  BY StageIs, NextStateIs DEF MarkBlocked, Goto, IInv, TState, TPhase, TApplied, ApplyRan,
     LambdaTask, BuildTask, MarkTask, Ended, AfterApply, AfterPull, outside
<1>13. QED
  BY <1>1, <1>2, <1>3, <1>4, <1>5, <1>6, <1>7, <1>8, <1>9, <1>10, <1>11, <1>12 DEF
     MarkBlocked, Goto, outside, flow, IInv, TInstalled, TAgent, TRecord, TPull, TEvents,
     TTrigger, TOf, TBuild, TPassed, TCi, TReadAgent, TReadRecord, TApplied, TFaults,
     Untriggered, Recorded, AgentByTrigger, RecordByTrigger, HeldByScan, HeldByCi, CiRuns,
     CiApplied, LiveApplied, ReadApplied, IsApplied

LEMMA MarkAgentKeeps ==
    ASSUME IInv, NEW e \in Executions, MarkAgent(e)
    PROVE  IInv'
<1>1. of[e] \in Deployments
  BY DEF MarkAgent, IInv, About
<1>2. phase[e] \in {"agent", "blocking"} =>
        readAgent[e] \in AgentType /\ (readAgent[e].live = NoDeployment \/ IsApplied(readAgent[e].live))
  BY Writers, NotRead DEF IInv, AgentHeld, ReadApplied
<1>3. \/ agent' = agent
      \/ state[e] = "MarkActive" /\ agent' = [status |-> "ACTIVE", live |-> of[e]]
      \/ phase[e] = "agent" /\ agent' = FallBack(readAgent[e], "FAILED")
  BY DEF MarkAgent, PutAgent
<1>4. applied' = applied /\ of' = of
  BY DEF MarkAgent, outside
<1>5. \A d \in Deployments : readAgent'[d] = readAgent[d]
  BY Writers DEF MarkAgent, GetAgent, PutAgent, IInv, TReadAgent
<1>6. TAgent'
  BY <1>1, <1>2, <1>3, <1>4, AgentItem DEF IInv, TAgent
<1>7. TPhase'
  BY <1>1, <1>2 DEF MarkAgent, Within, IInv, TPhase, outside
<1>8. TReadAgent'
  BY <1>1, <1>2, Writers, AgentItem, NotRead DEF MarkAgent, GetAgent, PutAgent, IInv,
     TReadAgent, AgentHeld, About, TAgent, outside
<1>9. AgentByTrigger'
  BY <1>5 DEF MarkAgent, outside, IInv, AgentByTrigger
<1>10. AgentHeld'
  BY <1>1, <1>2, Writers, AgentItem, NotRead DEF MarkAgent, GetAgent, PutAgent, Within,
     IInv, TPhase, TReadAgent, AgentHeld, About, TAgent, outside
<1>11. RecordHeld'
  BY <1>1, <1>2 DEF MarkAgent, Within, IInv, TPhase, TReadRecord, RecordHeld, outside
<1>12. Reports'
  BY <1>1, <1>2, StageIs, NextStateIs DEF MarkAgent, Within, IInv, TPhase, TVerdict,
     Reports, outside
<1>13. ApplyRan'
  BY <1>1, <1>2, StageIs, NextStateIs DEF MarkAgent, Within, IInv, TState, TPhase,
     TApplied, ApplyRan, LambdaTask, BuildTask, MarkTask, Ended, AfterApply, AfterPull,
     outside
<1>14. LiveApplied'
  <2>1. CASE agent' = agent
    BY <1>4, <2>1 DEF IInv, LiveApplied, IsApplied
  <2>2. CASE state[e] = "MarkActive" /\ agent' = [status |-> "ACTIVE", live |-> of[e]]
    BY <1>4, <2>2 DEF IInv, LiveApplied, IsApplied, ApplyRan, AfterApply
  <2>3. CASE phase[e] = "agent" /\ agent' = FallBack(readAgent[e], "FAILED")
    BY <1>2, <1>4, <2>3, AgentItem DEF LiveApplied, IsApplied
  <2>4. QED  BY <1>3, <2>1, <2>2, <2>3
<1>15. ReadApplied'
  <2>1. readAgent'[e] = agent \/ readAgent'[e] = Unread
    BY Writers DEF MarkAgent, GetAgent, PutAgent, IInv, TReadAgent
  <2>2. \A w \in Writer : w # e => readAgent'[w] = readAgent[w]
    BY Writers DEF MarkAgent, GetAgent, PutAgent, IInv, TReadAgent
  <2>3. QED  BY <1>4, <2>1, <2>2 DEF IInv, ReadApplied, LiveApplied, IsApplied
<1>16. QED
  BY <1>1, <1>2, <1>3, <1>4, <1>5, <1>6, <1>7, <1>8, <1>9, <1>10, <1>11, <1>12, <1>13,
     <1>14, <1>15 DEF MarkAgent, GetAgent, PutAgent, Within, outside, flow, IInv,
     TInstalled, TRecord, TPull, TEvents, TTrigger, TOf, TState, TVerdict, TBuild, TPassed,
     TCi, TReadRecord, TApplied, TFaults, Untriggered, Recorded, About, NotStarted,
     RecordByTrigger, HeldByScan, HeldByCi, CiRuns, CiApplied, ScansPassed, BuildsPassed,
     Merged

LEMMA MarkRecordKeeps ==
    ASSUME IInv, NEW e \in Executions, MarkRecord(e)
    PROVE  IInv'
<1>1. of[e] \in Deployments /\ trigger[of[e]] # "idle" /\ record[of[e]] \in RecordType
  BY DEF MarkRecord, IInv, About, Recorded
<1>2. TRecord'
  BY <1>1, UpdateStageType, StageIs, NextStateIs DEF MarkRecord, PutRecord, IInv, TRecord,
     RecordHeld, About, Recorded, StageStatus, Settled, LambdaTask, BuildTask, TOf, outside
<1>3. TState'
  BY <1>1, StageIs, NextStateIs DEF MarkRecord, Goto, Within, IInv, TState, LambdaTask,
     BuildTask, MarkTask, Ended, outside
<1>4. TPhase'
  BY <1>1 DEF MarkRecord, Goto, Within, IInv, TPhase, outside
<1>5. TVerdict'
  BY <1>1 DEF MarkRecord, Goto, IInv, TVerdict, outside
<1>6. TReadRecord'
  BY <1>1, Writers, NotRead DEF MarkRecord, GetRecord, PutRecord, IInv, TReadRecord, About,
     Recorded, TRecord, TOf, outside
<1>7. Recorded'
  BY <1>1, UpdateStageType, StageIs, NextStateIs DEF MarkRecord, PutRecord, IInv, TTrigger,
     TRecord, Recorded, RecordHeld, About, StageStatus, Settled, LambdaTask, BuildTask,
     TOf, outside
<1>8. About'
  BY <1>1, StageIs, NextStateIs DEF MarkRecord, Goto, Within, IInv, TState, TOf, TTrigger,
     About, LambdaTask, BuildTask, MarkTask, Ended, outside
<1>9. NotStarted'
  BY <1>1, StageIs, NextStateIs DEF MarkRecord, Goto, Within, IInv, TState, TBuild,
     NotStarted, LambdaTask, BuildTask, MarkTask, Ended, Branches, outside
<1>10. RecordByTrigger'
  <2>1. readRecord' = [readRecord EXCEPT ![e] = readRecord'[e]]
    BY Writers DEF MarkRecord, GetRecord, PutRecord, IInv, TReadRecord
  <2>2. \A d \in Deployments : readRecord'[d] = readRecord[d]
    BY <2>1, Writers DEF IInv, TReadRecord
  <2>3. QED  BY <2>2 DEF MarkRecord, outside, IInv, RecordByTrigger
<1>11. AgentHeld'
  BY <1>1 DEF MarkRecord, Goto, Within, IInv, TPhase, TReadAgent, AgentHeld, outside
<1>12. RecordHeld'
  BY <1>1, Writers, NotRead DEF MarkRecord, GetRecord, PutRecord, Goto, Within, IInv,
     TPhase, TReadRecord, RecordHeld, About, Recorded, TRecord, TOf, outside
<1>13. HeldByScan'
  BY <1>1, Writers, NotRead DEF MarkRecord, GetRecord, PutRecord, IInv, TBuild,
     TReadRecord, HeldByScan, About, Recorded, TRecord, TOf, Branches, outside
<1>14. HeldByCi'
  BY <1>1, Writers, NotRead DEF MarkRecord, GetRecord, PutRecord, IInv, TCi, TReadRecord,
     HeldByCi, About, Recorded, TRecord, TOf, outside
<1>15. Reports'
  BY <1>1, StageIs, NextStateIs DEF MarkRecord, Goto, Within, IInv, TPhase, TVerdict,
     Reports, outside
<1>16. ScansPassed'
  BY <1>1, StageIs, NextStateIs DEF MarkRecord, Goto, Within, IInv, TState, TBuild,
     TApplied, ScansPassed, LambdaTask, BuildTask, MarkTask, Ended, AfterScans, Branches,
     ApplyRan, AfterPull, outside
<1>17. BuildsPassed'
  BY <1>1, StageIs, NextStateIs DEF MarkRecord, Goto, Within, IInv, TState, TPassed,
     TApplied, BuildsPassed, LambdaTask, BuildTask, MarkTask, Ended, AfterScans, AfterPlan,
     ApplyRan, AfterPull, outside
<1>18. Merged'
  BY <1>1, StageIs, NextStateIs DEF MarkRecord, Goto, Within, IInv, TState, TPull, TOf,
     TApplied, Merged, LambdaTask, BuildTask, MarkTask, Ended, AfterPull, About,
     Untriggered, ApplyRan, outside
<1>19. ApplyRan'
  BY <1>1, StageIs, NextStateIs DEF MarkRecord, Goto, Within, IInv, TState, TPhase,
     TApplied, ApplyRan, LambdaTask, BuildTask, MarkTask, Ended, AfterApply, AfterPull,
     outside
<1>20. QED
  BY <1>1, <1>2, <1>3, <1>4, <1>5, <1>6, <1>7, <1>8, <1>9, <1>10, <1>11, <1>12, <1>13,
     <1>14, <1>15, <1>16, <1>17, <1>18, <1>19 DEF MarkRecord, GetRecord, PutRecord, Goto,
     Within, outside, flow, IInv, TInstalled, TAgent, TPull, TEvents, TTrigger, TOf,
     TBuild, TPassed, TCi, TReadAgent, TApplied, TFaults, Untriggered, AgentByTrigger,
     CiRuns, CiApplied, LiveApplied, ReadApplied, IsApplied

LEMMA RaiseKeeps ==
    ASSUME IInv, NEW e \in Executions, Raise(e)
    PROVE  IInv'
<1>1. TState'
  BY StageIs, NextStateIs DEF Raise, Goto, IInv, TState, LambdaTask, BuildTask, MarkTask,
     Ended, outside
<1>2. TPhase'
  BY DEF Raise, Goto, IInv, TPhase, outside
<1>3. TVerdict'
  BY DEF Raise, Goto, IInv, TVerdict, outside
<1>4. TReadAgent'
  BY Writers, AgentItem, NotRead DEF Raise, IInv, TReadAgent, TAgent, outside
<1>5. TReadRecord'
  BY Writers, NotRead DEF Raise, IInv, TReadRecord, TRecord, TOf, outside
<1>6. TFaults'
  BY FaultsAssumption DEF Raise, Fault, IInv, TFaults, outside
<1>7. About'
  BY StageIs, NextStateIs DEF Raise, Goto, IInv, TState, TOf, TTrigger, About, LambdaTask,
     BuildTask, MarkTask, Ended, outside
<1>8. NotStarted'
  BY StageIs, NextStateIs DEF Raise, Goto, IInv, TState, TBuild, NotStarted, LambdaTask,
     BuildTask, MarkTask, Ended, Branches, outside
<1>9. AgentByTrigger'
  BY Writers, AgentItem, NotRead DEF Raise, IInv, TTrigger, TReadAgent, AgentByTrigger,
     TAgent, outside
<1>10. RecordByTrigger'
  BY Writers, NotRead DEF Raise, IInv, TTrigger, TReadRecord, RecordByTrigger, TRecord,
     TOf, outside
<1>11. AgentHeld'
  BY Writers, AgentItem, NotRead DEF Raise, Goto, IInv, TPhase, TReadAgent, AgentHeld,
     TAgent, outside
<1>12. RecordHeld'
  BY Writers, NotRead DEF Raise, Goto, IInv, TPhase, TReadRecord, RecordHeld, TRecord, TOf,
     outside
<1>13. HeldByScan'
  BY Writers, NotRead DEF Raise, IInv, TBuild, TReadRecord, HeldByScan, TRecord, TOf,
     Branches, outside
<1>14. HeldByCi'
  BY Writers, NotRead DEF Raise, IInv, TCi, TReadRecord, HeldByCi, TRecord, TOf, outside
<1>15. Reports'
  BY StageIs, NextStateIs DEF Raise, Goto, IInv, TPhase, TVerdict, Reports, outside
<1>16. ScansPassed'
  BY StageIs, NextStateIs DEF Raise, Goto, IInv, TState, TBuild, TApplied, ScansPassed,
     LambdaTask, BuildTask, MarkTask, Ended, AfterScans, Branches, ApplyRan, AfterPull,
     outside
<1>17. BuildsPassed'
  BY StageIs, NextStateIs DEF Raise, Goto, IInv, TState, TPassed, TApplied, BuildsPassed,
     LambdaTask, BuildTask, MarkTask, Ended, AfterScans, AfterPlan, ApplyRan, AfterPull,
     outside
<1>18. Merged'
  BY StageIs, NextStateIs DEF Raise, Goto, IInv, TState, TPull, TOf, TApplied, Merged,
     LambdaTask, BuildTask, MarkTask, Ended, AfterPull, About, Untriggered, ApplyRan,
     outside
<1>19. ApplyRan'
  BY StageIs, NextStateIs DEF Raise, Goto, IInv, TState, TPhase, TApplied, ApplyRan,
     LambdaTask, BuildTask, MarkTask, Ended, AfterApply, AfterPull, outside
<1>20. ReadApplied'
  BY Writers, AgentItem, NotRead DEF Raise, IInv, TReadAgent, TApplied, TOf, ReadApplied,
     TAgent, IsApplied, CiApplied, ApplyRan, AfterApply, LiveApplied, outside
<1>21. QED
  BY <1>1, <1>2, <1>3, <1>4, <1>5, <1>6, <1>7, <1>8, <1>9, <1>10, <1>11, <1>12, <1>13,
     <1>14, <1>15, <1>16, <1>17, <1>18, <1>19, <1>20 DEF Raise, Fault, Goto, outside, flow,
     IInv, TInstalled, TAgent, TRecord, TPull, TEvents, TTrigger, TOf, TBuild, TPassed,
     TCi, TApplied, Untriggered, Recorded, CiRuns, CiApplied, LiveApplied, IsApplied

LEMMA DieKeeps ==
    ASSUME IInv, NEW e \in Executions, Die(e)
    PROVE  IInv'
<1>1. TState'
  BY StageIs, NextStateIs DEF Die, Goto, IInv, TState, LambdaTask, BuildTask, MarkTask,
     Ended, outside
<1>2. TPhase'
  BY DEF Die, Goto, IInv, TPhase, outside
<1>3. TVerdict'
  BY DEF Die, Goto, IInv, TVerdict, outside
<1>4. TReadAgent'
  BY Writers, AgentItem, NotRead DEF Die, IInv, TReadAgent, TAgent, outside
<1>5. TReadRecord'
  BY Writers, NotRead DEF Die, IInv, TReadRecord, TRecord, TOf, outside
<1>6. TFaults'
  BY FaultsAssumption DEF Die, Fault, IInv, TFaults, outside
<1>7. About'
  BY StageIs, NextStateIs DEF Die, Goto, IInv, TState, TOf, TTrigger, About, LambdaTask,
     BuildTask, MarkTask, Ended, outside
<1>8. NotStarted'
  BY StageIs, NextStateIs DEF Die, Goto, IInv, TState, TBuild, NotStarted, LambdaTask,
     BuildTask, MarkTask, Ended, Branches, outside
<1>9. AgentByTrigger'
  BY Writers, AgentItem, NotRead DEF Die, IInv, TTrigger, TReadAgent, AgentByTrigger,
     TAgent, outside
<1>10. RecordByTrigger'
  BY Writers, NotRead DEF Die, IInv, TTrigger, TReadRecord, RecordByTrigger, TRecord, TOf,
     outside
<1>11. AgentHeld'
  BY Writers, AgentItem, NotRead DEF Die, Goto, IInv, TPhase, TReadAgent, AgentHeld,
     TAgent, outside
<1>12. RecordHeld'
  BY Writers, NotRead DEF Die, Goto, IInv, TPhase, TReadRecord, RecordHeld, TRecord, TOf,
     outside
<1>13. HeldByScan'
  BY Writers, NotRead DEF Die, IInv, TBuild, TReadRecord, HeldByScan, TRecord, TOf,
     Branches, outside
<1>14. HeldByCi'
  BY Writers, NotRead DEF Die, IInv, TCi, TReadRecord, HeldByCi, TRecord, TOf, outside
<1>15. Reports'
  BY StageIs, NextStateIs DEF Die, Goto, IInv, TPhase, TVerdict, Reports, outside
<1>16. ScansPassed'
  BY StageIs, NextStateIs DEF Die, Goto, IInv, TState, TBuild, TApplied, ScansPassed,
     LambdaTask, BuildTask, MarkTask, Ended, AfterScans, Branches, ApplyRan, AfterPull,
     outside
<1>17. BuildsPassed'
  BY StageIs, NextStateIs DEF Die, Goto, IInv, TState, TPassed, TApplied, BuildsPassed,
     LambdaTask, BuildTask, MarkTask, Ended, AfterScans, AfterPlan, ApplyRan, AfterPull,
     outside
<1>18. Merged'
  BY StageIs, NextStateIs DEF Die, Goto, IInv, TState, TPull, TOf, TApplied, Merged,
     LambdaTask, BuildTask, MarkTask, Ended, AfterPull, About, Untriggered, ApplyRan,
     outside
<1>19. ApplyRan'
  BY StageIs, NextStateIs DEF Die, Goto, IInv, TState, TPhase, TApplied, ApplyRan,
     LambdaTask, BuildTask, MarkTask, Ended, AfterApply, AfterPull, outside
<1>20. ReadApplied'
  BY Writers, AgentItem, NotRead DEF Die, IInv, TReadAgent, TApplied, TOf, ReadApplied,
     TAgent, IsApplied, CiApplied, ApplyRan, AfterApply, LiveApplied, outside
<1>21. QED
  BY <1>1, <1>2, <1>3, <1>4, <1>5, <1>6, <1>7, <1>8, <1>9, <1>10, <1>11, <1>12, <1>13,
     <1>14, <1>15, <1>16, <1>17, <1>18, <1>19, <1>20 DEF Die, Fault, Goto, outside, flow,
     IInv, TInstalled, TAgent, TRecord, TPull, TEvents, TTrigger, TOf, TBuild, TPassed,
     TCi, TApplied, Untriggered, Recorded, CiRuns, CiApplied, LiveApplied, IsApplied

LEMMA ScannedKeeps ==
    ASSUME IInv, NEW b \in Branches, Scanned(b)
    PROVE  IInv'
<1>1. TBuild'
  BY Writers DEF Scanned, IInv, TBuild, Branches, outside
<1>2. TReadRecord'
  BY Writers, NotRead DEF Scanned, GetRecord, IInv, TReadRecord, About, Recorded,
     NotStarted, TRecord, TOf, outside
<1>3. NotStarted'
  BY Writers DEF Scanned, IInv, TState, TBuild, NotStarted, LambdaTask, BuildTask,
     MarkTask, Ended, Branches, outside
<1>4. RecordByTrigger'
  BY Writers, NotRead DEF Scanned, GetRecord, IInv, TTrigger, TReadRecord, RecordByTrigger,
     About, Recorded, NotStarted, TRecord, TOf, outside
<1>5. RecordHeld'
  BY Writers, NotRead DEF Scanned, GetRecord, IInv, TPhase, TReadRecord, RecordHeld, About,
     Recorded, NotStarted, TRecord, TOf, outside
<1>6. HeldByScan'
  BY Writers, NotRead DEF Scanned, GetRecord, IInv, TBuild, TReadRecord, HeldByScan, About,
     Recorded, NotStarted, TRecord, TOf, Branches, outside
<1>7. HeldByCi'
  BY Writers, NotRead DEF Scanned, GetRecord, IInv, TCi, TReadRecord, HeldByCi, About,
     Recorded, NotStarted, TRecord, TOf, outside
<1>8. ScansPassed'
  BY Writers DEF Scanned, IInv, TState, TBuild, TApplied, ScansPassed, LambdaTask,
     BuildTask, MarkTask, Ended, AfterScans, Branches, ApplyRan, AfterPull, outside
<1>9. QED
  BY <1>1, <1>2, <1>3, <1>4, <1>5, <1>6, <1>7, <1>8 DEF Scanned, GetRecord, outside, flow,
     IInv, TInstalled, TAgent, TRecord, TPull, TEvents, TTrigger, TOf, TState, TPhase,
     TVerdict, TPassed, TCi, TReadAgent, TApplied, TFaults, Untriggered, Recorded, About,
     AgentByTrigger, AgentHeld, Reports, CiRuns, CiApplied, BuildsPassed, Merged, ApplyRan,
     LiveApplied, ReadApplied, IsApplied

LEMMA ReportScanKeeps ==
    ASSUME IInv, NEW b \in Branches, ReportScan(b)
    PROVE  IInv'
<1>1. b[1] \in Executions /\ of[b[1]] \in Deployments /\ record[of[b[1]]] \in RecordType
  BY Writers DEF ReportScan, IInv, NotStarted, About, Recorded
<1>2. \E x \in {"PASSED", "FAILED"} :
        ShellUpdate(b, of[b[1]], "SECURITY_SCANNING", x) /\ readRecord[b] \in RecordType
  BY DEF ReportScan, IInv, HeldByScan
<1>3. readRecord' = [readRecord EXCEPT ![b] = Unread] /\ UNCHANGED <<trigger, phase, ci>>
  BY DEF ReportScan, ShellUpdate, outside
<1>4. TRecord'
  BY <1>1, <1>2, ShellUpdateType, StageIs DEF IInv, StageStatus
<1>5. TBuild'
  BY <1>1, <1>2, Writers DEF ReportScan, IInv, TBuild, Branches, outside
<1>6. TReadRecord'
  BY <1>1, <1>2, Writers, NotRead DEF ReportScan, ShellUpdate, IInv, TReadRecord, About,
     Recorded, NotStarted, TRecord, TOf, outside
<1>7. Recorded'
  BY <1>1, <1>2, ShellUpdateType, StageIs, Writers DEF ReportScan, IInv, TTrigger, TRecord,
     Recorded, HeldByScan, About, NotStarted, StageStatus, Settled, LambdaTask, BuildTask,
     TOf, outside
<1>8. NotStarted'
  BY <1>1, <1>2, Writers DEF ReportScan, IInv, TState, TBuild, NotStarted, LambdaTask,
     BuildTask, MarkTask, Ended, Branches, outside
<1>9. RecordByTrigger'
  BY <1>3, Writers DEF IInv, RecordByTrigger, TReadRecord
<1>10. RecordHeld'
  BY <1>3, Writers DEF IInv, RecordHeld, TReadRecord
<1>11. HeldByScan'
  BY <1>1, <1>2, Writers, NotRead DEF ReportScan, ShellUpdate, IInv, TBuild, TReadRecord,
     HeldByScan, About, Recorded, NotStarted, TRecord, TOf, Branches, outside
<1>12. HeldByCi'
  BY <1>3, Writers DEF IInv, HeldByCi, TReadRecord
<1>13. ScansPassed'
  BY <1>1, <1>2, Writers DEF ReportScan, IInv, TState, TBuild, TApplied, ScansPassed,
     LambdaTask, BuildTask, MarkTask, Ended, AfterScans, Branches, ApplyRan, AfterPull,
     outside
<1>14. QED
  BY <1>1, <1>2, <1>3, <1>4, <1>5, <1>6, <1>7, <1>8, <1>9, <1>10, <1>11, <1>12, <1>13 DEF
     ReportScan, outside, flow, IInv, TInstalled, TAgent, TPull, TEvents, TTrigger, TOf,
     TState, TPhase, TVerdict, TPassed, TCi, TReadAgent, TApplied, TFaults, Untriggered,
     About, AgentByTrigger, AgentHeld, Reports, CiRuns, CiApplied, BuildsPassed, Merged,
     ApplyRan, LiveApplied, ReadApplied, IsApplied

LEMMA ScanBreaksKeeps ==
    ASSUME IInv, NEW b \in Branches, ScanBreaks(b)
    PROVE  IInv'
<1>1. TBuild'
  BY Writers DEF ScanBreaks, IInv, TBuild, Branches, outside
<1>2. TFaults'
  BY FaultsAssumption DEF ScanBreaks, Fault, IInv, TFaults, outside
<1>3. NotStarted'
  BY Writers DEF ScanBreaks, IInv, TState, TBuild, NotStarted, LambdaTask, BuildTask,
     MarkTask, Ended, Branches, outside
<1>4. HeldByScan'
  BY Writers DEF ScanBreaks, IInv, TBuild, TReadRecord, HeldByScan, Branches, outside
<1>5. ScansPassed'
  BY Writers DEF ScanBreaks, IInv, TState, TBuild, TApplied, ScansPassed, LambdaTask,
     BuildTask, MarkTask, Ended, AfterScans, Branches, ApplyRan, AfterPull, outside
<1>6. QED
  BY <1>1, <1>2, <1>3, <1>4, <1>5 DEF ScanBreaks, Fault, outside, flow, IInv, TInstalled,
     TAgent, TRecord, TPull, TEvents, TTrigger, TOf, TState, TPhase, TVerdict, TPassed,
     TCi, TReadAgent, TReadRecord, TApplied, Untriggered, Recorded, About, AgentByTrigger,
     RecordByTrigger, AgentHeld, RecordHeld, HeldByCi, Reports, CiRuns, CiApplied,
     BuildsPassed, Merged, ApplyRan, LiveApplied, ReadApplied, IsApplied

LEMMA StopScanKeeps ==
    ASSUME IInv, NEW b \in Branches, StopScan(b)
    PROVE  IInv'
<1>1. TBuild'
  BY Writers DEF StopScan, IInv, TBuild, Branches, outside
<1>2. TReadRecord'
  BY Writers, NotRead DEF StopScan, IInv, TReadRecord, TRecord, TOf, outside
<1>3. NotStarted'
  BY Writers DEF StopScan, IInv, TState, TBuild, NotStarted, LambdaTask, BuildTask,
     MarkTask, Ended, Branches, outside
<1>4. RecordByTrigger'
  BY Writers, NotRead DEF StopScan, IInv, TTrigger, TReadRecord, RecordByTrigger, TRecord,
     TOf, outside
<1>5. RecordHeld'
  BY Writers, NotRead DEF StopScan, IInv, TPhase, TReadRecord, RecordHeld, TRecord, TOf,
     outside
<1>6. HeldByScan'
  BY Writers, NotRead DEF StopScan, IInv, TBuild, TReadRecord, HeldByScan, TRecord, TOf,
     Branches, outside
<1>7. HeldByCi'
  BY Writers, NotRead DEF StopScan, IInv, TCi, TReadRecord, HeldByCi, TRecord, TOf, outside
<1>8. ScansPassed'
  BY Writers DEF StopScan, IInv, TState, TBuild, TApplied, ScansPassed, LambdaTask,
     BuildTask, MarkTask, Ended, AfterScans, Branches, ApplyRan, AfterPull, outside
<1>9. QED
  BY <1>1, <1>2, <1>3, <1>4, <1>5, <1>6, <1>7, <1>8 DEF StopScan, outside, flow, IInv,
     TInstalled, TAgent, TRecord, TPull, TEvents, TTrigger, TOf, TState, TPhase, TVerdict,
     TPassed, TCi, TReadAgent, TApplied, TFaults, Untriggered, Recorded, About,
     AgentByTrigger, AgentHeld, Reports, CiRuns, CiApplied, BuildsPassed, Merged, ApplyRan,
     LiveApplied, ReadApplied, IsApplied

(***************************************************************************)
(* The theorems.                                                           *)
(***************************************************************************)
LEMMA StutterKeeps ==
    ASSUME IInv, UNCHANGED vars
    PROVE  IInv'
BY DEF vars, flow, IInv, TInstalled, TAgent, TRecord, TPull, TEvents, TTrigger, TOf, TState,
       TPhase, TVerdict, TBuild, TPassed, TCi, TReadAgent, TReadRecord, TApplied, TFaults,
       Untriggered, Recorded, About, NotStarted, AgentByTrigger, RecordByTrigger, AgentHeld,
       RecordHeld, HeldByScan, HeldByCi, Reports, CiRuns, CiApplied, ScansPassed, BuildsPassed,
       Merged, ApplyRan, LiveApplied, ReadApplied, IsApplied

LEMMA InitInv == Init => IInv
<1> SUFFICES ASSUME Init PROVE IInv
  OBVIOUS
<1>1. /\ TInstalled /\ TAgent /\ TRecord /\ TPull /\ TEvents /\ TTrigger /\ TOf /\ TState
      /\ TPhase /\ TVerdict /\ TBuild /\ TPassed /\ TCi /\ TReadAgent /\ TReadRecord
      /\ TApplied /\ TFaults
  BY FaultsAssumption
  DEF Init, TInstalled, TAgent, TRecord, TPull, TEvents, TTrigger, TOf, TState, TPhase, TVerdict,
      TBuild, TPassed, TCi, TReadAgent, TReadRecord, TApplied, TFaults, AgentType
<1>2. /\ Untriggered /\ Recorded /\ About /\ NotStarted /\ AgentByTrigger /\ RecordByTrigger
      /\ AgentHeld /\ RecordHeld /\ HeldByScan /\ HeldByCi /\ Reports
  BY DEF Init, Untriggered, Recorded, About, NotStarted, AgentByTrigger, RecordByTrigger,
         AgentHeld, RecordHeld, HeldByScan, HeldByCi, Reports, Branches
<1>3. CiRuns /\ CiApplied /\ ScansPassed /\ BuildsPassed /\ Merged /\ ApplyRan
  BY DEF Init, CiRuns, CiApplied, ScansPassed, BuildsPassed, Merged, ApplyRan, AfterScans,
         AfterPlan, AfterPull, AfterApply
<1>4. LiveApplied /\ ReadApplied
  BY DEF Init, LiveApplied, ReadApplied
<1>5. QED  BY <1>1, <1>2, <1>3, <1>4 DEF IInv

LEMMA NextInv == IInv /\ [Next]_vars => IInv'
<1> SUFFICES ASSUME IInv, [Next]_vars PROVE IInv'
  OBVIOUS
<1>1. ASSUME NEW d \in Deployments,
             \/ Trigger(d) \/ PublishEvent(d) \/ TriggerFailed(d) \/ RecordTrigger(d)
             \/ CustomerMerges(d) \/ CiStarts(d) \/ CiChecks(d) \/ CiApproved(d)
             \/ CiApplies(d) \/ CiFails(d)
             \/ DeploymentComplete(d)
      PROVE  IInv'
  BY <1>1, TriggerKeeps, PublishEventKeeps, TriggerFailedKeeps, RecordTriggerKeeps,
     CustomerMergesKeeps, CiStartsKeeps, CiChecksKeeps, CiApprovedKeeps, CiAppliesKeeps,
     CiFailsKeeps, DeploymentCompleteKeeps
<1>2. ASSUME NEW e \in Executions, Execution(e)
      PROVE  IInv'
  <2>1. CASE Validating(e) \/ ChangeImpact(e) \/ GeneratingIac(e) \/ Deploying(e) \/ HealthCheck(e)
    <3>1. PICK s \in LambdaTask, status \in Stage \cup Settled : PassTask(e, s, status)
      BY <2>1, StageIs
      DEF Validating, ChangeImpact, GeneratingIac, Deploying, HealthCheck, LambdaTask, Settled
    <3>2. QED  BY <3>1, PassTaskKeeps
  <2>2. QED
    BY <1>2, <2>1, StartExecutionKeeps, ReadStageKeeps, RejectStageKeeps, StartScansKeeps,
       JoinScansKeeps, AnnounceBuildKeeps, RunBuildKeeps, ReportBuildKeeps, DecideKeeps,
       EnforcePolicyGateKeeps, MarkBlockedAgentKeeps, PullRequestKeeps, MarkBlockedKeeps,
       MarkAgentKeeps, MarkRecordKeeps
    DEF Execution
<1>3. ASSUME NEW e \in Executions, Raise(e) \/ Die(e)
      PROVE  IInv'
  BY <1>3, RaiseKeeps, DieKeeps
<1>4. ASSUME NEW b \in Branches, Branch(b) \/ ScanBreaks(b) \/ StopScan(b)
      PROVE  IInv'
  BY <1>4, ScannedKeeps, ReportScanKeeps, ScanBreaksKeeps, StopScanKeeps DEF Branch
<1>5. QED  BY <1>1, <1>2, <1>3, <1>4, StutterKeeps DEF Next

\* Whatever is delivered, repeated, lost or raised, and in whatever order, the inductive
\* invariant holds.
THEOREM Invariance == Spec => []IInv
BY InitInv, NextInv, PTL DEF Spec

\* Type correctness: no handler puts an item it has not read, or a stage or status that
\* does not exist.
THEOREM Typing == Spec => []TypeOK
<1>1. IInv => TypeOK
  BY DEF IInv, TypeOK, TInstalled, TAgent, TRecord, TPull, TEvents, TTrigger, TOf, TState, TPhase,
         TVerdict, TBuild, TPassed, TCi, TReadAgent, TReadRecord, TApplied, TFaults
<1>2. QED  BY <1>1, Invariance, PTL

\* However many executions a repeated event starts, also at the same time, each applies
\* only what passed its own scans, builds and policy check, and is merged.
THEOREM VettedBeforeApply == Spec => []AppliedIsVetted
<1>1. IInv => AppliedIsVetted
  BY DEF IInv, AppliedIsVetted, ScansPassed, BuildsPassed, Merged, CiRuns, CiApplied
<1>2. QED  BY <1>1, Invariance, PTL

\* The live version of the agent was applied by an execution or a customer pipeline.
THEOREM LiveAfterApply == Spec => []LiveIsApplied
<1>1. IInv => LiveIsApplied
  BY DEF IInv, LiveApplied, IsApplied, LiveIsApplied
<1>2. QED  BY <1>1, Invariance, PTL

(***************************************************************************)
(* The inductive invariant behind the stage order and the settled records. *)
(* For an execution that is alone with its record it says what the record, *)
(* and every copy of it read and not yet put, holds at each place.         *)
(***************************************************************************)
\* The stages before s.
Earlier(s) == {Pipeline[i] : i \in {k \in 1..11 : \A j \in 1..k : Pipeline[j] # s}}

Behind(item, s) == \A t \in Earlier(s) : item.stages[t] = "PASSED"

\* Blocked, and not yet out of the policy check.
Blocking(e) == phase[e] \in {"block", "blocking"} \/ (phase[e] = "pull" /\ verdict[e] = "BLOCK")

StagesHold(e) ==
    /\ state[e] \in Stage \cup {"MarkActive"} => Behind(record[of[e]], state[e])
    /\ state[e] \in Stage /\ phase[e] \in {"read", "announce", "report"} =>
          Behind(readRecord[e], state[e])
    /\ state[e] = "POLICY_CHECK" /\ phase[e] = "pull" /\ verdict[e] = "PASS" =>
          record[of[e]].stages["POLICY_CHECK"] = "PASSED"

\* The scan that reports last leaves the stage as it found it.
ScansHold(e) ==
    state[e] = "SECURITY_SCANNING" =>
        /\ \A s \in Scans : build[<<e, s>>] \in {"clean", "critical"} =>
              Behind(readRecord[<<e, s>>], "SECURITY_SCANNING")
        /\ /\ phase[e] = "waiting"
           /\ \E s \in Scans : build[<<e, s>>] = "passed"
           /\ \A s \in Scans : build[<<e, s>>] # "failed"
           => record[of[e]].stages["SECURITY_SCANNING"] = "PASSED"

StatusHolds(e) ==
    /\ state[e] \in Stage => IF state[e] = "POLICY_CHECK" /\ Blocking(e)
                             THEN record[of[e]].status = "BLOCKED"
                             ELSE record[of[e]].status \notin Settled
    /\ state[e] = "MarkBlocked" /\ Orderly(e) => record[of[e]].status = "BLOCKED"
    /\ state[e] = "ended" /\ Orderly(e) =>
          /\ record[of[e]].status \in Settled
          /\ record[of[e]].status = "ACTIVE" => e \in applied
          /\ record[of[e]].status = "BLOCKED" => e \notin applied

\* Once the scans are over none runs, or one has failed.
ScansOver(e) ==
    state[e] # "SECURITY_SCANNING" =>
        \/ \A s \in Scans : build[<<e, s>>] \in {"none", "passed"}
        \/ \E s \in Scans : build[<<e, s>>] \in {"failed", "broken"}

\* A record that only its trigger has written.
Untouched(d) ==
    /\ "ci" \notin installed
    /\ trigger[d] \notin {"idle", "fail", "failing", "failed"}
    /\ \A f \in Executions : of[f] # d
    => record[d].status = "PENDING"

\* Before the Parallel state no build has run.
Unscanned(e) ==
    \/ state[e] \in {"VALIDATING", "CHANGE_IMPACT", "GENERATING_IAC"}
    \/ state[e] = "SECURITY_SCANNING" /\ phase[e] # "waiting"
    => \A s \in Scans : build[<<e, s>>] = "none"

OnItsWay(e) ==
    /\ Unscanned(e) /\ ScansOver(e)
    /\ state[e] = "idle" => of[e] = NoDeployment /\ phase[e] = "start"
    /\ phase[e] \in {"block", "blocking"} => verdict[e] = "BLOCK"

Own(e) ==
    /\ OnItsWay(e)
    /\ state[e] # "idle" /\ Alone(e) => StagesHold(e) /\ ScansHold(e) /\ StatusHolds(e)

CiAbsent == "ci" \notin installed => \A d \in Deployments : ci[d] = "idle"

NotYet == \A d \in Deployments : trigger[d] = "idle" => record[d] = Absent

OwnInv ==
    /\ \A e \in Executions : Own(e)
    /\ \A d \in Deployments : Untouched(d)
    /\ CiAbsent /\ NotYet

\* A step of one execution, or of one of its builds, leaves the others alone.
OthersRest(e) ==
    /\ state[e] # "idle"
    /\ UNCHANGED <<installed, trigger, of, ci>>
    /\ \A d \in Deployments : d # of[e] => record'[d] = record[d]
    /\ \A f \in Executions : f # e =>
          /\ state'[f] = state[f] /\ phase'[f] = phase[f] /\ verdict'[f] = verdict[f]
          /\ readRecord'[f] = readRecord[f] /\ (f \in applied' <=> f \in applied)
          /\ \A s \in Scans : /\ build'[<<f, s>>] = build[<<f, s>>]
                              /\ readRecord'[<<f, s>>] = readRecord[<<f, s>>]

(***************************************************************************)
(* The stages before a stage.                                              *)
(***************************************************************************)
LEMMA EarlierIs ==
    ASSUME NEW k \in 1..11
    PROVE  Earlier(Pipeline[k]) = {Pipeline[i] : i \in 1..(k - 1)}
<1>1. \A i, j \in 1..11 : Pipeline[i] = Pipeline[j] => i = j
  BY DEF Pipeline
<1>2. {i \in 1..11 : \A j \in 1..i : Pipeline[j] # Pipeline[k]} = 1..(k - 1)
  BY <1>1
<1>3. QED  BY <1>2 DEF Earlier

LEMMA EarlierNext ==
    /\ \A s \in Stage : /\ Earlier(NextState(s)) = Earlier(s) \cup {s}
                        /\ s \notin Earlier(s) /\ Earlier(s) \subseteq Stage
    /\ Earlier("VALIDATING") = {}
    /\ NextState("POLICY_CHECK") = "APPLYING"
<1>1. \A i, j \in 1..11 : Pipeline[i] = Pipeline[j] => i = j
  BY DEF Pipeline
<1>2. ASSUME NEW k \in 1..11
      PROVE  Pipeline[k] \notin Earlier(Pipeline[k]) /\ Earlier(Pipeline[k]) \subseteq Stage
  BY <1>1, EarlierIs DEF Stage
<1>3. ASSUME NEW k \in 1..10
      PROVE  NextState(Pipeline[k]) = Pipeline[k + 1]
  <2>1. Pipeline[k] # "HEALTH_CHECK"  BY DEF Pipeline
  <2>2. \A i \in 1..10 : Pipeline[i] = Pipeline[k] => i = k  BY DEF Pipeline
  <2>3. Pipeline[k + 1] \in Stage  BY DEF Stage
  <2>4. \A t \in Stage : (\E i \in 1..10 : Pipeline[i] = Pipeline[k] /\ Pipeline[i + 1] = t)
                          <=> t = Pipeline[k + 1]
    BY <2>2
  <2>5. QED  BY <2>1, <2>3, <2>4 DEF NextState
<1>4. ASSUME NEW k \in 1..10
      PROVE  Earlier(NextState(Pipeline[k])) = Earlier(Pipeline[k]) \cup {Pipeline[k]}
  <2>1. Earlier(Pipeline[k]) = {Pipeline[i] : i \in 1..(k - 1)}
    BY EarlierIs
  <2>2. Earlier(Pipeline[k + 1]) = {Pipeline[i] : i \in 1..k}
    <3>1. k + 1 \in 1..11 /\ (k + 1) - 1 = k
      OBVIOUS
    <3>2. QED  BY <3>1, EarlierIs
  <2>3. 1..k = 1..(k - 1) \cup {k}
    OBVIOUS
  <2>4. QED  BY <2>1, <2>2, <2>3, <1>3
<1>5. Earlier("MarkActive") = Stage
  <2>1. \A j \in 1..11 : Pipeline[j] # "MarkActive"
    BY DEF Pipeline
  <2>2. {i \in 1..11 : \A j \in 1..i : Pipeline[j] # "MarkActive"} = 1..11
    BY <2>1
  <2>3. QED  BY <2>2 DEF Earlier, Stage
<1>6. Earlier(NextState(Pipeline[11])) = Earlier(Pipeline[11]) \cup {Pipeline[11]}
  <2>1. Pipeline[11] = "HEALTH_CHECK"
    BY DEF Pipeline
  <2>2. NextState(Pipeline[11]) = "MarkActive"
    BY <2>1, NextStateIs
  <2>3. Earlier(Pipeline[11]) = {Pipeline[i] : i \in 1..10}
    BY EarlierIs
  <2>4. 1..11 = 1..10 \cup {11}
    OBVIOUS
  <2>5. QED  BY <1>5, <2>2, <2>3, <2>4 DEF Stage
<1>7. Earlier("VALIDATING") = {}
  <2>1. Pipeline[1] = "VALIDATING" /\ 1..(1 - 1) = {}
    BY DEF Pipeline
  <2>2. QED  BY <2>1, EarlierIs
<1>8. NextState("POLICY_CHECK") = "APPLYING"
  <2>1. Pipeline[8] = "POLICY_CHECK" /\ Pipeline[9] = "APPLYING"
    BY DEF Pipeline
  <2>2. QED  BY <2>1, <1>3
<1>9. \A k \in 1..11 : k \in 1..10 \/ k = 11
  OBVIOUS
<1>10. QED  BY <1>2, <1>4, <1>6, <1>7, <1>8, <1>9 DEF Stage

\* A put of one stage leaves what was behind it behind it; when the stage passed, the
\* item is behind the next one.
LEMMA StageIsPut ==
    ASSUME NEW r \in RecordType, NEW s \in Stage, NEW x, NEW t, Behind(r, s)
    PROVE  /\ Behind(WithStage(r, s, x, t), s)
           /\ WithStage(r, s, x, t).stages[s] = x
           /\ WithStage(r, s, x, t).status = t
           /\ x = "PASSED" => Behind(WithStage(r, s, x, t), NextState(s))
<1> DEFINE item == WithStage(r, s, x, t)
<1>1. /\ item.stages[s] = x /\ item.status = t
      /\ \A u \in Stage : u # s => item.stages[u] = r.stages[u]
  BY DEF WithStage, RecordType
<1>2. QED  BY <1>1, EarlierNext DEF Behind

LEMMA StageIsUpdated ==
    ASSUME TRecord, NEW w, NEW d \in Deployments, NEW s \in Stage, NEW x,
           record[d] \in RecordType, readRecord[w] \in RecordType,
           ShellUpdate(w, d, s, x), Behind(readRecord[w], s)
    PROVE  /\ record'[d].stages[s] = x /\ record'[d].status = s
           /\ Behind(record'[d], s)
           /\ x = "PASSED" => Behind(record'[d], NextState(s))
<1>1. record'[d] = [record[d] EXCEPT !.stages = [readRecord[w].stages EXCEPT ![s] = x],
                                     !.status = s]
  BY DEF ShellUpdate, TRecord
<1>2. /\ record'[d].stages[s] = x /\ record'[d].status = s
      /\ \A u \in Stage : u # s => record'[d].stages[u] = readRecord[w].stages[u]
  BY <1>1 DEF RecordType
<1>3. QED  BY <1>2, EarlierNext DEF Behind

(***************************************************************************)
(* Steps elsewhere.                                                        *)
(***************************************************************************)
LEMMA OwnKept ==
    ASSUME NEW f \in Executions, Own(f), of'[f] = of[f], state'[f] = state[f],
           phase'[f] = phase[f], verdict'[f] = verdict[f], readRecord'[f] = readRecord[f],
           f \in applied' <=> f \in applied,
           \A s \in Scans : /\ build'[<<f, s>>] = build[<<f, s>>]
                            /\ readRecord'[<<f, s>>] = readRecord[<<f, s>>],
           state[f] # "idle" /\ Alone(f)' => Alone(f) /\ record'[of[f]] = record[of[f]]
    PROVE  Own(f)'
<1>1. OnItsWay(f)'
  BY DEF Own, OnItsWay, Unscanned, ScansOver
<1>2. ASSUME state'[f] # "idle", Alone(f)'
      PROVE  StagesHold(f)' /\ ScansHold(f)' /\ StatusHolds(f)'
  <2>1. StagesHold(f) /\ ScansHold(f) /\ StatusHolds(f) /\ record'[of[f]] = record[of[f]]
    BY <1>2 DEF Own
  <2>2. StagesHold(f)'
    BY <2>1 DEF StagesHold
  <2>3. ScansHold(f)'
    BY <2>1 DEF ScansHold
  <2>4. StatusHolds(f)'
    BY <2>1 DEF StatusHolds, Blocking, Orderly
  <2>5. QED  BY <2>2, <2>3, <2>4
<1>3. QED  BY <1>1, <1>2 DEF Own

LEMMA OneMoves ==
    ASSUME IInv, OwnInv, NEW e \in Executions, OthersRest(e), state'[e] # "idle",
           OnItsWay(e)', Alone(e) => StagesHold(e)' /\ ScansHold(e)' /\ StatusHolds(e)'
    PROVE  OwnInv'
<1>1. of' = of /\ trigger' = trigger /\ installed' = installed /\ ci' = ci
  BY DEF OthersRest
<1>2. \A f \in Executions : Alone(f)' <=> Alone(f)
  BY <1>1 DEF Alone
<1>3. Own(e)'
  BY <1>2 DEF Own
<1>4. ASSUME NEW f \in Executions, f # e
      PROVE  Own(f)'
  <2>1. ASSUME state[f] # "idle", Alone(f)'
        PROVE  Alone(f) /\ record'[of[f]] = record[of[f]]
    <3>1. of[f] # of[e] /\ of[f] \in Deployments
      BY <2>1, <1>2, <1>4 DEF Alone, IInv, About
    <3>2. QED  BY <2>1, <1>2, <3>1 DEF OthersRest
  <2>2. Own(f)
    BY DEF OwnInv
  <2>3. QED  BY <1>1, <1>4, <2>1, <2>2, OwnKept DEF OthersRest
<1>5. ASSUME NEW d \in Deployments
      PROVE  Untouched(d)'
  BY <1>1 DEF OwnInv, Untouched, OthersRest
<1>6. CiAbsent'
  BY <1>1 DEF OwnInv, CiAbsent
<1>7. NotYet'
  <2>1. trigger[of[e]] # "idle"
    BY DEF IInv, About, OthersRest
  <2>2. QED  BY <2>1, <1>1 DEF OwnInv, NotYet, OthersRest
<1>8. QED  BY <1>3, <1>4, <1>5, <1>6, <1>7 DEF OwnInv

LEMMA NoneMoves ==
    ASSUME OwnInv, UNCHANGED <<of, state, phase, verdict, build>>,
           \A f \in Executions :
              /\ readRecord'[f] = readRecord[f]
              /\ f \in applied' <=> f \in applied
              /\ \A s \in Scans : readRecord'[<<f, s>>] = readRecord[<<f, s>>]
              /\ state[f] # "idle" /\ Alone(f)' => Alone(f) /\ record'[of[f]] = record[of[f]],
           \A d \in Deployments : Untouched(d)', CiAbsent', NotYet'
    PROVE  OwnInv'
<1>1. ASSUME NEW f \in Executions
      PROVE  Own(f)'
  BY OwnKept DEF OwnInv
<1>2. QED  BY <1>1 DEF OwnInv

(***************************************************************************)
(* The deployments' own actions.                                           *)
(***************************************************************************)
LEMMA DeploymentsKeepOwn ==
    ASSUME IInv, OwnInv, NEW d \in Deployments,
           \/ Trigger(d) \/ PublishEvent(d) \/ TriggerFailed(d) \/ RecordTrigger(d)
           \/ CustomerMerges(d) \/ CiStarts(d) \/ CiChecks(d) \/ CiApproved(d)
           \/ CiApplies(d) \/ CiFails(d) \/ DeploymentComplete(d)
    PROVE  OwnInv'
<1>1. CASE Trigger(d)
  <2>1. /\ trigger[d] = "idle" /\ \A c \in Deployments : c # d => record'[c] = record[c]
        /\ record'[d] = NewRecord /\ trigger'[d] = "publish"
        /\ \A c \in Deployments : c # d => trigger'[c] = trigger[c]
    BY <1>1 DEF Trigger, IInv, TRecord, TTrigger
  <2>2. ASSUME NEW f \in Executions, state[f] # "idle", Alone(f)'
        PROVE  Alone(f) /\ record'[of[f]] = record[of[f]]
    <3>1. of[f] \in Deployments /\ of[f] # d
      BY <2>1, <2>2 DEF IInv, About
    <3>2. QED  BY <1>1, <2>1, <2>2, <3>1 DEF Alone, Trigger, flow
  <2>3. ASSUME NEW c \in Deployments PROVE Untouched(c)'
    <3>1. CASE c = d
      BY <2>1, <3>1 DEF Untouched, NewRecord
    <3>2. CASE c # d
      BY <1>1, <2>1, <3>2 DEF Untouched, OwnInv, Trigger, flow
    <3>3. QED  BY <3>1, <3>2
  <2>4. CiAbsent' /\ NotYet'
    BY <1>1, <2>1 DEF CiAbsent, NotYet, OwnInv, Trigger
  <2>5. QED  BY <1>1, <2>2, <2>3, <2>4, NoneMoves DEF Trigger, flow
<1>2. CASE PublishEvent(d) \/ RecordTrigger(d)
  <2>1. /\ trigger[d] \in {"publish", "record", "recording"} /\ trigger'[d] # "idle"
        /\ \A c \in Deployments : c # d => trigger'[c] = trigger[c]
        /\ record' = record
    BY <1>2 DEF PublishEvent, RecordTrigger, IInv, TTrigger
  <2>2. /\ UNCHANGED <<installed, of, state, phase, verdict, build, ci, readRecord, applied>>
    BY <1>2 DEF PublishEvent, RecordTrigger, flow
  <2>3. ASSUME NEW f \in Executions, state[f] # "idle", Alone(f)'
        PROVE  Alone(f) /\ record'[of[f]] = record[of[f]]
    <3>1. of[f] \in Deployments
      BY <2>3 DEF IInv, About
    <3>2. QED  BY <2>1, <2>2, <2>3, <3>1 DEF Alone
  <2>4. ASSUME NEW c \in Deployments PROVE Untouched(c)'
    <3>1. CASE c = d
      BY <2>1, <2>2, <3>1 DEF Untouched, OwnInv
    <3>2. CASE c # d
      BY <2>1, <2>2, <3>2 DEF Untouched, OwnInv
    <3>3. QED  BY <3>1, <3>2
  <2>5. CiAbsent' /\ NotYet'
    BY <2>1, <2>2 DEF CiAbsent, NotYet, OwnInv
  <2>6. QED  BY <2>2, <2>3, <2>4, <2>5, NoneMoves
<1>3. CASE TriggerFailed(d)
  <2>1. /\ trigger[d] \in {"fail", "failing"} /\ trigger'[d] \in {"failing", "failed"}
        /\ \A c \in Deployments : c # d => trigger'[c] = trigger[c] /\ record'[c] = record[c]
    BY <1>3 DEF TriggerFailed, PutRecord, IInv, TTrigger, TRecord
  <2>2. /\ UNCHANGED <<installed, of, state, phase, verdict, build, ci, applied>>
        /\ \A w \in Writer : w # d => readRecord'[w] = readRecord[w]
    BY <1>3 DEF TriggerFailed, GetRecord, PutRecord, flow, IInv, TReadRecord
  <2>3. ASSUME NEW f \in Executions, state[f] # "idle", Alone(f)'
        PROVE  Alone(f) /\ record'[of[f]] = record[of[f]]
    <3>1. of[f] \in Deployments
      BY <2>3 DEF IInv, About
    <3>2. QED  BY <2>1, <2>2, <2>3, <3>1 DEF Alone
  <2>4. ASSUME NEW c \in Deployments PROVE Untouched(c)'
    <3>1. CASE c = d
      BY <2>1, <3>1 DEF Untouched
    <3>2. CASE c # d
      BY <2>1, <2>2, <3>2 DEF Untouched, OwnInv
    <3>3. QED  BY <3>1, <3>2
  <2>5. CiAbsent' /\ NotYet'
    BY <2>1, <2>2 DEF CiAbsent, NotYet, OwnInv
  <2>6. \A f \in Executions : /\ readRecord'[f] = readRecord[f]
                              /\ \A s \in Scans : readRecord'[<<f, s>>] = readRecord[<<f, s>>]
    BY <2>2, Writers
  <2>7. QED  BY <2>2, <2>3, <2>4, <2>5, <2>6, NoneMoves
<1>4. CASE \/ CustomerMerges(d) \/ CiStarts(d) \/ CiChecks(d) \/ CiApproved(d)
           \/ CiApplies(d) \/ CiFails(d) \/ DeploymentComplete(d)
  <2>1. "ci" \in installed
    BY <1>4 DEF CustomerMerges, CiStarts, CiChecks, CiApproved, CiApplies, CiFails,
                DeploymentComplete, OwnInv, CiAbsent
  <2>2. UNCHANGED <<installed, trigger, of, state, phase, verdict, build>>
    BY <1>4 DEF CustomerMerges, CiStarts, CiChecks, CiApproved, CiApplies, CiFails,
                DeploymentComplete, flow
  <2>3. \A f \in Executions : f \in applied' <=> f \in applied
    BY <1>4, Writers DEF CustomerMerges, CiStarts, CiChecks, CiApproved, CiApplies, CiFails,
                DeploymentComplete, flow
  <2>4. \A f \in Executions : /\ readRecord'[f] = readRecord[f]
                              /\ \A s \in Scans : readRecord'[<<f, s>>] = readRecord[<<f, s>>]
    BY <1>4, Writers DEF CustomerMerges, CiStarts, CiChecks, CiApproved, CiApplies, CiFails,
                DeploymentComplete, GetRecord, PutRecord, IInv, TReadRecord, Branches
  <2>5. /\ \A c \in Deployments : c # d => record'[c] = record[c]
        /\ trigger[d] = "idle" => record'[d] = record[d]
    BY <1>4 DEF CustomerMerges, CiStarts, CiChecks, CiApproved, CiApplies, CiFails,
                DeploymentComplete, PutRecord, IInv, TRecord, Untriggered
  <2>6. \A f \in Executions : ~Alone(f)'
    BY <2>1, <2>2 DEF Alone
  <2>7. \A c \in Deployments : Untouched(c)'
    BY <2>1, <2>2 DEF Untouched
  <2>8. CiAbsent' /\ NotYet'
    BY <2>1, <2>2, <2>5 DEF CiAbsent, NotYet, OwnInv
  <2>9. QED  BY <2>2, <2>3, <2>4, <2>6, <2>7, <2>8, NoneMoves
<1>5. QED  BY <1>1, <1>2, <1>3, <1>4

\* An execution that is alone with its record is the first to write it.
LEMMA StartKeepsOwn ==
    ASSUME IInv, OwnInv, NEW e \in Executions, NEW d \in Deployments, StartExecution(e, d)
    PROVE  OwnInv'
<1>1. /\ state[e] = "idle" /\ of' = [of EXCEPT ![e] = d]
      /\ state' = [state EXCEPT ![e] = "VALIDATING"]
      /\ UNCHANGED <<installed, record, trigger, phase, verdict, build, ci, readRecord, applied>>
  BY DEF StartExecution
<1>2. /\ of'[e] = d /\ state'[e] = "VALIDATING"
      /\ \A f \in Executions : f # e => of'[f] = of[f] /\ state'[f] = state[f]
  BY <1>1 DEF IInv, TOf, TState
<1>3. /\ phase[e] = "start" /\ of[e] = NoDeployment /\ d # NoDeployment /\ trigger[d] # "idle"
      /\ \A s \in Scans : build[<<e, s>>] = "none"
  BY <1>1, NoDeploymentAssumption
  DEF OwnInv, Own, OnItsWay, IInv, NotStarted, Untriggered, StartExecution
<1>4. Own(e)'
  <2>1. OnItsWay(e)'
    BY <1>1, <1>2, <1>3 DEF OnItsWay, Unscanned, ScansOver
  <2>2. ASSUME Alone(e)'
        PROVE  StagesHold(e)' /\ ScansHold(e)' /\ StatusHolds(e)'
    <3>1. record[d].status = "PENDING"
      <4>1. \A f \in Executions : of[f] # d
        BY <1>2, <1>3, <2>2 DEF Alone
      <4>2. "ci" \notin installed /\ trigger[d] \notin {"idle", "fail", "failing", "failed"}
        BY <1>1, <1>2, <1>3, <2>2 DEF Alone
      <4>3. QED  BY <4>1, <4>2 DEF OwnInv, Untouched
    <3>2. StagesHold(e)'
      BY <1>1, <1>2, <1>3, EarlierNext DEF StagesHold, Behind
    <3>3. ScansHold(e)'
      BY <1>2 DEF ScansHold
    <3>4. StatusHolds(e)'
      BY <1>1, <1>2, <3>1 DEF StatusHolds, Settled
    <3>5. QED  BY <3>2, <3>3, <3>4
  <2>3. QED  BY <2>1, <2>2 DEF Own
<1>5. ASSUME NEW f \in Executions, f # e
      PROVE  Own(f)'
  <2>1. ASSUME state[f] # "idle", Alone(f)'
        PROVE  Alone(f)
    <3>1. of[f] # of[e]
      BY <1>3, <2>1, NoDeploymentAssumption DEF IInv, About
    <3>2. QED  BY <1>1, <1>2, <1>5, <2>1, <3>1 DEF Alone
  <2>2. QED  BY <1>1, <1>2, <1>5, <2>1, OwnKept DEF OwnInv
<1>6. ASSUME NEW c \in Deployments
      PROVE  Untouched(c)'
  <2>1. of[e] # c
    BY <1>3, NoDeploymentAssumption
  <2>2. QED  BY <1>1, <1>2, <2>1 DEF OwnInv, Untouched
<1>7. CiAbsent' /\ NotYet'
  BY <1>1 DEF OwnInv, CiAbsent, NotYet
<1>8. QED  BY <1>4, <1>5, <1>6, <1>7 DEF OwnInv

(***************************************************************************)
(* The actions of an execution.                                            *)
(***************************************************************************)
\* What all of them leave alone. Only one has an execution that was idle.
LEMMA ExecutionRests ==
    ASSUME IInv, NEW e \in Executions, state[e] # "idle",
           \/ ReadStage(e) \/ RejectStage(e)
           \/ \E s \in LambdaTask, status \in Stage \cup Settled : PassTask(e, s, status)
           \/ StartScans(e) \/ JoinScans(e)
           \/ AnnounceBuild(e) \/ RunBuild(e) \/ ReportBuild(e)
           \/ Decide(e) \/ EnforcePolicyGate(e) \/ MarkBlockedAgent(e) \/ PullRequest(e)
           \/ MarkBlocked(e) \/ MarkAgent(e) \/ MarkRecord(e) \/ Raise(e) \/ Die(e)
    PROVE  OthersRest(e)
<1>1. UNCHANGED <<installed, trigger, of, ci>>
  BY DEF ReadStage, RejectStage, PassTask, StartScans, JoinScans, AnnounceBuild, RunBuild,
         ReportBuild, Decide, EnforcePolicyGate, MarkBlockedAgent, PullRequest, MarkBlocked,
         MarkAgent, MarkRecord, Raise, Die, outside
<1>2. \A d \in Deployments : d # of[e] => record'[d] = record[d]
  BY DEF ReadStage, RejectStage, PassTask, StartScans, JoinScans, AnnounceBuild, RunBuild,
         ReportBuild, Decide, EnforcePolicyGate, MarkBlockedAgent, PullRequest, MarkBlocked,
         MarkAgent, MarkRecord, Raise, Die, PutRecord, ShellUpdate, IInv, TRecord
<1>3. ASSUME NEW f \in Executions, f # e
      PROVE  state'[f] = state[f] /\ phase'[f] = phase[f] /\ verdict'[f] = verdict[f]
  BY <1>3 DEF ReadStage, RejectStage, PassTask, StartScans, JoinScans, AnnounceBuild, RunBuild,
         ReportBuild, Decide, EnforcePolicyGate, MarkBlockedAgent, PullRequest, MarkBlocked,
         MarkAgent, MarkRecord, Raise, Die, Goto, Within, IInv, TState, TPhase, TVerdict
<1>4. ASSUME NEW w \in Writer, w # e
      PROVE  readRecord'[w] = readRecord[w]
  BY <1>4 DEF ReadStage, RejectStage, PassTask, StartScans, JoinScans, AnnounceBuild, RunBuild,
         ReportBuild, Decide, EnforcePolicyGate, MarkBlockedAgent, PullRequest, MarkBlocked,
         MarkAgent, MarkRecord, Raise, Die, GetRecord, PutRecord, ShellUpdate, IInv, TReadRecord
<1>5. ASSUME NEW f \in Executions, f # e
      PROVE  /\ f \in applied' <=> f \in applied
             /\ \A s \in Scans : build'[<<f, s>>] = build[<<f, s>>]
  BY <1>5 DEF ReadStage, RejectStage, PassTask, StartScans, JoinScans, AnnounceBuild, RunBuild,
         ReportBuild, Decide, EnforcePolicyGate, MarkBlockedAgent, PullRequest, MarkBlocked,
         MarkAgent, MarkRecord, Raise, Die, Branches
<1>6. QED  BY <1>1, <1>2, <1>3, <1>4, <1>5, Writers DEF OthersRest

\* The state an execution goes to, and the record it is about.
LEMMA GotoIs ==
    ASSUME IInv, NEW e \in Executions, NEW s, Goto(e, s)
    PROVE  state'[e] = s /\ phase'[e] = "start" /\ verdict'[e] = "none"
BY DEF Goto, IInv, TState, TPhase, TVerdict

LEMMA WithinIs ==
    ASSUME IInv, NEW e \in Executions, NEW p, Within(e, p)
    PROVE  state'[e] = state[e] /\ phase'[e] = p
BY DEF Within, IInv, TPhase

LEMMA GetRecordIs ==
    ASSUME IInv, NEW w \in Writer, NEW d, GetRecord(w, d)
    PROVE  readRecord'[w] = record[d] /\ \A v \in Writer : v # w => readRecord'[v] = readRecord[v]
BY DEF GetRecord, IInv, TReadRecord

LEMMA PutRecordIs ==
    ASSUME IInv, NEW w \in Writer, NEW d \in Deployments, NEW item, PutRecord(w, d, item)
    PROVE  record'[d] = item /\ \A v \in Writer : v # w => readRecord'[v] = readRecord[v]
BY DEF PutRecord, IInv, TReadRecord, TRecord

LEMMA HasRecord ==
    ASSUME IInv, NEW e \in Executions, state[e] # "idle"
    PROVE  of[e] \in Deployments /\ record[of[e]] \in RecordType /\ trigger[of[e]] # "idle"
BY DEF IInv, About, Recorded

LEMMA ReadStageKeepsOwn ==
    ASSUME IInv, OwnInv, NEW e \in Executions, ReadStage(e)
    PROVE  OwnInv'
<1>1. /\ state[e] \in LambdaTask /\ state'[e] = state[e] /\ phase'[e] = "read"
      /\ readRecord'[e] = record[of[e]]
      /\ UNCHANGED <<of, record, verdict, build, applied>>
  BY WithinIs, GetRecordIs, Writers DEF ReadStage, outside
<1>2. state[e] # "idle" /\ OthersRest(e)
  BY <1>1, ExecutionRests DEF LambdaTask
<1>3. OnItsWay(e) /\ OnItsWay(e)'
  BY <1>1 DEF OwnInv, Own, OnItsWay, Unscanned, ScansOver, LambdaTask
<1>4. ASSUME Alone(e)
      PROVE  StagesHold(e)' /\ ScansHold(e)' /\ StatusHolds(e)'
  <2>1. StagesHold(e) /\ ScansHold(e) /\ StatusHolds(e)
    BY <1>2, <1>4 DEF OwnInv, Own
  <2>2. StagesHold(e)'
    BY <1>1, <2>1 DEF StagesHold, LambdaTask
  <2>3. ScansHold(e)'
    BY <1>1 DEF ScansHold, LambdaTask
  <2>4. StatusHolds(e)'
    BY <1>1, <2>1 DEF StatusHolds, Blocking, LambdaTask
  <2>5. QED  BY <2>2, <2>3, <2>4
<1>5. QED  BY <1>1, <1>2, <1>3, <1>4, OneMoves

LEMMA PassTaskKeepsOwn ==
    ASSUME IInv, OwnInv, NEW e \in Executions, NEW s \in LambdaTask, NEW status,
           PassTask(e, s, status),
           s # "HEALTH_CHECK" => status \in Stage, status \in Stage \cup Settled
    PROVE  OwnInv'
<1>1. /\ state[e] = s /\ phase[e] = "read" /\ state'[e] = NextState(s) /\ phase'[e] = "start"
      /\ verdict'[e] = "none"
      /\ UNCHANGED <<of, build, applied>>
  BY GotoIs DEF PassTask, outside
<1>2. state[e] # "idle" /\ OthersRest(e)
  BY <1>1, ExecutionRests DEF LambdaTask
<1>3. of[e] \in Deployments /\ readRecord[e] \in RecordType /\ s \in Stage
  BY <1>1, <1>2, HasRecord, StageIs DEF IInv, RecordHeld, LambdaTask
<1>4. record'[of[e]] = WithStage(readRecord[e], s, "PASSED", status)
  BY <1>3, PutRecordIs, Writers DEF PassTask
<1>5. /\ NextState(s) \in {"CHANGE_IMPACT", "GENERATING_IAC", "SECURITY_SCANNING"} =>
             s \in {"VALIDATING", "CHANGE_IMPACT", "GENERATING_IAC"}
      /\ NextState(s) \in {"CHANGE_IMPACT", "GENERATING_IAC", "SECURITY_SCANNING", "HEALTH_CHECK",
                           "MarkActive"}
      /\ NextState(s) = "MarkActive" <=> s = "HEALTH_CHECK"
  BY NextStateIs DEF LambdaTask
<1>6. OnItsWay(e)'
  BY <1>1, <1>5 DEF OwnInv, Own, OnItsWay, Unscanned, ScansOver, LambdaTask
<1>7. ASSUME Alone(e)
      PROVE  StagesHold(e)' /\ ScansHold(e)' /\ StatusHolds(e)'
  <2>1. StagesHold(e)
    BY <1>2, <1>7 DEF OwnInv, Own
  <2>2. Behind(readRecord[e], s)
    BY <1>1, <1>3, <2>1 DEF StagesHold
  <2>3. Behind(record'[of[e]], NextState(s)) /\ record'[of[e]].status = status
    <3>1. /\ Behind(WithStage(readRecord[e], s, "PASSED", status), NextState(s))
          /\ WithStage(readRecord[e], s, "PASSED", status).status = status
      BY <1>3, <2>2, StageIsPut
    <3>2. QED  BY <1>4, <3>1
  <2>4. StagesHold(e)'
    BY <1>1, <1>5, <2>3 DEF StagesHold
  <2>5. ScansHold(e)'
    <3>1. NextState(s) = "SECURITY_SCANNING" => \A x \in Scans : build[<<e, x>>] = "none"
      BY <1>1, <1>5 DEF OwnInv, Own, OnItsWay, Unscanned
    <3>2. QED  BY <1>1, <3>1 DEF ScansHold
  <2>6. StatusHolds(e)'
    <3>1. s # "HEALTH_CHECK" => status \notin Settled
      BY StageIs DEF Settled
    <3>2. QED  BY <1>1, <1>5, <2>3, <3>1, StageIs DEF StatusHolds
  <2>7. QED  BY <2>4, <2>5, <2>6
<1>8. QED  BY <1>1, <1>2, <1>5, <1>6, <1>7, OneMoves

\* To MarkFailed, or out of a Mark task.
LEMMA RaiseKeepsOwn ==
    ASSUME IInv, OwnInv, NEW e \in Executions,
           RejectStage(e) \/ Raise(e) \/ Die(e)
    PROVE  OwnInv'
<1>1. /\ state[e] \in (Stage \cup MarkTask) \ {"SECURITY_SCANNING"}
      /\ state'[e] \in {"MarkFailed", "died"} /\ phase'[e] = "start"
      /\ UNCHANGED <<of, build, applied>>
  BY GotoIs, StageIs DEF RejectStage, Raise, Die, MarkTask, outside
<1>2. state[e] # "idle" /\ OthersRest(e)
  BY <1>1, ExecutionRests, StageIs DEF MarkTask
<1>3. OnItsWay(e)'
  BY <1>1 DEF OwnInv, Own, OnItsWay, Unscanned, ScansOver
<1>4. StagesHold(e)' /\ ScansHold(e)' /\ StatusHolds(e)'
  BY <1>1, StageIs DEF StagesHold, ScansHold, StatusHolds
<1>5. QED  BY <1>1, <1>2, <1>3, <1>4, OneMoves

LEMMA StartScansKeepsOwn ==
    ASSUME IInv, OwnInv, NEW e \in Executions, StartScans(e)
    PROVE  OwnInv'
<1>1. /\ state[e] = "SECURITY_SCANNING" /\ state'[e] = state[e] /\ phase'[e] = "waiting"
      /\ UNCHANGED <<of, record, verdict, readRecord, applied>>
  BY WithinIs DEF StartScans, outside
<1>2. state[e] # "idle" /\ OthersRest(e)
  BY <1>1, ExecutionRests
<1>3. \A s \in Scans : build'[<<e, s>>] = "running"
  BY Writers DEF StartScans
<1>4. OnItsWay(e)'
  BY <1>1 DEF OnItsWay, Unscanned, ScansOver
<1>5. ASSUME Alone(e)
      PROVE  StagesHold(e)' /\ ScansHold(e)' /\ StatusHolds(e)'
  <2>1. StagesHold(e) /\ ScansHold(e) /\ StatusHolds(e)
    BY <1>2, <1>5 DEF OwnInv, Own
  <2>2. StagesHold(e)'
    BY <1>1, <2>1 DEF StagesHold
  <2>3. ScansHold(e)'
    BY <1>1, <1>3 DEF ScansHold
  <2>4. StatusHolds(e)'
    BY <1>1, <2>1 DEF StatusHolds, Blocking
  <2>5. QED  BY <2>2, <2>3, <2>4
<1>6. QED  BY <1>1, <1>2, <1>4, <1>5, OneMoves

\* The scan that reported last left the stage passed.
LEMMA JoinScansKeepsOwn ==
    ASSUME IInv, OwnInv, NEW e \in Executions, JoinScans(e)
    PROVE  OwnInv'
<1>1. /\ state[e] = "SECURITY_SCANNING" /\ phase[e] = "waiting" /\ phase'[e] = "start"
      /\ UNCHANGED <<of, record, build, readRecord, applied>>
      /\ \/ state'[e] = "EVALUATING" /\ \A s \in Scans : build[<<e, s>>] = "passed"
         \/ state'[e] = "MarkFailed" /\ \E s \in Scans : build[<<e, s>>] \in {"failed", "broken"}
  BY GotoIs DEF JoinScans, outside
<1>2. state[e] # "idle" /\ OthersRest(e)
  BY <1>1, ExecutionRests
<1>3. OnItsWay(e)'
  BY <1>1 DEF OnItsWay, Unscanned, ScansOver
<1>4. ASSUME Alone(e)
      PROVE  StagesHold(e)' /\ ScansHold(e)' /\ StatusHolds(e)'
  <2>1. StagesHold(e) /\ ScansHold(e) /\ StatusHolds(e)
    BY <1>2, <1>4 DEF OwnInv, Own
  <2>2. CASE state'[e] = "EVALUATING"
    <3>1. \A s \in Scans : build[<<e, s>>] = "passed"
      BY <1>1, <2>2
    <3>2. record[of[e]].stages["SECURITY_SCANNING"] = "PASSED"
      BY <1>1, <2>1, <3>1, ScansAssumption DEF ScansHold
    <3>3. Behind(record[of[e]], "SECURITY_SCANNING")
      BY <1>1, <2>1, StageIs DEF StagesHold
    <3>4. Behind(record[of[e]], "EVALUATING")
      BY <3>2, <3>3, EarlierNext, NextStateIs, StageIs DEF Behind
    <3>5. record[of[e]].status \notin Settled
      BY <1>1, <2>1, StageIs DEF StatusHolds
    <3>6. StagesHold(e)'
      BY <1>1, <2>2, <3>4 DEF StagesHold
    <3>7. QED  BY <1>1, <2>2, <3>5, <3>6, StageIs DEF ScansHold, StatusHolds
  <2>3. CASE state'[e] = "MarkFailed"
    BY <2>3, StageIs DEF StagesHold, ScansHold, StatusHolds
  <2>4. QED  BY <1>1, <2>2, <2>3
<1>5. QED  BY <1>1, <1>2, <1>3, <1>4, OneMoves

LEMMA AnnounceBuildKeepsOwn ==
    ASSUME IInv, OwnInv, NEW e \in Executions, AnnounceBuild(e)
    PROVE  OwnInv'
<1>1. /\ state[e] \in BuildTask \ {"EVALUATING"} /\ state'[e] = state[e]
      /\ \/ phase[e] = "start" /\ GetRecord(e, of[e]) /\ phase'[e] = "announce" /\ record' = record
         \/ /\ phase[e] = "announce" /\ ShellUpdate(e, of[e], state[e], "RUNNING")
            /\ phase'[e] = "running"
      /\ UNCHANGED <<of, build, verdict, applied>>
  BY WithinIs DEF AnnounceBuild, outside
<1>2. state[e] # "idle" /\ OthersRest(e) /\ state[e] \in Stage \ {"POLICY_CHECK"}
  BY <1>1, ExecutionRests, StageIs DEF BuildTask
<1>3. of[e] \in Deployments /\ record[of[e]] \in RecordType
  BY <1>2, HasRecord
<1>4. OnItsWay(e)'
  BY <1>1, <1>2 DEF OwnInv, Own, OnItsWay, Unscanned, ScansOver, BuildTask
<1>5. ASSUME Alone(e)
      PROVE  StagesHold(e)' /\ ScansHold(e)' /\ StatusHolds(e)'
  <2>1. StagesHold(e) /\ StatusHolds(e)
    BY <1>2, <1>5 DEF OwnInv, Own
  <2>2. ScansHold(e)'
    BY <1>1 DEF ScansHold, BuildTask
  <2>3. CASE GetRecord(e, of[e]) /\ phase'[e] = "announce" /\ record' = record
    <3>1. readRecord'[e] = record[of[e]]
      BY <2>3, GetRecordIs, Writers
    <3>2. StagesHold(e)'
      BY <1>1, <1>2, <2>1, <2>3, <3>1 DEF StagesHold
    <3>3. StatusHolds(e)'
      BY <1>1, <1>2, <2>1, <2>3 DEF StatusHolds, BuildTask
    <3>4. QED  BY <2>2, <3>2, <3>3
  <2>4. CASE phase[e] = "announce" /\ ShellUpdate(e, of[e], state[e], "RUNNING")
                /\ phase'[e] = "running"
    <3>1. readRecord[e] \in RecordType /\ Behind(readRecord[e], state[e])
      BY <1>2, <2>1, <2>4 DEF IInv, RecordHeld, StagesHold
    <3>2. Behind(record'[of[e]], state[e]) /\ record'[of[e]].status = state[e]
      BY <1>2, <1>3, <2>4, <3>1, StageIsUpdated DEF IInv
    <3>3. StagesHold(e)'
      BY <1>1, <1>2, <2>4, <3>2 DEF StagesHold
    <3>4. StatusHolds(e)'
      BY <1>1, <1>2, <3>2, StageIs DEF StatusHolds, Settled
    <3>5. QED  BY <2>2, <3>3, <3>4
  <2>5. QED  BY <1>1, <2>3, <2>4
<1>6. QED  BY <1>1, <1>2, <1>4, <1>5, OneMoves

LEMMA RunBuildKeepsOwn ==
    ASSUME IInv, OwnInv, NEW e \in Executions, RunBuild(e)
    PROVE  OwnInv'
<1>1. /\ state[e] \in BuildTask /\ state'[e] = state[e] /\ phase'[e] = "report"
      /\ readRecord'[e] = record[of[e]]
      /\ UNCHANGED <<of, build, record>>
  BY WithinIs, GetRecordIs, Writers DEF RunBuild, outside
<1>2. state[e] # "idle" /\ OthersRest(e) /\ state[e] \in Stage \ {"POLICY_CHECK"}
  BY <1>1, ExecutionRests, StageIs DEF BuildTask
<1>3. OnItsWay(e)'
  BY <1>1, <1>2 DEF OwnInv, Own, OnItsWay, Unscanned, ScansOver, BuildTask
<1>4. ASSUME Alone(e)
      PROVE  StagesHold(e)' /\ ScansHold(e)' /\ StatusHolds(e)'
  <2>1. StagesHold(e) /\ StatusHolds(e)
    BY <1>2, <1>4 DEF OwnInv, Own
  <2>2. StagesHold(e)'
    BY <1>1, <1>2, <2>1 DEF StagesHold
  <2>3. ScansHold(e)' /\ StatusHolds(e)'
    BY <1>1, <1>2, <2>1 DEF ScansHold, StatusHolds, BuildTask
  <2>4. QED  BY <2>2, <2>3
<1>5. QED  BY <1>1, <1>2, <1>3, <1>4, OneMoves

LEMMA ReportBuildKeepsOwn ==
    ASSUME IInv, OwnInv, NEW e \in Executions, ReportBuild(e)
    PROVE  OwnInv'
<1>1. /\ state[e] \in BuildTask /\ phase[e] = "report" /\ phase'[e] = "start"
      /\ ShellUpdate(e, of[e], state[e], verdict[e])
      /\ \/ verdict[e] = "PASSED" /\ state'[e] = NextState(state[e])
         \/ state'[e] = "MarkFailed"
      /\ UNCHANGED <<of, build, applied>>
  BY GotoIs DEF ReportBuild, outside
<1>2. state[e] # "idle" /\ OthersRest(e) /\ state[e] \in Stage \ {"POLICY_CHECK"}
  BY <1>1, ExecutionRests, StageIs DEF BuildTask
<1>3. of[e] \in Deployments /\ record[of[e]] \in RecordType /\ readRecord[e] \in RecordType
  BY <1>1, <1>2, HasRecord DEF IInv, RecordHeld
<1>4. NextState(state[e]) \in {"TERRAFORM_VALIDATE", "TERRAFORM_PLAN", "POLICY_CHECK", "DEPLOYING"}
  BY <1>1, NextStateIs DEF BuildTask
<1>5. OnItsWay(e)'
  BY <1>1, <1>2, <1>4 DEF OwnInv, Own, OnItsWay, Unscanned, ScansOver, BuildTask
<1>6. ASSUME Alone(e)
      PROVE  StagesHold(e)' /\ ScansHold(e)' /\ StatusHolds(e)'
  <2>1. StagesHold(e)
    BY <1>2, <1>6 DEF OwnInv, Own
  <2>2. Behind(readRecord[e], state[e])
    BY <1>1, <1>2, <2>1 DEF StagesHold
  <2>3. /\ record'[of[e]].status = state[e]
        /\ verdict[e] = "PASSED" => Behind(record'[of[e]], NextState(state[e]))
    BY <1>1, <1>2, <1>3, <2>2, StageIsUpdated DEF IInv
  <2>4. CASE verdict[e] = "PASSED" /\ state'[e] = NextState(state[e])
    <3>1. StagesHold(e)'
      BY <1>1, <1>4, <2>3, <2>4 DEF StagesHold
    <3>2. StatusHolds(e)'
      BY <1>1, <1>2, <1>4, <2>3, <2>4, StageIs DEF StatusHolds, Settled, Blocking
    <3>3. QED  BY <1>4, <2>4, <3>1, <3>2 DEF ScansHold
  <2>5. CASE state'[e] = "MarkFailed"
    BY <2>5, StageIs DEF StagesHold, ScansHold, StatusHolds
  <2>6. QED  BY <1>1, <2>4, <2>5
<1>7. QED
  <2>1. state'[e] # "idle"
    BY <1>1, <1>4
  <2>2. QED  BY <2>1, <1>2, <1>5, <1>6, OneMoves

\* The policy check: the record says BLOCKED from the put of the block on.
LEMMA PolicyKeepsOwn ==
    ASSUME IInv, OwnInv, NEW e \in Executions,
           Decide(e) \/ EnforcePolicyGate(e) \/ MarkBlockedAgent(e)
    PROVE  OwnInv'
<1>1. /\ state[e] = "POLICY_CHECK" /\ state'[e] = "POLICY_CHECK"
      /\ UNCHANGED <<of, build, applied>>
  BY WithinIs DEF Decide, EnforcePolicyGate, MarkBlockedAgent, outside
<1>2. state[e] # "idle" /\ OthersRest(e) /\ "POLICY_CHECK" \in Stage
  BY <1>1, ExecutionRests, StageIs
<1>3. of[e] \in Deployments /\ record[of[e]] \in RecordType
  BY <1>2, HasRecord
<1>4. \/ phase[e] = "start" /\ phase'[e] = "decided" /\ record' = record
      \/ /\ phase[e] = "decided" /\ phase'[e] = "read" /\ record' = record
         /\ readRecord'[e] = record[of[e]] /\ verdict' = verdict
      \/ /\ phase[e] = "read" /\ phase'[e] = "block" /\ verdict[e] = "BLOCK" /\ verdict' = verdict
         /\ record'[of[e]] = WithStage(readRecord[e], "POLICY_CHECK", "BLOCKED", "BLOCKED")
      \/ /\ phase[e] = "read" /\ phase'[e] = "pull" /\ verdict[e] = "PASS" /\ verdict' = verdict
         /\ record'[of[e]] = WithStage(readRecord[e], "POLICY_CHECK", "PASSED", "APPLYING")
      \/ phase[e] = "block" /\ phase'[e] = "blocking" /\ verdict' = verdict /\ record' = record
      \/ phase[e] = "blocking" /\ phase'[e] = "pull" /\ verdict' = verdict /\ record' = record
  BY <1>3, WithinIs, GetRecordIs, PutRecordIs, Writers
  DEF Decide, EnforcePolicyGate, MarkBlockedAgent
<1>5. phase[e] \in {"block", "blocking"} => verdict[e] = "BLOCK"
  BY DEF OwnInv, Own, OnItsWay
<1>6. OnItsWay(e)'
  BY <1>1, <1>4, <1>5 DEF OwnInv, Own, OnItsWay, Unscanned, ScansOver
<1>7. ASSUME Alone(e)
      PROVE  StagesHold(e)' /\ ScansHold(e)' /\ StatusHolds(e)'
  <2>1. StagesHold(e) /\ StatusHolds(e)
    BY <1>2, <1>7 DEF OwnInv, Own
  <2>2. ScansHold(e)'
    BY <1>1 DEF ScansHold
  <2>3. CASE phase[e] = "read"
    <3>1. readRecord[e] \in RecordType /\ Behind(readRecord[e], "POLICY_CHECK")
      BY <1>1, <1>2, <2>1, <2>3 DEF IInv, RecordHeld, StagesHold
    <3>2. ASSUME NEW x, NEW t, record'[of[e]] = WithStage(readRecord[e], "POLICY_CHECK", x, t)
          PROVE  /\ Behind(record'[of[e]], "POLICY_CHECK")
                 /\ record'[of[e]].stages["POLICY_CHECK"] = x
                 /\ record'[of[e]].status = t
      BY <1>2, <3>1, <3>2, StageIsPut
    <3>3. CASE phase'[e] = "block"
      <4>1. Behind(record'[of[e]], "POLICY_CHECK") /\ record'[of[e]].status = "BLOCKED"
        BY <1>4, <2>3, <3>2, <3>3
      <4>2. QED  BY <1>1, <2>2, <3>3, <4>1 DEF StagesHold, StatusHolds, Blocking
    <3>4. CASE phase'[e] = "pull"
      <4>1. /\ Behind(record'[of[e]], "POLICY_CHECK") /\ record'[of[e]].status = "APPLYING"
            /\ record'[of[e]].stages["POLICY_CHECK"] = "PASSED" /\ verdict'[e] = "PASS"
        BY <1>4, <2>3, <3>2, <3>4
      <4>2. QED  BY <1>1, <2>2, <3>4, <4>1 DEF StagesHold, StatusHolds, Blocking, Settled
    <3>5. QED  BY <1>4, <2>3, <3>3, <3>4
  <2>4. CASE phase[e] # "read"
    <3>1. record'[of[e]] = record[of[e]] /\ (phase'[e] = "read" => readRecord'[e] = record[of[e]])
      BY <1>4, <2>4
    <3>2. StagesHold(e)'
      BY <1>1, <1>2, <1>4, <1>5, <2>1, <2>4, <3>1 DEF StagesHold
    <3>3. StatusHolds(e)'
      BY <1>1, <1>2, <1>4, <1>5, <2>1, <2>4, <3>1 DEF StatusHolds, Blocking
    <3>4. QED  BY <2>2, <3>2, <3>3
  <2>5. QED  BY <2>3, <2>4
<1>8. QED  BY <1>1, <1>2, <1>6, <1>7, OneMoves

LEMMA PullRequestKeepsOwn ==
    ASSUME IInv, OwnInv, NEW e \in Executions, PullRequest(e)
    PROVE  OwnInv'
<1>1. /\ state[e] = "POLICY_CHECK" /\ phase[e] = "pull" /\ phase'[e] = "start"
      /\ \/ verdict[e] = "BLOCK" /\ state'[e] = "MarkBlocked"
         \/ verdict[e] = "PASS" /\ state'[e] = "APPLYING"
         \/ state'[e] = "MarkFailed"
      /\ UNCHANGED <<of, build, record, applied>>
  BY GotoIs DEF PullRequest, outside
<1>2. state[e] # "idle" /\ OthersRest(e) /\ {"POLICY_CHECK", "APPLYING"} \subseteq Stage
  BY <1>1, ExecutionRests, StageIs
<1>3. OnItsWay(e)'
  BY <1>1 DEF OwnInv, Own, OnItsWay, Unscanned, ScansOver
<1>4. ASSUME Alone(e)
      PROVE  StagesHold(e)' /\ ScansHold(e)' /\ StatusHolds(e)'
  <2>1. StagesHold(e) /\ StatusHolds(e)
    BY <1>2, <1>4 DEF OwnInv, Own
  <2>2. CASE verdict[e] = "BLOCK" /\ state'[e] = "MarkBlocked"
    <3>1. record[of[e]].status = "BLOCKED"
      BY <1>1, <1>2, <2>1, <2>2 DEF StatusHolds, Blocking
    <3>2. QED  BY <1>1, <2>2, <3>1, StageIs DEF StagesHold, ScansHold, StatusHolds
  <2>3. CASE verdict[e] = "PASS" /\ state'[e] = "APPLYING"
    <3>1. record[of[e]].status \notin Settled
      BY <1>1, <1>2, <2>1, <2>3 DEF StatusHolds, Blocking
    <3>2. Behind(record[of[e]], "APPLYING")
      BY <1>1, <1>2, <2>1, <2>3, EarlierNext DEF StagesHold, Behind
    <3>3. StagesHold(e)'
      BY <1>1, <2>3, <3>2 DEF StagesHold
    <3>4. QED  BY <1>1, <2>3, <3>1, <3>3 DEF ScansHold, StatusHolds
  <2>4. CASE state'[e] = "MarkFailed"
    BY <2>4, StageIs DEF StagesHold, ScansHold, StatusHolds
  <2>5. QED  BY <1>1, <2>2, <2>3, <2>4
<1>5. QED  BY <1>1, <1>2, <1>3, <1>4, OneMoves

LEMMA MarkKeepsOwn ==
    ASSUME IInv, OwnInv, NEW e \in Executions, MarkBlocked(e) \/ MarkAgent(e) \/ MarkRecord(e)
    PROVE  OwnInv'
<1>1. /\ state[e] \in MarkTask /\ state'[e] \in {state[e], "ended"}
      /\ phase'[e] \in {"start", "agent", "marked", "read"}
      /\ state'[e] = state[e] => record' = record /\ state[e] # "MarkBlocked"
      /\ UNCHANGED <<of, build, applied>>
  BY GotoIs, WithinIs DEF MarkBlocked, MarkAgent, MarkRecord, outside, MarkTask
<1>2. state[e] # "idle" /\ OthersRest(e) /\ MarkTask \cap Stage = {} /\ state'[e] # "idle"
  BY <1>1, ExecutionRests, StageIs DEF MarkTask
<1>3. of[e] \in Deployments
  BY <1>2, HasRecord
<1>4. OnItsWay(e)'
  BY <1>1 DEF OwnInv, Own, OnItsWay, Unscanned, ScansOver, MarkTask
<1>5. ASSUME Alone(e)
      PROVE  StagesHold(e)' /\ ScansHold(e)' /\ StatusHolds(e)'
  <2>1. StagesHold(e) /\ StatusHolds(e)
    BY <1>2, <1>5 DEF OwnInv, Own
  <2>2. CASE state'[e] = state[e]
    <3>1. StagesHold(e)'
      BY <1>1, <1>2, <2>1, <2>2 DEF StagesHold
    <3>2. QED  BY <1>1, <1>2, <2>2, <3>1 DEF ScansHold, StatusHolds, MarkTask
  <2>3. CASE state'[e] = "ended"
    <3>1. StagesHold(e)' /\ ScansHold(e)'
      BY <2>3, StageIs DEF StagesHold, ScansHold
    <3>2. CASE MarkBlocked(e)
      <4>1. state[e] = "MarkBlocked" /\ record' = record /\ e \notin applied
        BY <3>2 DEF MarkBlocked, IInv, ApplyRan, AfterPull
      <4>2. QED  BY <1>1, <2>1, <2>3, <3>1, <4>1, StageIs DEF StatusHolds, Orderly, Settled
    <3>3. CASE MarkAgent(e) \/ MarkRecord(e)
      <4>1. /\ MarkRecord(e) /\ phase[e] = "read" /\ state[e] \in {"MarkActive", "MarkFailed"}
            /\ PutRecord(e, of[e], IF state[e] = "MarkActive"
                                   THEN WithStage(readRecord[e], "HEALTH_CHECK", "PASSED", "ACTIVE")
                                   ELSE WithFailure(readRecord[e]))
        BY <2>3, <3>3, WithinIs DEF MarkAgent, MarkRecord
      <4>2. readRecord[e] \in RecordType
        BY <4>1 DEF IInv, RecordHeld
      <4>3. record'[of[e]].status = IF state[e] = "MarkActive" THEN "ACTIVE" ELSE "FAILED"
        <5>1. record'[of[e]] = IF state[e] = "MarkActive"
                THEN WithStage(readRecord[e], "HEALTH_CHECK", "PASSED", "ACTIVE")
                ELSE WithFailure(readRecord[e])
          BY <1>3, <4>1, PutRecordIs, Writers
        <5>2. /\ WithStage(readRecord[e], "HEALTH_CHECK", "PASSED", "ACTIVE").status = "ACTIVE"
              /\ WithFailure(readRecord[e]).status = "FAILED"
          BY <4>2 DEF WithStage, WithFailure, RecordType
        <5>3. QED  BY <5>1, <5>2
      <4>4. state[e] = "MarkActive" => e \in applied
        BY DEF IInv, ApplyRan, AfterApply
      <4>5. StatusHolds(e)'
        BY <1>1, <2>3, <4>1, <4>3, <4>4, StageIs DEF StatusHolds, Settled
      <4>6. QED  BY <3>1, <4>5
    <3>4. QED  BY <3>2, <3>3
  <2>4. QED  BY <1>1, <2>2, <2>3
<1>6. QED  BY <1>2, <1>4, <1>5, OneMoves

(***************************************************************************)
(* The actions of a scan build. One that still runs when its execution has *)
(* moved on implies that another has failed, or is broken.                 *)
(***************************************************************************)
LEMMA BranchRests ==
    ASSUME IInv, OwnInv, NEW b \in Branches,
           Scanned(b) \/ ReportScan(b) \/ ScanBreaks(b) \/ StopScan(b)
    PROVE  /\ state[b[1]] # "idle" /\ OthersRest(b[1])
           /\ UNCHANGED <<of, state, phase, verdict, applied>>
           /\ readRecord'[b[1]] = readRecord[b[1]]
           /\ build' = [build EXCEPT ![b] = build'[b]]
           /\ \A w \in Writer : w # b => readRecord'[w] = readRecord[w]
<1>1. build[b] # "none" /\ build' = [build EXCEPT ![b] = build'[b]]
  BY DEF Scanned, ReportScan, ScanBreaks, StopScan, IInv, TBuild
<1>2. b[1] \in Executions /\ b[2] \in Scans /\ b = <<b[1], b[2]>> /\ b \in Writer
  BY Writers
<1>3. state[b[1]] # "idle"
  BY <1>1, <1>2 DEF IInv, NotStarted
<1>4. /\ UNCHANGED <<installed, trigger, of, ci, state, phase, verdict, applied>>
      /\ \A d \in Deployments : d # of[b[1]] => record'[d] = record[d]
  BY DEF Scanned, ReportScan, ScanBreaks, StopScan, ShellUpdate, outside, IInv, TRecord
<1>5. \A w \in Writer : w # b => readRecord'[w] = readRecord[w]
  BY DEF Scanned, ReportScan, ScanBreaks, StopScan, ShellUpdate, GetRecord, IInv, TReadRecord
<1>6. \A f \in Executions : /\ f \in Writer /\ f # b
                            /\ \A s \in Scans : <<f, s>> \in Writer /\ <<f, s>> \in Branches
  BY Writers DEF Writer
<1>7. \A f \in Executions : f # b[1] => \A s \in Scans : <<f, s>> # b
  BY <1>2
<1>8. \A c \in Branches : c # b => build'[c] = build[c]
  BY <1>1 DEF IInv, TBuild
<1>9. QED  BY <1>1, <1>2, <1>3, <1>4, <1>5, <1>6, <1>7, <1>8 DEF OthersRest

LEMMA BranchKeepsOwn ==
    ASSUME IInv, OwnInv, NEW b \in Branches,
           Scanned(b) \/ ReportScan(b) \/ ScanBreaks(b) \/ StopScan(b)
    PROVE  OwnInv'
<1> DEFINE e == b[1]
<1>1. e \in Executions /\ b[2] \in Scans /\ b = <<e, b[2]>> /\ b \in Writer
  BY Writers
<1>2. /\ state[e] # "idle" /\ OthersRest(e)
      /\ UNCHANGED <<of, state, phase, verdict, applied>>
      /\ readRecord'[e] = readRecord[e]
      /\ \A w \in Writer : w # b => readRecord'[w] = readRecord[w]
  BY BranchRests
<1>3. /\ build[b] \in {"running", "clean", "critical"}
      /\ build'[b] \in {"clean", "critical", "passed", "failed", "broken", "stopped"}
      /\ \A c \in Branches : c # b => build'[c] = build[c]
  BY DEF Scanned, ReportScan, ScanBreaks, StopScan, IInv, TBuild
<1>4. \A s \in Scans : s # b[2] => /\ <<e, s>> # b /\ build'[<<e, s>>] = build[<<e, s>>]
                                   /\ readRecord'[<<e, s>>] = readRecord[<<e, s>>]
  BY <1>1, <1>2, <1>3, Writers DEF Branches
<1>5. /\ state[e] \notin {"VALIDATING", "CHANGE_IMPACT", "GENERATING_IAC"} \cup AfterScans
      /\ state[e] = "SECURITY_SCANNING" => phase[e] = "waiting"
  BY <1>1, <1>3 DEF OwnInv, Own, OnItsWay, Unscanned, IInv, ScansPassed
<1>6. OnItsWay(e)'
  <2>1. Unscanned(e)'
    BY <1>2, <1>5 DEF Unscanned
  <2>2. ScansOver(e)'
    <3>1. ASSUME state[e] # "SECURITY_SCANNING"
          PROVE  \E s \in Scans : build'[<<e, s>>] \in {"failed", "broken"}
      <4>1. PICK s \in Scans : build[<<e, s>>] \in {"failed", "broken"}
        BY <1>1, <1>3, <3>1 DEF OwnInv, Own, OnItsWay, ScansOver
      <4>2. s # b[2]
        BY <1>1, <1>3, <4>1
      <4>3. QED  BY <1>4, <4>1, <4>2
    <3>2. QED  BY <1>2, <3>1 DEF ScansOver
  <2>3. /\ state[e] # "idle"
        /\ phase'[e] \in {"block", "blocking"} => verdict'[e] = "BLOCK"
    BY <1>1, <1>2 DEF OwnInv, Own, OnItsWay
  <2>4. QED  BY <1>2, <2>1, <2>2, <2>3 DEF OnItsWay
<1>7. ASSUME Alone(e), state[e] # "SECURITY_SCANNING"
      PROVE  StagesHold(e)' /\ ScansHold(e)' /\ StatusHolds(e)'
  <2>1. state[e] \notin Stage \cup {"MarkActive"}
    BY <1>5, <1>7, StageIs DEF AfterScans
  <2>2. ~ Orderly(e)'
    <3>1. PICK s \in Scans : build[<<e, s>>] \in {"failed", "broken"}
      BY <1>1, <1>3, <1>7 DEF OwnInv, Own, OnItsWay, ScansOver
    <3>2. s # b[2]
      BY <1>1, <1>3, <3>1
    <3>3. build'[<<e, s>>] \in {"failed", "broken"}
      BY <1>4, <3>1, <3>2
    <3>4. QED  BY <3>3 DEF Orderly
  <2>3. StagesHold(e)' /\ ScansHold(e)'
    BY <1>2, <1>7, <2>1, StageIs DEF StagesHold, ScansHold
  <2>4. StatusHolds(e)'
    BY <1>2, <2>1, <2>2 DEF StatusHolds
  <2>5. QED  BY <2>3, <2>4
<1>8. ASSUME Alone(e), state[e] = "SECURITY_SCANNING"
      PROVE  StagesHold(e)' /\ ScansHold(e)' /\ StatusHolds(e)'
  <2>1. /\ StagesHold(e) /\ ScansHold(e) /\ StatusHolds(e)
        /\ state'[e] = "SECURITY_SCANNING" /\ phase'[e] = "waiting" /\ phase[e] = "waiting"
        /\ "SECURITY_SCANNING" \in Stage
    BY <1>1, <1>2, <1>5, <1>8, StageIs DEF OwnInv, Own
  <2>2. of[e] \in Deployments /\ record[of[e]] \in RecordType
    BY <1>1, <1>2, HasRecord
  <2>3. Behind(record[of[e]], "SECURITY_SCANNING") /\ record[of[e]].status \notin Settled
    BY <1>8, <2>1 DEF StagesHold, StatusHolds
  <2>4. CASE ReportScan(b)
    <3>1. \E x \in {"PASSED", "FAILED"} :
            /\ ShellUpdate(b, of[e], "SECURITY_SCANNING", x)
            /\ build[b] \in {"clean", "critical"}
            /\ build'[b] = IF x = "PASSED" THEN "passed" ELSE "failed"
      BY <2>4 DEF ReportScan, IInv, TBuild
    <3> PICK x \in {"PASSED", "FAILED"} :
            /\ ShellUpdate(b, of[e], "SECURITY_SCANNING", x)
            /\ build[b] \in {"clean", "critical"}
            /\ build'[b] = IF x = "PASSED" THEN "passed" ELSE "failed"
      BY <3>1
    <3>2. readRecord[b] \in RecordType
      BY DEF IInv, HeldByScan
    <3>3. Behind(readRecord[b], "SECURITY_SCANNING")
      BY <1>1, <1>8, <2>1 DEF ScansHold
    <3>4. /\ record'[of[e]].stages["SECURITY_SCANNING"] = x
          /\ record'[of[e]].status = "SECURITY_SCANNING"
          /\ Behind(record'[of[e]], "SECURITY_SCANNING")
      BY <2>1, <2>2, <3>2, <3>3, StageIsUpdated DEF IInv
    <3>5. StagesHold(e)'
      BY <1>2, <2>1, <3>4 DEF StagesHold
    <3>6. ScansHold(e)'
      <4>1. \A s \in Scans : build'[<<e, s>>] \in {"clean", "critical"} =>
                Behind(readRecord'[<<e, s>>], "SECURITY_SCANNING")
        BY <1>1, <1>4, <1>8, <2>1 DEF ScansHold
      <4>2. (\A s \in Scans : build'[<<e, s>>] # "failed") => x = "PASSED"
        BY <1>1
      <4>3. QED  BY <1>2, <3>4, <4>1, <4>2 DEF ScansHold
    <3>7. StatusHolds(e)'
      BY <1>2, <2>1, <3>4, StageIs DEF StatusHolds, Settled
    <3>8. QED  BY <3>5, <3>6, <3>7
  <2>5. CASE Scanned(b) \/ ScanBreaks(b)
    <3>1. /\ record' = record /\ build'[b] \in {"clean", "critical", "broken"}
          /\ build[b] = "running"
          /\ build'[b] # "broken" => readRecord'[b] = record[of[e]]
      BY <1>1, <2>5, GetRecordIs DEF Scanned, ScanBreaks, IInv, TBuild
    <3>2. StagesHold(e)'
      BY <1>2, <2>1, <3>1 DEF StagesHold
    <3>3. ScansHold(e)'
      <4>1. \A s \in Scans : build'[<<e, s>>] \in {"clean", "critical"} =>
                Behind(readRecord'[<<e, s>>], "SECURITY_SCANNING")
        BY <1>1, <1>4, <1>8, <2>1, <2>3, <3>1 DEF ScansHold
      <4>2. \A s \in Scans : /\ build'[<<e, s>>] = "passed" => build[<<e, s>>] = "passed"
                             /\ build[<<e, s>>] = "failed" => build'[<<e, s>>] = "failed"
        BY <1>1, <1>4, <3>1
      <4>3. QED  BY <1>2, <1>8, <2>1, <3>1, <4>1, <4>2 DEF ScansHold
    <3>4. StatusHolds(e)'
      BY <1>2, <2>1, <2>3, <3>1, StageIs DEF StatusHolds
    <3>5. QED  BY <3>2, <3>3, <3>4
  <2>6. CASE StopScan(b)
    BY <1>8, <2>6 DEF StopScan
  <2>7. QED  BY <2>4, <2>5, <2>6
<1>9. QED  BY <1>1, <1>2, <1>6, <1>7, <1>8, OneMoves

(***************************************************************************)
(* Stage order, settled ends and settled records.                          *)
(***************************************************************************)
LEMMA InitOwn == Init => OwnInv
BY DEF Init, OwnInv, Own, OnItsWay, Unscanned, ScansOver, Untouched, CiAbsent, NotYet, Branches

LEMMA NextOwn == IInv /\ OwnInv /\ [Next]_vars => OwnInv'
<1> SUFFICES ASSUME IInv, OwnInv, [Next]_vars PROVE OwnInv'
  OBVIOUS
<1>1. ASSUME NEW e \in Executions, Execution(e) \/ Raise(e) \/ Die(e)
      PROVE  OwnInv'
  <2>1. ASSUME NEW s, NEW status, PassTask(e, s, status),
               <<s, status>> \in {<<"VALIDATING", "CHANGE_IMPACT">>,
                   <<"CHANGE_IMPACT", "GENERATING_IAC">>, <<"GENERATING_IAC", "SECURITY_SCANNING">>,
                   <<"DEPLOYING", "HEALTH_CHECK">>, <<"HEALTH_CHECK", "ACTIVE">>}
        PROVE  OwnInv'
    <3>1. /\ s \in LambdaTask /\ status \in Stage \cup Settled
          /\ s # "HEALTH_CHECK" => status \in Stage
      BY <2>1, StageIs DEF LambdaTask, Settled
    <3>2. QED  BY <2>1, <3>1, PassTaskKeepsOwn
  <2>2. CASE Validating(e) \/ ChangeImpact(e) \/ GeneratingIac(e) \/ Deploying(e) \/ HealthCheck(e)
    BY <2>1, <2>2 DEF Validating, ChangeImpact, GeneratingIac, Deploying, HealthCheck
  <2>3. QED
    BY <1>1, <2>2, StartKeepsOwn, ReadStageKeepsOwn, RaiseKeepsOwn, StartScansKeepsOwn,
       JoinScansKeepsOwn, AnnounceBuildKeepsOwn, RunBuildKeepsOwn, ReportBuildKeepsOwn,
       PolicyKeepsOwn, PullRequestKeepsOwn, MarkKeepsOwn
    DEF Execution
<1>2. CASE UNCHANGED vars
  <2>1. /\ UNCHANGED <<installed, record, trigger, of, state, phase, verdict, build, ci,
                       readRecord, applied>>
    BY <1>2 DEF vars, flow
  <2>2. \A d \in Deployments : Untouched(d)'
    BY <2>1 DEF OwnInv, Untouched
  <2>3. CiAbsent' /\ NotYet'
    BY <2>1 DEF OwnInv, CiAbsent, NotYet
  <2>4. \A f \in Executions : Alone(f)' => Alone(f)
    BY <2>1 DEF Alone
  <2>5. QED  BY <2>1, <2>2, <2>3, <2>4, NoneMoves
<1>3. QED  BY <1>1, <1>2, DeploymentsKeepOwn, BranchKeepsOwn DEF Next, Branch

LEMMA OwnInvariance == Spec => [](IInv /\ OwnInv)
<1>1. Init => IInv /\ OwnInv
  BY InitInv, InitOwn
<1>2. IInv /\ OwnInv /\ [Next]_vars => (IInv /\ OwnInv)'
  BY NextInv, NextOwn
<1>3. QED  BY <1>1, <1>2, PTL DEF Spec

\* Whatever the scans, which report in any order, and however many faults: an execution
\* that is alone with its record finds there that every stage before its own passed.
THEOREM StageOrder == Spec => []EarlierStagesRecorded
<1>1. ASSUME IInv, OwnInv
      PROVE  EarlierStagesRecorded
  <2> SUFFICES ASSUME NEW e \in Executions, state[e] \in Stage \cup {"MarkActive"}, Alone(e),
                      NEW i \in 1..11, \A j \in 1..i : Pipeline[j] # state[e]
               PROVE  record[of[e]].stages[Pipeline[i]] = "PASSED"
    BY DEF EarlierStagesRecorded
  <2>1. state[e] # "idle"
    BY StageIs
  <2>2. Behind(record[of[e]], state[e])
    BY <1>1, <2>1 DEF OwnInv, Own, StagesHold
  <2>3. Pipeline[i] \in Earlier(state[e])
    BY DEF Earlier
  <2>4. QED  BY <2>2, <2>3 DEF Behind
<1>2. QED  BY <1>1, OwnInvariance, PTL

\* An execution that is alone with its record and whose scans were over when it moved on
\* leaves the record settled, and its status says whether it applied.
THEOREM EndsSettled == Spec => []EndIsSettled
<1>1. IInv /\ OwnInv => EndIsSettled
  BY DEF EndIsSettled, OwnInv, Own, StatusHolds
<1>2. QED  BY <1>1, OwnInvariance, PTL

\* Who writes the record of a deployment, and what: a result that settles it, the first
\* record, or the result of a stage its execution or one of its scans is in.
LEMMA RecordIsWritten ==
    ASSUME IInv, [Next]_vars, NEW d \in Deployments, record'[d] # record[d]
    PROVE  \/ record'[d].status \in Settled
           \/ trigger[d] = "idle"
           \/ \E e \in Executions :
                 /\ of[e] = d /\ UNCHANGED <<installed, trigger, of>> /\ state[e] \in Stage
                 /\ ~ (state[e] = "POLICY_CHECK" /\ Blocking(e))
           \/ \E e \in Executions :
                 of[e] = d /\ UNCHANGED <<installed, trigger, of>> /\ ~ Orderly(e)
<1>1. ASSUME NEW c \in Deployments,
             \/ Trigger(c) \/ PublishEvent(c) \/ TriggerFailed(c) \/ RecordTrigger(c)
             \/ CustomerMerges(c) \/ CiStarts(c) \/ CiChecks(c) \/ CiApproved(c)
             \/ CiApplies(c) \/ CiFails(c) \/ DeploymentComplete(c)
      PROVE  record'[d].status \in Settled \/ trigger[d] = "idle"
  <2>1. CASE Trigger(c)
    BY <2>1 DEF Trigger, IInv, TRecord
  <2>2. CASE TriggerFailed(c)
    <3>1. /\ trigger[c] = "failing"
          /\ PutRecord(c, c, WithStage(readRecord[c], "GENERATING_IAC", "FAILED", "FAILED"))
      BY <2>2 DEF TriggerFailed
    <3>2. readRecord[c] \in RecordType
      BY <3>1 DEF IInv, RecordByTrigger
    <3>3. d = c
      BY <3>1 DEF PutRecord, IInv, TRecord
    <3>4. record'[d] = WithStage(readRecord[c], "GENERATING_IAC", "FAILED", "FAILED")
      BY <3>1, <3>3, PutRecordIs, Writers
    <3>5. QED  BY <3>2, <3>4 DEF WithStage, RecordType, Settled
  <2>3. CASE DeploymentComplete(c)
    <3>1. /\ ci[c] = "read"
          /\ PutRecord(<<"ci", c>>, c,
                       WithStage(readRecord[<<"ci", c>>], "HEALTH_CHECK", "PASSED", "ACTIVE"))
      BY <2>3 DEF DeploymentComplete
    <3>2. readRecord[<<"ci", c>>] \in RecordType
      BY <3>1 DEF IInv, HeldByCi
    <3>3. d = c
      BY <3>1 DEF PutRecord, IInv, TRecord
    <3>4. record'[d] = WithStage(readRecord[<<"ci", c>>], "HEALTH_CHECK", "PASSED", "ACTIVE")
      BY <3>1, <3>3, PutRecordIs, Writers
    <3>5. QED  BY <3>2, <3>4 DEF WithStage, RecordType, Settled
  <2>4. QED
    BY <1>1, <2>1, <2>2, <2>3
    DEF PublishEvent, RecordTrigger, CustomerMerges, CiStarts, CiChecks, CiApproved, CiApplies,
        CiFails
<1>2. ASSUME NEW e \in Executions, Execution(e) \/ Raise(e) \/ Die(e)
      PROVE  \/ record'[d].status \in Settled
             \/ /\ of[e] = d /\ UNCHANGED <<installed, trigger, of>> /\ state[e] \in Stage
                /\ ~ (state[e] = "POLICY_CHECK" /\ Blocking(e))
  <2>1. ASSUME NEW s, NEW status, PassTask(e, s, status), s \in LambdaTask
        PROVE  of[e] = d /\ UNCHANGED <<installed, trigger, of>> /\ state[e] \in LambdaTask
    BY <2>1 DEF PassTask, PutRecord, outside, IInv, TRecord
  <2>2. CASE Validating(e) \/ ChangeImpact(e) \/ GeneratingIac(e) \/ Deploying(e) \/ HealthCheck(e)
    <3>1. of[e] = d /\ UNCHANGED <<installed, trigger, of>> /\ state[e] \in LambdaTask
      BY <2>1, <2>2 DEF Validating, ChangeImpact, GeneratingIac, Deploying, HealthCheck, LambdaTask
    <3>2. QED  BY <3>1, StageIs DEF LambdaTask
  <2>3. CASE AnnounceBuild(e) \/ ReportBuild(e)
    <3>1. of[e] = d /\ UNCHANGED <<installed, trigger, of>> /\ state[e] \in BuildTask
      BY <2>3 DEF AnnounceBuild, ReportBuild, ShellUpdate, outside, IInv, TRecord
    <3>2. QED  BY <3>1, StageIs DEF BuildTask
  <2>4. CASE EnforcePolicyGate(e)
    <3>1. /\ of[e] = d /\ UNCHANGED <<installed, trigger, of>> /\ state[e] = "POLICY_CHECK"
          /\ phase[e] = "read"
      BY <2>4 DEF EnforcePolicyGate, PutRecord, outside, IInv, TRecord
    <3>2. QED  BY <3>1, StageIs DEF Blocking
  <2>5. CASE RejectStage(e)
    <3>1. /\ of[e] = d /\ readRecord[e] \in RecordType
          /\ PutRecord(e, of[e], WithStage(readRecord[e], "VALIDATING", "FAILED", "FAILED"))
      BY <2>5 DEF RejectStage, PutRecord, IInv, TRecord, RecordHeld
    <3>2. record'[d] = WithStage(readRecord[e], "VALIDATING", "FAILED", "FAILED")
      BY <3>1, PutRecordIs, Writers
    <3>3. QED  BY <3>1, <3>2 DEF WithStage, RecordType, Settled
  <2>6. CASE MarkRecord(e)
    <3>1. /\ of[e] = d /\ readRecord[e] \in RecordType
          /\ PutRecord(e, of[e], IF state[e] = "MarkActive"
                                 THEN WithStage(readRecord[e], "HEALTH_CHECK", "PASSED", "ACTIVE")
                                 ELSE WithFailure(readRecord[e]))
      BY <2>6 DEF MarkRecord, PutRecord, IInv, TRecord, RecordHeld
    <3>2. record'[d] = IF state[e] = "MarkActive"
                       THEN WithStage(readRecord[e], "HEALTH_CHECK", "PASSED", "ACTIVE")
                       ELSE WithFailure(readRecord[e])
      BY <3>1, PutRecordIs, Writers
    <3>3. QED  BY <3>1, <3>2 DEF WithStage, WithFailure, RecordType, Settled
  <2>7. QED
    BY <1>2, <2>2, <2>3, <2>4, <2>5, <2>6
    DEF Execution, StartExecution, ReadStage, StartScans, JoinScans, RunBuild, Decide,
        MarkBlockedAgent, PullRequest, MarkBlocked, MarkAgent, Raise, Die
<1>3. ASSUME NEW b \in Branches, Branch(b) \/ ScanBreaks(b) \/ StopScan(b)
      PROVE  \E e \in Executions :
                of[e] = d /\ UNCHANGED <<installed, trigger, of>> /\ ~ Orderly(e)
  <2>1. ReportScan(b)
    BY <1>3 DEF Branch, Scanned, ScanBreaks, StopScan
  <2>2. build[b] \in {"clean", "critical"} /\ of[b[1]] = d /\ UNCHANGED <<installed, trigger, of>>
    BY <2>1 DEF ReportScan, ShellUpdate, outside, IInv, TRecord
  <2>3. QED  BY <2>2, Writers DEF Orderly
<1>4. CASE UNCHANGED vars
  BY <1>4 DEF vars
<1>5. QED  BY <1>1, <1>2, <1>3, <1>4 DEF Next

\* A settled record is not taken back to a running stage by an execution that is alone
\* with it, nor by its trigger or the customer's pipeline.
THEOREM SettledIsKept == Spec => SettledStays
<1>1. ASSUME IInv, OwnInv, [Next]_vars, NEW d \in Deployments, record[d].status \in Settled,
             \A e \in Executions : of'[e] = d => Alone(e)' /\ Orderly(e)
      PROVE  record'[d].status \in Settled
  <2>1. CASE record'[d] = record[d]
    BY <1>1, <2>1
  <2>2. CASE record'[d] # record[d] /\ trigger[d] = "idle"
    BY <1>1, <2>2 DEF OwnInv, NotYet, Absent, Settled
  <2>3. ASSUME NEW e \in Executions, of[e] = d, UNCHANGED <<installed, trigger, of>>
        PROVE  /\ Orderly(e)
               /\ state[e] \in Stage => state[e] = "POLICY_CHECK" /\ Blocking(e)
    <3>1. Orderly(e) /\ Alone(e)
      BY <1>1, <2>3 DEF Alone
    <3>2. state[e] \in Stage => StatusHolds(e)
      BY <1>1, <3>1, StageIs DEF OwnInv, Own
    <3>3. QED  BY <1>1, <2>3, <3>1, <3>2 DEF StatusHolds
  <2>4. QED  BY <1>1, <2>1, <2>2, <2>3, RecordIsWritten
<1>2. IInv /\ OwnInv /\ [Next]_vars =>
        [\A d \in Deployments :
          /\ record[d].status \in Settled
          /\ \A e \in Executions : of'[e] = d => Alone(e)' /\ Orderly(e)
          => record'[d].status \in Settled]_vars
  BY <1>1
<1>3. QED  BY <1>2, OwnInvariance, PTL DEF Spec, SettledStays

(***************************************************************************)
(* Refinement of DeploymentContract. A step is about one deployment, or it *)
(* moves nothing of the contract but the live version.                     *)
(***************************************************************************)
\* Of the two things a status of the contract is made of, what a step leaves alone.
Keeps ==
    /\ UNCHANGED <<applied, pull, of, state, build, passed>>
    /\ \A d \in Deployments : /\ trigger'[d] = "idle" <=> trigger[d] = "idle"
                              /\ ci'[d] = "apply" <=> ci[d] = "apply"

\* An execution is the same, is about d, or starts to be.
SameBut(e, d) ==
    \/ /\ of'[e] = of[e]
       /\ \/ of[e] = d
          \/ /\ state'[e] = state[e] /\ passed'[e] = passed[e]
             /\ \A s \in Scans : build'[<<e, s>>] = build[<<e, s>>]
    \/ state[e] = "idle" /\ of'[e] = d /\ e \notin applied'

\* A pipeline of d moves, and applies only what it has cleared.
Moves(d) ==
    /\ UNCHANGED <<agent, trigger>>
    /\ \A c \in Deployments : c # d => pull'[c] = pull[c] /\ ci'[c] = ci[c]
    /\ \A e \in Executions : SameBut(e, d)
    /\ \/ applied' = applied
       \/ IsCleared(d) /\ applied' = applied \cup {<<"ci", d>>}
       \/ /\ IsCleared(d)
          /\ \E e \in Executions : applied' = applied \cup {e} /\ of[e] = d /\ of'[e] = d

\* What is cleared or applied was triggered.
LEMMA WasTriggered ==
    ASSUME IInv, NEW d \in Deployments, IsCleared(d) \/ IsApplied(d)
    PROVE  trigger[d] # "idle"
<1>1. CASE IsCleared(d)
  BY <1>1 DEF IsCleared, IInv, Untriggered
<1>2. CASE <<"ci", d>> \in applied
  BY <1>2 DEF IInv, CiApplied, Untriggered
<1>3. ASSUME NEW e \in applied \cap Executions, of[e] = d PROVE trigger[d] # "idle"
  <2>1. state[e] # "idle"
    BY <1>3, StageIs DEF IInv, ApplyRan, AfterPull
  <2> QED BY <1>3, <2>1 DEF IInv, About
<1> QED BY <1>1, <1>2, <1>3 DEF IsApplied

TriggeredFirst ==
    \A d \in Deployments : IsCleared(d) \/ IsApplied(d) => trigger[d] # "idle"
LEMMA IsTriggeredFirst == IInv => TriggeredFirst
BY WasTriggered DEF TriggeredFirst

\* An execution past its policy check is cleared to apply.
LEMMA ApplyingIsCleared ==
    ASSUME IInv, NEW e \in Executions, state[e] = "APPLYING"
    PROVE  of[e] \in Deployments /\ IsCleared(of[e])
<1>1. of[e] \in Deployments
  BY StageIs DEF IInv, About
<1>2. \A s \in Scans : build[<<e, s>>] = "passed"
  BY DEF IInv, ScansPassed, AfterScans
<1>3. {"EVALUATING", "TERRAFORM_VALIDATE", "TERRAFORM_PLAN"} \subseteq passed[e]
  BY DEF IInv, BuildsPassed, AfterScans, AfterPlan
<1>4. pull[of[e]] \in {"direct", "merged"}
  BY DEF IInv, Merged, AfterPull
<1> QED BY <1>1, <1>2, <1>3, <1>4 DEF IsCleared

\* A step about d leaves the others what they are.
LEMMA OthersStay ==
    ASSUME NEW d \in Deployments, Moves(d), NEW c \in Deployments, c # d
    PROVE  (IsCleared(c)' <=> IsCleared(c)) /\ (IsApplied(c)' <=> IsApplied(c))
<1>1. pull'[c] = pull[c] /\ ci'[c] = ci[c]
  BY DEF Moves
<1>2. ASSUME NEW e \in Executions
      PROVE  \/ /\ of'[e] = of[e]
                /\ of[e] = c => /\ state'[e] = state[e] /\ passed'[e] = passed[e]
                                /\ \A s \in Scans : build'[<<e, s>>] = build[<<e, s>>]
             \/ state[e] = "idle" /\ of'[e] # c /\ e \notin applied /\ e \notin applied'
  BY DEF Moves, SameBut
<1>3. IsCleared(c)' <=> IsCleared(c)
  BY <1>1, <1>2 DEF IsCleared
<1>4. <<"ci", c>> \in applied' <=> <<"ci", c>> \in applied
  BY Writers DEF Moves
<1>5. \A e \in Executions : of[e] = c => (e \in applied' <=> e \in applied)
  BY Writers DEF Moves
<1>6. IsApplied(c)' <=> IsApplied(c)
  BY <1>2, <1>4, <1>5 DEF IsApplied
<1> QED BY <1>3, <1>6

\* What was applied stays applied; it becomes so only when it is cleared.
LEMMA AppliedStays ==
    ASSUME IInv, NEW d \in Deployments, Moves(d)
    PROVE  /\ IsApplied(d) => IsApplied(d)'
           /\ ~IsApplied(d) /\ IsApplied(d)' => IsCleared(d)
<1>1. applied \subseteq applied'
  BY DEF Moves
<1>2. \A e \in applied \cap Executions : of'[e] = of[e]
  BY <1>1 DEF Moves, SameBut
<1>3. IsApplied(d) => IsApplied(d)'
  BY <1>1, <1>2 DEF IsApplied
<1>4. applied' = applied /\ IsApplied(d)' => IsApplied(d)
  BY <1>2 DEF IsApplied
<1> QED BY <1>3, <1>4 DEF Moves

\* Every step of an execution but those that put the agent item is about its deployment.
LEMMA ExecutionMoves ==
    ASSUME IInv, NEW e \in Executions, OthersRest(e), agent' = agent, of[e] \in Deployments,
           \A d \in Deployments : d # of[e] => pull'[d] = pull[d],
           \A f \in Executions : f # e => passed'[f] = passed[f],
           \/ applied' = applied
           \/ state[e] = "APPLYING" /\ applied' = applied \cup {e}
    PROVE  Moves(of[e])
<1>1. \A f \in Executions : SameBut(f, of[e])
  BY DEF OthersRest, SameBut
<1>2. UNCHANGED <<agent, trigger>> /\ of' = of /\ ci' = ci
  BY DEF OthersRest
<1> QED BY <1>1, <1>2, ApplyingIsCleared DEF Moves

LEMMA ExecutionKinds ==
    ASSUME IInv, NEW e \in Executions, Execution(e) \/ Raise(e) \/ Die(e)
    PROVE  Keeps \/ \E d \in Deployments : Moves(d)
<1>1. ASSUME NEW d \in Deployments, StartExecution(e, d) PROVE Moves(d)
  <2>1. state[e] = "idle" /\ UNCHANGED <<agent, trigger, pull, ci, build, passed, applied>>
    BY <1>1 DEF StartExecution
  <2>2. e \notin applied
    BY <2>1 DEF IInv, ApplyRan, AfterPull
  <2>3. \A f \in Executions : f # e => of'[f] = of[f] /\ state'[f] = state[f]
    BY <1>1 DEF StartExecution, IInv, TOf, TState
  <2>4. of'[e] = d
    BY <1>1 DEF StartExecution, IInv, TOf
  <2>5. \A f \in Executions : SameBut(f, d)
    BY <2>1, <2>2, <2>3, <2>4 DEF SameBut
  <2> QED BY <2>1, <2>5 DEF Moves
<1>2. CASE MarkAgent(e) \/ MarkBlockedAgent(e)
  <2>1. UNCHANGED <<applied, pull, of, state, build, passed, trigger, ci>>
    BY <1>2 DEF MarkAgent, MarkBlockedAgent, outside, Within
  <2> QED BY <2>1 DEF Keeps
<1>3. CASE \/ ReadStage(e) \/ RejectStage(e)
           \/ Validating(e) \/ ChangeImpact(e) \/ GeneratingIac(e) \/ Deploying(e) \/ HealthCheck(e)
           \/ StartScans(e) \/ JoinScans(e)
           \/ AnnounceBuild(e) \/ RunBuild(e) \/ ReportBuild(e)
           \/ Decide(e) \/ EnforcePolicyGate(e) \/ PullRequest(e)
           \/ MarkBlocked(e) \/ MarkRecord(e) \/ Raise(e) \/ Die(e)
  <2>1. state[e] # "idle"
    BY <1>3, StageIs
       DEF ReadStage, RejectStage, Validating, ChangeImpact, GeneratingIac, Deploying,
           HealthCheck, PassTask, StartScans, JoinScans, AnnounceBuild, RunBuild, ReportBuild,
           Decide, EnforcePolicyGate, PullRequest, MarkBlocked, MarkRecord, Raise, Die,
           LambdaTask, BuildTask, MarkTask
  <2>2. of[e] \in Deployments
    BY <2>1, HasRecord
  <2>3. OthersRest(e)
    <3>1. Validating(e) \/ ChangeImpact(e) \/ GeneratingIac(e) \/ Deploying(e) \/ HealthCheck(e)
            => \E s \in LambdaTask, status \in Stage \cup Settled : PassTask(e, s, status)
      BY StageIs
         DEF Validating, ChangeImpact, GeneratingIac, Deploying, HealthCheck, LambdaTask, Settled
    <3> QED BY <1>3, <2>1, <3>1, ExecutionRests
  <2>4. agent' = agent /\ \A d \in Deployments : d # of[e] => pull'[d] = pull[d]
    BY <1>3
       DEF ReadStage, RejectStage, Validating, ChangeImpact, GeneratingIac, Deploying,
           HealthCheck, PassTask, StartScans, JoinScans, AnnounceBuild, RunBuild, ReportBuild,
           Decide, EnforcePolicyGate, PullRequest, MarkBlocked, MarkRecord, Raise, Die, IInv, TPull
  <2>5. \A f \in Executions : f # e => passed'[f] = passed[f]
    BY <1>3
       DEF ReadStage, RejectStage, Validating, ChangeImpact, GeneratingIac, Deploying,
           HealthCheck, PassTask, StartScans, JoinScans, AnnounceBuild, RunBuild, ReportBuild,
           Decide, EnforcePolicyGate, PullRequest, MarkBlocked, MarkRecord, Raise, Die, IInv,
           TPassed
  <2>6. \/ applied' = applied
        \/ state[e] = "APPLYING" /\ applied' = applied \cup {e}
    BY <1>3
       DEF ReadStage, RejectStage, Validating, ChangeImpact, GeneratingIac, Deploying,
           HealthCheck, PassTask, StartScans, JoinScans, AnnounceBuild, RunBuild, ReportBuild,
           Decide, EnforcePolicyGate, PullRequest, MarkBlocked, MarkRecord, Raise, Die
  <2> QED BY <2>2, <2>3, <2>4, <2>5, <2>6, ExecutionMoves
<1> QED BY <1>1, <1>2, <1>3 DEF Execution

LEMMA BranchKinds ==
    ASSUME IInv, OwnInv, NEW b \in Branches,
           Scanned(b) \/ ReportScan(b) \/ ScanBreaks(b) \/ StopScan(b)
    PROVE  \E d \in Deployments : Moves(d)
<1>1. OthersRest(b[1]) /\ b[1] \in Executions /\ of[b[1]] \in Deployments /\ applied' = applied
  BY BranchRests, Writers, HasRecord
<1>2. UNCHANGED <<agent, pull, passed>>
  BY DEF Scanned, ReportScan, ScanBreaks, StopScan
<1> QED BY <1>1, <1>2, ExecutionMoves

LEMMA DeploymentKinds ==
    ASSUME IInv, NEW d \in Deployments,
           \/ PublishEvent(d) \/ TriggerFailed(d) \/ RecordTrigger(d) \/ CustomerMerges(d)
           \/ CiStarts(d) \/ CiChecks(d) \/ CiApproved(d) \/ CiApplies(d) \/ CiFails(d)
           \/ DeploymentComplete(d)
    PROVE  Keeps \/ Moves(d)
<1>1. CASE PublishEvent(d) \/ TriggerFailed(d) \/ RecordTrigger(d)
  <2>1. /\ UNCHANGED <<applied, pull, of, state, build, passed, ci>>
        /\ \A c \in Deployments : trigger'[c] = "idle" <=> trigger[c] = "idle"
    BY <1>1 DEF PublishEvent, TriggerFailed, RecordTrigger, flow, IInv, TTrigger
  <2> QED BY <2>1 DEF Keeps
<1>2. CASE DeploymentComplete(d)
  <2>1. /\ UNCHANGED <<applied, pull, of, state, build, passed, trigger>>
        /\ \A c \in Deployments : ci'[c] = "apply" <=> ci[c] = "apply"
    BY <1>2 DEF DeploymentComplete, flow, IInv, TCi
  <2> QED BY <2>1 DEF Keeps
<1>3. CASE \/ CustomerMerges(d) \/ CiStarts(d) \/ CiChecks(d) \/ CiApproved(d) \/ CiApplies(d)
           \/ CiFails(d)
  <2>1. UNCHANGED <<agent, trigger, of, state, build, passed>>
    BY <1>3 DEF CustomerMerges, CiStarts, CiChecks, CiApproved, CiApplies, CiFails, flow
  <2>2. \A c \in Deployments : c # d => pull'[c] = pull[c] /\ ci'[c] = ci[c]
    BY <1>3 DEF CustomerMerges, CiStarts, CiChecks, CiApproved, CiApplies, CiFails, IInv, TPull, TCi
  <2>3. \/ applied' = applied
        \/ ci[d] = "apply" /\ applied' = applied \cup {<<"ci", d>>}
    BY <1>3 DEF CustomerMerges, CiStarts, CiChecks, CiApproved, CiApplies, CiFails
  <2>4. ci[d] = "apply" => IsCleared(d)
    BY DEF IsCleared, IInv, CiRuns
  <2> QED BY <2>1, <2>2, <2>3, <2>4 DEF Moves, SameBut
<1> QED BY <1>1, <1>2, <1>3

\* The customer's and the platform's pipeline together implement the contract, for any
\* number of deployments and executions, also of executions of one deployment at once:
\* nothing is applied but what one of them has cleared, and nothing goes live but what
\* was applied.
THEOREM Refinement == Spec => ImplementsContract
<1> DEFINE status == [d \in Deployments |->
                        IF IsApplied(d) THEN "applied"
                        ELSE IF IsCleared(d) THEN "cleared"
                        ELSE IF trigger[d] # "idle" THEN "requested" ELSE "absent"]
           version == [d \in Deployments |->
                         IF trigger[d] # "idle" THEN d ELSE NoDeployment]
<1>1. Init => Contract!Init
  <2> SUFFICES ASSUME Init PROVE Contract!Init
    OBVIOUS
  <2>1. \A d \in Deployments : ~IsApplied(d) /\ ~IsCleared(d) /\ trigger[d] = "idle"
    BY DEF Init, IsApplied, IsCleared
  <2>2. status = [d \in Deployments |-> "absent"]
    BY <2>1
  <2>3. version = [d \in Deployments |-> NoDeployment]
    BY <2>1
  <2> QED BY <2>2, <2>3 DEF Contract!Init, Init
<1>2. IInv /\ OwnInv /\ [Next]_vars => [Contract!Next]_<<status, version, agent.live>>
  <2> SUFFICES ASSUME IInv, OwnInv, [Next]_vars
               PROVE  [Contract!Next]_<<status, version, agent.live>>
    OBVIOUS
  <2>0. IInv'
    BY NextInv
  <2>1. \A d \in Deployments :
          /\ status[d] = IF IsApplied(d) THEN "applied" ELSE IF IsCleared(d) THEN "cleared"
                         ELSE IF trigger[d] # "idle" THEN "requested" ELSE "absent"
          /\ status'[d] = IF IsApplied(d)' THEN "applied" ELSE IF IsCleared(d)' THEN "cleared"
                          ELSE IF trigger'[d] # "idle" THEN "requested" ELSE "absent"
    OBVIOUS
  <2>2. \A d \in Deployments :
          /\ version[d] = IF trigger[d] # "idle" THEN d ELSE NoDeployment
          /\ version'[d] = IF trigger'[d] # "idle" THEN d ELSE NoDeployment
    OBVIOUS
  <2>3. /\ status = [d \in Deployments |-> status[d]] /\ status' = [d \in Deployments |-> status'[d]]
        /\ version = [d \in Deployments |-> version[d]]
        /\ version' = [d \in Deployments |-> version'[d]]
    OBVIOUS
  <2>4. \A d \in Deployments : IsCleared(d) \/ IsApplied(d) => trigger[d] # "idle"
    BY WasTriggered
  <2>5. \A d \in Deployments : IsCleared(d)' \/ IsApplied(d)' => trigger'[d] # "idle"
    <3>1. IInv' => TriggeredFirst'
      BY IsTriggeredFirst, PTL
    <3> QED BY <2>0, <3>1 DEF TriggeredFirst
  <2> HIDE DEF status, version
  <2>6. CASE Keeps
    <3>1. \A d \in Deployments : (IsApplied(d)' <=> IsApplied(d)) /\ (IsCleared(d)' <=> IsCleared(d))
      BY <2>6 DEF Keeps, IsApplied, IsCleared
    <3>2. status' = status /\ version' = version
      BY <2>1, <2>2, <2>3, <2>6, <3>1 DEF Keeps
    <3>3. agent'.live \in Deployments \cup {NoDeployment}
      BY <2>0 DEF IInv, TAgent, AgentType
    <3>4. CASE agent'.live = NoDeployment
      BY <3>2, <3>4 DEF Contract!Next, Contract!Forget, status, version
    <3>5. CASE agent'.live # NoDeployment
      <4> DEFINE d == agent'.live
      <4>1. d \in Deployments /\ IsApplied(d)
        <5>1. d \in Deployments
          BY <3>3, <3>5
        <5>2. \/ <<"ci", d>> \in applied'
              \/ \E e \in applied' \cap Executions : of'[e] = d
          BY <2>0, <3>5 DEF IInv, LiveApplied, IsApplied
        <5> QED BY <2>6, <5>1, <5>2 DEF Keeps, IsApplied
      <4>2. status[d] = "applied" /\ version[d] = d
        BY <2>1, <2>2, <2>4, <4>1
      <4> QED BY <3>2, <4>1, <4>2 DEF Contract!Next, Contract!GoLive, status, version
    <3> QED BY <3>4, <3>5
  <2>7. ASSUME NEW d \in Deployments, Trigger(d)
        PROVE  [Contract!Next]_<<status, version, agent.live>>
    <3>1. /\ trigger[d] = "idle" /\ trigger'[d] # "idle"
          /\ \A c \in Deployments : c # d => trigger'[c] = trigger[c] /\ pull'[c] = pull[c]
          /\ UNCHANGED <<agent, of, state, build, passed, ci, applied>>
      BY <2>7 DEF Trigger, flow, IInv, TTrigger, TPull
    <3>2. \A c \in Deployments : IsApplied(c)' <=> IsApplied(c)
      BY <3>1 DEF IsApplied
    <3>3. \A c \in Deployments : c # d => (IsCleared(c)' <=> IsCleared(c))
      BY <3>1 DEF IsCleared
    <3>4. ~IsCleared(d)'
      <4>1. ci[d] = "idle" /\ \A e \in Executions : of[e] = d => state[e] = "idle"
        BY <3>1 DEF IInv, Untriggered, About
      <4> QED BY <3>1, <4>1 DEF IsCleared
    <3>5. status[d] = "absent" /\ status'[d] = "requested" /\ version'[d] = d
      BY <2>1, <2>2, <2>4, <3>1, <3>2, <3>4
    <3>6. /\ status' = [status EXCEPT ![d] = "requested"]
          /\ version' = [version EXCEPT ![d] = d]
      BY <2>1, <2>2, <2>3, <3>1, <3>2, <3>3, <3>5
    <3>7. \E v \in Deployments : version' = [version EXCEPT ![d] = v]
      BY <3>6
    <3> QED
      BY <3>1, <3>5, <3>6, <3>7
      DEF Contract!Next, Contract!Request, Contract!Goes, status, version
  <2>8. ASSUME NEW d \in Deployments, Moves(d)
        PROVE  [Contract!Next]_<<status, version, agent.live>>
    <3>1. agent' = agent /\ trigger' = trigger
      BY <2>8 DEF Moves
    <3>2. version' = version
      BY <2>2, <2>3, <3>1
    <3>3. \A c \in Deployments : c # d => status'[c] = status[c]
      BY <2>1, <2>8, <3>1, OthersStay
    <3>4. /\ IsApplied(d) => IsApplied(d)'
          /\ ~IsApplied(d) /\ IsApplied(d)' => IsCleared(d)
      BY <2>8, AppliedStays
    <3>5. \/ status'[d] = status[d]
          \/ status[d] = "requested" /\ status'[d] = "cleared"
          \/ status[d] = "cleared" /\ status'[d] \in {"requested", "applied"}
      BY <2>1, <2>4, <2>5, <3>1, <3>4
    <3>6. CASE status'[d] = status[d]
      <4>1. status' = status
        BY <2>3, <3>3, <3>6
      <4> QED BY <3>1, <3>2, <4>1 DEF status, version
    <3>7. CASE status'[d] # status[d]
      <4>1. status' = [status EXCEPT ![d] = status'[d]]
        BY <2>3, <3>3
      <4>2. \/ status[d] = "requested" /\ status' = [status EXCEPT ![d] = "cleared"]
            \/ status[d] = "cleared" /\ status' = [status EXCEPT ![d] = "requested"]
            \/ status[d] = "cleared" /\ status' = [status EXCEPT ![d] = "applied"]
        BY <3>5, <3>7, <4>1
      <4> QED
        BY <3>1, <3>2, <4>2
        DEF Contract!Next, Contract!Clear, Contract!Withdraw, Contract!Apply, Contract!Goes,
            status, version
    <3> QED BY <3>6, <3>7
  <2>9. Keeps \/ \E d \in Deployments : Trigger(d) \/ Moves(d)
    <3>1. CASE UNCHANGED vars
      BY <3>1 DEF vars, flow, Keeps
    <3> QED BY <3>1, DeploymentKinds, ExecutionKinds, BranchKinds DEF Next, Branch
  <2> QED BY <2>6, <2>7, <2>8, <2>9
<1> QED BY <1>1, <1>2, OwnInvariance, PTL DEF Spec, ImplementsContract, Contract!Spec
====
