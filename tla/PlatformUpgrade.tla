-------------------------- MODULE PlatformUpgrade --------------------------
(* The upgrade of the Factory Runtime itself: POST /platform/upgrade          *)
(* (app/api/v1/platform.py), the Step Functions workflow it starts            *)
(* (step_functions/platform_upgrade_workflow.json), the Lambda handlers of    *)
(* its states (lambda_handlers/platform_*.py) and the record they keep        *)
(* (app/modules/platform/upgrade_store.py).                                   *)
(*                                                                            *)
(* The ECS service is external.  UpdateService only changes the revision the  *)
(* service is asked to run; the tasks follow later, and a revision whose      *)
(* tasks do not start leaves the old tasks running, as many as desired.       *)
(*                                                                            *)
(* Nothing in the code keeps two upgrades apart: upgradeOverlap, chosen once, *)
(* says whether a second one may be triggered while the first still runs.     *)
EXTENDS Integers, Sequences, SequencesExt, FiniteSets

CONSTANTS
    Upgrades,        \* the upgrade ids POST /platform/upgrade hands out
    PollAttempts,    \* _POLL_ATTEMPTS of platform_update_service.py
    NoRevision       \* a task definition ARN that is not set

ASSUME UpgradeAssumption ==
    IsFiniteSet(Upgrades) /\ PollAttempts \in Nat \ {0} /\ NoRevision \notin Nat

VARIABLES
    upgrade,         \* [Upgrades -> UpgradeItem], the table's items
    execution,       \* [Upgrades -> Execution], the workflow's executions
    triggered,       \* the upgrades in the order of their triggered_at
    revisions,       \* how many task definition revisions ECS holds
    service,         \* the ECS service the Runtime runs as
    upgradeOverlap   \* may upgrades overlap?  fixed by the initial state

upgradeVars == <<upgrade, execution, triggered, revisions, service, upgradeOverlap>>

----------------------------------------------------------------------------
(* Types *)

UpgradeStages ==
    {"PULLING_IMAGE", "REGISTERING_TASK_DEFINITION", "UPDATING_SERVICE", "HEALTH_CHECK"}

\* MarkUpgradeFailed files its result under failedStage, which no Catch sets:
\* its default adds a stage of its own to the record.
RecordedStages == UpgradeStages \cup {"UNKNOWN"}

UpgradeStatus == UpgradeStages \cup {"PENDING", "ACTIVE", "FAILED", "ROLLED_BACK"}

RevisionNumbers == 1 .. 1 + Cardinality(Upgrades)

NoUpgrade == [status |-> "none"]

UpgradeItem ==
    [status : UpgradeStatus, stages : [RecordedStages -> {"PENDING", "PASSED", "FAILED"}],
     currentStage : RecordedStages, failedStage : RecordedStages \cup {"none"},
     previous : RevisionNumbers \cup {NoRevision}, new : RevisionNumbers \cup {NoRevision}]

InitialUpgrade ==
    [status |-> "PENDING", stages |-> [s \in RecordedStages |-> "PENDING"],
     currentStage |-> "PULLING_IMAGE", failedStage |-> "none",
     previous |-> NoRevision, new |-> NoRevision]

\* "aborted": the execution failed in a state without a Catch.
ExecutionStates ==
    {"idle", "PullingImage", "RegisteringTaskDefinition", "RecordRevision", "UpdatingService",
     "Polling", "PlatformHealthCheck", "MarkUpgraded", "MarkUpgradeFailed", "RecordFailure",
     "ended", "aborted"}

Execution ==
    [at : ExecutionStates, polls : 0 .. PollAttempts,
     previous : RevisionNumbers \cup {NoRevision}, new : RevisionNumbers \cup {NoRevision}]

UpgradeTypeOK ==
    /\ upgrade \in [Upgrades -> UpgradeItem \cup {NoUpgrade}]
    /\ execution \in [Upgrades -> Execution]
    /\ triggered \in Seq(Upgrades)
    /\ revisions \in RevisionNumbers
    /\ service \in [target : RevisionNumbers, serving : SUBSET RevisionNumbers,
                    balanced : BOOLEAN]
    /\ upgradeOverlap \in BOOLEAN

UpgradeInit ==
    /\ upgrade = [u \in Upgrades |-> NoUpgrade]
    /\ execution = [u \in Upgrades |->
          [at |-> "idle", polls |-> 0, previous |-> NoRevision, new |-> NoRevision]]
    /\ triggered = << >>
    /\ revisions = 1
    /\ service = [target |-> 1, serving |-> {1}, balanced |-> TRUE]
    /\ upgradeOverlap \in BOOLEAN

----------------------------------------------------------------------------
(* The record and the workflow *)

\* PlatformUpgradeStatusStore.update_stage: one get and one whole-item put.
\* Each record has one writer, its own execution.
StageUpdated(item, stage, stageStatus, overall) ==
    [item EXCEPT !.stages[stage] = stageStatus, !.currentStage = stage, !.status = overall]

UpdateStage(u, stage, stageStatus, overall) ==
    upgrade' = [upgrade EXCEPT ![u] = StageUpdated(@, stage, stageStatus, overall)]

\* A handler that catches an exception records the failure and re-raises it.
FailStage(u, stage) ==
    upgrade' = [upgrade EXCEPT
                  ![u] = [StageUpdated(@, stage, "FAILED", "FAILED") EXCEPT !.failedStage = stage]]

GoTo(u, state) == execution' = [execution EXCEPT ![u].at = state]

At(u, state) == execution[u].at = state

UpgradeEnded(u) == execution[u].at \in {"ended", "aborted"}

UpgradeRuns(u) == ~At(u, "idle") /\ ~UpgradeEnded(u)

----------------------------------------------------------------------------
(* POST /platform/upgrade *)

\* start_execution, or its exception, which leaves the record PENDING.
StartUpgrade(u) == GoTo(u, "PullingImage") \/ GoTo(u, "aborted")

TriggerUpgrade(u) ==
    /\ upgrade[u] = NoUpgrade
    /\ upgradeOverlap \/ \A v \in Upgrades : ~UpgradeRuns(v)
    /\ upgrade' = [upgrade EXCEPT ![u] = InitialUpgrade]
    /\ triggered' = Append(triggered, u)
    /\ StartUpgrade(u)
    /\ UNCHANGED <<revisions, service, upgradeOverlap>>

----------------------------------------------------------------------------
(* The states of the workflow *)

\* The image is in ECR, or it is not, or the record could not be written.
PullingImage(u) ==
    /\ At(u, "PullingImage")
    /\ \/ /\ UpdateStage(u, "PULLING_IMAGE", "PASSED", "PULLING_IMAGE")
          /\ GoTo(u, "RegisteringTaskDefinition")
       \/ FailStage(u, "PULLING_IMAGE") /\ GoTo(u, "MarkUpgradeFailed")
    /\ UNCHANGED <<triggered, revisions, service, upgradeOverlap>>

\* Reads the revision the service is asked to run and registers a copy of it
\* with the new image.
RegisterNewRevision(u) ==
    /\ At(u, "RegisteringTaskDefinition")
    /\ \/ /\ revisions' = revisions + 1
          /\ execution' = [execution EXCEPT
                ![u] = [@ EXCEPT !.at = "RecordRevision", !.previous = service.target,
                                 !.new = revisions + 1]]
          /\ UNCHANGED upgrade
       \/ /\ FailStage(u, "REGISTERING_TASK_DEFINITION")
          /\ GoTo(u, "MarkUpgradeFailed")
          /\ UNCHANGED revisions
    /\ UNCHANGED <<triggered, service, upgradeOverlap>>

\* Mutant of RecordRevision: the revision from before is not recorded.
RecordNewRevision(u) ==
    /\ At(u, "RecordRevision")
    /\ upgrade' = [upgrade EXCEPT
          ![u] = [StageUpdated(@, "REGISTERING_TASK_DEFINITION", "PASSED",
                               "REGISTERING_TASK_DEFINITION") EXCEPT !.new = execution[u].new]]
    /\ GoTo(u, "UpdatingService")
    /\ UNCHANGED <<triggered, revisions, service, upgradeOverlap>>

RecordRevision(u) ==
    /\ At(u, "RecordRevision")
    /\ upgrade' = [upgrade EXCEPT
          ![u] = [StageUpdated(@, "REGISTERING_TASK_DEFINITION", "PASSED",
                               "REGISTERING_TASK_DEFINITION")
                  EXCEPT !.previous = execution[u].previous, !.new = execution[u].new]]
    /\ GoTo(u, "UpdatingService")
    /\ UNCHANGED <<triggered, revisions, service, upgradeOverlap>>

\* ecs.update_service, or its exception.
UpdatingService(u) ==
    /\ At(u, "UpdatingService")
    /\ \/ /\ service' = [service EXCEPT !.target = execution[u].new]
          /\ GoTo(u, "Polling")
          /\ UNCHANGED upgrade
       \/ /\ FailStage(u, "UPDATING_SERVICE")
          /\ GoTo(u, "MarkUpgradeFailed")
          /\ UNCHANGED service
    /\ UNCHANGED <<triggered, revisions, upgradeOverlap>>

\* What one poll compares: the revision asked for and the number of running
\* tasks, whatever revision these tasks run.
LooksStable(u) == service.target = execution[u].new /\ service.balanced

PollService(u) ==
    /\ At(u, "Polling")
    /\ \/ /\ LooksStable(u)
          /\ UpdateStage(u, "UPDATING_SERVICE", "PASSED", "UPDATING_SERVICE")
          /\ GoTo(u, "PlatformHealthCheck")
       \/ /\ ~LooksStable(u) /\ execution[u].polls + 1 < PollAttempts
          /\ execution' = [execution EXCEPT ![u].polls = @ + 1]
          /\ UNCHANGED upgrade
       \/ /\ ~LooksStable(u) /\ execution[u].polls + 1 = PollAttempts
          /\ FailStage(u, "UPDATING_SERVICE")
          /\ GoTo(u, "MarkUpgradeFailed")
    /\ UNCHANGED <<triggered, revisions, service, upgradeOverlap>>

\* The load balancer hands GET /platform/health to any task that runs.
PlatformHealthCheck(u) ==
    /\ At(u, "PlatformHealthCheck")
    /\ \/ /\ execution[u].new \in service.serving
          /\ UpdateStage(u, "HEALTH_CHECK", "PASSED", "HEALTH_CHECK")
          /\ GoTo(u, "MarkUpgraded")
       \/ FailStage(u, "HEALTH_CHECK") /\ GoTo(u, "MarkUpgradeFailed")
    /\ UNCHANGED <<triggered, revisions, service, upgradeOverlap>>

\* A Lambda that times out is caught like one that raises, and records nothing.
CaughtStates ==
    {"PullingImage", "RegisteringTaskDefinition", "RecordRevision", "UpdatingService", "Polling",
     "PlatformHealthCheck"}

TaskTimesOut(u) ==
    /\ execution[u].at \in CaughtStates
    /\ GoTo(u, "MarkUpgradeFailed")
    /\ UNCHANGED <<upgrade, triggered, revisions, service, upgradeOverlap>>

\* No Catch here: when the write fails the execution is over, and the service
\* runs an upgrade its record does not call ACTIVE.
MarkUpgraded(u) ==
    /\ At(u, "MarkUpgraded")
    /\ \/ UpdateStage(u, "HEALTH_CHECK", "PASSED", "ACTIVE") /\ GoTo(u, "ended")
       \/ GoTo(u, "aborted") /\ UNCHANGED upgrade
    /\ UNCHANGED <<triggered, revisions, service, upgradeOverlap>>

\* Rolls the service back when the record knows what it ran before.
MarkUpgradeFailed(u) ==
    /\ At(u, "MarkUpgradeFailed")
    /\ \/ /\ upgrade[u].previous # NoRevision
          /\ service' = [service EXCEPT !.target = upgrade[u].previous]
          /\ GoTo(u, "RecordFailure")
       \/ /\ upgrade[u].previous = NoRevision
          /\ GoTo(u, "RecordFailure")
          /\ UNCHANGED service
       \/ GoTo(u, "aborted") /\ UNCHANGED service
    /\ UNCHANGED <<upgrade, triggered, revisions, upgradeOverlap>>

RecordFailure(u) ==
    /\ At(u, "RecordFailure")
    /\ \/ /\ upgrade' = [upgrade EXCEPT
               ![u] = [StageUpdated(@, "UNKNOWN", "FAILED",
                                    IF @.previous # NoRevision THEN "ROLLED_BACK" ELSE "FAILED")
                       EXCEPT !.failedStage = "UNKNOWN"]]
          /\ GoTo(u, "ended")
       \/ GoTo(u, "aborted") /\ UNCHANGED upgrade
    /\ UNCHANGED <<triggered, revisions, service, upgradeOverlap>>

----------------------------------------------------------------------------
(* ECS, external *)

\* Some task of the revision asked for starts, next to the others.
EcsStartsTasks ==
    /\ service.target \notin service.serving
    /\ service' = [service EXCEPT !.serving = @ \cup {service.target}, !.balanced = FALSE]
    /\ UNCHANGED <<upgrade, execution, triggered, revisions, upgradeOverlap>>

\* The replacement is complete.
EcsSettles ==
    /\ service.target \in service.serving
    /\ service.serving # {service.target} \/ ~service.balanced
    /\ service' = [service EXCEPT !.serving = {service.target}, !.balanced = TRUE]
    /\ UNCHANGED <<upgrade, execution, triggered, revisions, upgradeOverlap>>

UpgradeStep(u) ==
    \/ PullingImage(u) \/ RegisterNewRevision(u) \/ RecordRevision(u) \/ UpdatingService(u)
    \/ PollService(u) \/ PlatformHealthCheck(u) \/ TaskTimesOut(u)
    \/ MarkUpgraded(u) \/ MarkUpgradeFailed(u) \/ RecordFailure(u)

UpgradeNext ==
    \/ \E u \in Upgrades : TriggerUpgrade(u) \/ UpgradeStep(u)
    \/ EcsStartsTasks
    \/ EcsSettles

UpgradeSpec == UpgradeInit /\ [][UpgradeNext]_upgradeVars

----------------------------------------------------------------------------
(* Properties *)

\* What the record of the last upgrade says is what the service is asked to
\* run: an ACTIVE upgrade's own revision; after a failure, rolled back or not,
\* the revision from before, on whichever of the states it failed, was timed
\* out or stopped.  The two tasks without a Catch are the exception, and so are
\* upgrades that overlap, each of which takes the other's revision for "before".
UpgradeOutcomeIsServed ==
    ~upgradeOverlap /\ triggered # << >> =>
        LET u == Last(triggered) IN
        execution[u].at = "ended" =>
            /\ upgrade[u].status = "ACTIVE" => service.target = upgrade[u].new
            /\ upgrade[u].status \in {"FAILED", "ROLLED_BACK"} =>
                  /\ service.target # execution[u].new
                  /\ upgrade[u].previous # NoRevision => service.target = upgrade[u].previous
            /\ upgrade[u].status \in {"ACTIVE", "FAILED", "ROLLED_BACK"}

=============================================================================
