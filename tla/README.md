# AgentBuilderFactoryAPI in TLA+

The Factory Runtime (`app/`) lets a tenant define AI agents, deploys them and
reviews what they ask to do; the generated agent runtime
(`services/agent-runtime/`) serves one deployed agent. Both keep their state in
DynamoDB tables, and nearly every update is a `get_item` followed by a
`put_item` of the whole item. What is hard in this code is therefore the same
everywhere: two handlers that have read the same item, a handler that dies
between two writes, a retry of what was already done, and the few places where a
conditional write is meant to decide a race.

Line numbers below are of files under `src/`.

## 1. Inventory

| Part | State | Operations | Works with | Hard behaviour | What makes it correct | Module |
|---|---|---|---|---|---|---|
| Tool approval, `services/agent-runtime/{orchestrator,tool_approval,tool_executor,tool_policy}.py` | the HITL reviews table (shared) | `run` pauses a turn on a HIGH / DESTRUCTIVE call; `resume_after_approval` claims and executes | writes reviews, reads decisions, invokes tool Lambdas | racing and retried resumes, timeout read from a clock, handler dying after its claim, batch executed again | gated call at most once, only after a decision | `ToolApproval`, `ToolApprovalContract` |
| HITL reviews, `app/modules/hitl`, `app/api/v1/hitl.py` | the same table | create, approve, reject, request info | same items as the runtime | read, then unconditional whole-item put | a decision is final, a claim survives it | `ToolApproval` |
| Deployment trigger and approval, pipeline simulator: `app/api/v1/agents.py` 745-1063, 1299-1471, `app/modules/deployment/pipeline_simulator.py` | deployment records, agent item | deploy, rollback, approve, `run`, `resume_after_approval` | git provider, EventBridge, background task, registry | failure after each external call, overlapping triggers and approvals, stale puts | applied at most once and only vetted, every run ends | `Deployment`, `DeploymentContract` |
| Production workflow and the customer's CI, `step_functions/deployment_workflow.json`, `lambda_handlers/`, `codebuild/scripts`, `app/api/v1/internal.py` | the same records | eleven stages, parallel scans, mark active / blocked / failed, webhook | trigger's event, status store | parallel writers of one record, no retry, lost or repeated events, event before the trigger's last put | only what passed its own gates is applied, an execution settles its record | `DeploymentWorkflow`, `DeploymentContract` |
| Agent registry, `app/modules/registry` | agent item, version items, keys | create, clone, edit, roll back, publish, archive, delete, derived fields, key rotation | everything | two-item writes, version numbers from a stale read | versions immutable, the current one readable, no cycle of sub-agents, a handed-out key works | `AgentRegistry`, `SubAgentGraph`, `SubAgentCycles`, `SubAgentSearch`, `AgentCredentials` |
| Configuration review, `registry/{diff,config_validator}.py`, `app/modules/change_impact`, tool registry | tool registry entries, saved configurations | validate, save, analyse impact | registry, the CHANGE_IMPACT stage | lists compared by index, a version only with the one before, approvals changing during validation | what differs is named, tools were approved | `ConfigReview` |
| Git providers, `app/modules/git_provider` | the agent's repository | create, commit, branch, pull request | deploy trigger | any call fails before or after its effect, then the retry | a retry is not refused, a workflow file is committed | `GitRepository` |
| Platform upgrade, `app/api/v1/platform.py`, `app/modules/platform`, `lambda_handlers/platform_*` | upgrade records, the ECS service | start, poll, mark upgraded / failed, roll back | Step Functions, ECS | failure after the new revision is asked for, two states without a Catch | the record says what is served | `PlatformUpgrade` |
| Agent runtime's turn and spend, `services/agent-runtime/{main,quota,guardrail,orchestrator}.py` | spend attributes of the agent item, rate windows | gate, guardrail, model, tools, record cost | registry puts | atomic ADD against whole-item puts, the first cost of a month | spend never over-counted, exact where nothing interferes | `AgentTurn` |
| Runtime configuration, `services/agent-runtime/config_loader.py` | what a container has loaded | start, compare hashes | registry, task definition | live version moves after the task starts | an active deployment can restart | `AgentContainer` |
| Security audit log, `app/modules/audit/security_log.py`, `services/agent-runtime/audit.py` | events, the chain's tail | append | every handler | tail read before the write, a write failing between two others | one chain | `AuditChain` |
| Knowledge bases, `app/modules/knowledge_base` | item, documents in S3, Bedrock jobs | upload, presign, delete, sync, scan, poll | S3, Bedrock | uploads while a scan or a crawl runs | nothing rejected is retrieved from, one job at a time | `KnowledgeBase` |
| Guardrail policies, Bedrock credentials, `app/modules/{guardrails,bedrock_credentials}` | item, Bedrock guardrail, credential | create, edit, delete, provision | Bedrock, agents, containers | item and guardrail written in turns | what Bedrock has is what items name | `GuardrailPolicy` |
| Playground, `app/modules/playground`, guardrail engine | session items | one turn | guardrails, model | session reread around the model call | whole turns, only past their layers | `Playground` |
| Build with AI, `app/modules/task_planner`, `app/api/v1/build_with_ai.py` | session item, the created agents | propose, approve, execute | registry, projects | approval around the whole execution, failure partway | a session is acted on once | `BuildWithAI` |
| Projects and skills, `app/api/v1/{projects,skills}.py` | three tables and an index that lags | create, edit, delete | registry | each write is to one table | references hold | `ProjectLibrary` |
| Prompts, connectors, settings, licence, auth, telemetry, runs, evaluation, IaC generator | one item each, or none | create, read, update, delete; pure generation | external services | little of their own | - | none (section 7) |

The components with their sources and status are in `PROJECT.json`, and so are the
hazards, each at its line.

## 2. Plan

Done: `ToolApproval` with `ToolApprovalContract`; `Deployment` and
`DeploymentWorkflow`, which both implement `DeploymentContract`; `AgentRegistry` and
what hangs on it, the cycle search apart from the saves that call it; the smaller
control-plane components, composed in `MCControlPlane`; proofs of every safety property
that a run checks, but for the composition's type invariant (section 6).

Left, in this order:

1. Compositions that share state where the modules now keep a free choice:
   `AgentTurn` with the registry's own puts, `Playground` with `GuardrailPolicy`.
2. An abstract specification of what the production workflow promises of a record
   (`DeploymentContract` is about what is applied and live), and that
   `DeploymentWorkflow` implements it where an execution is alone.

## 3. Modules

### ToolApproval

A review is named by the chat turn that may create it, so the reviews table is
`review[r]`. A turn's batch of tool calls is a sequence of policies - what
`ToolPolicyEngine.check` says about each call - and `invoked[r][i]` counts the
Lambda invocations of each. `TurnCall`, `TurnDenied`, `RequestApproval`,
`NotifyReviewers`, `FinishTurn` are `run` and `ToolExecutor.execute` one call at a
time. `RequirePending` / `Decide` are the get and the put of
`HitlReviewStore._decide`; `decision[v].read` is the item in between.
`resumed_at` has three values because DynamoDB has: `"missing"` as created,
`"null"` as `model_dump` writes it, `"set"` once claimed. `GetDecision`,
`TryClaimResume`, `AlreadyProcessed`, `ReportDenied`, `ResumeCall`,
`ResumeRaises`, `FinishResume` are `resume_after_approval` in the order of its
awaits. `Expire` lets the clock pass a review's deadline; only `Decision` looks at
it. `Matching` keeps the code's lookup of the approved call by tool name.

`ToolApprovalContract` is what all this promises: requested, answered once, run at
most once and never after a rejection. `ToolApproval!Contract` maps to it.

### Deployment

One agent. `agent` is its item (status, `live_version`), `record[d]` the deployment
records, `pull[d]` and `repo` what the code sees of git. A deployment id is also the
process that triggers it and then runs its pipeline - `_trigger_deployment` starts
the background task when it ends - and `<<a, d>>` is the process that approves `d`
and resumes it. `readAgent[p]` and `readRecord[p]` are items read and not yet put,
so every registry update and every update of a record others may touch is two steps.
Before the policy check only the deployment's own process writes its record, so
there the two halves are one step. `RunPlan` and `FinishPlan` are the stage results
the simulator writes, in order. Every external call may fail: `TriggerFails` is what
the code catches, `Abort` what it does not. `StartEdit` / `UpdateAgent` stand for the
writers of the agent item that leave `live_version` alone.

### DeploymentWorkflow

The production counterpart, for one agent: an execution `e` of the Step Functions
machine is in `state[e]`, and `phase[e]` says how far the task of that state is
(read, waiting for a build, announcing, reporting). Lambdas get and put the whole
record; builds update three attributes of it (`ShellUpdate`), in one of `Scans`
parallel branches or in sequence. A raised task goes to MarkFailed, a raised Mark
task ends the execution (`Raise`, `Die`), nothing is retried. The event is published
before the trigger's last put, may be lost although published or delivered again.
Versions are named by the deployment that carries them. `installed` says whether the
installation runs Step Functions, the customer's CI (whose result arrives through
`DeploymentComplete`, the webhook) or both.

### DeploymentContract

What both pipelines promise, without records, stages or approvals: a deployment is
requested, cleared, applied - in this order, and what it deploys never changes - and
the agent is live with a version that was applied, or with none. A pipeline past its
gates may fail before it applies (`Withdraw`); a stale put may bring an older version
back (`GoLive` of an applied deployment) or none (`Forget`), because that is what the
whole-item puts of the agent do. In `Deployment` cleared means `Vetted` and applied
means that MarkActive ran; in `DeploymentWorkflow` a deployment is cleared while an
execution with all its gates behind it, or the customer's apply job, is about to run
terraform (`IsCleared`), and applied once one has (`IsApplied`).

### SubAgentSearch

`CircularDependencyValidator.validate` is a recursive function, so its search is a state
machine of its own: `callStack` holds the nodes of the calls of `has_cycle` that have
not returned, `visited` and `recStack` are the two sets of the code, `left[n]` the
neighbours the loop of `n` has still to look at, in any order. `Descend`, `CloseCycle`,
`PassOver` and `Return` are the loop's branches. `SubAgentCycles` says in one operator what
a search should answer: `CycleBelow(g, n)` holds when some set of nodes that n reaches has
no node without a neighbour in it. `SearchDecides` says that the code's search answers
exactly that, on cyclic graphs and on acyclic ones, and so `SubAgentGraph`, in which a
save is one check among other steps, uses the operator.

### The control plane

Each of these modules has its own `Init`, `Next` and type invariant, with its
variables named apart so that `MCControlPlane` can extend them all.

* `PlatformUpgrade`: one action per state of the upgrade workflow; ECS only keeps
  the revision it is asked to run.
* `KnowledgeBase`: handlers that await between reads and writes, presigned uploads
  without a handler, paged listings (a page that is cut off is in `truncated`), jobs
  that crawl what the prefix holds when they run.
* `AgentRegistry`: `regRequest[r]` is a handler between two table calls; `versions`
  and `agent` are the two tables. Which writes a request does in which order is the
  point of the module: `Creations` write the agent last or first, an edit puts the
  version conditionally and then the agent, a rollback of a project only moves
  `current_version`. `served` and `crashed` remember which operations have run or
  were cut short, because what the tables guarantee depends on it.
* `SubAgentGraph`: a version is its list of sub-agents, `lists` the versions table with
  one item per agent and number; the check sees the graph at the moment it reads it, and
  a new agent under a placeholder id that no agent has (`GraphAssumption`: ids are slugs).
  A delete is refused while another agent's current list names the agent; where requests
  overlap, the guard may have looked before such a list was saved.
* `AgentCredentials`: keys, grace period, revocation, reveal limit, and the API-key
  provider of the runtime that accepts them.
* `AgentContainer`: which configuration a task loads and when it refuses to start.
* `AgentTurn`: a turn from the gate to the recorded cost, in containers that
  alternate at awaits; registry updates put back a stale copy of the spend.
* `AuditChain`: read the tail, put the event, advance the tail; each may fail after
  its effect or before.
* `GuardrailPolicy`: item, guardrail and credential, the agent whose versions name
  the policy, and the container that looks it up once. Neither a save nor a rollback of
  the agent looks the policy up (`gone` remembers that there was none); a call to Bedrock
  is refused, or takes effect and its answer is lost (`ProvisionAnswerLost`), after which
  nothing is claimed of what Bedrock holds (`leftBehind`).
* `Playground`: one turn, layer by layer, from the first read of its session to the
  append.
* `BuildWithAI`: approval and execution of a proposal; a failed execution leaves what
  it has created, and the session does not list it.
* `GitRepository`: four providers, two ways to start a repository (with a first
  commit or empty), every call failing before or after its effect, and GitLab's lookups
  of files answering an error that is taken for a missing file (`misread`). Merging is
  assumed of the provider: only a pull request whose base is still the head of main goes
  in, any other conflicts.
* `ProjectLibrary`: a project, its agents and skills over three tables and an index
  that lags. A version names any skills, there or not, since no route looks them up, and
  both rollbacks make an old one current with the skills it names: the project's by
  `RollBack`, the pipeline's as an update. `found` remembers which skills of the current
  version were there when it became current, which is what a delete could take away.
* `ConfigReview`: `compute_config_diff`, the impact rules and the validator as
  operators, and the routes that save with or without it. Here a save is one step;
  how its two items are written is `AgentRegistry`'s.

## 4. Runs

| Run | Question | Bounds | Distinct states |
|---|---|---|---|
| `approval_serial` | At most once, only on a decision, implements the contract, by which decisions are final; is a decided review always claimed? | 1 turn, 6 batches, 2 reviewers, 2 resumers, `MaxAborts` 2 | 29,000 |
| `approval_race`, `approval_lock`, `approval_info` | Three statements of the code's own comments, refuted | 1 turn; 1 or 2 reviewers and resumers | |
| `deployment_serial` | At most once, vetted, R22, final outcomes | 2 deployments, 2 approvers, 1 editor, 2 versions, both modes, `MaxAborts` 2 | 349,000 |
| `deployment_overlap` | What holds whatever overlaps, the contract included, and that pipelines end | 2 deployments, 1 approver, 2 versions, both modes, `MaxAborts` 0 | 186,000 |
| `deployment_race`, `deployment_twice` | Two statements of the code's own comments, refuted | 2 deployments; 1 deployment and 2 approvers | |
| `workflow` | Are stages recorded in order by parallel writers, do executions end and settle, do both pipelines keep the contract, by which what is live was applied? | 1 deployment, 1 execution, 2 scans, both modes, Step Functions, CI or both, `MaxFaults` 2, `Overlap` | 929,000 |
| `workflow_again` | Does a repeated event apply anything its own gates did not pass? | 1 deployment, 2 executions one after the other, 2 scans, `MaxFaults` 1 | 223,000 |
| `control_plane` | Nineteen properties of `SubAgentSearch` and the fourteen modules above | see below | 1,290,000 |
| `runtime_redeploy` | A statement of the runtime's own comment, refuted | 1 container, 2 configurations, 2 versions | |

Why these are enough: reviews do not share state except through the handlers'
capacity, so one turn suffices. A race on an item needs two writers; a third writes
over one of the two. The batches contain every relative position of a gated call:
alone, first, last, after a malformed one, before a second gated or a denied one. Two
versions show a stale live version; two deployments are the smallest number where one
is live and another in flight. Two scans are the smallest Parallel state. In
`workflow_again` the first execution's scan builds may still be writing when the
second begins, which is what makes the policy check find a stage of its record failed
that its own execution passed: without the repeated event a BLOCK is unreachable.

**`control_plane`.** The fifteen modules share no state, so their product would
repeat each of them in every state of the others. `area`, chosen in the initial state,
is the one that moves; the others rest in one initial state (`DormantOnce`). Each
module therefore is explored completely, and one TLC run asks all their questions.
Most modules have a flag, fixed by the initial state (`regOverlap`,
`writersOverlap`, `kbMode`, ...), that says whether requests may overlap: properties
that need them one at a time say so in their first line, and the rest hold for both.
Where requests overlap, their number is bounded separately, because the interleavings
and not the length of the history count there:

| Module | One at a time | Overlapping |
|---|---|---|
| `PlatformUpgrade` | 2 upgrades, 2 polls | the same |
| `KnowledgeBase` | 3 requests, 2 documents, pages of 2, 2 jobs | `MaxOverlapping` 2 |
| `AgentRegistry` | 4 requests, 3 versions, 1 crash | `MaxOverlappingEdits` 3 |
| `SubAgentGraph` | 3 agents, 4 saves | `MaxOverlappingSaves` 3 |
| `SubAgentSearch` | every graph of 3 nodes, every start, every order of the lists | - |
| `AgentContainer` | 1 container, 2 configurations, 3 versions | the same |
| `AgentTurn` | - | 2 turns, 2 containers, 2 months, budget 1 |
| `GuardrailPolicy` | 3 requests, 2 guardrails | `MaxOverlappingWrites` 2 |
| `BuildWithAI` | 2 approvals, 2 missing resources, 2 sub-agents | the same |
| `AuditChain` | 4 events | the same |
| `GitRepository` | 3 attempts, 2 workflow paths | `MaxAttemptsOverlapping` 2 |
| `AgentCredentials` | - | 4 requests, 3 keys, 1 reveal an hour |
| `ProjectLibrary` | 7 requests, 2 agents, 1 skill | `MaxOverlappingCalls` 3 |
| `Playground` | 3 turns | `OverlappingPlays` 2 |
| `ConfigReview` | - | 1 validation at a time against saves by other routes, 2 tools, 8 configurations, 3 versions |

Seven requests create a project, a skill and an agent that names it, un-name it, delete
the skill, and roll back to the version that names it, with one to spare. Four registry
requests are enough to create, roll back, edit and look; with three that
overlap, an edit that has read an agent hard-deleted and created again meanwhile is
not reached. Three configurations in a row are the smallest number where a version
differs from an older one by more than its last step. Three overlapping saves are what
it takes to see an agent deleted between another save's check and its put. Three
nodes have a cycle away from the start and two ways to one node, which are what a search
can get wrong.

Deadlock is not checked: a turn ends, deployments are triggered once, requests are
numbered, and the system may stop.

**Serial requests.** `SerialDecisions`, `Serial` and the flags above are assumptions
the code does not enforce. With them the strong properties hold; without them the runs
marked as violations show how they fail. They separate two questions: is the logic
right when requests do not overlap, and what does overlap break. `deployment_overlap`,
the theorems about `Deployment` named in section 6 and everything about
`DeploymentWorkflow` except the properties that say `Alone` need no such assumption.

**Fairness.** A handler or background task that has started runs on unless it
aborts (weak fairness of its own steps: the event loop schedules every ready
coroutine). For `DecidedIsClaimed` a client also keeps calling the resume route of a
decided review - strong fairness of `GetDecision` for each review, since a resumer may
be busy. A 202 answer says "still pending", so repeating the call is the protocol.
Nobody is assumed to decide or approve. In `DeploymentWorkflow` Step Functions and
CodeBuild run what they have started (weak fairness of each execution and of each
scan); nobody is assumed to merge a pull request, to deliver an event or to start a
customer's pipeline. `ApprovedGoesLive` and
`DeployingEnds` are checked without aborts: the code has no recovery that would make them
hold with one.

## 5. What the runs refute

* `approval_race`: a reviewer's whole-item put erases a claim made since its read;
  the tool runs twice (`tool_approval.py` 98-103).
* `approval_lock`: a timeout is reported and later another outcome
  (`orchestrator.py` 326-329).
* `approval_info`: `info_requested` executes the tool (`tool_executor.py` 25-30).
* `deployment_race`: a trigger's stale put takes `live_version` back
  (`agents.py` 764-766).
* `deployment_twice`: two approvals pass the check and the deployment is finished
  twice (`agents.py` 1446-1449).
* `runtime_redeploy`: the task that a redeploy with a changed configuration starts
  compares the old version's configuration with the new hash and refuses to start
  (`config_loader.py` 112-114).

Disagreements met while modelling and not given a run of their own; each is in the
modules as the code has it, and the properties are stated around it:

* `tool_registry/models.py` 1-9 says that only APPROVED tools may be added to any
  agent. Create and update on the flat routes check it; the routes of a project's
  agents and Build with AI save without the validator (`unvalidated`), and a rollback
  restores a configuration without it.
* No impact rule names `tool_policies`, a tool replaced at the same endpoint or the
  tools list of a first version: such a change is of LOW impact.
* `agents.py` around 1560 says that recovery from a revocation is a fresh rotation;
  `rotate_api_key` never clears `api_key_revoked`. A second rotation within 24 hours
  ends the first key's grace period early.
* Bitbucket and CodeCommit create an empty repository: when the first commit fails,
  every retry is refused (`base.py` 24-28, 43-53; `agents.py` 850-857 expects it to go
  on). GitLab's lookup takes any answer but 200 for a missing file (`gitlab.py` 71-81),
  so one error makes the commit create a file that is there, which GitLab refuses:
  `RetryNotRefused` leaves these two refusals out. A change of `cicd_provider` commits a second workflow file, on GitHub in place
  of the first.
* The playground runs unguarded when the policy it names was deleted, the runtime
  refuses to. Two first turns of one session at once: the unconditional put of the
  empty session may lose a turn.
* The skill delete guard looks at the current version's `skill_ids` and no save or
  rollback looks skills up, so an agent may name a skill that never existed, or be rolled
  back to a version that names a deleted one. `ReferencesHold` is about the skills a
  version found when it became current.
* In the same way a save or a rollback may name a guardrail policy that was deleted
  (`agents.py` 412-431, 545-553); the agent's container is then blocked.
  `AgentKeepsGuardrail` is about versions saved or restored while the policy was there.
* A `create_guardrail` that takes effect although its answer is lost leaves a guardrail
  that no item names, and so does a failed deprovisioning, which a delete swallows.

## 6. Proofs

Eight modules hold proofs. All hold for every value of the constants, from the
ASSUMEs of the modules alone unless said otherwise. These only say what the constants
are: numbers (`ContainerAssumption`, `CredAssumption`, `BuildAssumption`,
`GuardrailsAssumption`, `MonthsAssumption`, ...), numbered requests (`RegAssumption`,
`LibraryAssumption`, `GitAssumption`), finite sets (`TurnsAssumption`,
`UpgradeAssumption`), configurations (`PayloadsAssumption`), at least one scan
(`ScansAssumption`; the Parallel state has five) and names that do not clash
(`WritersAssumption`, `NoCommitAssumption`, `PlaygroundAssumption`, ...). Bounds on
faults, repeats and versions are arbitrary. Requests that do not overlap are a case of
the flags that section 4 describes: the theorems are about both values, and a property
that needs requests one at a time says so.

`ToolApprovalProofs`. Type correctness assumes nothing else. The other theorems
assume `SerialDecisions`. Invocation counts are not inductive: that a gated call ran
at most once follows from who may still run it. The invariant (`Claims`) says that a
reviewer between get and put is alone and finds the review still pending, that a
resume acts on a decision that still stands, that the resume executing tools holds
the claim and no other does, that until it reaches the gated call this call has not
run, and that a gated call that ran is the one its review names, granted and claimed.
The refinement and the finality of decisions follow from it step by step.

`DeploymentProofs`. Type correctness, `ApplyIsVetted`, `LiveIsVetted` and
`StatusMatchesLive` are proved without `Serial`. The invariant `IInv` is a
conjunction per deployment, `Gate(d)`: where its process is decides whether its
record has passed the policy check; a parked one is manual; a handler of the approve
route exists only for a parked deployment; a record read and not yet put may be
stale but agrees with the table in what the gates look at, and past the approval it
says approved. `Lives` adds that the live version of the agent item, and of every
agent item read and not yet put, is that of a cleared deployment: this is why the
stale puts `deployment_race` exhibits can only bring back a version that was vetted.
A step about one deployment leaves the gates of the others alone (`Elsewhere`), so
each action has a lemma about its own deployment and `Assemble` does the rest.

`AppliedAtMostOnce`, `OutcomeIsFinal` and `LiveMovesOnlyByMarkActive` are proved under
`Serial`; `deployment_twice` and `deployment_race` show that the first and the last
need it. `SInv`
strengthens `IInv`: at most one process is busy, what it has read is what the tables
hold (`Fresh`), until its pipeline reaches MarkActive its deployment has not finished,
and while anything of a deployment runs its record is not settled (`OpenOnce`). A step
changes only the deployment it is about (`StepFrame`), so `SerialAssemble` leaves one
deployment to look at.

`DeploymentWorkflowProofs`. Types, `AppliedIsVetted` and `LiveIsApplied`, for any
number of deployments and executions, `Overlap` or not, and any number of faults.
The invariant `IInv`
first gives each variable its type, then says who may hold a read item
(`AgentHeld`, `RecordHeld`, `HeldByScan`, `HeldByCi`) and that it was read after the
trigger created it, so that no put writes an absent item. The properties follow from
what a position in the pipeline implies: past the scans all of the execution's own
scans passed (`ScansPassed`), past the plan its builds did (`BuildsPassed`), past the
policy check its pull request is merged or there was none (`Merged`), past APPLYING it
has applied (`ApplyRan`). `ReadApplied` says of every agent item read and not yet put
that its live version was applied, which is why a stale put cannot bring back one that
was not.

`EarlierStagesRecorded`, `EndIsSettled` and `SettledStays` are about an execution that
is alone with its record. `OwnInv` says, per execution, what the record and every copy
of it not yet put hold: all stages before the current one passed (`StagesHold`), also
in the copies of the scans, which read and update the attribute in any order
(`ScansHold`: when all have reported clean the last one leaves the stage passed); the
status is not a settled one, except between the put of a block and the end of the
policy check (`StatusHolds`). A scan that still runs when its execution has moved on
means that another one has failed (`ScansOver`). Before the first execution of a
deployment only its trigger has written the record (`Untouched`). A step of one
execution leaves the others' part alone (`OneMoves`), and `RecordIsWritten` names for
the action property everyone who writes a record and what.

`AgentRegistryProofs`. `VersionsAreImmutable` without any assumption about requests:
of the operations that write a version item some mark a lifecycle on the one they
read, and every other is put under the condition that there is none. The other two
properties need the whole of `RegInv`: what a place in a handler says of its operation
(`RegPlaced`), that the first request creates the agent (`RegFirst`), and, where
requests come one at a time, what the agent item and the versions table say while each
is served (`RegAlone`). An agent's current version is readable except between the two
puts of a creation or a delete (`Unmaking`); the numbers above the current version are
free except for the one an edit has just put (`NextIsFree`); one version at most is
labelled published, and it is the current one of a published agent except while an
edit or an archiving is relabelling it (`OnePublished`). Each part is stated with the
operations and crashes it does not survive, as the code has them.

`SubAgentSearch` and `SubAgentGraph` have their proofs in the same module. That the
search is right is proved of its states, for any graph: the calls that have not returned
are a path from the start (`StackIsPath`), and a node that is visited but not on it lists
only nodes of the same kind and is on no cycle (`SearchedIsClear`). The last part needs
that those nodes, and what they reach, are closed: a cycle through one of them would lie
among nodes of which each was searched after all it lists. When the outermost call
returns, everything reachable is of this kind; when a neighbour is on the path, the path from it
is the cycle (`CloseCycle`). That the recursion ends is proved as what each step does
(`SearchTerminates`): a search under way has a step to take, and it visits a node more, or
has a neighbour less to look at, or returns; in a finite graph that cannot go on.
`GraphStaysAcyclic` is about the saves: with changes one at a
time the current lists have no cycle (`CheckedGraphAcyclic`), because a new agent is named by
nobody, an update writes only a list with which no cycle leads through its agent
(`SaveIsChecked`, which a change in between would spoil), and a delete only removes. It
holds until an agent that does not exist is listed (`ListedExist` says that until then
none is) or a rollback points an agent back, as the property says.

`AgentRuntimeProofs`, one part per component.

* `AgentTurn`: the spend is never over-counted because a recorded cost was
  incurred: the invariant keeps, for each month, what the item says together with what
  the turns have still to record (`Owed`, a cardinality) below what the model cost
  (`Room`), for every stale copy too. For one container that nothing disturbs, at most
  one turn records at a time, and while it does one call is missing (`Exact`).
* `AgentContainer`: versions are saved in order (`SavedInOrder`) and, with deployments
  one at a time, at most one rollout is under way, what it has applied is the task
  definition, and after an active one the live version is that definition
  (`OneRollout`). This is why the container finds the hash it expects.
* `AgentCredentials`: a request that has made a key up is the only one that knows it
  (`FreshKeys`), so it is not the key some other request replaces. Where no put has
  undone another, a key replaced once is the previous key, and a key that was seen and
  never replaced is the current one (`KeysInOrder`).

`BedrockProofs`.

* `KnowledgeBase`: a sync that is past its scan has nothing left in the prefix that
  the scan would reject (`IndexGate`), for every interleaving in which uploads wait for
  syncs; and, requests one at a time, a job that runs is the last one started and the
  item says that a sync is in progress or is about to (`SyncLock`).
* `GuardrailPolicy`: while nothing is left behind Bedrock holds exactly the guardrail the
  item names, except while one request has created or deleted it and not yet written so
  (`Unnamed`); an update keeps the guardrail a container may have looked up
  (`LookupKept`), and a delete passes its check only when the current version does not
  name the policy. A version that names it from the time it is gone is left out (`gone`),
  and so is a container whose lookup found no guardrail.

`WorkspaceProofs`.

* `ConfigReview`: that an endpoint the live version does not call, other
  guardrails or another knowledge base is named for any distance between two versions is
  an induction over versions done by the invariant itself: `OneVersionMore` extends what
  is known of version n-1 to version n with one analysis (`EndpointNamed`,
  `BlocksNamed`). `CheckedTools` says that a save under validation has found approved
  tools so far.
* `Playground`: what a turn has been told at each place (`PlayPlaced`, `Vetted`), that
  sessions, and the copies turns append to, are made of whole turns whatever overlaps
  (`Paired`), and, turns one at a time, are numbered and as the turn first read them
  (`PlayCounted`).
* `ProjectLibrary`: requests one at a time, an agent's project and the skills its current
  version found are there in every state, also after a request that was cut short, while
  the project's own list is behind by the agent of the request that has still to write it
  (`ListedBy`). Which skills the versions name is arbitrary throughout.
* `BuildWithAI`: nothing that is left of a proposal was created and nothing is in it
  twice (`Creating`); a completed session lists all of it and the orchestrator names
  the sub-agents (`Complete`).

`PlatformProofs`.

* `PlatformUpgrade`: there are as many revisions as upgrades that registered one; at
  each state of the machine, also those after a failure, the invariant relates the
  revision the service is asked to run to the one recorded (`Serves`).
* `GitRepository`: what an attempt knows of the repository whoever else writes to it
  (`AttemptHolds`, kept because no step of another takes anything back) and what it
  knows besides when it runs alone (`AloneHolds`), so that a refusal is one of the two the
  property names; a default branch that an attempt
  wrote has a workflow file (`MainHolds`).
* `AuditChain`: a named predecessor has an entry (`NamedIsWritten`: a writer past its
  put has one, and so has the tail), and, without overlap or a call that failed after
  its effect, one writer is at work whose predecessor is the tail, which no entry names
  yet (`NoForkYet`).

Refinement of `DeploymentContract`. In `Deployment` the invariant above is joined by
`ContractInv`: what MarkActive has made live is cleared and stays so, and an agent item,
also a stale one, holds a version that was made live. Every step writes one record,
makes one version live or only moves the agent item (`StepKinds`); a record written past
the gate is cleared however stale the copy was (`LateWrites`), and before the gate
nothing is cleared (`EarlyWrites`). In `DeploymentWorkflow` a step is about one deployment
(`Moves`), or changes at most the live version (`Keeps`); an execution that applies is one past
its own gates (`ApplyingIsCleared`), although others of the same deployment may be
anywhere. Neither needs requests or executions one at a time.

`DecisionIsFinal`, `LiveIsApplied` and `LiveIsVetted` are theorems that no run lists: the
contracts that the runs check imply the first two, and the third but for its clause that
a live version's deployment stays vetted.

Only model-checked: liveness (`DecidedIsClaimed`, `ApprovedGoesLive`, `DeployingEnds`,
`ExecutionEnds`), which is out of the prover's reach, and
`ControlPlaneTypeOK`, which is the conjunction of the type invariants of fifteen
components, each of them a theorem of its own component.

## 7. Not modelled

* Contents of prompts, IaC, commits and scan findings: a verdict is a free choice. The
  IaC generator with its validator, policy script and CI templates is text produced
  from a configuration, without state.
* IAM, licence, JWT and login checks: they refuse a request before any state changes.
  Which API keys the runtime accepts is in `AgentCredentials`.
* The task planner's analyzer and the evaluation runner: they ask a model and score
  its answers.
* Prompts, connectors and platform settings: items each written by one put that no
  other item refers to. The change of the CI provider is an action of `GitRepository`.
* Skill versions' history, runs and telemetry: seed data, reads and best-effort
  records. (A listing of runs limits before it filters, which loses rows of a page; a
  bound on one query, not a state.)
* Retrieval and the runtime's conversation memory only fail or not in `AgentTurn`.
* The eventual consistency of DynamoDB reads: `get_item` without `ConsistentRead` may
  return an older item, which the two-step updates already allow for most of the
  window. The index of `ProjectLibrary` lags on purpose.
