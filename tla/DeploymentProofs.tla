---- MODULE DeploymentProofs ----
(***************************************************************************)
(* Proofs about Deployment for every set of deployments, approvers,        *)
(* editors and versions. The theorems of all parts but the last hold       *)
(* however requests overlap; those of the last assume Serial.              *)
(***************************************************************************)
EXTENDS Deployment, SequenceTheorems, TLAPS

(***************************************************************************)
(* The inductive invariant.                                                *)
(***************************************************************************)
\* Labels of a deployment that has not passed its policy check, and of a pipeline
\* that is past both gates.
Before == {"idle", "git", "publish", "stamp", "run", "policy", "block", "blocked"}
Finishing == {"merge", "apply", "activate", "complete"}

Labels ==
    /\ \A d \in Deployments : pc[d] \in Before \cup {"park"} \cup Finishing \cup {"done"}
    /\ \A p \in Approvals : pc[p] \in {"idle", "approve", "notify"} \cup Finishing
    /\ \A e \in Editors : pc[e] \in {"idle", "edit"}

\* Where a process is in the plan it is writing.
PlanPosition ==
    \A p \in Proc :
        /\ pc[p] = "run" => next[p] \in 1..Len(RunPlan)
        /\ pc[p] = "apply" => next[p] \in 1..Len(FinishPlan)
        /\ pc[p] \notin {"run", "apply"} => next[p] = 1

Exists(r) == r.status # "absent"
Passed(r) == Exists(r) /\ r.stages["POLICY_CHECK"] = "PASSED"
Cleared(r) == Passed(r) /\ (r.mode = "manual" => r.approved)
Touched(r) == Exists(r) /\ r.stages["APPLYING"] # "PENDING"

\* Up to its policy check a deployment has not passed it, and until it parks or
\* goes on nothing of its apply half has happened.
BeforeGate(d) ==
    /\ pc[d] = "idle" <=> ~Exists(record[d])
    /\ pc[d] \in Before => ~Passed(record[d])
    /\ pc[d] \in Before \cup {"park"} =>
         /\ ~Touched(record[d]) /\ pull[d] # "merged"
         /\ Exists(record[d]) => record[d].status = "PENDING" /\ ~record[d].approved

\* A pipeline that parks is manual, one that goes on by itself is not.
ModeDecides(d) ==
    /\ pc[d] = "park" => Passed(record[d]) /\ record[d].mode = "manual"
    /\ pc[d] \in Finishing => Passed(record[d]) /\ record[d].mode # "manual"

\* What waits for an approval was parked by a pipeline that has ended.
Parked(d) == pc[d] = "done" /\ Passed(record[d]) /\ record[d].mode = "manual"
ParkedIsPassed(d) == record[d].status = "PENDING_APPROVAL" => Parked(d)

\* A handler that got past the approve route's checks.
ApprovalIsDue(d) ==
    \A a \in Approvers :
        /\ pc[<<a, d>>] # "idle" => Parked(d)
        /\ pc[<<a, d>>] \in Finishing \cup {"notify"} => record[d].approved

\* A record read and not yet put back may be stale, but not in what the gates say.
About(d) == {d} \cup {<<a, d>> : a \in Approvers}
SameGates(r, q) ==
    /\ Passed(r) /\ r.version = q.version /\ r.mode = q.mode
    /\ r.status = "PENDING_APPROVAL" => q.mode = "manual"
ReadKeepsGates(d) ==
    \A p \in About(d) : readRecord[p] # Unread =>
        /\ SameGates(readRecord[p], record[d])
        /\ pc[p] \in ReadsRecord
        /\ pc[p] \in Finishing => Cleared(readRecord[p])

\* ApplyIsVetted of one deployment.
ApplyVetted(d) == pull[d] = "merged" \/ Touched(record[d]) => Cleared(record[d])

Gate(d) ==
    /\ BeforeGate(d) /\ ModeDecides(d) /\ ParkedIsPassed(d)
    /\ ApprovalIsDue(d) /\ ReadKeepsGates(d) /\ ApplyVetted(d)

\* A live version, also one in a stale agent item, is that of a vetted deployment.
LiveOk(v) == v # NoVersion => \E d \in Deployments : Cleared(record[d]) /\ record[d].version = v
Lives ==
    /\ LiveOk(agent.live)
    /\ \A p \in Proc : readAgent[p] # Unread => LiveOk(readAgent[p].live)

Typed == TypeOK /\ Labels /\ PlanPosition
IInv == Typed /\ (\A d \in Deployments : Gate(d)) /\ Lives
----
(***************************************************************************)
(* Processes, plans and records.                                           *)
(***************************************************************************)
LEMMA OfProc ==
    /\ \A d \in Deployments : d \in Proc /\ Of(d) = d
    /\ \A a \in Approvers, d \in Deployments :
         /\ <<a, d>> \in Approvals /\ <<a, d>> \in Proc
         /\ <<a, d>> \notin Deployments /\ Of(<<a, d>>) = d
    /\ \A p \in Approvals :
         /\ p \in Proc /\ p \notin Deployments /\ p \notin Editors
         /\ \E a \in Approvers, d \in Deployments : p = <<a, d>>
    /\ \A e \in Editors : e \in Proc /\ e \notin Deployments /\ e \notin Approvals
BY ProcAssumption DEF Proc, Approvals, Of

Results(stages) == stages \X SUBSET StageStatus

LEMMA AdvanceType ==
    ASSUME NEW S \in SUBSET Stage, NEW s \in S
    PROVE  Advance(s) \in Seq(Results(S)) /\ Len(Advance(s)) = 2
BY DEF Advance, Results, StageStatus

EarlyStage == Stage \ {"POLICY_CHECK", "APPLYING", "DEPLOYING", "HEALTH_CHECK"}

LEMMA RunPlanType == RunPlan \in Seq(Results(EarlyStage)) /\ Len(RunPlan) >= 1
<1> DEFINE T == Results(EarlyStage)
           val == << <<"TERRAFORM_VALIDATE", {"PASSED", "FAILED"}>> >>
<1>1. \A s \in EarlyStage : Advance(s) \in Seq(T) /\ Len(Advance(s)) = 2
  BY AdvanceType DEF EarlyStage
<1>2. {"VALIDATING", "CHANGE_IMPACT", "GENERATING_IAC", "SECURITY_SCANNING", "EVALUATING",
       "TERRAFORM_VALIDATE", "TERRAFORM_PLAN"} \subseteq EarlyStage
  BY DEF EarlyStage, Stage
<1>3. val \in Seq(T) /\ Len(val) = 1
  BY <1>2 DEF Results, StageStatus
<1>4. \A u, w \in Seq(T) : u \o w \in Seq(T) /\ Len(u \o w) = Len(u) + Len(w)
  BY ConcatProperties
<1>5. \A u \in Seq(T) : Len(u) \in Nat
  OBVIOUS
<1> HIDE DEF T, val
<1> QED BY <1>1, <1>2, <1>3, <1>4, <1>5 DEF RunPlan, val, T

LEMMA FinishPlanType ==
    FinishPlan \in Seq(Results({"APPLYING", "DEPLOYING"})) /\ Len(FinishPlan) >= 1
<1> DEFINE S == {"APPLYING", "DEPLOYING"}
           T == Results(S)
<1>1. \A s \in S : Advance(s) \in Seq(T) /\ Len(Advance(s)) = 2
  BY AdvanceType DEF Stage
<1>2. \A u, w \in Seq(T) : u \o w \in Seq(T) /\ Len(u \o w) = Len(u) + Len(w)
  BY ConcatProperties
<1>3. FinishPlan \in Seq(T) /\ Len(FinishPlan) >= 1
  <2> HIDE DEF T
  <2> QED BY <1>1, <1>2 DEF FinishPlan
<1> QED BY <1>3

\* What one entry of a plan is.
LEMMA PlanEntry ==
    /\ \A n \in 1..Len(RunPlan) :
         RunPlan[n][1] \in EarlyStage /\ RunPlan[n][2] \subseteq StageStatus
    /\ \A n \in 1..Len(FinishPlan) :
         FinishPlan[n][1] \in {"APPLYING", "DEPLOYING"} /\ FinishPlan[n][2] \subseteq StageStatus
    /\ Len(RunPlan) \in Nat /\ Len(FinishPlan) \in Nat
<1>1. \A n \in 1..Len(RunPlan) : RunPlan[n] \in Results(EarlyStage)
  BY RunPlanType, ElementOfSeq
<1>2. \A n \in 1..Len(FinishPlan) : FinishPlan[n] \in Results({"APPLYING", "DEPLOYING"})
  BY FinishPlanType, ElementOfSeq
<1> QED BY <1>1, <1>2, RunPlanType, FinishPlanType DEF Results

RecordStatus == {"PENDING", "PENDING_APPROVAL"} \cup Settled

\* update_stage changes one stage and, when given one, the overall status.
LEMMA StageWritten ==
    ASSUME NEW r \in DeploymentRecord, NEW s \in Stage, NEW x \in StageStatus
    PROVE  LET w == WithStage(r, s, x) IN
           /\ w \in DeploymentRecord
           /\ w.status = r.status /\ w.version = r.version /\ w.mode = r.mode
           /\ w.approved = r.approved /\ w.stages[s] = x
           /\ \A t \in Stage \ {s} : w.stages[t] = r.stages[t]
BY DEF WithStage, DeploymentRecord

LEMMA StatusWritten ==
    ASSUME NEW r \in DeploymentRecord, NEW s \in Stage, NEW x \in StageStatus,
           NEW y \in RecordStatus
    PROVE  LET w == WithStatus(r, s, x, y) IN
           /\ w \in DeploymentRecord
           /\ w.status = y /\ w.version = r.version /\ w.mode = r.mode
           /\ w.approved = r.approved /\ w.stages[s] = x
           /\ \A t \in Stage \ {s} : w.stages[t] = r.stages[t]
BY DEF WithStatus, DeploymentRecord, RecordStatus

LEMMA ApprovalWritten ==
    ASSUME NEW r \in DeploymentRecord
    PROVE  LET w == [r EXCEPT !.approved = TRUE] IN
           /\ w \in DeploymentRecord
           /\ w.status = r.status /\ w.version = r.version /\ w.mode = r.mode
           /\ w.approved = TRUE /\ w.stages = r.stages
BY DEF DeploymentRecord

LEMMA RecordCreated ==
    ASSUME NEW v \in Versions, NEW m \in Modes
    PROVE  LET w == NewRecord(v, m) IN
           /\ w \in DeploymentRecord
           /\ w.status = "PENDING" /\ w.version = v /\ w.mode = m /\ ~w.approved
           /\ \A t \in Stage : w.stages[t] = "PENDING"
BY DEF NewRecord, DeploymentRecord, StageStatus

\* A record that is not absent is a deployment record.
LEMMA RecordKinds ==
    /\ \A r \in DeploymentRecord : r.status \in RecordStatus /\ Exists(r) /\ r # Unread
         /\ r # Absent /\ r.stages \in [Stage -> StageStatus] /\ r.approved \in BOOLEAN
    /\ ~Exists(Absent) /\ Absent # Unread
    /\ \A i \in AgentItem : i # Unread
<1>1. \A r \in DeploymentRecord : r.status \in RecordStatus /\ r.stages \in [Stage -> StageStatus]
         /\ r.approved \in BOOLEAN
  BY DEF DeploymentRecord, RecordStatus
<1>2. \A r \in DeploymentRecord : r.status # "absent" /\ r.status # "unread"
  BY <1>1 DEF RecordStatus, Settled
<1>3. \A i \in AgentItem : i.status # "unread" BY DEF AgentItem
<1> QED BY <1>1, <1>2, <1>3 DEF Exists, Absent, Unread

(***************************************************************************)
(* A step is about one deployment: what it keeps of the others.            *)
(***************************************************************************)
LEMMA AboutOf ==
    /\ \A d \in Deployments : About(d) \subseteq Proc /\ d \in About(d)
    /\ \A d \in Deployments : \A p \in About(d) : Of(p) = d
    /\ \A p \in Deployments \cup Approvals : Of(p) \in Deployments /\ p \in About(Of(p))
    /\ \A e \in Editors, d \in Deployments : e \notin About(d)
BY OfProc DEF About

\* The record, pull request and handlers of every deployment but d are as before.
Local(d) ==
    \A e \in Deployments \ {d} :
        /\ record'[e] = record[e] /\ pull'[e] = pull[e]
        /\ \A p \in About(e) : pc'[p] = pc[p] /\ readRecord'[p] = readRecord[p]

LEMMA Elsewhere ==
    ASSUME NEW d, \A e \in Deployments : Gate(e), Local(d)
    PROVE  \A e \in Deployments \ {d} : Gate(e)'
<1> SUFFICES ASSUME NEW e \in Deployments, e # d PROVE Gate(e)'
  OBVIOUS
<1>1. record'[e] = record[e] /\ pull'[e] = pull[e]
  BY DEF Local
<1>2. \A p \in About(e) : pc'[p] = pc[p] /\ readRecord'[p] = readRecord[p]
  BY DEF Local
<1>3. pc'[e] = pc[e] /\ \A a \in Approvers : pc'[<<a, e>>] = pc[<<a, e>>]
  BY <1>2 DEF About
<1>4. Gate(e)
  OBVIOUS
<1>5. BeforeGate(e)'
  BY <1>1, <1>3, <1>4 DEF Gate, BeforeGate
<1>6. ModeDecides(e)' /\ ParkedIsPassed(e)' /\ ApplyVetted(e)'
  BY <1>1, <1>3, <1>4 DEF Gate, ModeDecides, ParkedIsPassed, Parked, ApplyVetted
<1>7. ApprovalIsDue(e)'
  BY <1>1, <1>3, <1>4 DEF Gate, ApprovalIsDue, Parked
<1>8. ReadKeepsGates(e)'
  BY <1>1, <1>2, <1>4 DEF Gate, ReadKeepsGates, About
<1> QED BY <1>5, <1>6, <1>7, <1>8 DEF Gate

\* A process past both gates is about a cleared deployment.
LEMMA FinishingIsCleared ==
    ASSUME NEW d \in Deployments, Gate(d), NEW p \in About(d), pc[p] \in Finishing
    PROVE  Cleared(record[d])
<1>1. CASE p = d
  BY <1>1 DEF Gate, ModeDecides, Cleared
<1>2. CASE p # d
  <2>1. PICK a \in Approvers : p = <<a, d>>
    BY <1>2 DEF About
  <2>2. Parked(d) /\ record[d].approved
    BY <2>1 DEF Gate, ApprovalIsDue, Finishing
  <2> QED BY <2>2 DEF Parked, Cleared
<1> QED BY <1>1, <1>2

(***************************************************************************)
(* Where live versions come from.                                          *)
(***************************************************************************)
\* A version the agent item, an agent item read or a cleared deployment holds.
Sourced(v) ==
    \/ v = agent.live
    \/ \E p \in Proc : readAgent[p] # Unread /\ v = readAgent[p].live
    \/ \E d \in Deployments : Cleared(record[d]) /\ v = record[d].version

AllSourced ==
    /\ Sourced(agent'.live)
    /\ \A p \in Proc : readAgent'[p] # Unread => Sourced(readAgent'[p].live)

StaysCleared(d) ==
    Cleared(record[d]) => Cleared(record'[d]) /\ record'[d].version = record[d].version

LEMMA LivesKept ==
    ASSUME Lives, AllSourced, \A d \in Deployments : StaysCleared(d)
    PROVE  Lives'
<1>1. \A v : Sourced(v) => LiveOk(v)
  BY DEF Sourced, Lives, LiveOk
<1>2. \A v : LiveOk(v) => LiveOk(v)'
  <2> SUFFICES ASSUME NEW v, LiveOk(v), v # NoVersion
               PROVE  \E d \in Deployments : Cleared(record'[d]) /\ record'[d].version = v
    BY DEF LiveOk
  <2>1. PICK d \in Deployments : Cleared(record[d]) /\ record[d].version = v
    BY DEF LiveOk
  <2> QED BY <2>1 DEF StaysCleared
<1>3. LiveOk(agent'.live) /\ \A p \in Proc : readAgent'[p] # Unread => LiveOk(readAgent'[p].live)
  BY <1>1 DEF AllSourced
<1>4. \A v : LiveOk(v) => (v # NoVersion =>
          \E d \in Deployments : Cleared(record'[d]) /\ record'[d].version = v)
  BY <1>2 DEF LiveOk
<1> QED BY <1>3, <1>4 DEF Lives, LiveOk

\* The shape of every case below: a step about d keeps the invariant if it keeps
\* the types, the gates of d and what d is cleared for, and invents no live version.
LEMMA Assemble ==
    ASSUME IInv, NEW d \in Deployments, Local(d), Typed', Gate(d)', StaysCleared(d), AllSourced
    PROVE  IInv'
<1>1. \A e \in Deployments : Gate(e)'
  BY Elsewhere DEF IInv
<1>2. \A e \in Deployments : StaysCleared(e)
  BY DEF Local, StaysCleared
<1>3. Lives'
  BY <1>2, LivesKept DEF IInv
<1> QED BY <1>1, <1>3 DEF IInv

\* A step that leaves the agent item and the items read alone, and one that puts an
\* item read back with its live version, invent none.
LEMMA AgentUntouched == agent' = agent /\ readAgent' = readAgent => AllSourced
BY DEF AllSourced, Sourced

LEMMA AgentPutBack ==
    ASSUME TypeOK, NEW p \in Proc, NEW item, PutAgent(p, item), item.live = readAgent[p].live
    PROVE  AllSourced
<1>1. Sourced(agent'.live)
  BY DEF PutAgent, Sourced
<1>2. \A q \in Proc : readAgent'[q] # Unread => readAgent'[q] = readAgent[q]
  BY DEF PutAgent, TypeOK
<1> QED BY <1>1, <1>2 DEF AllSourced, Sourced

(***************************************************************************)
(* One lemma per action.                                                   *)
(***************************************************************************)
LEMMA CreateKeeps ==
    ASSUME IInv, NEW d \in Deployments, CreateDeployment(d)
    PROVE  IInv'
<1> USE DEF IInv, Typed, CreateDeployment, Update, Goto
<1>0. PICK v \in Versions, m \in Modes : record' = [record EXCEPT ![d] = NewRecord(v, m)]
  OBVIOUS
<1> DEFINE w == NewRecord(v, m)
<1>1. /\ w \in DeploymentRecord /\ w.status = "PENDING" /\ ~w.approved
      /\ \A t \in Stage : w.stages[t] = "PENDING"
  BY RecordCreated
<1> HIDE DEF w
<1>2. record'[d] = w /\ pc'[d] = "git" /\ \A p \in Proc \ {d} : pc'[p] = pc[p]
  BY <1>0, OfProc DEF TypeOK, w
<1>3. Local(d)
  BY <1>0, AboutOf DEF Local, TypeOK
<1>4. Typed'
  BY <1>0, <1>1, <1>2, OfProc DEF TypeOK, Labels, PlanPosition, Label, Before, w
<1>5. ~Exists(record[d]) /\ pull[d] # "merged" /\ Gate(d)
  BY DEF Gate, BeforeGate, Before
<1>6. Exists(w) /\ ~Passed(w) /\ ~Touched(w)
  BY <1>1, RecordKinds DEF Passed, Touched, Stage
<1>7. \A a \in Approvers : pc[<<a, d>>] = "idle" /\ pc'[<<a, d>>] = "idle"
  BY <1>2, <1>5, OfProc DEF Gate, ApprovalIsDue, Parked
<1>8. \A p \in About(d) : readRecord'[p] = Unread
  BY <1>5, <1>7 DEF Gate, ReadKeepsGates, About, ReadsRecord
<1>9. Gate(d)'
  BY <1>1, <1>2, <1>5, <1>6, <1>7, <1>8
     DEF Gate, BeforeGate, ModeDecides, ParkedIsPassed, ApprovalIsDue, ReadKeepsGates,
         ApplyVetted, Before, Finishing
<1>10. StaysCleared(d) /\ AllSourced
  BY <1>5, AgentUntouched DEF StaysCleared, Cleared, Passed
<1> QED BY <1>3, <1>4, <1>9, <1>10, Assemble

\* Nobody but its own pipeline has to do with a deployment that has not parked.
LEMMA EarlyAlone ==
    ASSUME IInv, NEW d \in Deployments, pc[d] \in (Before \cup {"park"}) \ {"idle"}
    PROVE  /\ record[d] \in DeploymentRecord /\ Exists(record[d])
           /\ record[d].status = "PENDING" /\ ~record[d].approved /\ ~Touched(record[d])
           /\ pull[d] # "merged"
           /\ pc[d] # "park" => ~Passed(record[d])
           /\ \A a \in Approvers : pc[<<a, d>>] = "idle"
           /\ \A p \in About(d) : readRecord[p] = Unread
<1>1. /\ Gate(d) /\ pc[d] \notin ReadsRecord /\ pc[d] # "done"
      /\ record[d] \in DeploymentRecord \cup {Absent}
  BY DEF IInv, Typed, TypeOK, Before, ReadsRecord
<1>2. \A a \in Approvers : pc[<<a, d>>] = "idle"
  BY <1>1 DEF Gate, ApprovalIsDue, Parked
<1>3. \A p \in About(d) : readRecord[p] = Unread
  BY <1>1, <1>2 DEF Gate, ReadKeepsGates, About, ReadsRecord
<1>4. Exists(record[d])
  BY <1>1 DEF Gate, BeforeGate
<1>5. record[d] \in DeploymentRecord
  BY <1>1, <1>4, RecordKinds
<1>6. /\ record[d].status = "PENDING" /\ ~record[d].approved
      /\ ~Touched(record[d]) /\ pull[d] # "merged"
  BY <1>1, <1>4 DEF Gate, BeforeGate
<1>7. pc[d] # "park" => ~Passed(record[d])
  BY <1>1 DEF Gate, BeforeGate, Before
<1> QED BY <1>2, <1>3, <1>4, <1>5, <1>6, <1>7

\* A step of a pipeline before its gate that does not write the record.
LEMMA EarlyMove ==
    ASSUME IInv, NEW d \in Deployments, pc[d] \in Before \ {"idle"},
           NEW l \in Before \ {"idle"}, Goto(d, l),
           record' = record, readRecord' = readRecord, pull'[d] # "merged",
           \A e \in Deployments \ {d} : pull'[e] = pull[e],
           Typed', AllSourced
    PROVE  IInv'
<1>1. pc'[d] = l /\ \A p \in Proc \ {d} : pc'[p] = pc[p]
  BY OfProc DEF IInv, Typed, TypeOK, Goto
<1>2. Local(d)
  BY <1>1, AboutOf DEF Local
<1>3. /\ \A a \in Approvers : pc[<<a, d>>] = "idle" /\ pc'[<<a, d>>] = "idle"
      /\ \A p \in About(d) : readRecord'[p] = Unread
  BY <1>1, EarlyAlone, OfProc
<1>4. /\ Exists(record[d]) /\ ~Passed(record[d]) /\ ~Touched(record[d])
      /\ record[d].status = "PENDING" /\ ~record[d].approved
  BY EarlyAlone DEF Before
<1>5. Gate(d)'
  BY <1>1, <1>3, <1>4
     DEF Gate, BeforeGate, ModeDecides, ParkedIsPassed, ApprovalIsDue, ReadKeepsGates,
         ApplyVetted, Before, Finishing
<1> QED BY <1>2, <1>5, Assemble DEF StaysCleared

LEMMA GitOperationsKeeps ==
    ASSUME IInv, NEW d \in Deployments, GitOperations(d) PROVE IInv'
<1> USE DEF GitOperations, Goto
<1>1. Typed'
  BY OfProc DEF IInv, Typed, TypeOK, Labels, PlanPosition, Label, Before
<1>2. pull'[d] # "merged" /\ \A e \in Deployments \ {d} : pull'[e] = pull[e]
  BY DEF IInv, Typed, TypeOK
<1> QED BY <1>1, <1>2, EarlyMove, AgentUntouched DEF Before

LEMMA PublishEventKeeps ==
    ASSUME IInv, NEW d \in Deployments, PublishEvent(d) PROVE IInv'
<1> USE DEF PublishEvent, Goto
<1>1. Typed'
  BY OfProc DEF IInv, Typed, TypeOK, Labels, PlanPosition, Label, ReadsAgent, Before
<1>2. pull'[d] # "merged"
  BY EarlyAlone DEF Before
<1> QED BY <1>1, <1>2, EarlyMove, AgentUntouched DEF Before

LEMMA PolicyBlockKeeps ==
    ASSUME IInv, NEW d \in Deployments, PolicyBlock(d) PROVE IInv'
<1> USE DEF PolicyBlock, Goto
<1>1. Typed'
  BY OfProc DEF IInv, Typed, TypeOK, Labels, PlanPosition, Label, ReadsAgent, Before
<1>2. pull'[d] # "merged" /\ \A e \in Deployments \ {d} : pull'[e] = pull[e]
  BY EarlyAlone DEF IInv, Typed, TypeOK, Before
<1> QED BY <1>1, <1>2, EarlyMove, AgentUntouched DEF Before

\* The item a process has read is an agent item.
LEMMA ItemRead ==
    ASSUME TypeOK, NEW p \in Proc, readAgent[p] # Unread
    PROVE  /\ readAgent[p] \in AgentItem
           /\ \A s \in {"DRAFT", "DEPLOYING", "ACTIVE", "BLOCKED"} :
                LET w == [readAgent[p] EXCEPT !.status = s] IN
                w \in AgentItem /\ w.status = s /\ w.live = readAgent[p].live
BY DEF TypeOK, AgentItem

LEMMA RecordTriggerKeeps ==
    ASSUME IInv, NEW d \in Deployments, RecordTrigger(d) PROVE IInv'
<1> USE DEF RecordTrigger, Goto
<1> DEFINE w == [readAgent[d] EXCEPT !.status = "DEPLOYING"]
<1>1. PutAgent(d, w) /\ w \in AgentItem /\ w.live = readAgent[d].live
  BY ItemRead, OfProc DEF PutAgent, IInv, Typed
<1>2. Typed'
  <2> HIDE DEF w
  <2>1. TypeOK' /\ Labels'
    BY <1>1, OfProc DEF IInv, Typed, TypeOK, Labels, Label, ReadsAgent, Before, PutAgent
  <2>2. 1 \in 1..Len(RunPlan) /\ next[d] = 1
    BY RunPlanType, PlanEntry, OfProc DEF IInv, Typed, PlanPosition
  <2>3. PlanPosition'
    BY <2>2, OfProc DEF IInv, Typed, TypeOK, PlanPosition
  <2> QED BY <2>1, <2>3 DEF Typed
<1>3. pull'[d] # "merged"
  BY EarlyAlone DEF Before
<1>4. AllSourced
  BY <1>1, OfProc, AgentPutBack DEF IInv, Typed
<1> QED BY <1>2, <1>3, <1>4, EarlyMove DEF Before

LEMMA MarkBlockedKeeps ==
    ASSUME IInv, NEW d \in Deployments, MarkBlocked(d) PROVE IInv'
<1> USE DEF MarkBlocked, Goto
<1> DEFINE s == IF readAgent[d].live # NoVersion THEN "ACTIVE" ELSE "BLOCKED"
           w == [readAgent[d] EXCEPT !.status = s]
<1>1. PutAgent(d, w) /\ w \in AgentItem /\ w.live = readAgent[d].live
  BY ItemRead, OfProc DEF PutAgent, IInv, Typed
<1>2. Typed'
  <2> HIDE DEF w
  <2>1. TypeOK'
    BY <1>1, OfProc DEF IInv, Typed, TypeOK, Label, PutAgent
  <2>2. Labels'
    BY OfProc DEF IInv, Typed, TypeOK, Labels, Before
  <2>3. PlanPosition'
    BY OfProc DEF IInv, Typed, TypeOK, PlanPosition
  <2> QED BY <2>1, <2>2, <2>3 DEF Typed
<1>3. pull'[d] # "merged"
  BY EarlyAlone DEF Before
<1>4. AllSourced
  BY <1>1, OfProc, AgentPutBack DEF IInv, Typed
<1> QED BY <1>2, <1>3, <1>4, EarlyMove DEF Before

\* A step of a pipeline up to its gate that writes its record.
LEMMA EarlyWrite ==
    ASSUME IInv, NEW d \in Deployments, pc[d] \in (Before \cup {"park"}) \ {"idle"},
           NEW w \in DeploymentRecord, Update(d, w),
           w.version = record[d].version, w.mode = record[d].mode,
           w.approved = record[d].approved,
           w.stages["APPLYING"] = record[d].stages["APPLYING"],
           NEW l \in (Before \cup {"park", "merge", "done"}) \ {"idle"}, Goto(d, l),
           l # "done" => w.status = "PENDING",
           l \in Before => ~Passed(w),
           l = "park" => Passed(w) /\ w.mode = "manual",
           l = "merge" => Passed(w) /\ w.mode # "manual",
           w.status = "PENDING_APPROVAL" => Passed(w) /\ w.mode = "manual",
           readRecord' = readRecord, pull' = pull, Typed', AllSourced
    PROVE  IInv'
<1>1. pc'[d] = l /\ \A p \in Proc \ {d} : pc'[p] = pc[p]
  BY OfProc DEF IInv, Typed, TypeOK, Goto
<1>2. record'[d] = w /\ \A e \in Deployments \ {d} : record'[e] = record[e]
  BY DEF IInv, Typed, TypeOK, Update
<1>3. Local(d)
  BY <1>1, <1>2, AboutOf DEF Local
<1>4. /\ \A a \in Approvers : pc[<<a, d>>] = "idle" /\ pc'[<<a, d>>] = "idle"
      /\ \A p \in About(d) : readRecord'[p] = Unread
  BY <1>1, EarlyAlone, OfProc
<1>5. /\ Exists(w) /\ ~Touched(w) /\ ~w.approved /\ pull'[d] # "merged"
      /\ ~Cleared(record[d])
  <2>1. Exists(w) BY RecordKinds
  <2>2. ~Touched(record[d]) /\ Exists(record[d]) /\ ~record[d].approved /\ pull[d] # "merged"
    BY EarlyAlone
  <2>3. ~Cleared(record[d])
    <3>1. CASE pc[d] = "park"
      BY <3>1, <2>2 DEF IInv, Gate, ModeDecides, Cleared
    <3>2. CASE pc[d] # "park"
      BY <3>2, EarlyAlone DEF Cleared
    <3> QED BY <3>1, <3>2
  <2> QED BY <2>1, <2>2, <2>3 DEF Touched
<1>6. BeforeGate(d)'
  BY <1>1, <1>2, <1>5 DEF BeforeGate, Before
<1>7. ModeDecides(d)' /\ ParkedIsPassed(d)'
  BY <1>1, <1>2, <1>5 DEF ModeDecides, ParkedIsPassed, Parked, Before, Finishing
<1>8. ApprovalIsDue(d)' /\ ReadKeepsGates(d)' /\ ApplyVetted(d)'
  BY <1>2, <1>4, <1>5 DEF ApprovalIsDue, ReadKeepsGates, ApplyVetted, Finishing
<1> QED BY <1>3, <1>5, <1>6, <1>7, <1>8, Assemble DEF Gate, StaysCleared

LEMMA TriggerFailsKeeps ==
    ASSUME IInv, NEW d \in Deployments, TriggerFails(d) PROVE IInv'
<1> USE DEF TriggerFails, Stop
<1> DEFINE w == WithStatus(record[d], "GENERATING_IAC", "FAILED", "FAILED")
<1>1. record[d] \in DeploymentRecord
  BY EarlyAlone DEF Before
<1>2. /\ w \in DeploymentRecord /\ w.status = "FAILED" /\ w.version = record[d].version
      /\ w.mode = record[d].mode /\ w.approved = record[d].approved
      /\ w.stages["APPLYING"] = record[d].stages["APPLYING"]
  <2>1. /\ "GENERATING_IAC" \in Stage /\ "APPLYING" \in Stage \ {"GENERATING_IAC"}
        /\ "FAILED" \in StageStatus /\ "FAILED" \in RecordStatus
    BY DEF Stage, StageStatus, RecordStatus, Settled
  <2> QED BY <1>1, <2>1, StatusWritten
<1>3. Update(d, w) /\ Goto(d, "done") /\ pc[d] \in Before \ {"idle"}
  BY DEF Before
<1> HIDE DEF w
<1>4. repo' \in BOOLEAN
  BY ZenonT(30) DEF IInv, Typed, TypeOK
<1>5. Typed'
  BY <1>2, <1>3, <1>4, OfProc
     DEF IInv, Typed, TypeOK, Labels, PlanPosition, Label, Before, Update, Goto
<1> QED BY <1>2, <1>3, <1>5, EarlyWrite, AgentUntouched DEF Before

LEMMA RunKeeps ==
    ASSUME IInv, NEW d \in Deployments, Run(d) PROVE IInv'
<1> USE DEF Run
<1>1. /\ record[d] \in DeploymentRecord /\ ~Passed(record[d])
      /\ record[d].status = "PENDING" /\ Exists(record[d])
  BY EarlyAlone DEF Before
<1>2. next[d] \in 1..Len(RunPlan) /\ pc[d] = "run" /\ next[d] \in Nat
  BY OfProc DEF IInv, Typed, PlanPosition, TypeOK
<1> DEFINE s == RunPlan[next[d]][1]
<1>3. PICK x \in RunPlan[next[d]][2] : Update(d, WithStage(record[d], s, x))
  OBVIOUS
<1> DEFINE w == WithStage(record[d], s, x)
<1>4. s \in EarlyStage /\ x \in StageStatus
  BY <1>2, PlanEntry
<1> HIDE DEF s
<1>5. /\ w \in DeploymentRecord /\ w.status = record[d].status
      /\ w.version = record[d].version
      /\ w.mode = record[d].mode /\ w.approved = record[d].approved
      /\ \A t \in {"APPLYING", "POLICY_CHECK"} : w.stages[t] = record[d].stages[t]
  <2>1. s \in Stage /\ \A t \in {"APPLYING", "POLICY_CHECK"} : t \in Stage \ {s}
    BY <1>4 DEF EarlyStage, Stage
  <2> QED BY <1>1, <1>4, <2>1, StageWritten
<1>6. ~Passed(w)
  BY <1>1, <1>5 DEF Passed
<1> HIDE DEF w
<1>7. PICK l \in {"run", "policy"} :
        /\ Goto(d, l)
        /\ \/ l = "policy" /\ next' = [next EXCEPT ![d] = 1]
           \/ l = "run" /\ next' = [next EXCEPT ![d] = @ + 1] /\ next[d] # Len(RunPlan)
  <2>1. CASE next[d] = Len(RunPlan)
    BY <2>1 DEF NextInPlan
  <2>2. CASE next[d] # Len(RunPlan)
    <3>1. pc' = pc /\ next' = [next EXCEPT ![d] = @ + 1]
      BY <2>2 DEF NextInPlan
    <3>2. Goto(d, "run")
      BY <3>1, <1>2, OfProc DEF Goto, IInv, Typed, TypeOK
    <3> QED BY <3>1, <3>2, <2>2
  <2> QED BY <2>1, <2>2
<1>8. Typed'
  <2>1. record' = [record EXCEPT ![d] = w] /\ pc' = [pc EXCEPT ![d] = l]
    BY <1>3, <1>7 DEF Update, Goto, w
  <2>2. next' \in [Proc -> Nat \ {0}]
    BY <1>7, <1>2, OfProc DEF IInv, Typed, TypeOK
  <2>3. TypeOK' /\ Labels'
    BY <2>1, <2>2, <1>5, <1>7, OfProc DEF IInv, Typed, TypeOK, Labels, Label, Before
  <2>4. /\ next'[d] = IF l = "policy" THEN 1 ELSE next[d] + 1
        /\ pc'[d] = l /\ \A p \in Proc \ {d} : next'[p] = next[p] /\ pc'[p] = pc[p]
    BY <2>1, <1>7, OfProc DEF IInv, Typed, TypeOK
  <2>5. PlanPosition'
    BY <2>4, <1>2, <1>7, PlanEntry DEF IInv, Typed, PlanPosition
  <2> QED BY <2>3, <2>5 DEF Typed
<1>9. Update(d, w)
  BY <1>3 DEF w
<1> QED BY <1>1, <1>2, <1>5, <1>6, <1>7, <1>8, <1>9, EarlyWrite, AgentUntouched DEF Before

LEMMA PolicyPassKeeps ==
    ASSUME IInv, NEW d \in Deployments, PolicyPass(d) PROVE IInv'
<1> DEFINE w == WithStage(record[d], "POLICY_CHECK", "PASSED")
           l == IF record[d].mode = "manual" THEN "park" ELSE "merge"
<1>1. record[d] \in DeploymentRecord /\ record[d].status = "PENDING"
  BY EarlyAlone DEF Before, PolicyPass
<1>2. /\ w \in DeploymentRecord /\ w.status = record[d].status
      /\ w.version = record[d].version
      /\ w.mode = record[d].mode /\ w.approved = record[d].approved
      /\ w.stages["APPLYING"] = record[d].stages["APPLYING"]
      /\ w.stages["POLICY_CHECK"] = "PASSED"
  <2>1. /\ "POLICY_CHECK" \in Stage /\ "APPLYING" \in Stage \ {"POLICY_CHECK"}
        /\ "PASSED" \in StageStatus
    BY DEF Stage, StageStatus
  <2> QED BY <1>1, <2>1, StageWritten
<1>3. Update(d, w) /\ Goto(d, l) /\ pc[d] = "policy" /\ l \in {"park", "merge"}
  BY DEF PolicyPass
<1>4. UNCHANGED <<agent, repo, pull, next, readAgent, readRecord, finished, aborts>>
  BY DEF PolicyPass
<1>5. l = "park" <=> record[d].mode = "manual"
  OBVIOUS
<1> HIDE DEF w, l
<1>6. Typed'
  BY <1>2, <1>3, <1>4, OfProc
     DEF IInv, Typed, TypeOK, Labels, PlanPosition, Label, Before, Finishing, Update, Goto
<1>7. Passed(w)
  BY <1>2, RecordKinds DEF Passed
<1> QED BY <1>1, <1>2, <1>3, <1>4, <1>5, <1>6, <1>7, EarlyWrite, AgentUntouched DEF Before

LEMMA RecordBlockedKeeps ==
    ASSUME IInv, NEW d \in Deployments, RecordBlocked(d) PROVE IInv'
<1> DEFINE w == WithStatus(record[d], "POLICY_CHECK", "BLOCKED", "BLOCKED")
<1>1. record[d] \in DeploymentRecord
  BY EarlyAlone DEF Before, RecordBlocked
<1>2. /\ w \in DeploymentRecord /\ w.status = "BLOCKED"
      /\ w.version = record[d].version
      /\ w.mode = record[d].mode /\ w.approved = record[d].approved
      /\ w.stages["APPLYING"] = record[d].stages["APPLYING"]
  <2>1. /\ "POLICY_CHECK" \in Stage /\ "APPLYING" \in Stage \ {"POLICY_CHECK"}
        /\ "BLOCKED" \in StageStatus /\ "BLOCKED" \in RecordStatus
    BY DEF Stage, StageStatus, RecordStatus, Settled
  <2> QED BY <1>1, <2>1, StatusWritten
<1>3. Update(d, w) /\ Goto(d, "done") /\ pc[d] = "blocked"
  BY DEF RecordBlocked, Stop
<1>4. UNCHANGED <<agent, repo, pull, next, readAgent, readRecord, finished, aborts>>
  BY DEF RecordBlocked
<1> HIDE DEF w
<1>5. Typed'
  BY <1>2, <1>3, <1>4, OfProc
     DEF IInv, Typed, TypeOK, Labels, PlanPosition, Label, Update, Goto
<1> QED BY <1>2, <1>3, <1>4, <1>5, EarlyWrite, AgentUntouched DEF Before

LEMMA ParkKeeps ==
    ASSUME IInv, NEW d \in Deployments, Park(d) PROVE IInv'
<1> DEFINE w == WithStatus(record[d], "POLICY_CHECK", "PASSED", "PENDING_APPROVAL")
<1>1. record[d] \in DeploymentRecord /\ record[d].mode = "manual"
  BY EarlyAlone DEF Before, Park, IInv, Gate, ModeDecides
<1>2. /\ w \in DeploymentRecord /\ w.status = "PENDING_APPROVAL"
      /\ w.version = record[d].version
      /\ w.mode = record[d].mode /\ w.approved = record[d].approved
      /\ w.stages["APPLYING"] = record[d].stages["APPLYING"]
      /\ w.stages["POLICY_CHECK"] = "PASSED"
  <2>1. /\ "POLICY_CHECK" \in Stage /\ "APPLYING" \in Stage \ {"POLICY_CHECK"}
        /\ "PASSED" \in StageStatus /\ "PENDING_APPROVAL" \in RecordStatus
    BY DEF Stage, StageStatus, RecordStatus
  <2> QED BY <1>1, <2>1, StatusWritten
<1>3. Update(d, w) /\ Goto(d, "done") /\ pc[d] = "park"
  BY DEF Park, Stop
<1>4. UNCHANGED <<agent, repo, pull, next, readAgent, readRecord, finished, aborts>>
  BY DEF Park
<1> HIDE DEF w
<1>5. Typed'
  BY <1>2, <1>3, <1>4, OfProc
     DEF IInv, Typed, TypeOK, Labels, PlanPosition, Label, Update, Goto
<1>6. Passed(w)
  BY <1>2, RecordKinds DEF Passed
<1> QED BY <1>1, <1>2, <1>3, <1>4, <1>5, <1>6, EarlyWrite, AgentUntouched DEF Before

\* A handler of a deployment that is past its gate leaves it past its gate.
Late(d, p) ==
    \/ pc[p] \in Finishing \cup {"approve", "notify"}
    \/ p # d /\ Parked(d)

LEMMA LatePassed ==
    ASSUME IInv, NEW d \in Deployments, NEW p \in About(d), Late(d, p)
    PROVE  /\ Passed(record[d]) /\ record[d] \in DeploymentRecord
           /\ p # d => Parked(d)
<1>1. Gate(d) /\ record[d] \in DeploymentRecord \cup {Absent}
  BY DEF IInv, Typed, TypeOK
<1>2. CASE p = d
  <2>1. pc[d] \in Finishing
    BY <1>2 DEF Late, IInv, Typed, Labels, Before, Finishing
  <2> QED BY <1>1, <1>2, <2>1, RecordKinds DEF Gate, ModeDecides, Passed
<1>3. CASE p # d
  <2>1. PICK a \in Approvers : p = <<a, d>>
    BY <1>3 DEF About
  <2>2. Parked(d)
    BY <1>1, <2>1 DEF Late, Gate, ApprovalIsDue, Finishing
  <2> QED BY <1>1, <1>3, <2>2, RecordKinds DEF Parked, Passed
<1> QED BY <1>2, <1>3

LEMMA LateWrite ==
    ASSUME IInv, NEW d \in Deployments, NEW p \in About(d), Late(d, p),
           NEW w \in DeploymentRecord, Update(d, w), Passed(w),
           w.version = record[d].version, w.mode = record[d].mode,
           w.status = "PENDING_APPROVAL" => w.mode = "manual",
           Cleared(record[d]) \/ Touched(w) \/ pull'[d] = "merged" => Cleared(w),
           NEW l \in {"idle", "approve", "notify", "done"} \cup Finishing, Goto(p, l),
           p = d => l \in Finishing \cup {"done"},
           p # d => l # "done",
           l \in Finishing \cup {"notify"} => Cleared(w),
           \A q \in Proc \ {p} : readRecord'[q] = readRecord[q],
           readRecord'[p] # Unread =>
             /\ SameGates(readRecord'[p], w) /\ l \in ReadsRecord
             /\ l \in Finishing => Cleared(readRecord'[p]),
           \A e \in Deployments \ {d} : pull'[e] = pull[e],
           Typed', AllSourced
    PROVE  IInv'
<1>1. pc'[p] = l /\ p \in Proc /\ \A q \in Proc \ {p} : pc'[q] = pc[q]
  BY AboutOf DEF IInv, Typed, TypeOK, Goto
<1>2. record'[d] = w /\ \A e \in Deployments \ {d} : record'[e] = record[e]
  BY DEF IInv, Typed, TypeOK, Update
<1>3. Local(d)
  BY <1>1, <1>2, AboutOf DEF Local
<1>4. Gate(d) /\ Passed(record[d]) /\ (p # d => Parked(d)) /\ Exists(w)
  BY LatePassed, RecordKinds DEF IInv
<1>5. p = d => pc[d] \in Finishing /\ record[d].mode # "manual"
  BY <1>4 DEF Late, IInv, Typed, Labels, Before, Finishing, Gate, ModeDecides
<1>6. p # d => pc'[d] = "done" /\ pc[d] = "done" /\ record[d].mode = "manual"
  BY <1>1, <1>4, AboutOf DEF Parked
<1>7. pc'[d] \in Finishing \cup {"done"} /\ (pc'[d] # "done" => w.mode # "manual")
  BY <1>1, <1>5, <1>6
<1>8. BeforeGate(d)' /\ ModeDecides(d)'
  BY <1>2, <1>4, <1>7 DEF BeforeGate, ModeDecides, Before, Finishing
<1>9. ParkedIsPassed(d)'
  BY <1>2, <1>5, <1>6 DEF ParkedIsPassed, Parked
<1>10. ApprovalIsDue(d)'
  <2> SUFFICES ASSUME NEW a \in Approvers
               PROVE  /\ pc'[<<a, d>>] # "idle" => Parked(d)'
                      /\ pc'[<<a, d>>] \in Finishing \cup {"notify"} => record'[d].approved
    BY DEF ApprovalIsDue
  <2> DEFINE q == <<a, d>>
  <2>1. q \in Proc /\ q # d
    BY OfProc
  <2>2. pc[q] # "idle" => Parked(d)
    BY <1>4 DEF Gate, ApprovalIsDue
  <2>3. CASE p = d
    BY <2>1, <2>2, <2>3, <1>1, <1>5, OfProc DEF Parked, Finishing
  <2>4. CASE p # d
    <3>1. Parked(d)'
      BY <2>4, <1>2, <1>6 DEF Parked
    <3>2. CASE q = p
      BY <3>1, <3>2, <2>4, <1>1, <1>2, <1>6 DEF Cleared
    <3>3. CASE q # p
      <4>1. pc[q] \in Finishing \cup {"notify"} => record[d].approved
        BY <1>4 DEF Gate, ApprovalIsDue
      <4>2. pc[q] \in Finishing \cup {"notify"} => Cleared(record[d])
        BY <4>1, <1>4 DEF Cleared
      <4>3. pc'[q] = pc[q]
        BY <2>1, <3>3, <1>1
      <4>4. record[d].mode = "manual" /\ record'[d] = w
        BY <2>4, <1>2, <1>6
      <4>5. Cleared(w) => record'[d].approved
        BY <4>4 DEF Cleared
      <4>6. pc'[q] \in Finishing \cup {"notify"} => record'[d].approved
        BY <4>2, <4>3, <4>5
      <4> QED BY <3>1, <4>6
    <3> QED BY <3>2, <3>3
  <2> QED BY <2>3, <2>4
<1>11. ReadKeepsGates(d)'
  <2> SUFFICES ASSUME NEW q \in About(d), readRecord'[q] # Unread
               PROVE  /\ SameGates(readRecord'[q], w)
                      /\ pc'[q] \in ReadsRecord
                      /\ pc'[q] \in Finishing => Cleared(readRecord'[q])
    BY <1>2 DEF ReadKeepsGates
  <2>1. CASE q = p
    BY <2>1, <1>1
  <2>2. CASE q # p
    <3>1. readRecord'[q] = readRecord[q] /\ pc'[q] = pc[q]
      BY <2>2, <1>1, AboutOf
    <3>2. /\ SameGates(readRecord[q], record[d]) /\ pc[q] \in ReadsRecord
          /\ pc[q] \in Finishing => Cleared(readRecord[q])
      BY <3>1, <1>4 DEF Gate, ReadKeepsGates
    <3> QED BY <3>1, <3>2 DEF SameGates
  <2> QED BY <2>1, <2>2
<1>12. ApplyVetted(d)' /\ StaysCleared(d)
  BY <1>2 DEF ApplyVetted, StaysCleared
<1> QED BY <1>3, <1>8, <1>9, <1>10, <1>11, <1>12, Assemble DEF Gate

LEMMA LateMove ==
    ASSUME IInv, NEW d \in Deployments, NEW p \in About(d), Late(d, p),
           record' = record,
           pull'[d] = "merged" => Cleared(record[d]),
           NEW l \in {"idle", "approve", "notify", "done"} \cup Finishing, Goto(p, l),
           p = d => l \in Finishing \cup {"done"},
           p # d => l # "done",
           l \in Finishing \cup {"notify"} => Cleared(record[d]),
           \A q \in Proc \ {p} : readRecord'[q] = readRecord[q],
           readRecord'[p] # Unread =>
             /\ SameGates(readRecord'[p], record[d]) /\ l \in ReadsRecord
             /\ l \in Finishing => Cleared(readRecord'[p]),
           \A e \in Deployments \ {d} : pull'[e] = pull[e],
           Typed', AllSourced
    PROVE  IInv'
<1>1. Update(d, record[d])
  BY DEF Update, IInv, Typed, TypeOK
<1>2. Touched(record[d]) => Cleared(record[d])
  BY DEF IInv, Gate, ApplyVetted
<1>3. record[d].status = "PENDING_APPROVAL" => record[d].mode = "manual"
  BY DEF IInv, Gate, ParkedIsPassed, Parked
<1>4. Passed(record[d]) /\ record[d] \in DeploymentRecord
  BY LatePassed
<1> DEFINE w == record[d]
<1>5. Update(d, w) /\ w \in DeploymentRecord /\ Passed(w) /\ w.version = record[d].version
      /\ w.mode = record[d].mode
  BY <1>1, <1>4
<1> HIDE DEF w
<1>6. w = record[d] BY DEF w
<1> QED BY <1>2, <1>3, <1>5, <1>6, LateWrite

\* Which deployment a handler past the gates is about.
LEMMA Whose ==
    ASSUME Typed, NEW p \in Proc, pc[p] \in Finishing \cup {"approve", "notify"}
    PROVE  /\ Of(p) \in Deployments /\ p \in About(Of(p)) /\ Late(Of(p), p)
           /\ p = Of(p) <=> p \in Deployments
           /\ pc[p] \in {"approve", "notify"} => p # Of(p)
<1>1. p \in Deployments \cup Approvals
  BY DEF Typed, Labels, Proc, Finishing
<1>2. Of(p) \in Deployments /\ p \in About(Of(p))
  BY <1>1, AboutOf
<1>3. p = Of(p) <=> p \in Deployments
  BY <1>2, OfProc
<1>4. pc[p] \in {"approve", "notify"} => p \notin Deployments
  BY DEF Typed, Labels, Before, Finishing
<1> QED BY <1>2, <1>3, <1>4 DEF Late

LEMMA MergePullRequestKeeps ==
    ASSUME IInv, NEW p \in Proc, MergePullRequest(p) PROVE IInv'
<1> DEFINE d == Of(p)
<1>1. /\ d \in Deployments /\ p \in About(d) /\ Late(d, p) /\ pc[p] = "merge"
  BY Whose DEF MergePullRequest, IInv, Finishing
<1>2. Cleared(record[d])
  BY <1>1, FinishingIsCleared DEF IInv, Finishing
<1>3. Goto(p, "apply") /\ UNCHANGED <<agent, record, repo, next, readAgent, readRecord, finished, aborts>>
  BY DEF MergePullRequest
<1>4. readRecord'[p] = Unread
  BY <1>1, <1>3 DEF IInv, Gate, ReadKeepsGates, ReadsRecord
<1>5. pull' \in [Deployments -> {"none", "open", "merged", "closed"}]
      /\ \A e \in Deployments \ {d} : pull'[e] = pull[e]
  BY <1>1 DEF MergePullRequest, IInv, Typed, TypeOK
<1> HIDE DEF d
<1>6. TypeOK' /\ Labels'
  BY <1>1, <1>3, <1>5, OfProc
     DEF IInv, Typed, TypeOK, Labels, Label, ReadsRecord, Finishing, Goto
<1>7. 1 \in 1..Len(FinishPlan) /\ next[p] = 1
  BY <1>1, FinishPlanType, PlanEntry DEF IInv, Typed, PlanPosition
<1>8. PlanPosition'
  BY <1>3, <1>7 DEF IInv, Typed, TypeOK, PlanPosition, Goto
<1> QED BY <1>1, <1>2, <1>3, <1>4, <1>5, <1>6, <1>8, LateMove, AgentUntouched DEF Typed, Finishing

LEMMA MarkActiveKeeps ==
    ASSUME IInv, NEW p \in Proc, MarkActive(p) PROVE IInv'
<1> DEFINE d == Of(p)
           item == [status |-> "ACTIVE", live |-> record[d].version]
<1>1. /\ d \in Deployments /\ p \in About(d) /\ Late(d, p) /\ pc[p] = "activate"
  BY Whose DEF MarkActive, IInv, Finishing
<1>2. Cleared(record[d]) /\ record[d] \in DeploymentRecord
  BY <1>1, FinishingIsCleared, LatePassed DEF IInv, Finishing
<1>3. /\ Goto(p, "complete") /\ PutAgent(p, item)
      /\ finished' = [finished EXCEPT ![d] = @ + 1]
      /\ UNCHANGED <<record, repo, pull, next, readRecord, aborts>>
  BY DEF MarkActive
<1>4. readRecord'[p] = Unread
  BY <1>1, <1>3 DEF IInv, Gate, ReadKeepsGates, ReadsRecord
<1>5. item \in AgentItem /\ item.live = record[d].version
  BY <1>2 DEF AgentItem, DeploymentRecord
<1>6. pull'[d] = "merged" => Cleared(record[d])
  BY <1>2
<1> HIDE DEF d, item
<1>7. TypeOK' /\ Labels'
  BY <1>1, <1>3, <1>5, OfProc
     DEF IInv, Typed, TypeOK, Labels, Label, ReadsRecord, Finishing, Goto, PutAgent
<1>8. PlanPosition'
  BY <1>1, <1>3 DEF IInv, Typed, TypeOK, PlanPosition, Goto
<1>9. AllSourced
  <2>1. Sourced(agent'.live)
    BY <1>1, <1>2, <1>3, <1>5 DEF PutAgent, Sourced
  <2>2. \A q \in Proc : readAgent'[q] # Unread => readAgent'[q] = readAgent[q]
    BY <1>3 DEF PutAgent, IInv, Typed, TypeOK
  <2> QED BY <2>1, <2>2 DEF AllSourced, Sourced
<1> QED BY <1>1, <1>2, <1>3, <1>4, <1>6, <1>7, <1>8, <1>9, LateMove DEF Typed, Finishing

LEMMA NotifyApprovedKeeps ==
    ASSUME IInv, NEW p \in Proc, NotifyApproved(p) PROVE IInv'
<1> DEFINE d == Of(p)
<1>1. /\ d \in Deployments /\ p \in About(d) /\ Late(d, p) /\ pc[p] = "notify" /\ p # d
  BY Whose DEF NotifyApproved, IInv
<1>2. Goto(p, "merge") /\ UNCHANGED <<agent, record, repo, pull, next, readAgent, readRecord, finished, aborts>>
  BY DEF NotifyApproved
<1>3. Cleared(record[d])
  <2>1. PICK a \in Approvers : p = <<a, d>>
    BY <1>1 DEF About
  <2> QED BY <1>1, <2>1 DEF IInv, Gate, ApprovalIsDue, Parked, Cleared
<1>4. readRecord'[p] = Unread
  BY <1>1, <1>2 DEF IInv, Gate, ReadKeepsGates, ReadsRecord
<1> HIDE DEF d
<1>5. Typed'
  BY <1>1, <1>2, Whose, OfProc
     DEF IInv, Typed, TypeOK, Labels, Label, PlanPosition, Finishing, Goto
<1> QED BY <1>1, <1>2, <1>3, <1>4, <1>5, LateMove, AgentUntouched DEF Finishing

\* The record a handler past the gates has read: what it puts back keeps the gates.
LEMMA RecordRead ==
    ASSUME IInv, NEW p \in Proc, pc[p] \in Finishing \cup {"approve"}, readRecord[p] # Unread
    PROVE  LET d == Of(p) r == readRecord[p] IN
           /\ d \in Deployments /\ p \in About(d) /\ Late(d, p)
           /\ r \in DeploymentRecord /\ Passed(r)
           /\ r.version = record[d].version /\ r.mode = record[d].mode
           /\ r.status = "PENDING_APPROVAL" => r.mode = "manual"
           /\ pc[p] \in Finishing => Cleared(r)
<1> DEFINE d == Of(p)
<1>1. d \in Deployments /\ p \in About(d) /\ Late(d, p)
  BY Whose DEF IInv
<1>2. /\ SameGates(readRecord[p], record[d])
      /\ pc[p] \in Finishing => Cleared(readRecord[p])
  BY <1>1 DEF IInv, Gate, ReadKeepsGates
<1>3. readRecord[p] \in DeploymentRecord
  BY DEF IInv, Typed, TypeOK
<1> QED BY <1>1, <1>2, <1>3 DEF SameGates

LEMMA ApplyKeeps ==
    ASSUME IInv, NEW p \in Proc, Apply(p) PROVE IInv'
<1> DEFINE d == Of(p)
           r == readRecord[p]
           s == FinishPlan[next[p]][1]
<1>1. PICK x \in FinishPlan[next[p]][2] : PutRecord(p, WithStage(r, s, x))
  BY DEF Apply
<1>2. /\ pc[p] = "apply" /\ r # Unread
      /\ UNCHANGED <<agent, repo, pull, readAgent, finished, aborts>>
  BY <1>1 DEF Apply, PutRecord
<1>3. /\ d \in Deployments /\ p \in About(d) /\ Late(d, p) /\ r \in DeploymentRecord
      /\ r.version = record[d].version /\ r.mode = record[d].mode /\ Cleared(r)
      /\ r.status = "PENDING_APPROVAL" => r.mode = "manual"
  BY <1>2, RecordRead DEF Finishing
<1>4. next[p] \in 1..Len(FinishPlan) /\ next[p] \in Nat
  BY <1>2 DEF IInv, Typed, PlanPosition, TypeOK
<1>5. s \in {"APPLYING", "DEPLOYING"} /\ x \in StageStatus
  BY <1>1, <1>4, PlanEntry
<1> DEFINE w == WithStage(r, s, x)
<1> HIDE DEF r, s, d
<1>6. /\ w \in DeploymentRecord /\ w.status = r.status /\ w.version = r.version
      /\ w.mode = r.mode /\ w.approved = r.approved
      /\ w.stages["POLICY_CHECK"] = r.stages["POLICY_CHECK"]
  <2>1. s \in Stage /\ "POLICY_CHECK" \in Stage \ {s}
    BY <1>5 DEF Stage
  <2> QED BY <1>3, <1>5, <2>1, StageWritten
<1>7. Passed(w) /\ Cleared(w)
  <2>1. Passed(w)
    BY <1>3, <1>6, RecordKinds DEF Passed, Cleared
  <2>2. w.mode = "manual" => w.approved
    BY <1>3, <1>6 DEF Cleared
  <2> QED BY <2>1, <2>2 DEF Cleared
<1>8. /\ record' = [record EXCEPT ![d] = w]
      /\ readRecord' = [readRecord EXCEPT ![p] = Unread]
  BY <1>1 DEF PutRecord, d, s, r
<1> HIDE DEF w
<1>9. PICK l \in {"apply", "activate"} :
        /\ Goto(p, l)
        /\ \/ l = "activate" /\ next' = [next EXCEPT ![p] = 1]
           \/ l = "apply" /\ next' = [next EXCEPT ![p] = @ + 1] /\ next[p] # Len(FinishPlan)
  <2>1. CASE next[p] = Len(FinishPlan)
    BY <2>1 DEF NextInPlan, Apply
  <2>2. CASE next[p] # Len(FinishPlan)
    <3>1. pc' = pc /\ next' = [next EXCEPT ![p] = @ + 1]
      BY <2>2 DEF NextInPlan, Apply
    <3>2. Goto(p, "apply")
      BY <3>1, <1>2 DEF Goto, IInv, Typed, TypeOK
    <3> QED BY <3>1, <3>2, <2>2
  <2> QED BY <2>1, <2>2
<1>10. /\ next' \in [Proc -> Nat \ {0}]
       /\ next'[p] = IF l = "activate" THEN 1 ELSE next[p] + 1
       /\ \A q \in Proc \ {p} : next'[q] = next[q]
  BY <1>9, <1>4 DEF IInv, Typed, TypeOK
<1>11. TypeOK' /\ Labels'
  BY <1>2, <1>3, <1>6, <1>8, <1>9, <1>10, OfProc
     DEF IInv, Typed, TypeOK, Labels, Label, ReadsRecord, ReadsAgent, Finishing, Goto
<1>12. pc'[p] = l /\ \A q \in Proc \ {p} : pc'[q] = pc[q]
  BY <1>9 DEF IInv, Typed, TypeOK, Goto
<1>13. PlanPosition'
  BY <1>4, <1>9, <1>10, <1>12, PlanEntry DEF IInv, Typed, PlanPosition
<1>14. /\ readRecord'[p] = Unread /\ Update(d, w)
       /\ \A q \in Proc \ {p} : readRecord'[q] = readRecord[q]
  BY <1>8 DEF IInv, Typed, TypeOK, Update
<1> QED
  BY <1>2, <1>3, <1>6, <1>7, <1>9, <1>11, <1>13, <1>14, LateWrite, AgentUntouched
     DEF Typed, Finishing

LEMMA RecordActiveKeeps ==
    ASSUME IInv, NEW p \in Proc, RecordActive(p) PROVE IInv'
<1> DEFINE d == Of(p)
           r == readRecord[p]
           w == WithStatus(r, "HEALTH_CHECK", "PASSED", "ACTIVE")
           l == IF p \in Deployments THEN "done" ELSE "idle"
<1>1. /\ pc[p] = "complete" /\ r # Unread /\ Goto(p, l)
      /\ UNCHANGED <<agent, repo, pull, next, readAgent, finished, aborts>>
      /\ record' = [record EXCEPT ![d] = w]
      /\ readRecord' = [readRecord EXCEPT ![p] = Unread]
  BY DEF RecordActive, PutRecord, Stop
<1>2. /\ d \in Deployments /\ p \in About(d) /\ Late(d, p) /\ r \in DeploymentRecord
      /\ r.version = record[d].version /\ r.mode = record[d].mode /\ Cleared(r)
  BY <1>1, RecordRead DEF Finishing
<1>3. p = d <=> p \in Deployments
  BY <1>1, Whose DEF IInv, Finishing
<1>5. l \in {"done", "idle"}
  OBVIOUS
<1>6. (p \in Deployments => l = "done") /\ (p \notin Deployments => l = "idle")
  OBVIOUS
<1> HIDE DEF r, d, l
<1>7. /\ w \in DeploymentRecord /\ w.status = "ACTIVE" /\ w.version = r.version
      /\ w.mode = r.mode /\ w.approved = r.approved
      /\ w.stages["POLICY_CHECK"] = r.stages["POLICY_CHECK"]
  <2>1. /\ "HEALTH_CHECK" \in Stage /\ "POLICY_CHECK" \in Stage \ {"HEALTH_CHECK"}
        /\ "PASSED" \in StageStatus /\ "ACTIVE" \in RecordStatus
    BY DEF Stage, StageStatus, RecordStatus, Settled
  <2> QED BY <1>2, <2>1, StatusWritten
<1>8. Passed(w) /\ Cleared(w)
  <2>1. Passed(w)
    BY <1>2, <1>7, RecordKinds DEF Passed, Cleared
  <2>2. w.mode = "manual" => w.approved
    BY <1>2, <1>7 DEF Cleared
  <2> QED BY <2>1, <2>2 DEF Cleared
<1> HIDE DEF w
<1>9. Typed'
  BY <1>1, <1>2, <1>5, <1>6, <1>7, OfProc
     DEF IInv, Typed, TypeOK, Labels, Label, PlanPosition, Goto
<1>10. /\ readRecord'[p] = Unread /\ Update(d, w)
       /\ \A q \in Proc \ {p} : readRecord'[q] = readRecord[q]
  BY <1>1 DEF IInv, Typed, TypeOK, Update
<1> QED
  BY <1>1, <1>2, <1>3, <1>5, <1>6, <1>7, <1>8, <1>9, <1>10, LateWrite, AgentUntouched
     DEF Finishing

LEMMA CheckApprovableKeeps ==
    ASSUME IInv, NEW a \in Approvers, NEW d \in Deployments, CheckApprovable(a, d)
    PROVE  IInv'
<1> DEFINE p == <<a, d>>
<1>1. /\ pc[p] = "idle" /\ record[d].status = "PENDING_APPROVAL" /\ Goto(p, "approve")
      /\ UNCHANGED <<agent, record, repo, pull, next, readAgent, readRecord, finished, aborts>>
  BY DEF CheckApprovable, Approvable
<1>2. p \in About(d) /\ p # d /\ p \in Proc /\ p \in Approvals
  BY OfProc DEF About
<1>3. Parked(d)
  BY <1>1 DEF IInv, Gate, ParkedIsPassed
<1>4. readRecord'[p] = Unread
  BY <1>1, <1>2 DEF IInv, Gate, ReadKeepsGates, ReadsRecord
<1>5. pull'[d] = "merged" => Cleared(record[d])
  BY <1>1 DEF IInv, Gate, ApplyVetted
<1> HIDE DEF p
<1>6. Typed'
  BY <1>1, <1>2, OfProc
     DEF IInv, Typed, TypeOK, Labels, Label, PlanPosition, Goto, ReadsRecord
<1> QED BY <1>1, <1>2, <1>3, <1>4, <1>5, <1>6, LateMove, AgentUntouched DEF Late, Finishing

LEMMA RecordApprovalKeeps ==
    ASSUME IInv, NEW p \in Proc, RecordApproval(p) PROVE IInv'
<1> DEFINE d == Of(p)
           r == readRecord[p]
           w == [r EXCEPT !.approved = TRUE]
<1>1. /\ pc[p] = "approve" /\ r # Unread /\ Goto(p, "notify")
      /\ UNCHANGED <<agent, repo, pull, next, readAgent, finished, aborts>>
      /\ record' = [record EXCEPT ![d] = w]
      /\ readRecord' = [readRecord EXCEPT ![p] = Unread]
  BY DEF RecordApproval, PutRecord
<1>2. /\ d \in Deployments /\ p \in About(d) /\ Late(d, p) /\ r \in DeploymentRecord
      /\ Passed(r) /\ r.version = record[d].version /\ r.mode = record[d].mode
      /\ r.status = "PENDING_APPROVAL" => r.mode = "manual"
  BY <1>1, RecordRead
<1>3. p # d /\ p \notin Deployments
  BY <1>1, Whose DEF IInv
<1> HIDE DEF r, d
<1>4. /\ w \in DeploymentRecord /\ w.status = r.status /\ w.version = r.version
      /\ w.mode = r.mode /\ w.approved = TRUE /\ w.stages = r.stages
  BY <1>2, ApprovalWritten
<1>5. Passed(w) /\ Cleared(w)
  <2>1. Passed(w)
    BY <1>2, <1>4, RecordKinds DEF Passed
  <2>2. w.approved
    BY <1>4
  <2> QED BY <2>1, <2>2 DEF Cleared
<1> HIDE DEF w
<1>6. Typed'
  BY <1>1, <1>2, <1>3, <1>4, OfProc
     DEF IInv, Typed, TypeOK, Labels, Label, PlanPosition, Goto
<1>7. /\ readRecord'[p] = Unread /\ Update(d, w)
      /\ \A q \in Proc \ {p} : readRecord'[q] = readRecord[q]
  BY <1>1 DEF IInv, Typed, TypeOK, Update
<1> QED
  BY <1>1, <1>2, <1>3, <1>4, <1>5, <1>6, <1>7, LateWrite, AgentUntouched DEF Finishing

LEMMA ReadRecordKeeps ==
    ASSUME IInv, NEW p \in Proc, ReadRecord(p) PROVE IInv'
<1> DEFINE d == Of(p)
<1>1. /\ pc[p] \in ReadsRecord
      /\ readRecord' = [readRecord EXCEPT ![p] = record[d]]
      /\ UNCHANGED <<agent, record, repo, pull, pc, next, readAgent, finished, aborts>>
  BY DEF ReadRecord
<1>2. /\ d \in Deployments /\ p \in About(d) /\ Late(d, p)
      /\ p = d <=> p \in Deployments
      /\ pc[p] = "approve" => p # d
  BY <1>1, Whose DEF IInv, ReadsRecord, Finishing
<1> HIDE DEF d
<1>3. Passed(record[d]) /\ record[d] \in DeploymentRecord
  BY <1>2, LatePassed
<1>4. pc[p] \in Finishing => Cleared(record[d])
  BY <1>2, FinishingIsCleared DEF IInv
<1>5. Typed'
  BY <1>1, <1>2, <1>3 DEF IInv, Typed, TypeOK, Labels, PlanPosition
<1>6. SameGates(record[d], record[d])
  BY <1>2, <1>3 DEF SameGates, IInv, Gate, ParkedIsPassed, Parked
<1>7. readRecord'[p] = record[d] /\ \A q \in Proc \ {p} : readRecord'[q] = readRecord[q]
  BY <1>1 DEF IInv, Typed, TypeOK
<1>8. Goto(p, pc[p])
  BY <1>1 DEF Goto, IInv, Typed, TypeOK
<1>9. pull'[d] = "merged" => Cleared(record[d])
  BY <1>1, <1>2 DEF IInv, Gate, ApplyVetted
<1> DEFINE l == pc[p]
<1>10. /\ l \in {"approve"} \cup Finishing /\ l = pc[p] /\ Goto(p, l)
       /\ l \in ReadsRecord
  BY <1>1, <1>8 DEF ReadsRecord, Finishing
<1> HIDE DEF l
<1> QED
  BY <1>1, <1>2, <1>4, <1>5, <1>6, <1>7, <1>9, <1>10, LateMove, AgentUntouched DEF Finishing

\* A step that leaves records, pull requests and the handlers of deployments alone.
LEMMA NoGateMoves ==
    ASSUME IInv, record' = record, pull' = pull,
           \A p \in Deployments \cup Approvals :
             pc'[p] = pc[p] /\ readRecord'[p] = readRecord[p],
           Typed', AllSourced
    PROVE  IInv'
<1>1. \A d \in Deployments : Gate(d)
  BY DEF IInv
<1>2. \A d \in Deployments : About(d) \subseteq Deployments \cup Approvals
  BY DEF About, Approvals
<1>3. \A d \in Deployments : Gate(d)'
  <2> SUFFICES ASSUME NEW d \in Deployments PROVE Gate(d)'
    OBVIOUS
  <2>1. Local(CHOOSE x : x \notin Deployments)
    BY <1>2 DEF Local
  <2>2. (CHOOSE x : x \notin Deployments) \notin Deployments
    BY NoSetContainsEverything
  <2> QED BY <2>1, <2>2, <1>1, Elsewhere
<1>4. \A d \in Deployments : StaysCleared(d)
  BY DEF StaysCleared
<1> QED BY <1>3, <1>4, LivesKept DEF IInv

LEMMA ReadAgentKeeps ==
    ASSUME IInv, NEW p \in Proc, ReadAgent(p) PROVE IInv'
<1>1. /\ readAgent' = [readAgent EXCEPT ![p] = agent]
      /\ UNCHANGED <<agent, record, repo, pull, pc, next, readRecord, finished, aborts>>
  BY DEF ReadAgent
<1>2. Typed'
  BY <1>1 DEF IInv, Typed, TypeOK, Labels, PlanPosition
<1>3. AllSourced
  <2>1. \A q \in Proc : readAgent'[q] = agent \/ readAgent'[q] = readAgent[q]
    BY <1>1 DEF IInv, Typed, TypeOK
  <2> QED BY <1>1, <2>1 DEF AllSourced, Sourced
<1> QED BY <1>1, <1>2, <1>3, NoGateMoves

LEMMA StartEditKeeps ==
    ASSUME IInv, NEW e \in Editors, StartEdit(e) PROVE IInv'
<1>1. /\ pc[e] = "idle" /\ pc' = [pc EXCEPT ![e] = "edit"]
      /\ UNCHANGED <<agent, record, repo, pull, next, readAgent, readRecord, finished, aborts>>
  BY DEF StartEdit, Goto
<1>2. Typed'
  BY <1>1, OfProc DEF IInv, Typed, TypeOK, Labels, Label, PlanPosition, ReadsAgent
<1>3. \A p \in Deployments \cup Approvals : pc'[p] = pc[p]
  BY <1>1, OfProc DEF IInv, Typed, TypeOK
<1> QED BY <1>1, <1>2, <1>3, NoGateMoves, AgentUntouched

LEMMA UpdateAgentKeeps ==
    ASSUME IInv, NEW p \in Proc, UpdateAgent(p) PROVE IInv'
<1> DEFINE w == [readAgent[p] EXCEPT !.status = "DRAFT"]
<1>1. /\ pc[p] = "edit" /\ PutAgent(p, w)
      /\ pc' = [pc EXCEPT ![p] = IF p \in Deployments THEN "done" ELSE "idle"]
      /\ UNCHANGED <<record, repo, pull, next, readRecord, finished, aborts>>
  BY DEF UpdateAgent, Stop, Goto
<1>2. p \in Editors /\ p \notin Deployments /\ p \notin Approvals
  BY <1>1, OfProc DEF IInv, Typed, Labels, Proc, Before, Finishing
<1>3. w \in AgentItem /\ w.live = readAgent[p].live
  BY <1>1, ItemRead DEF PutAgent, IInv, Typed
<1>4. AllSourced
  BY <1>1, <1>3, AgentPutBack DEF IInv, Typed
<1> HIDE DEF w
<1>5. Typed'
  BY <1>1, <1>2, <1>3, OfProc
     DEF IInv, Typed, TypeOK, Labels, Label, PlanPosition, PutAgent
<1>6. \A q \in Deployments \cup Approvals : pc'[q] = pc[q]
  BY <1>1, <1>2 DEF IInv, Typed, TypeOK
<1> QED BY <1>1, <1>4, <1>5, <1>6, NoGateMoves

LEMMA AbortKeeps ==
    ASSUME IInv, NEW p \in Proc, Abort(p) PROVE IInv'
<1> DEFINE l == IF p \in Deployments THEN "done" ELSE "idle"
<1>1. /\ pc[p] \notin {"idle", "done"} /\ aborts' = aborts + 1
      /\ repo' \in IF pc[p] = "git" THEN {repo, TRUE} ELSE {repo}
      /\ next' = [next EXCEPT ![p] = 1]
      /\ readAgent' = [readAgent EXCEPT ![p] = Unread]
      /\ readRecord' = [readRecord EXCEPT ![p] = Unread]
      /\ Goto(p, l) /\ UNCHANGED <<agent, record, pull, finished>>
  BY DEF Abort, Stop
<1>2. (p \in Deployments => l = "done") /\ (p \notin Deployments => l = "idle")
  OBVIOUS
<1> HIDE DEF l
<1>3. repo' \in BOOLEAN
  <2>1. repo' \in {repo, TRUE} BY <1>1
  <2> QED BY <2>1, ZenonT(30) DEF IInv, Typed, TypeOK
<1>4. pc'[p] = l /\ \A q \in Proc \ {p} : pc'[q] = pc[q]
  BY <1>1 DEF Goto, IInv, Typed, TypeOK
<1>5. Typed'
  <2>1. TypeOK' /\ Labels'
    BY <1>1, <1>2, <1>3, OfProc DEF IInv, Typed, TypeOK, Labels, Label, Goto
  <2>2. PlanPosition'
    BY <1>1, <1>2, <1>4 DEF IInv, Typed, TypeOK, PlanPosition
  <2> QED BY <2>1, <2>2 DEF Typed
<1>6. AllSourced
  <2>1. \A q \in Proc : readAgent'[q] = Unread \/ readAgent'[q] = readAgent[q]
    BY <1>1 DEF IInv, Typed, TypeOK
  <2> QED BY <1>1, <2>1 DEF AllSourced, Sourced
<1>7. readRecord'[p] = Unread /\ \A q \in Proc \ {p} : readRecord'[q] = readRecord[q]
  BY <1>1 DEF IInv, Typed, TypeOK
<1>8. CASE p \in Editors
  <2>1. p \notin Deployments /\ p \notin Approvals
    BY <1>8, OfProc
  <2>2. \A q \in Deployments \cup Approvals : pc'[q] = pc[q]
    BY <1>4, <2>1, OfProc
  <2> QED BY <1>1, <1>5, <1>6, <1>7, <2>1, <2>2, OfProc, NoGateMoves
<1>9. CASE pc[p] \in Finishing \cup {"approve", "notify"}
  <2> DEFINE d == Of(p)
  <2>1. /\ d \in Deployments /\ p \in About(d) /\ Late(d, p)
        /\ p = d <=> p \in Deployments
    BY <1>9, Whose DEF IInv
  <2>2. pull'[d] = "merged" => Cleared(record[d])
    BY <1>1, <2>1 DEF IInv, Gate, ApplyVetted
  <2> HIDE DEF d
  <2> QED
    BY <1>1, <1>2, <1>5, <1>6, <1>7, <2>1, <2>2, LateMove DEF Finishing
<1>10. CASE p \in Deployments /\ pc[p] \in Before \cup {"park"}
  <2>1. /\ record[p] \in DeploymentRecord /\ record[p].status = "PENDING"
        /\ readRecord[p] = Unread
    BY <1>1, <1>10, EarlyAlone, AboutOf
  <2>2. readRecord' = readRecord
    BY <1>1, <2>1 DEF IInv, Typed, TypeOK
  <2> DEFINE w == record[p]
  <2>3. Update(p, w)
    BY <1>1, <1>10 DEF Update, IInv, Typed, TypeOK
  <2> HIDE DEF w
  <2>4. w = record[p]
    BY DEF w
  <2>5. Goto(p, "done") /\ pull' = pull
    BY <1>1, <1>2, <1>10
  <2> QED BY <1>1, <1>5, <1>6, <1>10, <2>1, <2>2, <2>3, <2>4, <2>5, EarlyWrite DEF Before
<1>11. \/ p \in Editors
       \/ pc[p] \in Finishing \cup {"approve", "notify"}
       \/ p \in Deployments /\ pc[p] \in Before \cup {"park"}
  <2>1. CASE p \in Deployments
    BY <1>1, <2>1 DEF IInv, Typed, Labels
  <2>2. CASE p \in Approvals
    BY <1>1, <2>2 DEF IInv, Typed, Labels
  <2> QED BY <2>1, <2>2 DEF Proc
<1> QED BY <1>8, <1>9, <1>10, <1>11

(***************************************************************************)
(* The invariant and the theorems.                                         *)
(***************************************************************************)
LEMMA InitIInv == Init => IInv
<1> SUFFICES ASSUME Init PROVE IInv
  OBVIOUS
<1>1. Typed
  <2>1. agent \in AgentItem /\ repo \in BOOLEAN
    BY DEF Init, AgentItem
  <2>2. /\ record \in [Deployments -> DeploymentRecord \cup {Absent}]
        /\ pull \in [Deployments -> {"none", "open", "merged", "closed"}]
        /\ finished \in [Deployments -> Nat] /\ aborts \in Nat
    BY DEF Init
  <2>3. /\ pc \in [Proc -> Label] /\ next \in [Proc -> Nat \ {0}]
        /\ readAgent \in [Proc -> AgentItem \cup {Unread}]
        /\ readRecord \in [Proc -> DeploymentRecord \cup {Unread}]
    BY DEF Init, Label
  <2>4. Labels /\ PlanPosition
    BY OfProc DEF Init, Labels, PlanPosition, Before
  <2> QED BY <2>1, <2>2, <2>3, <2>4 DEF Typed, TypeOK
<1>2. ASSUME NEW d \in Deployments PROVE Gate(d)
  <2>1. /\ pc[d] = "idle" /\ ~Exists(record[d]) /\ pull[d] = "none"
        /\ record[d] = Absent
        /\ \A p \in About(d) : pc[p] = "idle" /\ readRecord[p] = Unread
    BY <1>2, AboutOf, RecordKinds DEF Init
  <2>2. \A a \in Approvers : pc[<<a, d>>] = "idle"
    BY <1>2, <2>1 DEF About
  <2>3. record[d].status # "PENDING_APPROVAL"
    BY <2>1 DEF Absent
  <2> QED
    BY <2>1, <2>2, <2>3
       DEF Gate, BeforeGate, ModeDecides, ParkedIsPassed, ApprovalIsDue, ReadKeepsGates,
           ApplyVetted, Passed, Touched, Finishing
<1>3. Lives
  BY DEF Init, Lives, LiveOk
<1> QED BY <1>1, <1>2, <1>3 DEF IInv

LEMMA StepIInv == IInv /\ [Next]_vars => IInv'
<1> SUFFICES ASSUME IInv, [Next]_vars PROVE IInv'
  OBVIOUS
<1>1. CASE UNCHANGED vars
  <2>1. Typed'
    BY <1>1 DEF vars, IInv, Typed, TypeOK, Labels, PlanPosition
  <2> QED BY <1>1, <2>1, NoGateMoves, AgentUntouched DEF vars
<1>2. ASSUME NEW d \in Deployments, CreateDeployment(d) PROVE IInv'
  BY <1>2, CreateKeeps
<1>3. ASSUME NEW a \in Approvers, NEW d \in Deployments, CheckApprovable(a, d) PROVE IInv'
  BY <1>3, CheckApprovableKeeps
<1>4. ASSUME NEW e \in Editors, StartEdit(e) PROVE IInv'
  BY <1>4, StartEditKeeps
<1>5. ASSUME NEW p \in Proc, Abort(p) PROVE IInv'
  BY <1>5, AbortKeeps
<1>6. ASSUME NEW p \in Proc, ReadAgent(p) \/ ReadRecord(p) \/ UpdateAgent(p) PROVE IInv'
  BY <1>6, ReadAgentKeeps, ReadRecordKeeps, UpdateAgentKeeps
<1>7. ASSUME NEW p \in Proc, FinishStep(p) PROVE IInv'
  BY <1>7, MergePullRequestKeeps, ApplyKeeps, MarkActiveKeeps, RecordActiveKeeps DEF FinishStep
<1>8. ASSUME NEW p \in Proc, ApproveStep(p) PROVE IInv'
  BY <1>8, RecordApprovalKeeps, NotifyApprovedKeeps DEF ApproveStep
<1>9. ASSUME NEW d \in Deployments, TriggerStep(d) PROVE IInv'
  BY <1>9, GitOperationsKeeps, TriggerFailsKeeps, PublishEventKeeps, RecordTriggerKeeps
     DEF TriggerStep
<1>10. ASSUME NEW d \in Deployments, RunStep(d) PROVE IInv'
  BY <1>10, RunKeeps, PolicyPassKeeps, PolicyBlockKeeps, MarkBlockedKeeps, RecordBlockedKeeps,
     ParkKeeps DEF RunStep
<1>11. ASSUME NEW p \in Proc, Step(p) PROVE IInv'
  BY <1>6, <1>7, <1>8, <1>9, <1>10, <1>11 DEF Step
<1> QED BY <1>1, <1>2, <1>3, <1>4, <1>5, <1>11 DEF Next

THEOREM Invariance == Spec => []IInv
BY InitIInv, StepIInv, PTL DEF Spec

\* The tables and what the processes hold keep their types, although every update
\* puts back whole items that may have become stale in between.
THEOREM TypeCorrect == Spec => []TypeOK
<1>1. IInv => TypeOK
  BY DEF IInv, Typed
<1> QED BY <1>1, Invariance, PTL

\* Nothing is applied and no pull request merged before both gates (_finish).
THEOREM ApplyVettedAlways == Spec => []ApplyIsVetted
<1>1. IInv => ApplyIsVetted
  BY DEF IInv, Gate, ApplyVetted, ApplyIsVetted, Vetted, Touched, Cleared, Passed, Exists
<1> QED BY <1>1, Invariance, PTL

\* The live version is that of a vetted deployment, however triggers, approvals,
\* blocks and edits overlap and whichever of their puts win.
THEOREM LiveVetted == Spec => []LiveIsVetted
<1>1. IInv => LiveIsVetted
  BY DEF IInv, Lives, LiveOk, LiveIsVetted, Vetted, Cleared, Passed, Exists
<1> QED BY <1>1, Invariance, PTL

(***************************************************************************)
(* The agent's status against its live version.                            *)
(***************************************************************************)
\* StatusMatchesLive of an agent item, also of one read and not yet put back.
Agrees(item) ==
    /\ item.status = "ACTIVE" => item.live # NoVersion
    /\ item.status = "BLOCKED" => item.live = NoVersion

AllAgree ==
    Agrees(agent) /\ \A p \in Proc : readAgent[p] # Unread => Agrees(readAgent[p])

LEMMA PutAgrees ==
    ASSUME TypeOK, AllAgree, NEW p \in Proc, NEW item, PutAgent(p, item), Agrees(item)
    PROVE  AllAgree'
<1>1. \A q \in Proc : readAgent'[q] # Unread => readAgent'[q] = readAgent[q]
  BY DEF PutAgent, TypeOK
<1>2. agent' = item
  BY DEF PutAgent
<1> QED BY <1>1, <1>2 DEF AllAgree, Agrees

LEMMA StepAgrees == IInv /\ AllAgree /\ [Next]_vars => AllAgree'
<1> SUFFICES ASSUME IInv, AllAgree, [Next]_vars PROVE AllAgree'
  OBVIOUS
<1>1. CASE agent' = agent /\ \A p \in Proc : readAgent'[p] \in {readAgent[p], agent, Unread}
  BY <1>1 DEF AllAgree, Agrees
<1>2. ASSUME NEW p \in Proc, NEW item, PutAgent(p, item), Agrees(item) PROVE AllAgree'
  BY <1>2, PutAgrees DEF IInv, Typed
<1>3. ASSUME NEW p \in Proc, NEW s \in {"DRAFT", "DEPLOYING"},
             PutAgent(p, [readAgent[p] EXCEPT !.status = s])
      PROVE  AllAgree'
  <2>1. Agrees([readAgent[p] EXCEPT !.status = s])
    BY <1>3, ItemRead DEF PutAgent, IInv, Typed, Agrees
  <2> QED BY <1>2, <1>3, <2>1
<1>4. ASSUME NEW d \in Deployments, MarkBlocked(d) PROVE AllAgree'
  <2> DEFINE s == IF readAgent[d].live # NoVersion THEN "ACTIVE" ELSE "BLOCKED"
             w == [readAgent[d] EXCEPT !.status = s]
  <2>1. PutAgent(d, w)
    BY <1>4 DEF MarkBlocked
  <2>2. w.status = s /\ w.live = readAgent[d].live
    BY <2>1, ItemRead, OfProc DEF PutAgent, IInv, Typed
  <2>3. Agrees(w)
    BY <2>2 DEF Agrees
  <2> QED BY <1>2, <2>1, <2>3, OfProc
<1>5. ASSUME NEW p \in Proc, MarkActive(p) PROVE AllAgree'
  <2>1. Of(p) \in Deployments /\ p \in About(Of(p)) /\ Late(Of(p), p)
    BY <1>5, Whose DEF MarkActive, IInv, Finishing
  <2>2. record[Of(p)].version # NoVersion
    BY <2>1, LatePassed, VersionsAssumption DEF DeploymentRecord
  <2>3. PutAgent(p, [status |-> "ACTIVE", live |-> record[Of(p)].version])
    BY <1>5 DEF MarkActive
  <2> QED BY <1>2, <2>2, <2>3 DEF Agrees
<1>6. ASSUME NEW p \in Proc, Step(p) PROVE AllAgree'
  <2>1. CASE MarkActive(p)
    BY <1>5, <2>1
  <2>2. CASE UpdateAgent(p)
    BY <1>3, <2>2 DEF UpdateAgent
  <2>3. CASE p \in Deployments /\ RecordTrigger(p)
    BY <1>3, <2>3 DEF RecordTrigger
  <2>4. CASE p \in Deployments /\ MarkBlocked(p)
    BY <1>4, <2>4
  <2>5. CASE ReadAgent(p)
    BY <1>1, <2>5 DEF ReadAgent, IInv, Typed, TypeOK
  <2>6. CASE ~(\/ MarkActive(p) \/ UpdateAgent(p) \/ ReadAgent(p)
               \/ p \in Deployments /\ (RecordTrigger(p) \/ MarkBlocked(p)))
    <3>1. agent' = agent /\ readAgent' = readAgent
      BY <1>6, <2>6
         DEF Step, FinishStep, ApproveStep, TriggerStep, RunStep, ReadRecord,
             MergePullRequest, Apply, RecordActive, RecordApproval, NotifyApproved,
             GitOperations, TriggerFails, PublishEvent, Run, PolicyPass, PolicyBlock,
             RecordBlocked, Park
    <3> QED BY <1>1, <3>1
  <2> QED BY <2>1, <2>2, <2>3, <2>4, <2>5, <2>6
<1>7. ASSUME NEW p \in Proc, Abort(p) PROVE AllAgree'
  BY <1>1, <1>7 DEF Abort, IInv, Typed, TypeOK
<1> QED
  BY <1>1, <1>6, <1>7 DEF Next, CreateDeployment, CheckApprovable, StartEdit, vars

\* The agent's status and live version agree: a blocked or lost deployment never
\* leaves it BLOCKED with a version in front of users, nor ACTIVE without one.
THEOREM StatusLive == Spec => []StatusMatchesLive
<1>1. Init => AllAgree
  BY DEF Init, AllAgree, Agrees
<1>2. AllAgree => StatusMatchesLive
  BY DEF AllAgree, Agrees, StatusMatchesLive
<1> QED BY <1>1, <1>2, StepAgrees, Invariance, PTL DEF Spec

(***************************************************************************)
(* Refinement of DeploymentContract, however requests overlap.             *)
(***************************************************************************)
\* A version that some deployment has made live, or none.
MadeLive(v) ==
    v # NoVersion => \E d \in Deployments : finished[d] > 0 /\ record[d].version = v

\* What was made live is cleared, and an agent item, also one read and not yet put
\* back, holds a version that was made live.
ContractInv ==
    /\ \A d \in Deployments : finished[d] > 0 => Cleared(record[d])
    /\ MadeLive(agent.live)
    /\ \A p \in Proc : readAgent[p] # Unread => MadeLive(readAgent[p].live)

\* The steps the contract tells apart: the record of d is created or updated, d makes
\* its version live, or the agent item is read or put back with a live version it had.
WritesRecord(d) ==
    /\ UNCHANGED <<agent, readAgent, finished>>
    /\ \A e \in Deployments \ {d} : record'[e] = record[e]
    /\ Exists(record'[d])
    /\ Exists(record[d]) =>
         /\ record'[d].version = record[d].version
         /\ Cleared(record[d]) => Cleared(record'[d])
    /\ ~Exists(record[d]) => record'[d].version \in Versions /\ ~Cleared(record'[d])

MakesLive(d) ==
    /\ Cleared(record[d]) /\ record' = record
    /\ finished' = [finished EXCEPT ![d] = @ + 1]
    /\ agent'.live = record[d].version
    /\ \A p \in Proc : readAgent'[p] # Unread => readAgent'[p] = readAgent[p]

HadLive(v) ==
    v = agent.live \/ \E p \in Proc : readAgent[p] # Unread /\ v = readAgent[p].live
MovesAgent ==
    /\ UNCHANGED <<record, finished>>
    /\ HadLive(agent'.live)
    /\ \A p \in Proc : readAgent'[p] # Unread => HadLive(readAgent'[p].live)

\* An update of a record leaves its version alone.
LEMMA VersionStays ==
    ASSUME NEW r \in DeploymentRecord, NEW s, NEW x, NEW y
    PROVE  /\ WithStage(r, s, x).version = r.version /\ WithStage(r, s, x).status = r.status
           /\ WithStatus(r, s, x, y).version = r.version /\ WithStatus(r, s, x, y).status = y
BY DEF WithStage, WithStatus, DeploymentRecord

\* Before the gate nothing is cleared, so whatever is written there, is written freely.
LEMMA EarlyWrites ==
    ASSUME IInv, NEW d \in Deployments,
           TriggerFails(d) \/ Run(d) \/ PolicyPass(d) \/ RecordBlocked(d) \/ Park(d)
    PROVE  WritesRecord(d)
<1>1. pc[d] \in (Before \cup {"park"}) \ {"idle"}
  BY DEF TriggerFails, Run, PolicyPass, RecordBlocked, Park, Before
<1>2. record[d] \in DeploymentRecord /\ Exists(record[d]) /\ ~record[d].approved
  BY <1>1, EarlyAlone
<1>3. ~Cleared(record[d])
  <2>1. pc[d] # "park" => ~Passed(record[d])
    BY <1>1, EarlyAlone
  <2>2. pc[d] = "park" => record[d].mode = "manual"
    BY DEF IInv, Gate, ModeDecides
  <2> QED BY <1>2, <2>1, <2>2 DEF Cleared
<1>4. \E s, x : \/ Update(d, WithStage(record[d], s, x))
                \/ \E y \in RecordStatus : Update(d, WithStatus(record[d], s, x, y))
  BY DEF TriggerFails, Run, PolicyPass, RecordBlocked, Park, RecordStatus, Settled
<1>5. UNCHANGED <<agent, readAgent, finished>>
  BY DEF TriggerFails, Run, PolicyPass, RecordBlocked, Park
<1>6. \E w : /\ Update(d, w) /\ w.version = record[d].version
             /\ (w.status = record[d].status \/ w.status \in RecordStatus)
  BY <1>2, <1>4, VersionStays
<1>7. PICK w : /\ Update(d, w) /\ w.version = record[d].version
               /\ (w.status = record[d].status \/ w.status \in RecordStatus)
  BY <1>6
<1>8. record'[d] = w /\ \A e \in Deployments \ {d} : record'[e] = record[e]
  BY <1>7 DEF Update, IInv, Typed, TypeOK
<1>9. Exists(w)
  BY <1>2, <1>7 DEF Exists, RecordStatus, Settled
<1> QED BY <1>2, <1>3, <1>5, <1>7, <1>8, <1>9 DEF WritesRecord

\* Past the gate a record is put back cleared, however stale it is.
LEMMA LateWrites ==
    ASSUME IInv, NEW p \in Proc, Apply(p) \/ RecordActive(p) \/ RecordApproval(p)
    PROVE  Of(p) \in Deployments /\ WritesRecord(Of(p))
<1> DEFINE d == Of(p)
           r == readRecord[p]
<1>1. r # Unread /\ pc[p] \in Finishing \cup {"approve"}
  BY DEF Apply, RecordActive, RecordApproval, PutRecord, Finishing
<1>2. /\ d \in Deployments /\ p \in About(d) /\ Late(d, p) /\ r \in DeploymentRecord /\ Passed(r)
      /\ r.version = record[d].version
      /\ pc[p] \in Finishing => Cleared(r)
  BY <1>1, RecordRead
<1>3. Exists(record[d])
  BY <1>2, LatePassed DEF Passed
<1> HIDE DEF d, r
<1>4. ASSUME Apply(p) PROVE \E w : PutRecord(p, w) /\ Cleared(w) /\ w.version = r.version
  <2>1. PICK x \in FinishPlan[next[p]][2] :
           PutRecord(p, WithStage(r, FinishPlan[next[p]][1], x))
    BY <1>4 DEF Apply, r
  <2>2. pc[p] = "apply" /\ next[p] \in 1..Len(FinishPlan)
    BY <1>4 DEF Apply, IInv, Typed, PlanPosition
  <2> DEFINE s == FinishPlan[next[p]][1]
  <2>3. s \in Stage \ {"POLICY_CHECK"} /\ x \in StageStatus
    BY <2>1, <2>2, PlanEntry DEF Stage
  <2> HIDE DEF s
  <2>4. /\ WithStage(r, s, x).version = r.version /\ WithStage(r, s, x).mode = r.mode
        /\ WithStage(r, s, x).approved = r.approved /\ WithStage(r, s, x).status = r.status
        /\ WithStage(r, s, x).stages["POLICY_CHECK"] = r.stages["POLICY_CHECK"]
    <3>1. s \in Stage /\ "POLICY_CHECK" \in Stage \ {s}
      BY <2>3 DEF Stage
    <3> QED BY <1>2, <2>3, <3>1, StageWritten
  <2>5. Cleared(r)
    BY <1>2, <2>2 DEF Finishing
  <2>6. Cleared(WithStage(r, s, x))
    BY <2>4, <2>5 DEF Cleared, Passed, Exists
  <2> QED BY <2>1, <2>4, <2>6 DEF s
<1>5. ASSUME RecordActive(p) PROVE \E w : PutRecord(p, w) /\ Cleared(w) /\ w.version = r.version
  <2> DEFINE w == WithStatus(r, "HEALTH_CHECK", "PASSED", "ACTIVE")
  <2>1. PutRecord(p, w) /\ pc[p] = "complete"
    BY <1>5 DEF RecordActive, r
  <2>2. /\ w.status = "ACTIVE" /\ w.version = r.version /\ w.mode = r.mode
        /\ w.approved = r.approved /\ w.stages["POLICY_CHECK"] = r.stages["POLICY_CHECK"]
    <3>1. /\ "HEALTH_CHECK" \in Stage /\ "POLICY_CHECK" \in Stage \ {"HEALTH_CHECK"}
          /\ "PASSED" \in StageStatus /\ "ACTIVE" \in RecordStatus
      BY DEF Stage, StageStatus, RecordStatus, Settled
    <3> QED BY <1>2, <3>1, StatusWritten
  <2>3. Cleared(r)
    BY <1>2, <2>1 DEF Finishing
  <2> HIDE DEF w
  <2>4. Cleared(w)
    BY <2>2, <2>3 DEF Cleared, Passed, Exists
  <2> QED BY <2>1, <2>2, <2>4
<1>6. ASSUME RecordApproval(p) PROVE \E w : PutRecord(p, w) /\ Cleared(w) /\ w.version = r.version
  <2> DEFINE w == [r EXCEPT !.approved = TRUE]
  <2>1. PutRecord(p, w)
    BY <1>6 DEF RecordApproval, r
  <2>2. w.status = r.status /\ w.version = r.version /\ w.approved = TRUE /\ w.stages = r.stages
    BY <1>2, ApprovalWritten
  <2> HIDE DEF w
  <2>3. Cleared(w)
    BY <1>2, <2>2 DEF Cleared, Passed, Exists
  <2> QED BY <2>1, <2>2, <2>3
<1>7. PICK w : PutRecord(p, w) /\ Cleared(w) /\ w.version = r.version
  BY <1>4, <1>5, <1>6
<1>8. record' = [record EXCEPT ![d] = w]
  BY <1>7 DEF PutRecord, d
<1>9. record'[d] = w /\ \A e \in Deployments \ {d} : record'[e] = record[e]
  BY <1>2, <1>8 DEF IInv, Typed, TypeOK
<1>10. UNCHANGED <<agent, readAgent, finished>>
  BY DEF Apply, RecordActive, RecordApproval
<1> QED BY <1>2, <1>3, <1>7, <1>9, <1>10 DEF WritesRecord, Cleared, Passed, d

\* An item is put back with the live version that was read with it.
LEMMA PutsBack ==
    ASSUME IInv, NEW p \in Proc,
           UpdateAgent(p) \/ (p \in Deployments /\ (RecordTrigger(p) \/ MarkBlocked(p)))
    PROVE  MovesAgent
<1>1. PICK s \in {"DRAFT", "DEPLOYING", "ACTIVE", "BLOCKED"} :
         PutAgent(p, [readAgent[p] EXCEPT !.status = s])
  BY DEF UpdateAgent, RecordTrigger, MarkBlocked
<1>2. UNCHANGED <<record, finished>>
  BY DEF UpdateAgent, RecordTrigger, MarkBlocked
<1>3. readAgent[p] # Unread /\ agent'.live = readAgent[p].live
  BY <1>1, ItemRead DEF PutAgent, IInv, Typed
<1>4. \A q \in Proc : readAgent'[q] # Unread => readAgent'[q] = readAgent[q]
  BY <1>1 DEF PutAgent, IInv, Typed, TypeOK
<1> QED BY <1>2, <1>3, <1>4 DEF MovesAgent, HadLive

LEMMA StepKinds ==
    ASSUME IInv, [Next]_vars
    PROVE  MovesAgent \/ \E d \in Deployments : WritesRecord(d) \/ MakesLive(d)
<1>1. CASE /\ UNCHANGED <<agent, record, finished>>
           /\ \A p \in Proc : readAgent'[p] \in {readAgent[p], agent, Unread}
  BY <1>1 DEF MovesAgent, HadLive
<1>2. ASSUME NEW d \in Deployments, CreateDeployment(d) PROVE WritesRecord(d)
  <2>1. PICK v \in Versions, m \in Modes : Update(d, NewRecord(v, m))
    BY <1>2 DEF CreateDeployment
  <2> DEFINE w == NewRecord(v, m)
  <2>2. w \in DeploymentRecord /\ w.version = v /\ w.stages["POLICY_CHECK"] = "PENDING"
    BY RecordCreated DEF Stage
  <2>3. ~Exists(record[d])
    BY <1>2 DEF CreateDeployment, IInv, Gate, BeforeGate
  <2> HIDE DEF w
  <2>4. record'[d] = w /\ \A e \in Deployments \ {d} : record'[e] = record[e]
    BY <2>1 DEF w, Update, IInv, Typed, TypeOK
  <2>5. Exists(w) /\ ~Cleared(w)
    BY <2>2, RecordKinds DEF Cleared, Passed
  <2> QED BY <1>2, <2>2, <2>3, <2>4, <2>5 DEF WritesRecord, CreateDeployment
<1>3. ASSUME NEW p \in Proc, MarkActive(p) PROVE \E d \in Deployments : MakesLive(d)
  <2> DEFINE d == Of(p)
  <2>1. d \in Deployments /\ p \in About(d) /\ pc[p] = "activate"
    BY <1>3, Whose DEF MarkActive, IInv, Finishing
  <2>2. Cleared(record[d])
    BY <2>1, FinishingIsCleared DEF IInv, Finishing
  <2>3. /\ PutAgent(p, [status |-> "ACTIVE", live |-> record[d].version])
        /\ finished' = [finished EXCEPT ![d] = @ + 1] /\ record' = record
    BY <1>3 DEF MarkActive
  <2> HIDE DEF d
  <2>4. \A q \in Proc : readAgent'[q] # Unread => readAgent'[q] = readAgent[q]
    BY <2>3 DEF PutAgent, IInv, Typed, TypeOK
  <2>5. agent'.live = record[d].version
    BY <2>3 DEF PutAgent
  <2> QED BY <2>1, <2>2, <2>3, <2>4, <2>5 DEF MakesLive
<1>4. ASSUME NEW p \in Proc, Step(p)
      PROVE  MovesAgent \/ \E d \in Deployments : WritesRecord(d) \/ MakesLive(d)
  <2>1. CASE MarkActive(p)
    BY <1>3, <2>1
  <2>2. CASE UpdateAgent(p) \/ (p \in Deployments /\ (RecordTrigger(p) \/ MarkBlocked(p)))
    BY <2>2, PutsBack
  <2>3. CASE Apply(p) \/ RecordActive(p) \/ RecordApproval(p)
    BY <2>3, LateWrites
  <2>4. CASE p \in Deployments
             /\ (TriggerFails(p) \/ Run(p) \/ PolicyPass(p) \/ RecordBlocked(p) \/ Park(p))
    BY <2>4, EarlyWrites
  <2>5. CASE ReadAgent(p)
    BY <1>1, <2>5 DEF ReadAgent, IInv, Typed, TypeOK
  <2>6. CASE \/ ReadRecord(p) \/ MergePullRequest(p) \/ NotifyApproved(p)
             \/ GitOperations(p) \/ PublishEvent(p) \/ PolicyBlock(p)
    BY <1>1, <2>6 DEF ReadRecord, MergePullRequest, NotifyApproved, GitOperations, PublishEvent,
       PolicyBlock
  <2> QED BY <1>4, <2>1, <2>2, <2>3, <2>4, <2>5, <2>6
          DEF Step, FinishStep, ApproveStep, TriggerStep, RunStep
<1>5. ASSUME NEW p \in Proc, Abort(p) PROVE MovesAgent
  <2>1. /\ UNCHANGED <<agent, record, finished>>
        /\ \A q \in Proc : readAgent'[q] = readAgent[q] \/ readAgent'[q] = Unread
    BY <1>5 DEF Abort, IInv, Typed, TypeOK
  <2> QED BY <2>1 DEF MovesAgent, HadLive
<1>6. CASE \/ UNCHANGED vars
           \/ \E a \in Approvers, d \in Deployments : CheckApprovable(a, d)
           \/ \E e \in Editors : StartEdit(e)
  <2>1. UNCHANGED <<agent, record, finished, readAgent>>
    BY <1>6 DEF CheckApprovable, StartEdit, vars
  <2> QED BY <1>1, <2>1
<1> QED BY <1>2, <1>4, <1>5, <1>6 DEF Next

\* Versions and clearances of what was made live stay, and no other becomes live.
LEMMA ContractStep == IInv /\ ContractInv /\ [Next]_vars => ContractInv'
<1> SUFFICES ASSUME IInv, ContractInv, [Next]_vars PROVE ContractInv'
  OBVIOUS
<1>1. CASE MovesAgent
  BY <1>1 DEF MovesAgent, HadLive, ContractInv, MadeLive
<1>2. ASSUME NEW d \in Deployments, WritesRecord(d) PROVE ContractInv'
  <2>1. \A e \in Deployments : finished[e] > 0 =>
          Cleared(record'[e]) /\ record'[e].version = record[e].version
    BY <1>2 DEF WritesRecord, ContractInv, Cleared, Passed
  <2>2. UNCHANGED <<agent, readAgent, finished>>
    BY <1>2 DEF WritesRecord
  <2> QED BY <2>1, <2>2 DEF ContractInv, MadeLive
<1>3. ASSUME NEW d \in Deployments, MakesLive(d) PROVE ContractInv'
  <2>1. /\ finished'[d] > 0 /\ \A e \in Deployments : finished[e] > 0 => finished'[e] > 0
        /\ \A e \in Deployments \ {d} : finished'[e] = finished[e]
    BY <1>3 DEF MakesLive, IInv, Typed, TypeOK
  <2> QED BY <1>3, <2>1 DEF MakesLive, ContractInv, MadeLive
<1> QED BY <1>1, <1>2, <1>3, StepKinds

\* The triggers, the approvals, the simulated pipelines and the edits of one agent, all
\* of them at once, implement the contract: a deployment is applied only once it is
\* cleared, keeps its version, and only such a version, or none, is ever live.
THEOREM Refinement == Spec => ImplementsContract
<1> DEFINE status == [d \in Deployments |->
                        IF finished[d] > 0 THEN "applied"
                        ELSE IF Vetted(d) THEN "cleared"
                        ELSE IF record[d].status # "absent" THEN "requested" ELSE "absent"]
           version == [d \in Deployments |->
                         IF record[d].status # "absent" THEN record[d].version ELSE NoVersion]
<1>1. Init => ContractInv /\ Contract!Init
  <2> SUFFICES ASSUME Init PROVE ContractInv /\ Contract!Init
    OBVIOUS
  <2>1. \A d \in Deployments : finished[d] = 0 /\ record[d].status = "absent"
    BY DEF Init, Absent
  <2>2. agent.live = NoVersion /\ \A p \in Proc : readAgent[p] = Unread
    BY DEF Init
  <2>3. status = [d \in Deployments |-> "absent"]
    BY <2>1 DEF Vetted
  <2>4. version = [d \in Deployments |-> NoVersion]
    BY <2>1
  <2>5. Contract!Init
    BY <2>2, <2>3, <2>4 DEF Contract!Init
  <2> QED BY <2>1, <2>2, <2>5 DEF ContractInv, MadeLive
<1>2. IInv /\ ContractInv /\ [Next]_vars => [Contract!Next]_<<status, version, agent.live>>
  <2> SUFFICES ASSUME IInv, ContractInv, [Next]_vars
               PROVE  [Contract!Next]_<<status, version, agent.live>>
    OBVIOUS
  <2>1. \A d \in Deployments :
          status[d] = IF finished[d] > 0 THEN "applied" ELSE IF Cleared(record[d]) THEN "cleared"
                      ELSE IF Exists(record[d]) THEN "requested" ELSE "absent"
    BY DEF Vetted, Cleared, Passed, Exists
  <2>2. \A d \in Deployments :
          status'[d] = IF finished'[d] > 0 THEN "applied"
                       ELSE IF Cleared(record'[d]) THEN "cleared"
                       ELSE IF Exists(record'[d]) THEN "requested" ELSE "absent"
    BY DEF Vetted, Cleared, Passed, Exists
  <2>3. /\ \A d \in Deployments :
             version[d] = IF Exists(record[d]) THEN record[d].version ELSE NoVersion
        /\ \A d \in Deployments :
             version'[d] = IF Exists(record'[d]) THEN record'[d].version ELSE NoVersion
    BY DEF Exists
  <2>4. /\ status = [d \in Deployments |-> status[d]] /\ status' = [d \in Deployments |-> status'[d]]
        /\ version = [d \in Deployments |-> version[d]]
        /\ version' = [d \in Deployments |-> version'[d]]
    OBVIOUS
  <2>5. finished \in [Deployments -> Nat] /\ agent.live \in Versions \cup {NoVersion}
    BY DEF IInv, Typed, TypeOK, AgentItem
  <2> HIDE DEF status, version
  <2>6. CASE MovesAgent
    <3>1. status' = status /\ version' = version
      BY <2>1, <2>2, <2>3, <2>4, <2>6 DEF MovesAgent
    <3>2. MadeLive(agent'.live)
      BY <2>6 DEF MovesAgent, HadLive, ContractInv
    <3>3. CASE agent'.live = NoVersion
      BY <3>1, <3>3 DEF Contract!Next, Contract!Forget, status, version
    <3>4. CASE agent'.live # NoVersion
      <4>1. PICK d \in Deployments : finished[d] > 0 /\ record[d].version = agent'.live
        BY <3>2, <3>4 DEF MadeLive
      <4>2. status[d] = "applied" /\ version[d] = agent'.live
        BY <2>1, <2>3, <4>1 DEF ContractInv, Cleared, Passed
      <4> QED BY <3>1, <4>2 DEF Contract!Next, Contract!GoLive, status, version
    <3> QED BY <3>3, <3>4
  <2>7. ASSUME NEW d \in Deployments, WritesRecord(d)
        PROVE  [Contract!Next]_<<status, version, agent.live>>
    <3>1. agent' = agent /\ finished' = finished
      BY <2>7 DEF WritesRecord
    <3>2. \A e \in Deployments \ {d} : status'[e] = status[e] /\ version'[e] = version[e]
      BY <2>1, <2>2, <2>3, <2>7 DEF WritesRecord
    <3>3. CASE ~Exists(record[d])
      <4>1. status[d] = "absent" /\ status'[d] = "requested" /\ version'[d] \in Versions
        BY <2>1, <2>2, <2>3, <2>5, <2>7, <3>3 DEF WritesRecord, ContractInv, Cleared, Passed
      <4>2. /\ status' = [status EXCEPT ![d] = "requested"]
            /\ version' = [version EXCEPT ![d] = version'[d]]
        BY <2>4, <3>2, <4>1
      <4> QED BY <3>1, <4>1, <4>2 DEF Contract!Next, Contract!Request, Contract!Goes, status, version
    <3>4. CASE Exists(record[d])
      <4>1. version' = version
        BY <2>3, <2>4, <2>7, <3>2, <3>4 DEF WritesRecord
      <4>2. \/ status'[d] = status[d]
            \/ status[d] = "requested" /\ status'[d] = "cleared"
        BY <2>1, <2>2, <2>7, <3>1, <3>4 DEF WritesRecord
      <4>3. \/ status' = status
            \/ status[d] = "requested" /\ status' = [status EXCEPT ![d] = "cleared"]
        BY <2>4, <3>2, <4>2
      <4> QED BY <3>1, <4>1, <4>3 DEF Contract!Next, Contract!Clear, Contract!Goes, status, version
    <3> QED BY <3>3, <3>4
  <2>8. ASSUME NEW d \in Deployments, MakesLive(d)
        PROVE  [Contract!Next]_<<status, version, agent.live>>
    <3>1. /\ \A e \in Deployments \ {d} : finished'[e] = finished[e]
          /\ finished'[d] > 0 /\ record' = record /\ Cleared(record[d])
      BY <2>5, <2>8 DEF MakesLive
    <3>2. version' = version /\ \A e \in Deployments \ {d} : status'[e] = status[e]
      BY <2>1, <2>2, <2>3, <2>4, <3>1
    <3>3. status'[d] = "applied" /\ version[d] = agent'.live
      BY <2>2, <2>3, <2>8, <3>1 DEF MakesLive, Cleared, Passed
    <3>4. CASE finished[d] > 0
      <4>1. status' = status /\ status[d] = "applied"
        BY <2>1, <2>4, <3>2, <3>3, <3>4
      <4> QED BY <3>2, <3>3, <4>1 DEF Contract!Next, Contract!GoLive, status, version
    <3>5. CASE ~(finished[d] > 0)
      <4>1. status[d] = "cleared" /\ status' = [status EXCEPT ![d] = "applied"]
        BY <2>1, <2>4, <3>1, <3>2, <3>3, <3>5
      <4> QED BY <3>2, <3>3, <4>1 DEF Contract!Next, Contract!Apply, Contract!Goes, status, version
    <3> QED BY <3>4, <3>5
  <2> QED BY <2>6, <2>7, <2>8, StepKinds
<1> QED BY <1>1, <1>2, ContractStep, Invariance, PTL DEF Spec, ImplementsContract, Contract!Spec

(***************************************************************************)
(* Requests that do not overlap.                                           *)
(***************************************************************************)
Busy(p) == pc[p] \notin {"idle", "done"}
Only(p) == \A q \in Proc \ {p} : ~Busy(q)

\* The one busy process holds items as the tables have them.
Fresh(p) ==
    /\ readAgent[p] # Unread => pc[p] \in ReadsAgent /\ readAgent[p] = agent
    /\ readRecord[p] # Unread => pc[p] \in ReadsRecord /\ readRecord[p] = record[Of(p)]

\* The labels before the pipeline of a deployment has made its version live.
Unfinished == {"git", "publish", "stamp", "run", "policy", "block", "blocked", "park",
               "approve", "notify", "merge", "apply", "activate"}

OpenOnce(d, p) ==
    /\ pc[p] \in Unfinished => finished[d] = 0
    /\ Busy(p) => record[d].status \notin Settled

AtMostOnce(d) ==
    /\ finished[d] <= 1
    /\ pc[d] = "idle" \/ Approvable(d) => finished[d] = 0

SInv ==
    /\ \A p, q \in Proc : Busy(p) /\ Busy(q) => p = q
    /\ \A p \in Proc : Fresh(p)
    /\ \A d \in Deployments : AtMostOnce(d) /\ \A p \in About(d) : OpenOnce(d, p)

\* The processes but p, and what p is not about, are as before.
Frame(p) ==
    /\ \A q \in Proc \ {p} :
         pc'[q] = pc[q] /\ readAgent'[q] = readAgent[q] /\ readRecord'[q] = readRecord[q]
    /\ \A d \in Deployments :
         p \notin About(d) => record'[d] = record[d] /\ finished'[d] = finished[d]

LEMMA SerialAssemble ==
    ASSUME IInv, SInv, NEW p \in Proc, Only(p), Frame(p), Fresh(p)',
           \A d \in Deployments : p \in About(d) => AtMostOnce(d)' /\ OpenOnce(d, p)'
    PROVE  SInv'
<1>1. \A q \in Proc \ {p} : ~Busy(q) /\ ~Busy(q)'
  BY DEF Only, Frame, Busy
<1>2. \A q, r \in Proc : Busy(q)' /\ Busy(r)' => q = r
  BY <1>1
<1>3. ASSUME NEW q \in Proc, q # p PROVE Fresh(q)'
  <2>1. readAgent[q] = Unread /\ readRecord[q] = Unread
    BY <1>1, <1>3 DEF SInv, Fresh, Busy, ReadsAgent, ReadsRecord
  <2> QED BY <2>1, <1>3 DEF Frame, Fresh
<1>4. ASSUME NEW d \in Deployments, NEW q \in About(d), q # p PROVE OpenOnce(d, q)'
  <2>1. ~Busy(q)'
    BY <1>1, <1>4, AboutOf
  <2> QED BY <2>1 DEF OpenOnce, Busy, Unfinished
<1>5. ASSUME NEW d \in Deployments, p \notin About(d) PROVE AtMostOnce(d)'
  <2>1. pc'[d] = pc[d] /\ record'[d] = record[d] /\ finished'[d] = finished[d]
    BY <1>5, AboutOf DEF Frame
  <2> QED BY <2>1 DEF SInv, AtMostOnce, Approvable
<1> QED BY <1>2, <1>3, <1>4, <1>5 DEF SInv

\* Every step of a started process keeps to its own deployment.
LEMMA StepFrame ==
    ASSUME IInv, NEW p \in Proc, Step(p) \/ Abort(p)
    PROVE  Frame(p) /\ Busy(p)
<1>1. CASE ReadAgent(p)
  BY <1>1 DEF ReadAgent, Frame, Busy, ReadsAgent, IInv, Typed, TypeOK
<1>2. CASE ReadRecord(p)
  BY <1>2 DEF ReadRecord, Frame, Busy, ReadsRecord, IInv, Typed, TypeOK
<1>3. CASE UpdateAgent(p)
  BY <1>3 DEF UpdateAgent, Stop, Goto, PutAgent, Frame, Busy, IInv, Typed, TypeOK
<1>4. CASE Abort(p)
  BY <1>4 DEF Abort, Stop, Goto, Frame, Busy, IInv, Typed, TypeOK
<1>5. ASSUME p \in Deployments, TriggerStep(p) PROVE Frame(p) /\ Busy(p)
  <2>1. CASE GitOperations(p) \/ PublishEvent(p)
    BY <1>5, <2>1 DEF GitOperations, PublishEvent, Goto, Frame, Busy, IInv, Typed, TypeOK
  <2>2. CASE TriggerFails(p)
    <3>1. \E w : record' = [record EXCEPT ![p] = w]
      BY <2>2 DEF TriggerFails, Update
    <3>2. \E l : pc' = [pc EXCEPT ![p] = l]
      BY <2>2 DEF TriggerFails, Stop, Goto
    <3> QED BY <1>5, <2>2, <3>1, <3>2, AboutOf DEF TriggerFails, Frame, Busy, IInv, Typed, TypeOK
  <2>3. CASE RecordTrigger(p)
    BY <1>5, <2>3 DEF RecordTrigger, Goto, PutAgent, Frame, Busy, IInv, Typed, TypeOK
  <2> QED BY <1>5, <2>1, <2>2, <2>3 DEF TriggerStep
<1>6. ASSUME p \in Deployments, RunStep(p) PROVE Frame(p) /\ Busy(p)
  <2>1. CASE Run(p)
    <3>1. \E w : record' = [record EXCEPT ![p] = w]
      BY <2>1 DEF Run, Update
    <3>2. \A q \in Proc \ {p} : pc'[q] = pc[q]
      BY <2>1 DEF Run, NextInPlan, Goto, IInv, Typed, TypeOK
    <3> QED BY <2>1, <3>1, <3>2, <1>6, AboutOf DEF Run, Frame, Busy, IInv, Typed, TypeOK
  <2>2. CASE PolicyPass(p) \/ PolicyBlock(p) \/ MarkBlocked(p)
    BY <2>2, <1>6, AboutOf
       DEF PolicyPass, PolicyBlock, MarkBlocked, Update, Stop, Goto, PutAgent, Frame, Busy,
           IInv, Typed, TypeOK
  <2>3. CASE RecordBlocked(p) \/ Park(p)
    BY <2>3, <1>6, AboutOf
       DEF RecordBlocked, Park, Update, Stop, Goto, Frame, Busy, IInv, Typed, TypeOK
  <2> QED BY <1>6, <2>1, <2>2, <2>3 DEF RunStep
<1>7. ASSUME pc[p] \in Finishing \cup {"approve", "notify"}
      PROVE  \A d \in Deployments : p \notin About(d) => d # Of(p)
  BY <1>7, Whose DEF IInv
<1>8. ASSUME FinishStep(p) PROVE Frame(p) /\ Busy(p)
  <2>1. pc[p] \in Finishing
    BY <1>8 DEF FinishStep, MergePullRequest, Apply, MarkActive, RecordActive, Finishing
  <2>2. \A d \in Deployments : p \notin About(d) => d # Of(p)
    BY <1>7, <2>1
  <2>3. CASE Apply(p)
    <3>1. /\ \E w : record' = [record EXCEPT ![Of(p)] = w]
          /\ readRecord' = [readRecord EXCEPT ![p] = Unread]
      BY <2>3 DEF Apply, PutRecord
    <3>2. \A q \in Proc \ {p} : pc'[q] = pc[q]
      BY <2>3 DEF Apply, NextInPlan, Goto, IInv, Typed, TypeOK
    <3> QED BY <2>1, <2>2, <2>3, <3>1, <3>2 DEF Apply, Frame, Busy, Finishing, IInv, Typed, TypeOK
  <2>4. CASE MergePullRequest(p) \/ MarkActive(p) \/ RecordActive(p)
    BY <2>1, <2>2, <2>4
       DEF MergePullRequest, MarkActive, RecordActive, PutRecord, Stop, Goto, PutAgent, Frame,
           Busy, IInv, Typed, TypeOK
  <2> QED BY <1>8, <2>3, <2>4 DEF FinishStep
<1>9. ASSUME ApproveStep(p) PROVE Frame(p) /\ Busy(p)
  <2>1. \A d \in Deployments : p \notin About(d) => d # Of(p)
    BY <1>7, <1>9 DEF ApproveStep, RecordApproval, NotifyApproved
  <2> QED
    BY <1>9, <2>1
       DEF ApproveStep, RecordApproval, NotifyApproved, PutRecord, Goto, Frame, Busy, IInv,
           Typed, TypeOK
<1> QED BY <1>1, <1>2, <1>3, <1>4, <1>5, <1>6, <1>8, <1>9 DEF Step

\* What a process may hold after a step other than a read.
LEMMA StepFresh ==
    ASSUME IInv, NEW p \in Proc, Fresh(p), Step(p) \/ Abort(p)
    PROVE  Fresh(p)'
<1>1. /\ pc[p] \notin ReadsAgent => readAgent[p] = Unread
      /\ pc[p] \notin ReadsRecord => readRecord[p] = Unread
  BY DEF Fresh
<1>2. ReadsAgent \cap ReadsRecord = {}
  BY DEF ReadsAgent, ReadsRecord
<1>3. CASE ReadAgent(p)
  BY <1>1, <1>2, <1>3 DEF ReadAgent, Fresh, IInv, Typed, TypeOK
<1>4. CASE ReadRecord(p)
  BY <1>1, <1>2, <1>4 DEF ReadRecord, Fresh, IInv, Typed, TypeOK
<1>5. ASSUME readAgent'[p] = Unread, readRecord'[p] = Unread PROVE Fresh(p)'
  BY <1>5 DEF Fresh
<1>6. CASE Abort(p)
  BY <1>5, <1>6 DEF Abort, IInv, Typed, TypeOK
<1>7. CASE UpdateAgent(p) \/ MarkActive(p) \/ RecordTrigger(p) \/ MarkBlocked(p)
  BY <1>1, <1>5, <1>7
     DEF UpdateAgent, MarkActive, RecordTrigger, MarkBlocked, PutAgent, ReadsRecord, IInv,
         Typed, TypeOK
<1>8. CASE RecordActive(p) \/ RecordApproval(p) \/ Apply(p)
  <2>1. readRecord' = [readRecord EXCEPT ![p] = Unread] /\ readAgent' = readAgent
    BY <1>8 DEF RecordActive, RecordApproval, Apply, PutRecord
  <2>2. pc[p] \notin ReadsAgent
    BY <1>8 DEF RecordActive, RecordApproval, Apply, ReadsAgent
  <2> QED BY <1>1, <1>5, <2>1, <2>2 DEF IInv, Typed, TypeOK
<1>9. ASSUME \/ MergePullRequest(p) \/ NotifyApproved(p) \/ GitOperations(p)
             \/ TriggerFails(p) \/ PublishEvent(p) \/ Run(p) \/ PolicyPass(p)
             \/ PolicyBlock(p) \/ RecordBlocked(p) \/ Park(p)
      PROVE  Fresh(p)'
  <2>1. /\ pc[p] \notin ReadsAgent \cup ReadsRecord
        /\ readAgent' = readAgent /\ readRecord' = readRecord
    BY <1>9
       DEF MergePullRequest, NotifyApproved, GitOperations, TriggerFails, PublishEvent, Run,
           PolicyPass, PolicyBlock, RecordBlocked, Park, ReadsAgent, ReadsRecord
  <2> QED BY <1>1, <1>5, <2>1
<1> QED
  BY <1>3, <1>4, <1>6, <1>7, <1>8, <1>9
     DEF Step, FinishStep, ApproveStep, TriggerStep, RunStep

\* A step that writes no record: what it does not start is as open as before.
LEMMA SerialMove ==
    ASSUME NEW d \in Deployments, NEW p \in About(d), AtMostOnce(d), OpenOnce(d, p), Busy(p),
           record' = record, finished' = finished, pc'[d] = "idle" => pc[d] = "idle",
           pc'[p] \in Unfinished => pc[p] \in Unfinished
    PROVE  AtMostOnce(d)' /\ OpenOnce(d, p)'
BY DEF AtMostOnce, OpenOnce, Approvable

\* A step that writes the record before the version is live.
LEMMA SerialWrite ==
    ASSUME NEW d \in Deployments, NEW p \in About(d), OpenOnce(d, p),
           pc[p] \in Unfinished, finished' = finished,
           Busy(p)' => record'[d].status \notin Settled
    PROVE  AtMostOnce(d)' /\ OpenOnce(d, p)'
BY DEF AtMostOnce, OpenOnce

LEMMA SerialStep ==
    ASSUME IInv, NEW d \in Deployments, NEW p \in About(d), Fresh(p), AtMostOnce(d),
           OpenOnce(d, p), Step(p) \/ Abort(p)
    PROVE  AtMostOnce(d)' /\ OpenOnce(d, p)'
<1>1. p \in Proc /\ Of(p) = d /\ d \in Proc /\ (p \in Deployments => p = d)
  BY AboutOf, OfProc
<1>2. Busy(p) /\ record[d].status \notin Settled
  BY <1>1, StepFrame DEF OpenOnce
<1>3. CASE \/ ReadAgent(p) \/ ReadRecord(p) \/ MergePullRequest(p) \/ NotifyApproved(p)
           \/ Abort(p)
  <2>1. record' = record /\ finished' = finished
    BY <1>3 DEF ReadAgent, ReadRecord, MergePullRequest, NotifyApproved, Abort
  <2>2. pc'[d] = "idle" => pc[d] = "idle"
    BY <1>1, <1>3
       DEF ReadAgent, ReadRecord, MergePullRequest, NotifyApproved, Abort, Stop, Goto, IInv,
           Typed, TypeOK
  <2>3. pc'[p] \in Unfinished => pc[p] \in Unfinished
    BY <1>1, <1>3
       DEF ReadAgent, ReadRecord, MergePullRequest, NotifyApproved, Abort, Stop, Goto, IInv,
           Typed, TypeOK, Unfinished
  <2> QED BY <1>2, <2>1, <2>2, <2>3, SerialMove
<1>4. ASSUME p \in Deployments,
             \/ GitOperations(p) \/ PublishEvent(p) \/ RecordTrigger(p) \/ PolicyBlock(p)
             \/ MarkBlocked(p)
      PROVE  AtMostOnce(d)' /\ OpenOnce(d, p)'
  <2>1. /\ record' = record /\ finished' = finished /\ pc[p] \in Unfinished
        /\ \E l \in Unfinished : pc' = [pc EXCEPT ![p] = l]
    BY <1>4
       DEF GitOperations, PublishEvent, RecordTrigger, PolicyBlock, MarkBlocked, Goto, Unfinished
  <2>2. pc'[d] # "idle"
    BY <1>1, <1>4, <2>1 DEF IInv, Typed, TypeOK, Unfinished
  <2> QED BY <1>2, <2>1, <2>2, SerialMove
<1>5. ASSUME p \in Deployments, TriggerFails(p) \/ RecordBlocked(p) \/ Park(p)
      PROVE  AtMostOnce(d)' /\ OpenOnce(d, p)'
  <2>1. pc' = [pc EXCEPT ![p] = "done"] /\ pc[p] \in Unfinished /\ finished' = finished
    BY <1>5 DEF TriggerFails, RecordBlocked, Park, Stop, Goto, Unfinished
  <2>2. ~Busy(p)'
    BY <1>1, <2>1 DEF Busy, IInv, Typed, TypeOK
  <2> QED BY <2>1, <2>2, SerialWrite
<1>6. ASSUME p \in Deployments, Run(p) \/ PolicyPass(p)
      PROVE  AtMostOnce(d)' /\ OpenOnce(d, p)'
  <2>1. pc[p] \in Unfinished /\ finished' = finished
    BY <1>6 DEF Run, PolicyPass, Unfinished
  <2>2. \E t, x : record' = [record EXCEPT ![d] = WithStage(record[d], t, x)]
    BY <1>1, <1>6 DEF Run, PolicyPass, Update
  <2>3. record[d] \in DeploymentRecord
    BY <1>1, <1>6, EarlyAlone DEF Run, PolicyPass, Before
  <2>4. record'[d].status = record[d].status
    BY <2>2, <2>3 DEF WithStage, DeploymentRecord, IInv, Typed, TypeOK
  <2> QED BY <1>2, <2>1, <2>4, SerialWrite
<1>7. CASE Apply(p) \/ RecordApproval(p)
  <2>1. pc[p] \in Unfinished /\ finished' = finished /\ readRecord[p] # Unread
    BY <1>7 DEF Apply, RecordApproval, PutRecord, Unfinished
  <2>2. readRecord[p] = record[d] /\ record[d] \in DeploymentRecord
    BY <1>1, <2>1 DEF Fresh, IInv, Typed, TypeOK
  <2>3. \/ \E t, x : record' = [record EXCEPT ![d] = WithStage(record[d], t, x)]
        \/ record' = [record EXCEPT ![d] = [record[d] EXCEPT !.approved = TRUE]]
    BY <1>1, <1>7, <2>2 DEF Apply, RecordApproval, PutRecord
  <2>4. record'[d].status = record[d].status
    BY <2>2, <2>3 DEF WithStage, DeploymentRecord, IInv, Typed, TypeOK
  <2> QED BY <1>2, <2>1, <2>4, SerialWrite
<1>8. CASE MarkActive(p)
  <2>1. /\ pc[p] = "activate" /\ record' = record
        /\ finished' = [finished EXCEPT ![d] = @ + 1] /\ pc' = [pc EXCEPT ![p] = "complete"]
    BY <1>1, <1>8 DEF MarkActive, Goto
  <2>2. pc'[p] = "complete" /\ pc'[p] \notin Unfinished
    BY <1>1, <2>1 DEF IInv, Typed, TypeOK, Unfinished
  <2>3. finished[d] = 0 /\ finished'[d] = 1
    BY <2>1 DEF OpenOnce, Unfinished, IInv, Typed, TypeOK
  <2>4. Cleared(record[d])
    BY <2>1, FinishingIsCleared DEF IInv, Finishing
  <2>5. pc'[d] # "idle"
    <3>1. pc[d] # "idle"
      BY <2>4 DEF Cleared, Passed, IInv, Gate, BeforeGate
    <3> QED BY <1>1, <2>1, <3>1 DEF IInv, Typed, TypeOK
  <2>6. ~Approvable(d)'
    BY <2>1, <2>4 DEF Approvable, Cleared
  <2> QED BY <1>2, <2>1, <2>2, <2>3, <2>5, <2>6 DEF AtMostOnce, OpenOnce
<1>9. CASE RecordActive(p)
  <2>1. /\ pc[p] = "complete" /\ readRecord[p] # Unread /\ finished' = finished
        /\ record' = [record EXCEPT ![d] =
                        WithStatus(readRecord[p], "HEALTH_CHECK", "PASSED", "ACTIVE")]
        /\ pc' = [pc EXCEPT ![p] = IF p \in Deployments THEN "done" ELSE "idle"]
    BY <1>1, <1>9 DEF RecordActive, PutRecord, Stop, Goto
  <2>2. record'[d].status = "ACTIVE"
    <3>1. readRecord[p] \in DeploymentRecord
      BY <1>1, <2>1 DEF IInv, Typed, TypeOK
    <3> QED BY <2>1, <3>1 DEF WithStatus, DeploymentRecord, IInv, Typed, TypeOK
  <2>3. ~Busy(p)' /\ pc'[p] \notin Unfinished
    BY <1>1, <2>1 DEF Busy, Unfinished, IInv, Typed, TypeOK
  <2>4. pc'[d] = "idle" => pc[d] = "idle"
    BY <1>1, <2>1 DEF IInv, Typed, TypeOK
  <2> QED BY <2>1, <2>2, <2>3, <2>4 DEF AtMostOnce, OpenOnce, Approvable
<1>10. ~UpdateAgent(p)
  BY <1>1, OfProc DEF UpdateAgent, About, IInv, Typed, Labels, Before, Finishing, Approvals
<1> QED
  BY <1>3, <1>4, <1>5, <1>6, <1>7, <1>8, <1>9, <1>10
     DEF Step, FinishStep, ApproveStep, TriggerStep, RunStep

\* A request that starts while no other is handled.
LEMMA StartSerial ==
    ASSUME IInv, SInv, Quiet, NEW p \in Proc, pc[p] = "idle", NEW l \in {"git", "approve", "edit"},
           Goto(p, l), UNCHANGED <<readAgent, readRecord, finished>>,
           \A d \in Deployments :
             /\ p \notin About(d) => record'[d] = record[d]
             /\ p \in About(d) => finished[d] = 0 /\ record'[d].status \notin Settled
    PROVE  SInv'
<1>1. Only(p)
  BY DEF Quiet, Only, Busy
<1>2. readAgent[p] = Unread /\ readRecord[p] = Unread
  BY DEF SInv, Fresh, ReadsAgent, ReadsRecord
<1>3. Frame(p)
  BY DEF Frame, Goto, IInv, Typed, TypeOK
<1>4. Fresh(p)'
  BY <1>2 DEF Fresh
<1>5. \A d \in Deployments : p \in About(d) => AtMostOnce(d)' /\ OpenOnce(d, p)'
  BY DEF AtMostOnce, OpenOnce
<1> QED BY <1>1, <1>3, <1>4, <1>5, SerialAssemble

LEMMA SerialInductive ==
    ASSUME Serial, IInv, SInv, [Next]_vars
    PROVE  SInv'
<1>1. ASSUME NEW p \in Proc, Step(p) \/ Abort(p) PROVE SInv'
  <2>1. Frame(p) /\ Busy(p)
    BY <1>1, StepFrame
  <2>2. Only(p) /\ Fresh(p)
    BY <2>1 DEF SInv, Only
  <2>3. Fresh(p)'
    BY <1>1, <2>2, StepFresh
  <2>4. \A d \in Deployments : p \in About(d) => AtMostOnce(d)' /\ OpenOnce(d, p)'
    BY <1>1, <2>2, SerialStep DEF SInv
  <2> QED BY <2>1, <2>2, <2>3, <2>4, SerialAssemble
<1>2. ASSUME NEW d \in Deployments, CreateDeployment(d) PROVE SInv'
  <2>1. d \in Proc /\ \A e \in Deployments : d \in About(e) => e = d
    BY AboutOf, OfProc
  <2>2. PICK v \in Versions, m \in Modes : record' = [record EXCEPT ![d] = NewRecord(v, m)]
    BY <1>2 DEF CreateDeployment, Update
  <2>3. record'[d].status \notin Settled
    BY <2>2, RecordCreated DEF Settled, IInv, Typed, TypeOK
  <2>4. finished[d] = 0 /\ \A e \in Deployments \ {d} : record'[e] = record[e]
    BY <1>2, <2>2 DEF CreateDeployment, SInv, AtMostOnce, IInv, Typed, TypeOK
  <2>5. \A e \in Deployments :
          /\ d \notin About(e) => record'[e] = record[e]
          /\ d \in About(e) => finished[e] = 0 /\ record'[e].status \notin Settled
    BY <2>1, <2>3, <2>4, AboutOf
  <2> QED BY <1>2, <2>1, <2>5, StartSerial DEF CreateDeployment
<1>3. ASSUME NEW a \in Approvers, NEW d \in Deployments, CheckApprovable(a, d) PROVE SInv'
  <2>1. <<a, d>> \in Proc /\ \A e \in Deployments : <<a, d>> \in About(e) => e = d
    BY AboutOf, OfProc
  <2>2. finished[d] = 0 /\ record[d].status \notin Settled /\ record' = record
    BY <1>3 DEF CheckApprovable, Approvable, SInv, AtMostOnce, Settled
  <2> QED BY <1>3, <2>1, <2>2, StartSerial DEF CheckApprovable
<1>4. ASSUME NEW e \in Editors, StartEdit(e) PROVE SInv'
  <2>1. e \in Proc /\ \A d \in Deployments : e \notin About(d)
    BY AboutOf, OfProc
  <2> QED BY <1>4, <2>1, StartSerial DEF StartEdit
<1>5. CASE UNCHANGED vars
  BY <1>5
     DEF vars, SInv, Busy, Fresh, AtMostOnce, OpenOnce, Approvable
<1> QED BY <1>1, <1>2, <1>3, <1>4, <1>5 DEF Next

LEMMA SerialInit == Init => SInv
<1> SUFFICES ASSUME Init PROVE SInv
  OBVIOUS
<1>1. \A p \in Proc : ~Busy(p) /\ Fresh(p)
  BY DEF Init, Busy, Fresh
<1>2. \A d \in Deployments : AtMostOnce(d)
  <2>1. \A d \in Deployments : finished[d] = 0
    BY DEF Init
  <2>2. ASSUME NEW d \in Deployments PROVE AtMostOnce(d)
    BY <2>1 DEF AtMostOnce
  <2> QED BY <2>2
<1>3. \A d \in Deployments : \A p \in About(d) : OpenOnce(d, p)
  BY <1>1, AboutOf DEF Init, OpenOnce, Unfinished
<1> QED BY <1>1, <1>2, <1>3 DEF SInv

\* Requests that do not overlap meet nothing stale and never reopen a deployment.
THEOREM SerialInvariance == ASSUME Serial PROVE Spec => [](IInv /\ SInv)
<1>1. Init => IInv /\ SInv
  BY InitIInv, SerialInit
<1>2. IInv /\ SInv /\ [Next]_vars => (IInv /\ SInv)'
  BY StepIInv, SerialInductive
<1> QED BY <1>1, <1>2, PTL DEF Spec

\* A deployment is made live at most once, however many approvals of it are sent
\* and wherever a handler or a pipeline dies, as long as requests do not overlap.
THEOREM SerialAppliedOnce == ASSUME Serial PROVE Spec => []AppliedAtMostOnce
<1>1. SInv => AppliedAtMostOnce
  BY DEF SInv, AtMostOnce, AppliedAtMostOnce
<1> QED BY <1>1, SerialInvariance, PTL

\* No update_stage of a trigger, a pipeline or an approval takes a record out of
\* ACTIVE, BLOCKED or FAILED, as long as requests do not overlap.
THEOREM SerialOutcomeIsFinal == ASSUME Serial PROVE Spec => OutcomeIsFinal
<1> DEFINE Final == \A d \in Deployments :
                      record[d].status \in Settled => record'[d].status = record[d].status
<1>1. ASSUME IInv, SInv, [Next]_vars PROVE [Final]_vars
  <2> USE <1>1
  <2>1. ASSUME NEW p \in Proc, Step(p) \/ Abort(p), NEW d \in Deployments,
               record[d].status \in Settled
        PROVE  record'[d] = record[d]
    <3>1. Frame(p) /\ Busy(p)
      BY <2>1, StepFrame
    <3>2. p \notin About(d)
      BY <2>1, <3>1 DEF SInv, OpenOnce
    <3> QED BY <3>1, <3>2 DEF Frame
  <2>2. ASSUME NEW d \in Deployments, CreateDeployment(d), NEW e \in Deployments,
               record[e].status \in Settled
        PROVE  record'[e] = record[e]
    <3>1. e # d
      BY <2>2 DEF CreateDeployment, IInv, Gate, BeforeGate, Exists, Settled
    <3>2. \E w : record' = [record EXCEPT ![d] = w]
      BY <2>2 DEF CreateDeployment, Update
    <3> QED BY <3>1, <3>2 DEF IInv, Typed, TypeOK
  <2>3. ASSUME \/ \E a \in Approvers, d \in Deployments : CheckApprovable(a, d)
               \/ \E e \in Editors : StartEdit(e)
               \/ UNCHANGED vars
        PROVE  Final
    BY <2>3 DEF CheckApprovable, StartEdit, vars
  <2> QED BY <2>1, <2>2, <2>3 DEF Next
<1> QED BY <1>1, SerialInvariance, PTL DEF Spec, OutcomeIsFinal

\* Triggers, failures, blocks, approvals and edits leave live_version alone, as long
\* as requests do not overlap: the agent item they put back is the current one.
THEOREM SerialLiveMoves == ASSUME Serial PROVE Spec => LiveMovesOnlyByMarkActive
<1> DEFINE Moved == agent'.live # agent.live =>
                      \E d \in Deployments :
                        finished'[d] = finished[d] + 1 /\ agent'.live = record[d].version
<1>1. ASSUME IInv, SInv, NEW p \in Proc, Step(p) \/ Abort(p) PROVE Moved
  <2>1. CASE MarkActive(p)
    <3>1. Of(p) \in Deployments
      BY <1>1, <2>1, Whose DEF MarkActive, IInv, Finishing
    <3>2. finished'[Of(p)] = finished[Of(p)] + 1 /\ agent'.live = record[Of(p)].version
      BY <1>1, <2>1, <3>1 DEF MarkActive, PutAgent, IInv, Typed, TypeOK
    <3> QED BY <3>1, <3>2
  <2>2. CASE UpdateAgent(p) \/ RecordTrigger(p) \/ MarkBlocked(p)
    <3>1. readAgent[p] = agent /\ agent \in AgentItem
      BY <1>1, <2>2
         DEF UpdateAgent, RecordTrigger, MarkBlocked, PutAgent, SInv, Fresh, IInv, Typed, TypeOK
    <3>2. \E x : agent' = [agent EXCEPT !.status = x]
      BY <2>2, <3>1 DEF UpdateAgent, RecordTrigger, MarkBlocked, PutAgent
    <3> QED BY <3>1, <3>2 DEF AgentItem
  <2>3. CASE ~(MarkActive(p) \/ UpdateAgent(p) \/ RecordTrigger(p) \/ MarkBlocked(p))
    <3>1. agent' = agent
      BY <1>1, <2>3
         DEF Step, FinishStep, ApproveStep, TriggerStep, RunStep, ReadAgent, ReadRecord,
             MergePullRequest, Apply, RecordActive, RecordApproval, NotifyApproved,
             GitOperations, TriggerFails, PublishEvent, Run, PolicyPass, PolicyBlock,
             RecordBlocked, Park, Abort
    <3> QED BY <3>1
  <2> QED BY <2>1, <2>2, <2>3
<1>2. ASSUME IInv, SInv, [Next]_vars PROVE [Moved]_vars
  BY <1>1, <1>2 DEF Next, CreateDeployment, CheckApprovable, StartEdit, vars
<1> QED BY <1>2, SerialInvariance, PTL DEF Spec, LiveMovesOnlyByMarkActive
====
