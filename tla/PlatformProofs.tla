--------------------------- MODULE PlatformProofs ---------------------------
(***************************************************************************)
(* Proofs about the platform under the agents, for every value of the      *)
(* constants: PlatformUpgrade (the upgrade of the service), GitRepository  *)
(* (the repository a deployment is pushed to) and AuditChain (the hash     *)
(* chain of the audit log).                                                *)
(***************************************************************************)
EXTENDS PlatformUpgrade, GitRepository, AuditChain, FiniteSetTheorems,
        TLAPS

-----------------------------------------------------------------------------
(***************************************************************************)
(* PlatformUpgrade: an upgrade that ends leaves the service on the         *)
(* revision its record says. Revisions are handed out once per upgrade,    *)
(* and the invariant says, for every step of the state machine, which of   *)
(* them the service is on.                                                 *)
(***************************************************************************)

(***************************************************************************)
(* Platform upgrade: revisions are handed out once per upgrade.            *)
(***************************************************************************)
Registered == {u \in Upgrades : execution[u].new # NoRevision}

Given(known, count) ==
    /\ known.previous # NoRevision => known.previous <= count
    /\ known.new # NoRevision => known.new <= count

UpgradeTyped ==
    /\ upgrade \in [Upgrades -> UpgradeItem \cup {NoUpgrade}]
    /\ execution \in [Upgrades -> Execution]
    /\ triggered \in Seq(Upgrades)
    /\ revisions = 1 + Cardinality(Registered)
    /\ service \in [target : RevisionNumbers, serving : SUBSET RevisionNumbers,
                    balanced : BOOLEAN]
    /\ service.target <= revisions
    /\ \A u \in Upgrades :
          /\ upgrade[u] = NoUpgrade => At(u, "idle")
          /\ At(u, "idle") => upgrade[u] = NoUpgrade
          /\ execution[u].at \in {"idle", "PullingImage", "RegisteringTaskDefinition"} =>
                execution[u].new = NoRevision
          /\ execution[u].at \in {"RecordRevision", "UpdatingService"} =>
                execution[u].new # NoRevision
          /\ execution[u].new # NoRevision => execution[u].previous # NoRevision
          /\ Given(execution[u], revisions)
          /\ upgrade[u] # NoUpgrade => Given(upgrade[u], revisions)
    /\ upgradeOverlap \in BOOLEAN

\* What the service is asked to run at each state of an upgrade that runs alone.
Serves(x, item, target) ==
    /\ x.at \in {"PullingImage", "RegisteringTaskDefinition", "RecordRevision"} =>
          item.previous = NoRevision
    /\ x.at \in {"RecordRevision", "UpdatingService"} =>
          x.previous = target /\ x.new # target
    /\ x.at \in {"UpdatingService", "Polling", "PlatformHealthCheck", "MarkUpgraded"} =>
          item.previous = x.previous /\ item.new = x.new /\ x.previous # x.new
    /\ x.at \in {"Polling", "PlatformHealthCheck", "MarkUpgraded"} => target = x.new
    /\ x.at \in {"MarkUpgradeFailed", "RecordFailure"} =>
          IF item.previous = NoRevision THEN x.new # target ELSE item.previous # x.new
    /\ x.at = "RecordFailure" =>
          /\ target # x.new
          /\ item.previous # NoRevision => target = item.previous
    /\ x.at = "ended" =>
          \/ item.status = "ACTIVE" /\ target = item.new
          \/ /\ item.status \in {"FAILED", "ROLLED_BACK"}
             /\ target # x.new
             /\ item.previous # NoRevision => target = item.previous

UpgradeServed ==
    ~upgradeOverlap =>
        /\ \A u \in Upgrades : UpgradeRuns(u) => triggered # << >> /\ u = Last(triggered)
        /\ triggered # << >> =>
              Serves(execution[Last(triggered)], upgrade[Last(triggered)], service.target)

UpgradeInv == UpgradeTyped /\ UpgradeServed

-----------------------------------------------------------------------------
(* What a step of an upgrade leaves *)

LEMMA UpgradesFinite ==
  /\ Cardinality(Upgrades) \in Nat
  /\ RevisionNumbers = 1 .. 1 + Cardinality(Upgrades)
  /\ NoRevision \notin RevisionNumbers
BY UpgradeAssumption, FS_CardinalityType DEF RevisionNumbers

LEMMA RegisteredFinite ==
  /\ IsFiniteSet(Registered) /\ Cardinality(Registered) \in Nat
  /\ Cardinality(Registered) <= Cardinality(Upgrades)
BY UpgradeAssumption, FS_Subset, FS_CardinalityType DEF Registered

LEMMA InitialUpgradeType ==
  /\ InitialUpgrade \in UpgradeItem /\ InitialUpgrade # NoUpgrade
  /\ InitialUpgrade.previous = NoRevision /\ InitialUpgrade.new = NoRevision
<1>1. [s \in RecordedStages |-> "PENDING"] \in [RecordedStages -> {"PENDING", "PASSED", "FAILED"}]
  OBVIOUS
<1>2. InitialUpgrade \in UpgradeItem /\ InitialUpgrade.previous = NoRevision
      /\ InitialUpgrade.new = NoRevision
      /\ InitialUpgrade.status = "PENDING"
  BY <1>1 DEF InitialUpgrade, UpgradeItem, UpgradeStatus, RecordedStages, UpgradeStages
<1> QED BY <1>2 DEF NoUpgrade

LEMMA NoUpgradeIsNone == \A item \in UpgradeItem : item # NoUpgrade
BY DEF UpgradeItem, NoUpgrade, UpgradeStatus, UpgradeStages

LEMMA StageUpdatedType ==
  ASSUME NEW item \in UpgradeItem, NEW stage \in RecordedStages,
         NEW stageStatus \in {"PENDING", "PASSED", "FAILED"}, NEW overall \in UpgradeStatus
  PROVE  /\ StageUpdated(item, stage, stageStatus, overall) \in UpgradeItem
         /\ StageUpdated(item, stage, stageStatus, overall).previous = item.previous
         /\ StageUpdated(item, stage, stageStatus, overall).new = item.new
         /\ StageUpdated(item, stage, stageStatus, overall).status = overall
<1>1. PICK stages : stages = [item.stages EXCEPT ![stage] = stageStatus]
  OBVIOUS
<1>2. stages \in [RecordedStages -> {"PENDING", "PASSED", "FAILED"}]
  BY <1>1 DEF UpgradeItem
<1>3. StageUpdated(item, stage, stageStatus, overall) =
         [item EXCEPT !.stages = stages, !.currentStage = stage, !.status = overall]
  BY <1>1 DEF StageUpdated
<1> QED BY <1>2, <1>3 DEF UpgradeItem

\* A step of the workflow replaces an execution and its record.
UpgradeBecomes(u, x, item) ==
    /\ x \in Execution /\ item \in UpgradeItem /\ x.at # "idle"
    /\ execution' = [execution EXCEPT ![u] = x]
    /\ upgrade' = [upgrade EXCEPT ![u] = item]

LEMMA UpgradeRunning ==
  ASSUME UpgradeTyped, NEW u \in Upgrades, execution[u].at # "idle"
  PROVE  /\ execution[u] \in Execution /\ upgrade[u] \in UpgradeItem
         /\ UNCHANGED upgrade => upgrade' = [upgrade EXCEPT ![u] = upgrade[u]]
BY DEF UpgradeTyped, At

LEMMA GoesTo ==
  ASSUME UpgradeTyped, NEW u \in Upgrades, NEW state \in ExecutionStates, GoTo(u, state)
  PROVE  \E x \in Execution :
            /\ execution' = [execution EXCEPT ![u] = x]
            /\ x.at = state /\ x.previous = execution[u].previous /\ x.new = execution[u].new
<1>1. PICK x : x = [execution[u] EXCEPT !.at = state]
  OBVIOUS
<1>2. execution[u] \in Execution
  BY DEF UpgradeTyped
<1>3. /\ x \in Execution
      /\ x.at = state /\ x.previous = execution[u].previous /\ x.new = execution[u].new
  BY <1>1, <1>2 DEF Execution
<1> QED BY <1>1, <1>3 DEF GoTo, UpgradeTyped

\* The three ways a stage is recorded.
LEMMA StageRecorded ==
  ASSUME UpgradeTyped, NEW u \in Upgrades, execution[u].at # "idle",
         NEW stage \in UpgradeStages, NEW overall \in UpgradeStatus,
         UpdateStage(u, stage, "PASSED", overall)
  PROVE  \E item \in UpgradeItem :
            /\ upgrade' = [upgrade EXCEPT ![u] = item]
            /\ item.previous = upgrade[u].previous /\ item.new = upgrade[u].new
            /\ item.status = overall
<1>1. upgrade[u] \in UpgradeItem
  BY UpgradeRunning
<1>2. PICK item : item = StageUpdated(upgrade[u], stage, "PASSED", overall)
  OBVIOUS
<1>3. /\ item \in UpgradeItem /\ item.previous = upgrade[u].previous
      /\ item.new = upgrade[u].new /\ item.status = overall
  BY <1>1, <1>2, StageUpdatedType DEF RecordedStages
<1>4. upgrade' = [upgrade EXCEPT ![u] = item]
  BY <1>2 DEF UpdateStage, UpgradeTyped
<1> QED BY <1>3, <1>4

LEMMA StageFailed ==
  ASSUME UpgradeTyped, NEW u \in Upgrades, execution[u].at # "idle",
         NEW stage \in UpgradeStages, FailStage(u, stage)
  PROVE  \E item \in UpgradeItem :
            /\ upgrade' = [upgrade EXCEPT ![u] = item]
            /\ item.previous = upgrade[u].previous /\ item.new = upgrade[u].new
<1>1. upgrade[u] \in UpgradeItem
  BY UpgradeRunning
<1>2. PICK next : next = StageUpdated(upgrade[u], stage, "FAILED", "FAILED")
  OBVIOUS
<1>3. next \in UpgradeItem /\ next.previous = upgrade[u].previous /\ next.new = upgrade[u].new
  BY <1>1, <1>2, StageUpdatedType DEF RecordedStages, UpgradeStatus
<1>4. PICK item : item = [next EXCEPT !.failedStage = stage]
  OBVIOUS
<1>5. item \in UpgradeItem /\ item.previous = next.previous /\ item.new = next.new
  BY <1>3, <1>4 DEF UpgradeItem, RecordedStages
<1>6. upgrade' = [upgrade EXCEPT ![u] = item]
  BY <1>2, <1>4 DEF FailStage, UpgradeTyped
<1> QED BY <1>3, <1>5, <1>6

\* A step that registers no revision.
LEMMA UpgradeStepKeeps ==
  ASSUME UpgradeInv, NEW u \in Upgrades, NEW x, NEW item, UpgradeBecomes(u, x, item),
         UpgradeRuns(u), UNCHANGED <<triggered, revisions, upgradeOverlap>>,
         service' \in [target : RevisionNumbers, serving : SUBSET RevisionNumbers,
                       balanced : BOOLEAN],
         service'.target <= revisions, x.new = execution[u].new,
         x.previous = execution[u].previous, Given(item, revisions),
         x.at \notin {"RecordRevision", "UpdatingService"} \/ x.new # NoRevision,
         x.at \notin {"PullingImage", "RegisteringTaskDefinition"} \/ x.new = NoRevision,
         ~upgradeOverlap /\ Serves(execution[u], upgrade[u], service.target) =>
            Serves(x, item, service'.target)
  PROVE  UpgradeInv'
<1>1. /\ execution' \in [Upgrades -> Execution] /\ execution'[u] = x
      /\ upgrade' \in [Upgrades -> UpgradeItem \cup {NoUpgrade}] /\ upgrade'[u] = item
      /\ \A v \in Upgrades \ {u} : execution'[v] = execution[v] /\ upgrade'[v] = upgrade[v]
  BY DEF UpgradeInv, UpgradeTyped, UpgradeBecomes
<1>2. Registered' = Registered
  BY <1>1 DEF Registered
<1>3. item # NoUpgrade /\ x.at # "idle"
  BY NoUpgradeIsNone DEF UpgradeBecomes
<1>4. UpgradeTyped'
  <2>1. \A v \in Upgrades :
           /\ Given(execution'[v], revisions)
           /\ upgrade'[v] # NoUpgrade => Given(upgrade'[v], revisions)
    BY <1>1 DEF UpgradeInv, UpgradeTyped, Given
  <2> QED BY <1>1, <1>2, <1>3, <2>1 DEF UpgradeInv, UpgradeTyped, At, Given
<1>5. UpgradeServed'
  <2> SUFFICES ASSUME ~upgradeOverlap
               PROVE  /\ \A v \in Upgrades : UpgradeRuns(v)' => triggered # << >> /\ v = Last(triggered)
                      /\ triggered # << >> =>
                            Serves(execution'[Last(triggered)], upgrade'[Last(triggered)],
                                   service'.target)
    BY DEF UpgradeServed, Serves
  <2>1. triggered # << >> /\ u = Last(triggered)
    BY DEF UpgradeInv, UpgradeServed
  <2>2. \A v \in Upgrades \ {u} : ~UpgradeRuns(v)'
    BY <1>1, <2>1 DEF UpgradeInv, UpgradeServed, UpgradeRuns, UpgradeEnded, At
  <2>3. Serves(x, item, service'.target)
    BY <2>1 DEF UpgradeInv, UpgradeServed
  <2> QED BY <1>1, <2>1, <2>2, <2>3
<1> QED BY <1>4, <1>5 DEF UpgradeInv

LEMMA UpgradeInitially == UpgradeInit => UpgradeInv
<1> SUFFICES ASSUME UpgradeInit PROVE UpgradeInv
  OBVIOUS
<1>1. \A u \in Upgrades :
         /\ upgrade[u] = NoUpgrade /\ execution[u].at = "idle" /\ execution[u].new = NoRevision
         /\ execution[u].previous = NoRevision
  BY DEF UpgradeInit
<1>2. upgrade \in [Upgrades -> UpgradeItem \cup {NoUpgrade}]
  BY DEF UpgradeInit
<1>3. execution \in [Upgrades -> Execution]
  <2>1. [at |-> "idle", polls |-> 0, previous |-> NoRevision, new |-> NoRevision] \in Execution
    BY UpgradeAssumption DEF Execution, ExecutionStates
  <2> QED BY <2>1 DEF UpgradeInit
<1>4. Registered = {}
  BY <1>1 DEF Registered
<1>5. revisions = 1 + Cardinality(Registered)
  BY <1>4, FS_EmptySet DEF UpgradeInit
<1>6. service \in [target : RevisionNumbers, serving : SUBSET RevisionNumbers, balanced : BOOLEAN]
  BY UpgradesFinite DEF UpgradeInit
<1>7. UpgradeTyped
  BY <1>1, <1>2, <1>3, <1>5, <1>6, FS_EmptySet, <1>4 DEF UpgradeInit, UpgradeTyped, At, Given
<1>8. UpgradeServed
  BY <1>1 DEF UpgradeInit, UpgradeServed, UpgradeRuns, At
<1> QED BY <1>7, <1>8 DEF UpgradeInv

LEMMA TriggerUpgradeKeeps ==
  ASSUME UpgradeInv, NEW u \in Upgrades, TriggerUpgrade(u)
  PROVE  UpgradeInv'
<1>1. execution[u].at = "idle" /\ execution[u].new = NoRevision
  BY DEF UpgradeInv, UpgradeTyped, TriggerUpgrade, At
<1>2. PICK x \in Execution :
         /\ execution' = [execution EXCEPT ![u] = x]
         /\ x.at \in {"PullingImage", "aborted"} /\ x.new = NoRevision
         /\ x.previous = execution[u].previous
  BY <1>1, GoesTo DEF TriggerUpgrade, StartUpgrade, UpgradeInv, ExecutionStates
<1>3. /\ upgrade' = [upgrade EXCEPT ![u] = InitialUpgrade] /\ triggered' = Append(triggered, u)
      /\ UNCHANGED <<revisions, service, upgradeOverlap>>
      /\ upgradeOverlap \/ \A v \in Upgrades : ~UpgradeRuns(v)
  BY DEF TriggerUpgrade
<1>4. /\ execution' \in [Upgrades -> Execution] /\ execution'[u] = x
      /\ upgrade' \in [Upgrades -> UpgradeItem \cup {NoUpgrade}] /\ upgrade'[u] = InitialUpgrade
      /\ \A v \in Upgrades \ {u} : execution'[v] = execution[v] /\ upgrade'[v] = upgrade[v]
  BY <1>2, <1>3, InitialUpgradeType DEF UpgradeInv, UpgradeTyped
<1>5. Registered' = Registered
  BY <1>1, <1>2, <1>4 DEF Registered
<1>6. /\ triggered' \in Seq(Upgrades) /\ triggered' # << >> /\ Last(triggered') = u
  BY <1>3 DEF UpgradeInv, UpgradeTyped, Last
<1>7. UpgradeTyped'
  <2>1. \A v \in Upgrades :
           /\ Given(execution'[v], revisions)
           /\ upgrade'[v] # NoUpgrade => Given(upgrade'[v], revisions)
    BY <1>2, <1>4, InitialUpgradeType DEF UpgradeInv, UpgradeTyped, Given
  <2> QED BY <1>2, <1>3, <1>4, <1>5, <1>6, <2>1, InitialUpgradeType
          DEF UpgradeInv, UpgradeTyped, At, Given
<1>8. UpgradeServed'
  <2>1. Serves(x, InitialUpgrade, service.target)
    BY <1>2, InitialUpgradeType DEF Serves
  <2>2. \A v \in Upgrades \ {u} : ~upgradeOverlap => ~UpgradeRuns(v)'
    BY <1>3, <1>4 DEF UpgradeRuns, UpgradeEnded, At
  <2> QED BY <1>3, <1>4, <1>6, <2>1, <2>2 DEF UpgradeServed, Serves
<1> QED BY <1>7, <1>8 DEF UpgradeInv

LEMMA RegisterNewRevisionKeeps ==
  ASSUME UpgradeInv, NEW u \in Upgrades, RegisterNewRevision(u), ~UNCHANGED revisions
  PROVE  UpgradeInv'
<1>1. /\ execution[u].at = "RegisteringTaskDefinition" /\ execution[u].new = NoRevision
      /\ execution[u] \in Execution /\ upgrade[u] \in UpgradeItem
      /\ revisions' = revisions + 1
      /\ execution' = [execution EXCEPT
                ![u] = [@ EXCEPT !.at = "RecordRevision", !.previous = service.target,
                                 !.new = revisions + 1]]
      /\ UNCHANGED <<upgrade, triggered, service, upgradeOverlap>>
  BY UpgradeRunning DEF RegisterNewRevision, UpgradeInv, UpgradeTyped, At
<1>2. /\ IsFiniteSet(Registered) /\ Cardinality(Registered) \in Nat
      /\ Cardinality(Registered) < Cardinality(Upgrades)
      /\ u \notin Registered
  <2>1. u \notin Registered
    BY <1>1 DEF Registered
  <2>2. Registered \subseteq Upgrades \ {u}
    BY <2>1 DEF Registered
  <2>3. /\ IsFiniteSet(Upgrades \ {u})
        /\ Cardinality(Upgrades \ {u}) = Cardinality(Upgrades) - 1
    BY UpgradeAssumption, FS_RemoveElement
  <2>4. Cardinality(Registered) <= Cardinality(Upgrades \ {u})
    BY <2>2, <2>3, FS_Subset
  <2> QED BY <2>1, <2>3, <2>4, RegisteredFinite, UpgradesFinite
<1>3. PICK n \in RevisionNumbers : n = revisions + 1
  BY <1>2, UpgradesFinite DEF UpgradeInv, UpgradeTyped
<1>4. PICK x : x = [execution[u] EXCEPT !.at = "RecordRevision", !.previous = service.target,
                                        !.new = n]
  OBVIOUS
<1>5. service.target \in RevisionNumbers /\ service.target <= revisions
  BY DEF UpgradeInv, UpgradeTyped
<1>6. /\ x \in Execution /\ x.at = "RecordRevision" /\ x.previous = service.target /\ x.new = n
  BY <1>1, <1>4, <1>5 DEF Execution, ExecutionStates
<1>7. execution' = [execution EXCEPT ![u] = x]
  BY <1>1, <1>3, <1>4 DEF UpgradeInv, UpgradeTyped
<1>8. /\ execution' \in [Upgrades -> Execution] /\ execution'[u] = x
      /\ \A v \in Upgrades \ {u} : execution'[v] = execution[v]
  BY <1>6, <1>7 DEF UpgradeInv, UpgradeTyped
<1>9. Registered' = Registered \cup {u}
  BY <1>6, <1>8, UpgradesFinite DEF Registered
<1>10. revisions' = 1 + Cardinality(Registered')
  <2>1. Cardinality(Registered \cup {u}) = Cardinality(Registered) + 1
    BY <1>2, FS_AddElement
  <2>2. revisions = 1 + Cardinality(Registered)
    BY DEF UpgradeInv, UpgradeTyped
  <2>3. Cardinality(Registered') = Cardinality(Registered) + 1
    BY <1>9, <2>1
  <2> QED BY <1>1, <1>2, <2>2, <2>3
<1>11. service.target \in Nat /\ revisions \in Nat
  BY <1>2, <1>5, UpgradesFinite DEF UpgradeInv, UpgradeTyped
<1>12. UpgradeTyped'
  <2>1. \A v \in Upgrades : upgrade[v] # NoUpgrade => upgrade[v] \in UpgradeItem
    BY DEF UpgradeInv, UpgradeTyped
  <2>2. ASSUME NEW y \in Execution \cup UpgradeItem, Given(y, revisions)
        PROVE  Given(y, revisions')
    <3>1. y.previous \in RevisionNumbers \cup {NoRevision} /\ y.new \in RevisionNumbers \cup {NoRevision}
      BY DEF Execution, UpgradeItem
    <3> QED BY <1>1, <1>11, <2>2, <3>1, UpgradesFinite DEF Given
  <2>3. ASSUME NEW v \in Upgrades
        PROVE  /\ Given(execution'[v], revisions')
               /\ upgrade[v] # NoUpgrade => Given(upgrade[v], revisions')
    <3>1. Given(x, revisions')
      BY <1>1, <1>3, <1>5, <1>6, <1>11 DEF Given
    <3>2. execution[v] \in Execution /\ Given(execution[v], revisions)
      BY DEF UpgradeInv, UpgradeTyped
    <3>3. upgrade[v] # NoUpgrade => Given(upgrade[v], revisions)
      BY DEF UpgradeInv, UpgradeTyped
    <3> QED BY <1>8, <2>1, <2>2, <3>1, <3>2, <3>3
  <2>4. x.new # NoRevision /\ x.previous # NoRevision
    BY <1>5, <1>6, UpgradesFinite
  <2>5. ASSUME NEW v \in Upgrades
        PROVE  /\ upgrade'[v] = NoUpgrade <=> execution'[v].at = "idle"
               /\ execution'[v].at \in {"idle", "PullingImage", "RegisteringTaskDefinition"} =>
                     execution'[v].new = NoRevision
               /\ execution'[v].at \in {"RecordRevision", "UpdatingService"} =>
                     execution'[v].new # NoRevision
               /\ execution'[v].new # NoRevision => execution'[v].previous # NoRevision
    <3>1. CASE v = u
      BY <1>1, <1>6, <1>8, <2>4, <3>1, NoUpgradeIsNone
    <3>2. CASE v # u
      BY <1>1, <1>8, <3>2 DEF UpgradeInv, UpgradeTyped, At
    <3> QED BY <3>1, <3>2
  <2>6. /\ service'.target <= revisions'
        /\ service' \in [target : RevisionNumbers, serving : SUBSET RevisionNumbers,
                          balanced : BOOLEAN]
    <3>1. /\ service \in [target : RevisionNumbers, serving : SUBSET RevisionNumbers,
                           balanced : BOOLEAN]
          /\ UNCHANGED service
      BY <1>1 DEF UpgradeInv, UpgradeTyped
    <3>2. service.target <= revisions'
      BY <1>1, <1>5, <1>11
    <3> QED BY <3>1, <3>2
  <2>7. /\ upgrade' \in [Upgrades -> UpgradeItem \cup {NoUpgrade}]
        /\ triggered' \in Seq(Upgrades) /\ upgradeOverlap' \in BOOLEAN
    BY <1>1 DEF UpgradeInv, UpgradeTyped
  <2>8. \A v \in Upgrades :
           /\ Given(execution'[v], revisions')
           /\ upgrade'[v] # NoUpgrade => Given(upgrade'[v], revisions')
    BY <1>1, <2>3
  <2>9. execution' \in [Upgrades -> Execution] /\ revisions' = 1 + Cardinality(Registered')
    BY <1>8, <1>10
  <2>10. (\A v \in Upgrades :
             /\ upgrade[v] = NoUpgrade => At(v, "idle")
             /\ At(v, "idle") => upgrade[v] = NoUpgrade)'
    BY <2>5 DEF At
  <2>11. (\A v \in Upgrades :
             /\ execution[v].at \in {"idle", "PullingImage", "RegisteringTaskDefinition"} =>
                   execution[v].new = NoRevision
             /\ execution[v].at \in {"RecordRevision", "UpdatingService"} =>
                   execution[v].new # NoRevision
             /\ execution[v].new # NoRevision => execution[v].previous # NoRevision)'
    BY <2>5
  <2>12. (\A v \in Upgrades :
             /\ Given(execution[v], revisions)
             /\ upgrade[v] # NoUpgrade => Given(upgrade[v], revisions))'
    BY <2>8 DEF Given
  <2>13. (revisions = 1 + Cardinality(Registered))'
    BY <2>9
  <2> QED BY <2>6, <2>7, <2>9, <2>10, <2>11, <2>12, <2>13 DEF UpgradeTyped
<1>13. UpgradeServed'
  <2>1. ~upgradeOverlap =>
           /\ triggered # << >> /\ u = Last(triggered)
           /\ upgrade[u].previous = NoRevision
    BY <1>1 DEF UpgradeInv, UpgradeServed, UpgradeRuns, UpgradeEnded, At, Serves
  <2>2. ~upgradeOverlap => Serves(x, upgrade[u], service.target)
    BY <1>3, <1>5, <1>6, <1>11, <2>1 DEF Serves
  <2>3. \A v \in Upgrades \ {u} : ~upgradeOverlap => ~UpgradeRuns(v)'
    BY <1>8, <2>1 DEF UpgradeInv, UpgradeServed, UpgradeRuns, UpgradeEnded, At
  <2> QED BY <1>1, <1>8, <2>1, <2>2, <2>3 DEF UpgradeServed, Serves
<1> QED BY <1>12, <1>13 DEF UpgradeInv

-----------------------------------------------------------------------------
(* The states of the workflow *)

LEMMA RecordGiven ==
  ASSUME UpgradeInv, NEW u \in Upgrades, execution[u].at # "idle", NEW item,
         item.previous = upgrade[u].previous, item.new = upgrade[u].new
  PROVE  Given(item, revisions)
BY DEF UpgradeInv, UpgradeTyped, At, Given

\* A stage that fails, or that a time-out cuts short, once the record and the
\* service agree on what to go back to.
LEMMA UpgradeFailKeeps ==
  ASSUME UpgradeInv, NEW u \in Upgrades, NEW item \in UpgradeItem,
         execution[u].at \in CaughtStates, GoTo(u, "MarkUpgradeFailed"),
         upgrade' = [upgrade EXCEPT ![u] = item],
         item.previous = upgrade[u].previous, item.new = upgrade[u].new,
         UNCHANGED <<triggered, revisions, service, upgradeOverlap>>
  PROVE  UpgradeInv'
<1>1. execution[u].at # "idle" /\ UpgradeRuns(u)
  BY DEF CaughtStates, UpgradeRuns, UpgradeEnded, At
<1>2. PICK x \in Execution :
         /\ execution' = [execution EXCEPT ![u] = x]
         /\ x.at = "MarkUpgradeFailed" /\ x.new = execution[u].new
         /\ x.previous = execution[u].previous
  BY GoesTo DEF UpgradeInv, ExecutionStates
<1>3. UpgradeBecomes(u, x, item)
  BY <1>2 DEF UpgradeBecomes
<1>4. service.target \in RevisionNumbers
  BY DEF UpgradeInv, UpgradeTyped
<1>5. upgrade[u].previous = NoRevision \/ upgrade[u].previous # NoRevision
  OBVIOUS
<1>6. ~upgradeOverlap /\ Serves(execution[u], upgrade[u], service.target) =>
         Serves(x, item, service'.target)
  <2> SUFFICES ASSUME Serves(execution[u], upgrade[u], service.target)
               PROVE  Serves(x, item, service.target)
    OBVIOUS
  <2>1. CASE execution[u].at \in {"PullingImage", "RegisteringTaskDefinition"}
    <3>1. execution[u].new = NoRevision /\ upgrade[u].previous = NoRevision
      BY <2>1 DEF UpgradeInv, UpgradeTyped, Serves
    <3> QED BY <1>2, <1>4, <3>1, UpgradesFinite DEF Serves
  <2>2. CASE execution[u].at = "RecordRevision"
    BY <1>2, <2>2 DEF Serves
  <2>3. CASE execution[u].at = "UpdatingService"
    BY <1>2, <2>3 DEF Serves
  <2>4. CASE execution[u].at \in {"Polling", "PlatformHealthCheck"}
    <3>1. execution[u].previous # NoRevision
      BY <1>4, <2>4, UpgradesFinite DEF UpgradeInv, UpgradeTyped, Serves
    <3> QED BY <1>2, <2>4, <3>1 DEF Serves
  <2> QED BY <2>1, <2>2, <2>3, <2>4 DEF CaughtStates
<1> QED BY <1>1, <1>2, <1>3, <1>6, RecordGiven, UpgradeStepKeeps DEF UpgradeInv, UpgradeTyped

LEMMA StageFailKeeps ==
  ASSUME UpgradeInv, NEW u \in Upgrades, NEW stage \in UpgradeStages,
         execution[u].at \in CaughtStates, FailStage(u, stage), GoTo(u, "MarkUpgradeFailed"),
         UNCHANGED <<triggered, revisions, service, upgradeOverlap>>
  PROVE  UpgradeInv'
<1>1. execution[u].at # "idle"
  BY DEF CaughtStates
<1> QED BY <1>1, StageFailed, UpgradeFailKeeps DEF UpgradeInv

LEMMA TaskTimesOutKeeps ==
  ASSUME UpgradeInv, NEW u \in Upgrades, TaskTimesOut(u)
  PROVE  UpgradeInv'
<1>1. execution[u].at # "idle"
  BY DEF CaughtStates, TaskTimesOut
<1>2. upgrade[u] \in UpgradeItem /\ upgrade' = [upgrade EXCEPT ![u] = upgrade[u]]
  BY <1>1, UpgradeRunning DEF UpgradeInv, TaskTimesOut
<1> QED BY <1>2, UpgradeFailKeeps DEF TaskTimesOut

\* A step that leaves the record and the service.
LEMMA UpgradeGoesKeeps ==
  ASSUME UpgradeInv, NEW u \in Upgrades, UpgradeRuns(u),
         NEW state \in ExecutionStates \ {"idle", "PullingImage", "RegisteringTaskDefinition",
                                          "RecordRevision", "UpdatingService"},
         GoTo(u, state), UNCHANGED <<upgrade, triggered, revisions, service, upgradeOverlap>>,
         \A x \in Execution :
            /\ Serves(execution[u], upgrade[u], service.target)
            /\ x.at = state /\ x.previous = execution[u].previous /\ x.new = execution[u].new
            => Serves(x, upgrade[u], service.target)
  PROVE  UpgradeInv'
<1>1. PICK x \in Execution :
         /\ execution' = [execution EXCEPT ![u] = x]
         /\ x.at = state /\ x.previous = execution[u].previous /\ x.new = execution[u].new
  BY GoesTo DEF UpgradeInv
<1>2. UpgradeBecomes(u, x, upgrade[u])
  BY <1>1, UpgradeRunning DEF UpgradeBecomes, UpgradeRuns, At, UpgradeInv
<1>3. Given(upgrade[u], revisions)
  BY RecordGiven DEF UpgradeRuns, At
<1> QED BY <1>1, <1>2, <1>3, UpgradeStepKeeps DEF UpgradeInv, UpgradeTyped

LEMMA AbortKeeps ==
  ASSUME UpgradeInv, NEW u \in Upgrades, UpgradeRuns(u), GoTo(u, "aborted"),
         UNCHANGED <<upgrade, triggered, revisions, service, upgradeOverlap>>
  PROVE  UpgradeInv'
<1>1. \A x : x.at = "aborted" => Serves(x, upgrade[u], service.target)
  BY DEF Serves
<1> QED BY <1>1, UpgradeGoesKeeps DEF ExecutionStates

\* A step that records a stage as passed.
LEMMA StagePassKeeps ==
  ASSUME UpgradeInv, NEW u \in Upgrades, UpgradeRuns(u), NEW stage \in UpgradeStages,
         NEW overall \in UpgradeStatus,
         NEW state \in ExecutionStates \ {"idle", "PullingImage", "RecordRevision", "UpdatingService"},
         state = "RegisteringTaskDefinition" => execution[u].new = NoRevision,
         UpdateStage(u, stage, "PASSED", overall), GoTo(u, state),
         UNCHANGED <<triggered, revisions, service, upgradeOverlap>>,
         \A x \in Execution, item \in UpgradeItem :
            /\ Serves(execution[u], upgrade[u], service.target)
            /\ x.at = state /\ x.previous = execution[u].previous /\ x.new = execution[u].new
            /\ item.previous = upgrade[u].previous /\ item.new = upgrade[u].new
            /\ item.status = overall
            => Serves(x, item, service.target)
  PROVE  UpgradeInv'
<1>1. PICK x \in Execution :
         /\ execution' = [execution EXCEPT ![u] = x]
         /\ x.at = state /\ x.previous = execution[u].previous /\ x.new = execution[u].new
  BY GoesTo DEF UpgradeInv
<1>2. PICK item \in UpgradeItem :
         /\ upgrade' = [upgrade EXCEPT ![u] = item]
         /\ item.previous = upgrade[u].previous /\ item.new = upgrade[u].new
         /\ item.status = overall
  BY StageRecorded DEF UpgradeInv, UpgradeRuns, At
<1>3. UpgradeBecomes(u, x, item)
  BY <1>1, <1>2 DEF UpgradeBecomes
<1>4. Given(item, revisions)
  BY <1>2, RecordGiven DEF UpgradeRuns, At
<1> QED BY <1>1, <1>2, <1>3, <1>4, UpgradeStepKeeps DEF UpgradeInv, UpgradeTyped

LEMMA PullingImageKeeps ==
  ASSUME UpgradeInv, NEW u \in Upgrades, PullingImage(u)
  PROVE  UpgradeInv'
<1>1. execution[u].at = "PullingImage" /\ UpgradeRuns(u) /\ execution[u].new = NoRevision
  BY DEF PullingImage, UpgradeRuns, UpgradeEnded, At, UpgradeInv, UpgradeTyped
<1>2. CASE FailStage(u, "PULLING_IMAGE") /\ GoTo(u, "MarkUpgradeFailed")
  BY <1>1, <1>2, StageFailKeeps DEF PullingImage, CaughtStates, UpgradeStages
<1>3. CASE /\ UpdateStage(u, "PULLING_IMAGE", "PASSED", "PULLING_IMAGE")
           /\ GoTo(u, "RegisteringTaskDefinition")
  <2>1. \A x \in Execution, item \in UpgradeItem :
            /\ Serves(execution[u], upgrade[u], service.target)
            /\ x.at = "RegisteringTaskDefinition" /\ item.previous = upgrade[u].previous
            => Serves(x, item, service.target)
    BY <1>1 DEF Serves
  <2> QED BY <1>1, <1>3, <2>1, StagePassKeeps
          DEF PullingImage, UpgradeStages, UpgradeStatus, ExecutionStates
<1> QED BY <1>2, <1>3 DEF PullingImage

LEMMA RecordRevisionKeeps ==
  ASSUME UpgradeInv, NEW u \in Upgrades, RecordRevision(u)
  PROVE  UpgradeInv'
<1>1. /\ execution[u].at = "RecordRevision" /\ UpgradeRuns(u)
      /\ execution[u] \in Execution /\ upgrade[u] \in UpgradeItem
      /\ UNCHANGED <<triggered, revisions, service, upgradeOverlap>>
  BY UpgradeRunning DEF RecordRevision, UpgradeRuns, UpgradeEnded, At, UpgradeInv
<1>2. PICK x \in Execution :
         /\ execution' = [execution EXCEPT ![u] = x]
         /\ x.at = "UpdatingService" /\ x.previous = execution[u].previous
         /\ x.new = execution[u].new
  BY GoesTo DEF UpgradeInv, RecordRevision, ExecutionStates
<1>3. PICK next : next = StageUpdated(upgrade[u], "REGISTERING_TASK_DEFINITION", "PASSED",
                                      "REGISTERING_TASK_DEFINITION")
  OBVIOUS
<1>4. next \in UpgradeItem
  BY <1>1, <1>3, StageUpdatedType DEF RecordedStages, UpgradeStages, UpgradeStatus
<1>5. PICK item : item = [next EXCEPT !.previous = execution[u].previous, !.new = execution[u].new]
  OBVIOUS
<1>6. /\ item \in UpgradeItem
      /\ item.previous = execution[u].previous /\ item.new = execution[u].new
  BY <1>1, <1>4, <1>5 DEF UpgradeItem, Execution
<1>7. upgrade' = [upgrade EXCEPT ![u] = item]
  BY <1>3, <1>5 DEF RecordRevision, UpgradeInv, UpgradeTyped
<1>8. UpgradeBecomes(u, x, item)
  BY <1>2, <1>6, <1>7 DEF UpgradeBecomes
<1>9. Serves(execution[u], upgrade[u], service.target) => Serves(x, item, service.target)
  BY <1>1, <1>2, <1>6 DEF Serves
<1>10. Given(item, revisions) /\ x.new # NoRevision
  BY <1>1, <1>2, <1>6 DEF UpgradeInv, UpgradeTyped, Given
<1> QED BY <1>1, <1>2, <1>8, <1>9, <1>10, UpgradeStepKeeps DEF UpgradeInv, UpgradeTyped

LEMMA UpdatingServiceKeeps ==
  ASSUME UpgradeInv, NEW u \in Upgrades, UpdatingService(u)
  PROVE  UpgradeInv'
<1>1. /\ execution[u].at = "UpdatingService" /\ UpgradeRuns(u)
      /\ execution[u] \in Execution /\ upgrade[u] \in UpgradeItem
      /\ UNCHANGED <<triggered, revisions, upgradeOverlap>>
  BY UpgradeRunning DEF UpdatingService, UpgradeRuns, UpgradeEnded, At, UpgradeInv
<1>2. CASE FailStage(u, "UPDATING_SERVICE") /\ GoTo(u, "MarkUpgradeFailed") /\ UNCHANGED service
  BY <1>1, <1>2, StageFailKeeps DEF CaughtStates, UpgradeStages
<1>3. CASE /\ service' = [service EXCEPT !.target = execution[u].new]
           /\ GoTo(u, "Polling") /\ UNCHANGED upgrade
  <2>1. PICK x \in Execution :
           /\ execution' = [execution EXCEPT ![u] = x]
           /\ x.at = "Polling" /\ x.previous = execution[u].previous
           /\ x.new = execution[u].new
    BY <1>3, GoesTo DEF UpgradeInv, ExecutionStates
  <2>2. UpgradeBecomes(u, x, upgrade[u])
    BY <1>1, <1>3, <2>1, UpgradeRunning DEF UpgradeBecomes, UpgradeInv
  <2>3. execution[u].new \in RevisionNumbers /\ execution[u].new <= revisions
    BY <1>1 DEF UpgradeInv, UpgradeTyped, Given, Execution
  <2>4. /\ service' \in [target : RevisionNumbers, serving : SUBSET RevisionNumbers,
                          balanced : BOOLEAN]
        /\ service'.target = execution[u].new
    BY <1>3, <2>3 DEF UpgradeInv, UpgradeTyped
  <2>5. Serves(execution[u], upgrade[u], service.target) => Serves(x, upgrade[u], service'.target)
    BY <1>1, <2>1, <2>4 DEF Serves
  <2>6. Given(upgrade[u], revisions)
    BY <1>1, RecordGiven
  <2> QED BY <1>1, <2>1, <2>2, <2>3, <2>4, <2>5, <2>6, UpgradeStepKeeps
<1> QED BY <1>2, <1>3 DEF UpdatingService

LEMMA PollServiceKeeps ==
  ASSUME UpgradeInv, NEW u \in Upgrades, PollService(u)
  PROVE  UpgradeInv'
<1>1. /\ execution[u].at = "Polling" /\ UpgradeRuns(u)
      /\ execution[u] \in Execution /\ upgrade[u] \in UpgradeItem
      /\ UNCHANGED <<triggered, revisions, service, upgradeOverlap>>
  BY UpgradeRunning DEF PollService, UpgradeRuns, UpgradeEnded, At, UpgradeInv
<1>2. CASE FailStage(u, "UPDATING_SERVICE") /\ GoTo(u, "MarkUpgradeFailed")
  BY <1>1, <1>2, StageFailKeeps DEF CaughtStates, UpgradeStages
<1>3. CASE /\ UpdateStage(u, "UPDATING_SERVICE", "PASSED", "UPDATING_SERVICE")
           /\ GoTo(u, "PlatformHealthCheck")
  <2>1. \A x \in Execution, item \in UpgradeItem :
            /\ Serves(execution[u], upgrade[u], service.target)
            /\ x.at = "PlatformHealthCheck" /\ item.previous = upgrade[u].previous
            /\ x.previous = execution[u].previous /\ x.new = execution[u].new
            /\ item.new = upgrade[u].new
            => Serves(x, item, service.target)
    BY <1>1 DEF Serves
  <2> QED BY <1>1, <1>3, <2>1, StagePassKeeps DEF UpgradeStages, UpgradeStatus, ExecutionStates
<1>4. CASE /\ execution[u].polls + 1 < PollAttempts
           /\ execution' = [execution EXCEPT ![u].polls = @ + 1]
           /\ UNCHANGED upgrade
  <2>1. PICK n \in 0 .. PollAttempts : n = execution[u].polls + 1
    BY <1>1, <1>4, UpgradeAssumption DEF Execution
  <2>2. PICK x : x = [execution[u] EXCEPT !.polls = n]
    OBVIOUS
  <2>3. /\ x \in Execution /\ x.at = "Polling" /\ x.previous = execution[u].previous
        /\ x.new = execution[u].new
    BY <1>1, <2>2 DEF Execution
  <2>4. UpgradeBecomes(u, x, upgrade[u])
    BY <1>1, <1>4, <2>1, <2>2, <2>3, UpgradeRunning DEF UpgradeBecomes, UpgradeInv, UpgradeTyped
  <2>5. Serves(execution[u], upgrade[u], service.target) => Serves(x, upgrade[u], service.target)
    BY <1>1, <2>3 DEF Serves
  <2>6. Given(upgrade[u], revisions)
    BY <1>1, RecordGiven
  <2> QED BY <1>1, <2>3, <2>4, <2>5, <2>6, UpgradeStepKeeps DEF UpgradeInv, UpgradeTyped
<1> QED BY <1>2, <1>3, <1>4 DEF PollService

LEMMA PlatformHealthCheckKeeps ==
  ASSUME UpgradeInv, NEW u \in Upgrades, PlatformHealthCheck(u)
  PROVE  UpgradeInv'
<1>1. /\ execution[u].at = "PlatformHealthCheck" /\ UpgradeRuns(u)
      /\ UNCHANGED <<triggered, revisions, service, upgradeOverlap>>
  BY DEF PlatformHealthCheck, UpgradeRuns, UpgradeEnded, At
<1>2. CASE FailStage(u, "HEALTH_CHECK") /\ GoTo(u, "MarkUpgradeFailed")
  BY <1>1, <1>2, StageFailKeeps DEF CaughtStates, UpgradeStages
<1>3. CASE /\ UpdateStage(u, "HEALTH_CHECK", "PASSED", "HEALTH_CHECK")
           /\ GoTo(u, "MarkUpgraded")
  <2>1. \A x \in Execution, item \in UpgradeItem :
            /\ Serves(execution[u], upgrade[u], service.target)
            /\ x.at = "MarkUpgraded" /\ item.previous = upgrade[u].previous
            /\ x.previous = execution[u].previous /\ x.new = execution[u].new
            /\ item.new = upgrade[u].new
            => Serves(x, item, service.target)
    BY <1>1 DEF Serves
  <2> QED BY <1>1, <1>3, <2>1, StagePassKeeps DEF UpgradeStages, UpgradeStatus, ExecutionStates
<1> QED BY <1>2, <1>3 DEF PlatformHealthCheck

LEMMA MarkUpgradedKeeps ==
  ASSUME UpgradeInv, NEW u \in Upgrades, MarkUpgraded(u)
  PROVE  UpgradeInv'
<1>1. /\ execution[u].at = "MarkUpgraded" /\ UpgradeRuns(u)
      /\ UNCHANGED <<triggered, revisions, service, upgradeOverlap>>
  BY DEF MarkUpgraded, UpgradeRuns, UpgradeEnded, At
<1>2. CASE GoTo(u, "aborted") /\ UNCHANGED upgrade
  BY <1>1, <1>2, AbortKeeps
<1>3. CASE UpdateStage(u, "HEALTH_CHECK", "PASSED", "ACTIVE") /\ GoTo(u, "ended")
  <2>1. \A x \in Execution, item \in UpgradeItem :
            /\ Serves(execution[u], upgrade[u], service.target)
            /\ x.at = "ended" /\ item.previous = upgrade[u].previous
            /\ x.previous = execution[u].previous /\ x.new = execution[u].new
            /\ item.new = upgrade[u].new /\ item.status = "ACTIVE"
            => Serves(x, item, service.target)
    BY <1>1 DEF Serves
  <2> QED BY <1>1, <1>3, <2>1, StagePassKeeps DEF UpgradeStages, UpgradeStatus, ExecutionStates
<1> QED BY <1>2, <1>3 DEF MarkUpgraded

LEMMA MarkUpgradeFailedKeeps ==
  ASSUME UpgradeInv, NEW u \in Upgrades, MarkUpgradeFailed(u)
  PROVE  UpgradeInv'
<1>1. /\ execution[u].at = "MarkUpgradeFailed" /\ UpgradeRuns(u)
      /\ execution[u] \in Execution /\ upgrade[u] \in UpgradeItem
      /\ UNCHANGED <<upgrade, triggered, revisions, upgradeOverlap>>
  BY UpgradeRunning DEF MarkUpgradeFailed, UpgradeRuns, UpgradeEnded, At, UpgradeInv
<1>2. CASE GoTo(u, "aborted") /\ UNCHANGED service
  BY <1>1, <1>2, AbortKeeps
<1>3. CASE /\ upgrade[u].previous = NoRevision
           /\ GoTo(u, "RecordFailure") /\ UNCHANGED service
  <2>1. \A x \in Execution :
            /\ Serves(execution[u], upgrade[u], service.target)
            /\ x.at = "RecordFailure" /\ x.new = execution[u].new
            => Serves(x, upgrade[u], service.target)
    BY <1>1, <1>3 DEF Serves
  <2> QED BY <1>1, <1>3, <2>1, UpgradeGoesKeeps DEF ExecutionStates
<1>4. CASE /\ upgrade[u].previous # NoRevision
           /\ service' = [service EXCEPT !.target = upgrade[u].previous]
           /\ GoTo(u, "RecordFailure")
  <2>1. PICK x \in Execution :
           /\ execution' = [execution EXCEPT ![u] = x]
           /\ x.at = "RecordFailure" /\ x.previous = execution[u].previous
           /\ x.new = execution[u].new
    BY <1>4, GoesTo DEF UpgradeInv, ExecutionStates
  <2>2. UpgradeBecomes(u, x, upgrade[u])
    BY <1>1, <2>1, UpgradeRunning DEF UpgradeBecomes, UpgradeInv
  <2>3. Given(upgrade[u], revisions)
    BY <1>1, RecordGiven
  <2>4. upgrade[u].previous \in RevisionNumbers /\ upgrade[u].previous <= revisions
    BY <1>1, <1>4, <2>3 DEF Given, UpgradeItem
  <2>5. /\ service' \in [target : RevisionNumbers, serving : SUBSET RevisionNumbers,
                          balanced : BOOLEAN]
        /\ service'.target = upgrade[u].previous
    BY <1>4, <2>4 DEF UpgradeInv, UpgradeTyped
  <2>6. Serves(execution[u], upgrade[u], service.target) => Serves(x, upgrade[u], service'.target)
    BY <1>1, <1>4, <2>1, <2>5 DEF Serves
  <2> QED BY <1>1, <2>1, <2>2, <2>3, <2>4, <2>5, <2>6, UpgradeStepKeeps
<1> QED BY <1>2, <1>3, <1>4 DEF MarkUpgradeFailed

LEMMA RecordFailureKeeps ==
  ASSUME UpgradeInv, NEW u \in Upgrades, RecordFailure(u)
  PROVE  UpgradeInv'
<1> DEFINE overall == IF upgrade[u].previous # NoRevision THEN "ROLLED_BACK" ELSE "FAILED"
<1>1. /\ execution[u].at = "RecordFailure" /\ UpgradeRuns(u)
      /\ execution[u] \in Execution /\ upgrade[u] \in UpgradeItem
      /\ UNCHANGED <<triggered, revisions, service, upgradeOverlap>>
  BY UpgradeRunning DEF RecordFailure, UpgradeRuns, UpgradeEnded, At, UpgradeInv
<1>2. CASE GoTo(u, "aborted") /\ UNCHANGED upgrade
  BY <1>1, <1>2, AbortKeeps
<1>3. CASE ~(GoTo(u, "aborted") /\ UNCHANGED upgrade)
  <2>1. PICK x \in Execution :
           /\ execution' = [execution EXCEPT ![u] = x]
           /\ x.at = "ended" /\ x.previous = execution[u].previous
           /\ x.new = execution[u].new
    BY <1>3, GoesTo DEF UpgradeInv, ExecutionStates, RecordFailure
  <2>2. PICK status \in {"ROLLED_BACK", "FAILED"} : status = overall
    OBVIOUS
  <2>3. PICK next : next = StageUpdated(upgrade[u], "UNKNOWN", "FAILED", status)
    OBVIOUS
  <2>4. /\ next \in UpgradeItem /\ next.previous = upgrade[u].previous
        /\ next.new = upgrade[u].new /\ next.status = status
    BY <1>1, <2>3, StageUpdatedType DEF RecordedStages, UpgradeStatus
  <2>5. PICK item : item = [next EXCEPT !.failedStage = "UNKNOWN"]
    OBVIOUS
  <2>6. /\ item \in UpgradeItem /\ item.previous = upgrade[u].previous
        /\ item.new = upgrade[u].new /\ item.status = status
    BY <2>4, <2>5 DEF UpgradeItem, RecordedStages
  <2>7. upgrade' = [upgrade EXCEPT ![u] = item]
    BY <1>3, <2>2, <2>3, <2>5 DEF RecordFailure, UpgradeInv, UpgradeTyped
  <2>8. UpgradeBecomes(u, x, item)
    BY <2>1, <2>6, <2>7 DEF UpgradeBecomes
  <2>9. Serves(execution[u], upgrade[u], service.target) => Serves(x, item, service.target)
    BY <1>1, <2>1, <2>6 DEF Serves
  <2>10. Given(item, revisions)
    BY <1>1, <2>6, RecordGiven
  <2> QED BY <1>1, <2>1, <2>8, <2>9, <2>10, UpgradeStepKeeps DEF UpgradeInv, UpgradeTyped
<1> QED BY <1>2, <1>3 DEF RecordFailure

\* What the service is asked to run is not changed by ECS.
LEMMA EcsKeeps ==
  ASSUME UpgradeInv, EcsStartsTasks \/ EcsSettles
  PROVE  UpgradeInv'
<1>1. /\ UNCHANGED <<upgrade, execution, triggered, revisions, upgradeOverlap>>
      /\ service \in [target : RevisionNumbers, serving : SUBSET RevisionNumbers,
                       balanced : BOOLEAN]
  BY DEF EcsStartsTasks, EcsSettles, UpgradeInv, UpgradeTyped
<1>2. /\ service' \in [target : RevisionNumbers, serving : SUBSET RevisionNumbers,
                        balanced : BOOLEAN]
      /\ service'.target = service.target
  BY <1>1 DEF EcsStartsTasks, EcsSettles
<1>3. UpgradeTyped'
  BY <1>1, <1>2 DEF UpgradeInv, UpgradeTyped, Registered, At, Given
<1>4. UpgradeServed'
  BY <1>1, <1>2 DEF UpgradeInv, UpgradeServed, UpgradeRuns, UpgradeEnded, At, Serves
<1> QED BY <1>3, <1>4 DEF UpgradeInv

LEMMA UpgradeNextKeeps == UpgradeInv /\ [UpgradeNext]_upgradeVars => UpgradeInv'
<1> SUFFICES ASSUME UpgradeInv, [UpgradeNext]_upgradeVars PROVE UpgradeInv'
  OBVIOUS
<1>1. ASSUME NEW u \in Upgrades, RegisterNewRevision(u) PROVE UpgradeInv'
  <2>1. CASE UNCHANGED revisions
    <3>1. execution[u].at \in CaughtStates
      BY <1>1 DEF RegisterNewRevision, At, CaughtStates
    <3>2. revisions # revisions + 1
      BY RegisteredFinite DEF UpgradeInv, UpgradeTyped
    <3> QED BY <1>1, <2>1, <3>1, <3>2, StageFailKeeps DEF RegisterNewRevision, UpgradeStages
  <2>2. CASE ~UNCHANGED revisions
    BY <1>1, <2>2, RegisterNewRevisionKeeps
  <2> QED BY <2>1, <2>2
<1>2. CASE UNCHANGED upgradeVars
  <2>1. UpgradeTyped'
    BY <1>2 DEF upgradeVars, UpgradeInv, UpgradeTyped, Registered, At, Given
  <2>2. UpgradeServed'
    BY <1>2 DEF upgradeVars, UpgradeInv, UpgradeServed, UpgradeRuns, UpgradeEnded, At, Serves
  <2> QED BY <2>1, <2>2 DEF UpgradeInv
<1>3. ASSUME NEW u \in Upgrades, UpgradeStep(u) PROVE UpgradeInv'
  BY <1>1, <1>3, PullingImageKeeps, RecordRevisionKeeps, UpdatingServiceKeeps, PollServiceKeeps,
     PlatformHealthCheckKeeps, TaskTimesOutKeeps, MarkUpgradedKeeps, MarkUpgradeFailedKeeps,
     RecordFailureKeeps DEF UpgradeStep
<1> QED BY <1>2, <1>3, TriggerUpgradeKeeps, EcsKeeps DEF UpgradeNext

LEMMA UpgradeAlways == UpgradeSpec => []UpgradeInv
<1> QED BY UpgradeInitially, UpgradeNextKeeps, PTL DEF UpgradeSpec

\* The records of the upgrades, their executions and the service keep their types;
\* at most one revision is registered for each upgrade.
THEOREM UpgradeTypeCorrect == UpgradeSpec => []UpgradeTypeOK
<1>1. ASSUME UpgradeInv PROVE revisions \in RevisionNumbers
  <2>1. revisions = 1 + Cardinality(Registered)
    BY <1>1 DEF UpgradeInv, UpgradeTyped
  <2> QED BY <2>1, RegisteredFinite, UpgradesFinite
<1>2. UpgradeInv => UpgradeTypeOK
  BY <1>1 DEF UpgradeInv, UpgradeTyped, UpgradeTypeOK
<1> QED BY <1>2, UpgradeAlways, PTL

\* An upgrade that ends leaves the service as its record says: on its own
\* revision, or back on the one from before (platform_mark_upgrade_failed.py).
THEOREM UpgradeOutcome == UpgradeSpec => []UpgradeOutcomeIsServed
<1>1. ASSUME UpgradeInv, ~upgradeOverlap, triggered # << >>,
             execution[Last(triggered)].at = "ended"
      PROVE  /\ upgrade[Last(triggered)].status = "ACTIVE" =>
                   service.target = upgrade[Last(triggered)].new
             /\ upgrade[Last(triggered)].status \in {"FAILED", "ROLLED_BACK"} =>
                   /\ service.target # execution[Last(triggered)].new
                   /\ upgrade[Last(triggered)].previous # NoRevision =>
                         service.target = upgrade[Last(triggered)].previous
             /\ upgrade[Last(triggered)].status \in {"ACTIVE", "FAILED", "ROLLED_BACK"}
  BY <1>1 DEF UpgradeInv, UpgradeServed, Serves
<1>2. UpgradeInv => UpgradeOutcomeIsServed
  BY <1>1 DEF UpgradeOutcomeIsServed
<1> QED BY <1>2, UpgradeAlways, PTL

-----------------------------------------------------------------------------
(***************************************************************************)
(* GitRepository: a retry of a deployment is not refused for what an       *)
(* earlier attempt left, unless it is excused, and every commit on a       *)
(* branch or on main holds a CI workflow. The invariant says what an       *)
(* attempt knows of the repository at each of its steps.                   *)
(***************************************************************************)

AttemptRecord ==
    [at : Running \cup Ended \cup {"idle"}, path : WorkflowPaths, existed : BOOLEAN,
     carries : BOOLEAN, parent : BranchHead, misread : BOOLEAN]

RefusalRecord == [attempt : Attempts, main : BranchHead, misread : BOOLEAN]

\* The refusals that one attempt at a time may meet.
Excused(r) ==
    \/ ~InitialisesRepository /\ r.main = NoCommit
    \/ provider = "gitlab" /\ r.misread

\* What an attempt knows of the repository, whoever else writes to it.
AttemptHolds(d, x, repo, heads, open) ==
    /\ ~x.existed => x.carries
    /\ x.at \in {"file", "branch", "pull"} => x.existed
    /\ x.at \in {"idle", "exists", "create"} => ~x.existed
    /\ x.existed \/ x.at \in {"read", "commit"} => repo.exists
    /\ x.at \in {"idle", "exists", "create", "file", "branch"} => d \notin DOMAIN heads
    /\ x.at = "branch" /\ ~x.carries => repo.main # NoCommit /\ repo.main.workflows # {}
    /\ x.at \in {"read", "commit", "pull", "pushed"} /\ x.existed => d \in DOMAIN heads
    /\ x.at \in {"read", "commit"} /\ x.existed /\ ~x.carries => heads[d].workflows # {}
    /\ x.at \in {"pull", "pushed"} /\ x.existed => heads[d].workflows # {}
    /\ d \in open => d \in DOMAIN heads /\ heads[d].workflows # {} /\ repo.exists

\* What the only attempt that runs knows besides.
AloneHolds(d, x, repo, heads, open) ==
    /\ x.at = "create" => ~repo.exists
    /\ x.at \in {"create", "read", "commit"} /\ ~x.existed => open = {}
    /\ x.at = "commit" => x.parent = IF x.existed THEN heads[d] ELSE repo.main

MainHolds(repo) ==
    /\ repo \in [exists : BOOLEAN, main : BranchHead]
    /\ repo.main # NoCommit => repo.exists
    /\ repo.main # NoCommit /\ repo.main.by # 0 => repo.main.workflows # {}
    /\ repo.exists /\ InitialisesRepository => repo.main # NoCommit

GitTyped ==
    /\ provider \in Providers /\ cicd \in WorkflowPaths /\ attemptsOverlap \in BOOLEAN
    /\ branches \in [DOMAIN branches -> Commit] /\ DOMAIN branches \subseteq Attempts
    /\ pulls \subseteq Attempts
    /\ attempt \in [Attempts -> AttemptRecord]
    /\ refusals \subseteq RefusalRecord

GitAlone ==
    ~attemptsOverlap =>
        /\ \A d, e \in Attempts :
              attempt[d].at \in Running /\ attempt[e].at \in Running => d = e
        /\ ~repository.exists => pulls = {}
        /\ \A d \in Attempts : AloneHolds(d, attempt[d], repository, branches, pulls)
        /\ \A r \in refusals : Excused(r)

GitInv ==
    /\ GitTyped
    /\ MainHolds(repository)
    /\ \A d \in Attempts : AttemptHolds(d, attempt[d], repository, branches, pulls)
    /\ GitAlone

-----------------------------------------------------------------------------
(* The frame of a step *)

\* Nothing another attempt relies on is taken back.
TakesNothingBack(repo, next) ==
    /\ repo.exists => next.exists
    /\ repo.main # NoCommit /\ repo.main.workflows # {} =>
          next.main # NoCommit /\ next.main.workflows # {}

LEMMA OthersHold ==
  ASSUME NEW d, NEW x \in AttemptRecord, NEW repo, NEW repo2, NEW heads, NEW heads2,
         NEW open, NEW open2,
         AttemptHolds(d, x, repo, heads, open), TakesNothingBack(repo, repo2),
         d \in DOMAIN heads <=> d \in DOMAIN heads2,
         d \in DOMAIN heads => heads2[d] = heads[d],
         d \in open2 => d \in open
  PROVE  AttemptHolds(d, x, repo2, heads2, open2)
BY DEF AttemptHolds, TakesNothingBack, AttemptRecord

\* A step of attempt d, which finds it running or triggers it.
LEMMA AttemptStepKeeps ==
  ASSUME GitInv, NEW d \in Attempts, NEW x \in AttemptRecord,
         attempt' = [attempt EXCEPT ![d] = x],
         UNCHANGED <<provider, cicd, attemptsOverlap>>,
         branches' \in [DOMAIN branches' -> Commit], DOMAIN branches' \subseteq Attempts,
         pulls' \subseteq Attempts,
         refusals' \subseteq RefusalRecord,
         MainHolds(repository)', TakesNothingBack(repository, repository'),
         AttemptHolds(d, x, repository', branches', pulls'),
         \A e \in Attempts \ {d} :
            /\ e \in DOMAIN branches <=> e \in DOMAIN branches'
            /\ e \in DOMAIN branches => branches'[e] = branches[e]
            /\ e \in pulls' => e \in pulls,
         ~attemptsOverlap =>
            /\ \A e \in Attempts \ {d} : attempt[e].at \notin Running
            /\ ~repository'.exists => pulls' = {}
            /\ AloneHolds(d, x, repository', branches', pulls')
            /\ \A r \in refusals' : Excused(r)
  PROVE  GitInv'
<1>1. /\ attempt' \in [Attempts -> AttemptRecord] /\ attempt'[d] = x
      /\ \A e \in Attempts \ {d} : attempt'[e] = attempt[e]
  BY DEF GitInv, GitTyped
<1>2. GitTyped'
  BY <1>1 DEF GitInv, GitTyped
<1>3. ASSUME NEW e \in Attempts
      PROVE  AttemptHolds(e, attempt'[e], repository', branches', pulls')
  <2>1. CASE e = d
    BY <1>1, <2>1
  <2>2. CASE e # d
    <3>1. attempt[e] \in AttemptRecord /\ AttemptHolds(e, attempt[e], repository, branches, pulls)
      BY DEF GitInv, GitTyped
    <3> QED BY <1>1, <2>2, <3>1, OthersHold
  <2> QED BY <2>1, <2>2
<1>4. GitAlone'
  <2>1. CASE attemptsOverlap
    BY <2>1 DEF GitAlone
  <2>2. CASE ~attemptsOverlap
    <3>1. \A e \in Attempts \ {d} : attempt'[e].at \notin Running
      BY <1>1, <2>2
    <3>2. ASSUME NEW e \in Attempts
          PROVE  AloneHolds(e, attempt'[e], repository', branches', pulls')
      <4>1. CASE e = d
        BY <1>1, <2>2, <4>1
      <4>2. CASE e # d
        BY <3>1, <4>2 DEF AloneHolds, Running
      <4> QED BY <4>1, <4>2
    <3>3. \A r : Excused(r)' <=> Excused(r)
      BY DEF Excused, InitialisesRepository
    <3>4. (\A r \in refusals : Excused(r))'
      BY <2>2, <3>3
    <3> QED BY <2>2, <3>1, <3>2, <3>4 DEF GitAlone
  <2> QED BY <2>1, <2>2
<1> QED BY <1>2, <1>3, <1>4 DEF GitInv

LEMMA KeptSame == \A repo : TakesNothingBack(repo, repo)
BY DEF TakesNothingBack

\* A step of attempt d that changes nothing but the attempt.
LEMMA AttemptMoves ==
  ASSUME GitInv, NEW d \in Attempts, NEW x \in AttemptRecord,
         attempt' = [attempt EXCEPT ![d] = x],
         UNCHANGED <<provider, cicd, attemptsOverlap, repository, branches, pulls>>,
         refusals' \subseteq RefusalRecord,
         AttemptHolds(d, x, repository, branches, pulls),
         ~attemptsOverlap =>
            /\ \A e \in Attempts \ {d} : attempt[e].at \notin Running
            /\ AloneHolds(d, x, repository, branches, pulls)
            /\ \A r \in refusals' : Excused(r)
  PROVE  GitInv'
<1>1. branches' \in [DOMAIN branches' -> Commit] /\ DOMAIN branches' \subseteq Attempts
      /\ pulls' \subseteq Attempts
  BY DEF GitInv, GitTyped
<1>2. MainHolds(repository)'
  BY DEF GitInv, MainHolds, InitialisesRepository
<1>3. TakesNothingBack(repository, repository')
  BY KeptSame
<1>4. ~attemptsOverlap => (~repository'.exists => pulls' = {})
  BY DEF GitInv, GitAlone
<1> QED BY <1>1, <1>2, <1>3, <1>4, AttemptStepKeeps

\* An attempt that runs, and, where attempts do not overlap, nothing beside it.
LEMMA RunningAttempt ==
  ASSUME GitInv, NEW d \in Attempts, attempt[d].at \in Running
  PROVE  /\ attempt[d] \in AttemptRecord
         /\ AttemptHolds(d, attempt[d], repository, branches, pulls)
         /\ ~attemptsOverlap =>
               /\ \A e \in Attempts \ {d} : attempt[e].at \notin Running
               /\ AloneHolds(d, attempt[d], repository, branches, pulls)
               /\ \A r \in refusals : Excused(r)
         /\ refusals \subseteq RefusalRecord
BY DEF GitInv, GitTyped, GitAlone

LEMMA AttemptGoesOn ==
  ASSUME GitInv, NEW d \in Attempts, NEW state \in Running \cup Ended,
         AttemptGoes(d, state)
  PROVE  \E x \in AttemptRecord :
            /\ attempt' = [attempt EXCEPT ![d] = x]
            /\ x.at = state /\ x.existed = attempt[d].existed
            /\ x.carries = attempt[d].carries /\ x.parent = attempt[d].parent
            /\ x.path = attempt[d].path
<1>1. PICK x : x = [attempt[d] EXCEPT !.at = state]
  OBVIOUS
<1>2. attempt[d] \in AttemptRecord
  BY DEF GitInv, GitTyped
<1>3. /\ x \in AttemptRecord
      /\ x.at = state /\ x.existed = attempt[d].existed
      /\ x.carries = attempt[d].carries /\ x.parent = attempt[d].parent
      /\ x.path = attempt[d].path
  BY <1>1, <1>2 DEF AttemptRecord
<1> QED BY <1>1, <1>3 DEF AttemptGoes, GitInv, GitTyped

LEMMA FailureEnds == Failure \in {"failed", "escaped"} /\ Failure \in Ended
BY DEF Failure, Ended

\* Of an attempt that has failed, only what its branch holds matters.
LEMMA FailedHolds ==
  ASSUME NEW d, NEW x, NEW repo, NEW heads, NEW open,
         x.at \in {"failed", "escaped"}, ~x.existed => x.carries, x.existed => repo.exists,
         d \in open => d \in DOMAIN heads /\ heads[d].workflows # {} /\ repo.exists
  PROVE  AttemptHolds(d, x, repo, heads, open) /\ AloneHolds(d, x, repo, heads, open)
BY DEF AttemptHolds, AloneHolds

LEMMA CallFailsKeeps ==
  ASSUME GitInv, NEW d \in Attempts, attempt[d].at \in Running, CallFails(d),
         UNCHANGED <<provider, cicd, attemptsOverlap, repository, branches, pulls>>
  PROVE  GitInv'
<1>1. PICK x \in AttemptRecord :
            /\ attempt' = [attempt EXCEPT ![d] = x]
            /\ x.at = Failure /\ x.existed = attempt[d].existed
            /\ x.carries = attempt[d].carries /\ x.parent = attempt[d].parent
            /\ x.path = attempt[d].path
  BY AttemptGoesOn, FailureEnds DEF CallFails
<1>2. /\ AttemptHolds(d, x, repository, branches, pulls)
      /\ AloneHolds(d, x, repository, branches, pulls)
  BY <1>1, FailureEnds, RunningAttempt, FailedHolds DEF AttemptHolds
<1>3. UNCHANGED refusals
  BY DEF CallFails
<1> QED BY <1>1, <1>2, <1>3, RunningAttempt, AttemptMoves

\* What the repository refuses because of its own state, one attempt at a time.
LEMMA RefusesKeeps ==
  ASSUME GitInv, NEW d \in Attempts, attempt[d].at \in Running, Refuses(d),
         UNCHANGED <<provider, cicd, attemptsOverlap, repository, branches, pulls>>,
         ~attemptsOverlap =>
            \/ ~InitialisesRepository /\ repository.main = NoCommit
            \/ provider = "gitlab" /\ attempt[d].misread
  PROVE  GitInv'
<1>1. PICK x \in AttemptRecord :
            /\ attempt' = [attempt EXCEPT ![d] = x]
            /\ x.at = Failure /\ x.existed = attempt[d].existed
            /\ x.carries = attempt[d].carries /\ x.parent = attempt[d].parent
            /\ x.path = attempt[d].path
  BY AttemptGoesOn, FailureEnds DEF Refuses
<1>2. /\ AttemptHolds(d, x, repository, branches, pulls)
      /\ AloneHolds(d, x, repository, branches, pulls)
  BY <1>1, FailureEnds, RunningAttempt, FailedHolds DEF AttemptHolds
<1>3. PICK r : r = [attempt |-> d, main |-> repository.main, misread |-> attempt[d].misread]
  OBVIOUS
<1>4. r \in RefusalRecord /\ r.main = repository.main /\ r.misread = attempt[d].misread
  BY <1>3, RunningAttempt DEF GitInv, MainHolds, AttemptRecord, RefusalRecord
<1>5. refusals' = refusals \cup {r}
  BY <1>3 DEF Refuses
<1>6. ~attemptsOverlap => Excused(r)
  BY <1>4 DEF Excused
<1> QED BY <1>1, <1>2, <1>4, <1>5, <1>6, RunningAttempt, AttemptMoves

LEMMA AnswerArrives ==
  ASSUME GitInv, NEW d \in Attempts, NEW state \in Running \cup Ended, Answered(d, state)
  PROVE  \E x \in AttemptRecord :
            /\ attempt' = [attempt EXCEPT ![d] = x]
            /\ x.at \in {state, "failed", "escaped"} /\ x.existed = attempt[d].existed
            /\ x.carries = attempt[d].carries /\ x.parent = attempt[d].parent
            /\ x.path = attempt[d].path
<1>1. PICK outcome \in {state, Failure} : AttemptGoes(d, outcome)
  BY DEF Answered, AttemptGoes
<1>2. outcome \in Running \cup Ended
  BY FailureEnds
<1>3. PICK x \in AttemptRecord :
            /\ attempt' = [attempt EXCEPT ![d] = x]
            /\ x.at = outcome /\ x.existed = attempt[d].existed
            /\ x.carries = attempt[d].carries /\ x.parent = attempt[d].parent
            /\ x.path = attempt[d].path
  BY <1>1, <1>2, AttemptGoesOn
<1>4. x.at \in {state, "failed", "escaped"}
  BY <1>3, FailureEnds
<1> QED BY <1>3, <1>4

-----------------------------------------------------------------------------
(* The steps of an attempt *)

LEMMA GitInitially == GitInit => GitInv
<1> SUFFICES ASSUME GitInit PROVE GitInv
  OBVIOUS
<1>1. cicd \in WorkflowPaths
  BY GitAssumption DEF GitInit
<1>2. PICK x : x = [at |-> "idle", path |-> cicd, existed |-> FALSE, carries |-> TRUE,
                    parent |-> NoCommit, misread |-> FALSE]
  OBVIOUS
<1>3. /\ x \in AttemptRecord /\ x.at = "idle" /\ ~x.existed /\ x.carries
  BY <1>1, <1>2 DEF AttemptRecord, BranchHead
<1>4. attempt = [d \in Attempts |-> x]
  BY <1>2 DEF GitInit
<1>5. repository.exists = FALSE /\ repository.main = NoCommit
      /\ repository \in [exists : BOOLEAN, main : BranchHead]
  BY DEF GitInit, BranchHead
<1>6. DOMAIN branches = {} /\ branches \in [DOMAIN branches -> Commit] /\ pulls = {}
      /\ refusals = {}
  BY DEF GitInit
<1>7. GitTyped
  BY <1>1, <1>3, <1>4, <1>6 DEF GitInit, GitTyped
<1>8. MainHolds(repository)
  BY <1>5 DEF MainHolds
<1>9. \A d \in Attempts : /\ attempt[d] = x
                          /\ AttemptHolds(d, x, repository, branches, pulls)
                          /\ AloneHolds(d, x, repository, branches, pulls)
  BY <1>3, <1>4, <1>6 DEF AttemptHolds, AloneHolds
<1>10. GitAlone
  BY <1>3, <1>6, <1>9 DEF GitAlone, Running
<1> QED BY <1>7, <1>8, <1>9, <1>10 DEF GitInv

LEMMA TriggerKeeps ==
  ASSUME GitInv, NEW d \in Attempts, Trigger(d)
  PROVE  GitInv'
<1>1. PICK x : x = [attempt[d] EXCEPT !.at = "exists", !.path = cicd]
  OBVIOUS
<1>2. /\ attempt[d] \in AttemptRecord /\ attempt[d].at = "idle"
      /\ AttemptHolds(d, attempt[d], repository, branches, pulls)
  BY DEF Trigger, GitInv, GitTyped
<1>3. /\ x \in AttemptRecord /\ x.at = "exists" /\ x.existed = attempt[d].existed
      /\ x.carries = attempt[d].carries
  BY <1>1, <1>2 DEF AttemptRecord, Running, GitInv, GitTyped
<1>4. attempt' = [attempt EXCEPT ![d] = x]
  BY <1>1 DEF Trigger, GitInv, GitTyped
<1>5. AttemptHolds(d, x, repository, branches, pulls)
  BY <1>2, <1>3 DEF AttemptHolds
<1>6. AloneHolds(d, x, repository, branches, pulls)
  BY <1>3 DEF AloneHolds
<1>7. ~attemptsOverlap => \A e \in Attempts \ {d} : attempt[e].at \notin Running
  BY DEF Trigger
<1>8. UNCHANGED <<provider, cicd, attemptsOverlap, repository, branches, pulls, refusals>>
  BY DEF Trigger
<1>9. /\ refusals \subseteq RefusalRecord
      /\ ~attemptsOverlap => \A r \in refusals : Excused(r)
  BY DEF GitInv, GitTyped, GitAlone
<1> QED BY <1>3, <1>4, <1>5, <1>6, <1>7, <1>8, <1>9, AttemptMoves

LEMMA RepositoryExistsKeeps ==
  ASSUME GitInv, NEW d \in Attempts, RepositoryExists(d)
  PROVE  GitInv'
<1>1. /\ attempt[d].at = "exists" /\ attempt[d].at \in Running
      /\ UNCHANGED <<provider, cicd, attemptsOverlap, repository, branches, pulls>>
  BY DEF RepositoryExists, Running
<1>2. CASE CallFails(d)
  BY <1>1, <1>2, CallFailsKeeps
<1>3. CASE ~CallFails(d)
  <2>1. PICK x : x = [attempt[d] EXCEPT !.at = IF repository.exists THEN "file" ELSE "create",
                                        !.existed = repository.exists]
    OBVIOUS
  <2>2. /\ x \in AttemptRecord /\ x.existed = repository.exists
        /\ x.at = IF repository.exists THEN "file" ELSE "create"
        /\ x.carries = attempt[d].carries
    BY <1>1, <2>1, RunningAttempt DEF AttemptRecord, Running, GitInv, MainHolds
  <2>3. attempt' = [attempt EXCEPT ![d] = x] /\ UNCHANGED refusals
    BY <1>3, <2>1 DEF RepositoryExists, GitInv, GitTyped
  <2>4. attempt[d].carries
    BY <1>1, RunningAttempt DEF AttemptHolds
  <2>5. AttemptHolds(d, x, repository, branches, pulls)
    BY <1>1, <2>2, <2>4, RunningAttempt DEF AttemptHolds
  <2>6. ~attemptsOverlap => AloneHolds(d, x, repository, branches, pulls)
    BY <2>2 DEF AloneHolds, GitInv, GitAlone
  <2> QED BY <1>1, <2>2, <2>3, <2>5, <2>6, RunningAttempt, AttemptMoves
<1> QED BY <1>2, <1>3

LEMMA FileExistsKeeps ==
  ASSUME GitInv, NEW d \in Attempts, FileExists(d)
  PROVE  GitInv'
<1>1. /\ attempt[d].at = "file" /\ attempt[d].at \in Running
      /\ UNCHANGED <<provider, cicd, attemptsOverlap, repository, branches, pulls>>
  BY DEF FileExists, Running
<1>2. CASE CallFails(d)
  BY <1>1, <1>2, CallFailsKeeps
<1>3. ASSUME NEW missing \in WorkflowMissing(d), UNCHANGED refusals,
             attempt' = [attempt EXCEPT ![d].at = "branch", ![d].carries = missing]
      PROVE  GitInv'
  <2>1. PICK x : x = [attempt[d] EXCEPT !.at = "branch", !.carries = missing]
    OBVIOUS
  <2>2. missing \in BOOLEAN
        /\ (~missing => repository.main # NoCommit /\ repository.main.workflows # {})
    BY <1>3 DEF WorkflowMissing
  <2>3. /\ x \in AttemptRecord /\ x.existed = attempt[d].existed /\ x.at = "branch"
        /\ x.carries = missing
    BY <1>1, <2>1, <2>2, RunningAttempt DEF AttemptRecord, Running
  <2>4. attempt' = [attempt EXCEPT ![d] = x]
    BY <1>3, <2>1 DEF GitInv, GitTyped
  <2>5. AttemptHolds(d, x, repository, branches, pulls)
    BY <1>1, <2>2, <2>3, RunningAttempt DEF AttemptHolds
  <2>6. AloneHolds(d, x, repository, branches, pulls)
    BY <2>3 DEF AloneHolds
  <2> QED BY <1>1, <1>3, <2>3, <2>4, <2>5, <2>6, RunningAttempt, AttemptMoves
<1> QED BY <1>2, <1>3 DEF FileExists

LEMMA CreateRepositoryKeeps ==
  ASSUME GitInv, NEW d \in Attempts, CreateRepository(d)
  PROVE  GitInv'
<1>1. /\ attempt[d].at = "create" /\ attempt[d].at \in Running
      /\ UNCHANGED <<provider, cicd, attemptsOverlap, branches, pulls>>
  BY DEF CreateRepository, Running
<1>2. CASE CallFails(d) /\ UNCHANGED repository
  BY <1>1, <1>2, CallFailsKeeps
<1>3. CASE repository.exists /\ Refuses(d) /\ UNCHANGED repository
  <2>1. attemptsOverlap
    BY <1>1, <1>3, RunningAttempt DEF AloneHolds, GitInv, GitTyped
  <2> QED BY <1>1, <1>3, <2>1, RefusesKeeps
<1>4. CASE /\ ~repository.exists
           /\ repository' = [exists |-> TRUE, main |-> FirstCommit]
           /\ Answered(d, "read")
           /\ UNCHANGED refusals
  <2>1. PICK x \in AttemptRecord :
            /\ attempt' = [attempt EXCEPT ![d] = x]
            /\ x.at \in {"read", "failed", "escaped"} /\ x.existed = attempt[d].existed
            /\ x.carries = attempt[d].carries /\ x.parent = attempt[d].parent
            /\ x.path = attempt[d].path
    BY <1>4, AnswerArrives DEF Running
  <2>2. /\ FirstCommit \in BranchHead
        /\ FirstCommit # NoCommit => FirstCommit.by = 0
        /\ InitialisesRepository => FirstCommit # NoCommit
    <3>1. [by |-> 0, merged |-> FALSE, workflows |-> {}] \in Commit
      BY DEF Commit
    <3> QED BY <3>1, NoCommitAssumption DEF FirstCommit, BranchHead
  <2>3. repository'.exists = TRUE /\ repository'.main = FirstCommit
        /\ repository' \in [exists : BOOLEAN, main : BranchHead]
    BY <1>4, <2>2
  <2>4. MainHolds(repository)'
    BY <1>1, <2>2, <2>3 DEF MainHolds, InitialisesRepository
  <2>5. repository.main = NoCommit
    BY <1>4 DEF GitInv, MainHolds
  <2>6. TakesNothingBack(repository, repository')
    BY <1>4, <2>5 DEF TakesNothingBack
  <2>7. AttemptHolds(d, x, repository', branches, pulls)
    BY <1>1, <2>1, <2>3, RunningAttempt DEF AttemptHolds
  <2>8. ~attemptsOverlap => AloneHolds(d, x, repository', branches, pulls)
    BY <1>1, <2>1, RunningAttempt DEF AloneHolds, AttemptHolds
  <2>9. branches \in [DOMAIN branches -> Commit] /\ DOMAIN branches \subseteq Attempts
        /\ pulls \subseteq Attempts
    BY DEF GitInv, GitTyped
  <2> QED BY <1>1, <1>4, <2>1, <2>3, <2>4, <2>6, <2>7, <2>8, <2>9, RunningAttempt,
             AttemptStepKeeps
<1> QED BY <1>2, <1>3, <1>4 DEF CreateRepository

LEMMA CreateBranchKeeps ==
  ASSUME GitInv, NEW d \in Attempts, CreateBranch(d)
  PROVE  GitInv'
<1>1. /\ attempt[d].at = "branch" /\ attempt[d].at \in Running
      /\ UNCHANGED <<provider, cicd, attemptsOverlap, repository, pulls>>
  BY DEF CreateBranch, Running
<1>2. d \notin DOMAIN branches /\ attempt[d].existed /\ repository.exists
  BY <1>1, RunningAttempt DEF AttemptHolds
<1>3. CASE CallFails(d) /\ UNCHANGED branches
  BY <1>1, <1>3, CallFailsKeeps
<1>4. CASE /\ repository.main = NoCommit \/ Branch(d) \in DOMAIN branches
           /\ Refuses(d) /\ UNCHANGED branches
  <2>1. repository.main = NoCommit
    BY <1>2, <1>4 DEF Branch
  <2>2. ~InitialisesRepository
    BY <1>2, <2>1 DEF GitInv, MainHolds
  <2> QED BY <1>1, <1>4, <2>1, <2>2, RefusesKeeps
<1>5. CASE /\ repository.main # NoCommit
           /\ branches' = [b \in DOMAIN branches \cup {Branch(d)} |->
                             IF b = Branch(d) THEN repository.main ELSE branches[b]]
           /\ Answered(d, "read")
           /\ UNCHANGED refusals
  <2>1. PICK x \in AttemptRecord :
            /\ attempt' = [attempt EXCEPT ![d] = x]
            /\ x.at \in {"read", "failed", "escaped"} /\ x.existed = attempt[d].existed
            /\ x.carries = attempt[d].carries /\ x.parent = attempt[d].parent
            /\ x.path = attempt[d].path
    BY <1>5, AnswerArrives DEF Running
  <2>2. repository.main \in Commit
    BY <1>5 DEF GitInv, MainHolds, BranchHead
  <2>3. /\ branches' \in [DOMAIN branches' -> Commit] /\ DOMAIN branches' = DOMAIN branches \cup {d}
        /\ branches'[d] = repository.main
        /\ \A e \in DOMAIN branches : branches'[e] = branches[e]
    BY <1>2, <1>5, <2>2 DEF Branch, GitInv, GitTyped
  <2>4. DOMAIN branches' \subseteq Attempts /\ pulls \subseteq Attempts
    BY <2>3 DEF GitInv, GitTyped
  <2>5. MainHolds(repository)'
    BY <1>1 DEF GitInv, MainHolds, InitialisesRepository
  <2>6. AttemptHolds(d, x, repository, branches', pulls)
    BY <1>1, <1>2, <2>1, <2>3, RunningAttempt DEF AttemptHolds
  <2>7. ~attemptsOverlap => AloneHolds(d, x, repository, branches', pulls)
    BY <1>2, <2>1 DEF AloneHolds
  <2>8. ~attemptsOverlap => (~repository.exists => pulls = {})
    BY <1>2
  <2> QED BY <1>1, <1>5, <2>1, <2>3, <2>4, <2>5, <2>6, <2>7, <2>8, KeptSame, RunningAttempt,
             AttemptStepKeeps
<1> QED BY <1>3, <1>4, <1>5 DEF CreateBranch

LEMMA ReadHeadKeeps ==
  ASSUME GitInv, NEW d \in Attempts, ReadHead(d)
  PROVE  GitInv'
<1>1. /\ attempt[d].at = "read" /\ attempt[d].at \in Running
      /\ UNCHANGED <<provider, cicd, attemptsOverlap, repository, branches, pulls>>
  BY DEF ReadHead, Running
<1>2. CASE CallFails(d)
  BY <1>1, <1>2, CallFailsKeeps
<1>3. ASSUME NEW misread \in MayMisread, UNCHANGED refusals,
             attempt' = [attempt EXCEPT ![d].at = "commit", ![d].parent = TargetHead(d),
                                        ![d].misread = misread]
      PROVE  GitInv'
  <2>1. PICK head : head = TargetHead(d)
    OBVIOUS
  <2>2. head \in BranchHead /\ head = (IF attempt[d].existed THEN branches[d] ELSE repository.main)
    BY <1>1, <2>1, RunningAttempt DEF TargetHead, Branch, AttemptHolds, GitInv, GitTyped,
                                      MainHolds, BranchHead
  <2>3. PICK x : x = [attempt[d] EXCEPT !.at = "commit", !.parent = head, !.misread = misread]
    OBVIOUS
  <2>4. /\ x \in AttemptRecord /\ x.existed = attempt[d].existed /\ x.at = "commit"
        /\ x.carries = attempt[d].carries /\ x.parent = head
    BY <1>1, <2>2, <2>3, RunningAttempt DEF AttemptRecord, Running, MayMisread
  <2>5. attempt' = [attempt EXCEPT ![d] = x]
    BY <1>3, <2>1, <2>3 DEF GitInv, GitTyped
  <2>6. AttemptHolds(d, x, repository, branches, pulls)
    BY <1>1, <2>4, RunningAttempt DEF AttemptHolds
  <2>7. ~attemptsOverlap => AloneHolds(d, x, repository, branches, pulls)
    BY <1>1, <2>2, <2>4, RunningAttempt DEF AloneHolds
  <2> QED BY <1>1, <1>3, <2>4, <2>5, <2>6, <2>7, RunningAttempt, AttemptMoves
<1> QED BY <1>2, <1>3 DEF ReadHead

LEMMA CommitFilesKeeps ==
  ASSUME GitInv, NEW d \in Attempts, CommitFiles(d)
  PROVE  GitInv'
<1>1. /\ attempt[d].at = "commit" /\ attempt[d].at \in Running
      /\ UNCHANGED <<provider, cicd, attemptsOverlap, pulls>>
  BY DEF CommitFiles, Running
<1>2. /\ branches \in [DOMAIN branches -> Commit] /\ DOMAIN branches \subseteq Attempts
      /\ pulls \subseteq Attempts
  BY DEF GitInv, GitTyped
<1>3. PICK head : head = TargetHead(d)
  OBVIOUS
<1>4. head \in BranchHead /\ head = (IF attempt[d].existed THEN branches[d] ELSE repository.main)
  BY <1>1, <1>2, <1>3, RunningAttempt DEF TargetHead, Branch, AttemptHolds, GitInv, MainHolds,
                                          BranchHead
<1>5. CASE CallFails(d) /\ UNCHANGED <<repository, branches>>
  BY <1>1, <1>5, CallFailsKeeps
<1>6. CASE ~Applies(d) /\ Refuses(d) /\ UNCHANGED <<repository, branches>>
  <2>1. ~attemptsOverlap => attempt[d].parent = head
    BY <1>1, <1>4, RunningAttempt DEF AloneHolds
  <2>2. ~attemptsOverlap => provider = "gitlab" /\ attempt[d].misread
    BY <1>3, <1>6, <2>1 DEF Applies, GitInv, GitTyped
  <2> QED BY <1>1, <1>6, <2>2, RefusesKeeps
<1>7. PICK new : new = Committed(d)
  OBVIOUS
<1>8. new \in Commit /\ new.workflows # {} /\ new.by # 0
  <2>1. /\ attempt[d].path \in WorkflowPaths /\ attempt[d].carries \in BOOLEAN
        /\ ~attempt[d].carries => attempt[d].existed /\ branches[d].workflows # {}
                                  /\ d \in DOMAIN branches
    BY <1>1, RunningAttempt DEF AttemptRecord, AttemptHolds
  <2>2. head # NoCommit => head.workflows \subseteq WorkflowPaths
    BY <1>4 DEF BranchHead, Commit
  <2>3. PICK kept : kept = Kept(d)
    OBVIOUS
  <2>4. kept \subseteq WorkflowPaths
    BY <1>3, <2>2, <2>3 DEF Kept
  <2>5. ~attempt[d].carries => kept # {}
    <3>1. ~attempt[d].carries => head \in Commit /\ head.workflows # {}
      BY <1>2, <1>4, <2>1
    <3> QED BY <1>3, <2>3, <3>1, NoCommitAssumption DEF Kept
  <2>6. PICK files : files = kept \cup (IF attempt[d].carries THEN {attempt[d].path} ELSE {})
    OBVIOUS
  <2>7. files \subseteq WorkflowPaths /\ files # {}
    BY <2>1, <2>4, <2>5, <2>6
  <2>8. new = [by |-> d, merged |-> FALSE, workflows |-> files]
    BY <1>7, <2>3, <2>6 DEF Committed
  <2>9. d # 0
    BY GitAssumption
  <2> QED BY <2>7, <2>8, <2>9 DEF Commit
<1>9. CASE /\ attempt[d].existed
           /\ branches' = [branches EXCEPT ![Branch(d)] = Committed(d)]
           /\ Answered(d, "pull") /\ UNCHANGED <<repository, refusals>>
  <2>1. PICK x \in AttemptRecord :
            /\ attempt' = [attempt EXCEPT ![d] = x]
            /\ x.at \in {"pull", "failed", "escaped"} /\ x.existed = attempt[d].existed
            /\ x.carries = attempt[d].carries /\ x.parent = attempt[d].parent
            /\ x.path = attempt[d].path
    BY <1>9, AnswerArrives DEF Running
  <2>2. d \in DOMAIN branches /\ repository.exists
    BY <1>1, <1>9, RunningAttempt DEF AttemptHolds
  <2>3. branches' = [branches EXCEPT ![d] = new]
    BY <1>7, <1>9 DEF Branch
  <2>4. /\ branches' \in [DOMAIN branches' -> Commit] /\ DOMAIN branches' = DOMAIN branches
        /\ branches'[d] = new
        /\ \A e \in DOMAIN branches \ {d} : branches'[e] = branches[e]
    BY <1>2, <1>8, <2>2, <2>3
  <2>5. MainHolds(repository)'
    BY <1>1, <1>9 DEF GitInv, MainHolds, InitialisesRepository
  <2>6. AttemptHolds(d, x, repository, branches', pulls)
    BY <1>1, <1>8, <1>9, <2>1, <2>2, <2>4 DEF AttemptHolds
  <2>7. AloneHolds(d, x, repository, branches', pulls)
    BY <2>1 DEF AloneHolds
  <2>8. \A e \in Attempts \ {d} :
            /\ e \in DOMAIN branches <=> e \in DOMAIN branches'
            /\ e \in DOMAIN branches => branches'[e] = branches[e]
    BY <2>4
  <2> QED BY <1>1, <1>2, <1>9, <2>1, <2>2, <2>4, <2>5, <2>6, <2>7, <2>8, KeptSame,
             RunningAttempt, AttemptStepKeeps
<1>10. CASE /\ ~attempt[d].existed
            /\ repository' = [repository EXCEPT !.main = Committed(d)]
            /\ Answered(d, "pushed") /\ UNCHANGED <<branches, refusals>>
  <2>1. PICK x \in AttemptRecord :
            /\ attempt' = [attempt EXCEPT ![d] = x]
            /\ x.at \in {"pushed", "failed", "escaped"} /\ x.existed = attempt[d].existed
            /\ x.carries = attempt[d].carries /\ x.parent = attempt[d].parent
            /\ x.path = attempt[d].path
    BY <1>10, AnswerArrives DEF Ended
  <2>2. /\ repository' \in [exists : BOOLEAN, main : BranchHead]
        /\ repository'.main = new /\ repository'.exists = repository.exists
    BY <1>7, <1>8, <1>10 DEF GitInv, MainHolds, BranchHead
  <2>3. new # NoCommit
    BY <1>8, NoCommitAssumption
  <2>4. TakesNothingBack(repository, repository')
    BY <1>8, <2>2, <2>3 DEF TakesNothingBack
  <2>5. AttemptHolds(d, x, repository', branches, pulls)
    BY <1>1, <1>10, <2>1, RunningAttempt DEF AttemptHolds
  <2>6. AloneHolds(d, x, repository', branches, pulls)
    BY <2>1 DEF AloneHolds
  <2>7. ~attemptsOverlap => pulls = {}
    BY <1>1, <1>10, RunningAttempt DEF AloneHolds
  <2>8. repository.exists
    BY <1>1, RunningAttempt DEF AttemptHolds
  <2>9. MainHolds(repository)'
    BY <1>1, <1>8, <2>2, <2>3, <2>8 DEF MainHolds
  <2> QED BY <1>1, <1>2, <1>10, <2>1, <2>4, <2>5, <2>6, <2>7, <2>9, RunningAttempt,
             AttemptStepKeeps
<1> QED BY <1>5, <1>6, <1>9, <1>10 DEF CommitFiles

LEMMA CreatePullRequestKeeps ==
  ASSUME GitInv, NEW d \in Attempts, CreatePullRequest(d)
  PROVE  GitInv'
<1>1. /\ attempt[d].at = "pull" /\ attempt[d].at \in Running
      /\ UNCHANGED <<provider, cicd, attemptsOverlap, repository, branches>>
  BY DEF CreatePullRequest, Running
<1>2. CASE CallFails(d) /\ UNCHANGED pulls
  BY <1>1, <1>2, CallFailsKeeps
<1>3. CASE pulls' = pulls \cup {d} /\ Answered(d, "pushed") /\ UNCHANGED refusals
  <2>1. PICK x \in AttemptRecord :
            /\ attempt' = [attempt EXCEPT ![d] = x]
            /\ x.at \in {"pushed", "failed", "escaped"} /\ x.existed = attempt[d].existed
            /\ x.carries = attempt[d].carries /\ x.parent = attempt[d].parent
            /\ x.path = attempt[d].path
    BY <1>3, AnswerArrives DEF Ended
  <2>2. /\ d \in DOMAIN branches /\ branches[d].workflows # {} /\ attempt[d].existed
        /\ repository.exists
    BY <1>1, RunningAttempt DEF AttemptHolds
  <2>3. AttemptHolds(d, x, repository, branches, pulls')
    BY <2>1, <2>2 DEF AttemptHolds
  <2>4. AloneHolds(d, x, repository, branches, pulls')
    BY <2>1 DEF AloneHolds
  <2>5. MainHolds(repository)'
    BY <1>1 DEF GitInv, MainHolds, InitialisesRepository
  <2>6. /\ branches \in [DOMAIN branches -> Commit] /\ DOMAIN branches \subseteq Attempts
        /\ pulls' \subseteq Attempts
    BY <1>3 DEF GitInv, GitTyped
  <2> QED BY <1>1, <1>3, <2>1, <2>2, <2>3, <2>4, <2>5, <2>6, KeptSame, RunningAttempt,
             AttemptStepKeeps
<1> QED BY <1>2, <1>3 DEF CreatePullRequest

\* The attempts stand still: a pull request is merged or closed, or the CI
\* provider is changed.
LEMMA RepositoryMovesKeeps ==
  ASSUME GitInv, UNCHANGED <<provider, branches, attempt, refusals, attemptsOverlap>>,
         cicd' \in WorkflowPaths, pulls' \subseteq pulls,
         MainHolds(repository)', TakesNothingBack(repository, repository'),
         repository'.exists = repository.exists,
         ~attemptsOverlap /\ pulls = {} => UNCHANGED repository
  PROVE  GitInv'
<1>1. GitTyped'
  BY DEF GitInv, GitTyped
<1>2. ASSUME NEW d \in Attempts
      PROVE  AttemptHolds(d, attempt[d], repository', branches, pulls')
  <2>1. attempt[d] \in AttemptRecord /\ AttemptHolds(d, attempt[d], repository, branches, pulls)
    BY DEF GitInv, GitTyped
  <2> QED BY <2>1, OthersHold
<1>3. ASSUME NEW d \in Attempts, ~attemptsOverlap
      PROVE  AloneHolds(d, attempt[d], repository', branches, pulls')
  <2>1. AloneHolds(d, attempt[d], repository, branches, pulls)
    BY <1>3 DEF GitInv, GitAlone
  <2> QED BY <1>3, <2>1 DEF AloneHolds
<1>4. GitAlone'
  BY <1>3 DEF GitInv, GitAlone, Excused, InitialisesRepository
<1> QED BY <1>1, <1>2, <1>4 DEF GitInv

LEMMA MergeKeeps ==
  ASSUME GitInv, NEW d \in Attempts, MergePullRequest(d)
  PROVE  GitInv'
<1>1. /\ d \in pulls /\ d \in DOMAIN branches /\ branches[d].workflows # {}
      /\ branches[d] \in Commit
  BY DEF MergePullRequest, GitInv, GitTyped, AttemptHolds
<1>2. PICK new : new = [branches[d] EXCEPT !.merged = TRUE]
  OBVIOUS
<1>3. new \in Commit /\ new.workflows # {} /\ new # NoCommit
  BY <1>1, <1>2, NoCommitAssumption DEF Commit
<1>4. /\ repository' \in [exists : BOOLEAN, main : BranchHead]
      /\ repository'.main = new /\ repository'.exists = repository.exists
  BY <1>2, <1>3 DEF MergePullRequest, Branch, GitInv, MainHolds, BranchHead
<1>5. repository.exists
  BY DEF MergePullRequest, GitInv, AttemptHolds
<1>6. MainHolds(repository)'
  BY <1>3, <1>4, <1>5 DEF MainHolds
<1>7. TakesNothingBack(repository, repository')
  BY <1>3, <1>4 DEF TakesNothingBack
<1>8. cicd' \in WorkflowPaths /\ pulls' \subseteq pulls
      /\ UNCHANGED <<provider, branches, attempt, refusals, attemptsOverlap>>
  BY DEF MergePullRequest, GitInv, GitTyped
<1> QED BY <1>1, <1>4, <1>6, <1>7, <1>8, RepositoryMovesKeeps

LEMMA GitNextKeeps == GitInv /\ [GitNext]_gitVars => GitInv'
<1> SUFFICES ASSUME GitInv, [GitNext]_gitVars PROVE GitInv'
  OBVIOUS
<1>1. ASSUME UNCHANGED <<provider, repository, branches, attempt, refusals, attemptsOverlap>>,
             cicd' \in WorkflowPaths, pulls' \subseteq pulls
      PROVE  GitInv'
  <2>1. MainHolds(repository)'
    BY <1>1 DEF GitInv, MainHolds, InitialisesRepository
  <2> QED BY <1>1, <2>1, KeptSame, RepositoryMovesKeeps
<1>2. CASE UNCHANGED gitVars
  BY <1>1, <1>2 DEF gitVars, GitInv, GitTyped
<1>3. CASE ChangeCicdProvider
  BY <1>1, <1>3 DEF ChangeCicdProvider
<1>4. ASSUME NEW d \in Attempts, ClosePullRequest(d) PROVE GitInv'
  BY <1>1, <1>4 DEF ClosePullRequest, GitInv, GitTyped
<1> QED BY <1>2, <1>3, <1>4, TriggerKeeps, RepositoryExistsKeeps, CreateRepositoryKeeps,
           FileExistsKeeps, CreateBranchKeeps, ReadHeadKeeps, CommitFilesKeeps,
           CreatePullRequestKeeps, MergeKeeps DEF GitNext

LEMMA GitAlways == GitSpec => []GitInv
<1> QED BY GitInitially, GitNextKeeps, PTL DEF GitSpec

\* The repository, its deploy branches and the attempts keep their types.
THEOREM GitTypeCorrect == GitSpec => []GitTypeOK
<1>1. GitInv => GitTypeOK
  BY DEF GitInv, GitTyped, MainHolds, GitTypeOK, AttemptRecord, RefusalRecord, DeployBranches
<1> QED BY <1>1, GitAlways, PTL

\* Whatever an attempt of _trigger_deployment left behind, a retry that does not
\* overlap with it is not refused, unless the provider never made a first commit or
\* commit_files took an error of one of GitLab's lookups for a missing file; and
\* every commit that is pushed or merged holds a CI workflow.
THEOREM RepositoryIsMended == GitSpec => []RepositoryMended
<1>1. GitInv => RetryNotRefused
  BY DEF GitInv, GitAlone, Excused, RetryNotRefused
<1>2. GitInv => WorkflowCommitted
  BY DEF GitInv, GitTyped, AttemptHolds, MainHolds, WorkflowCommitted, Branch
<1>3. GitInv => RepositoryMended
  BY <1>1, <1>2 DEF RepositoryMended
<1> QED BY <1>3, GitAlways, PTL

-----------------------------------------------------------------------------
(***************************************************************************)
(* AuditChain: for every set of events, what the hash chain guarantees     *)
(* whatever calls fail and whatever writers overlap.                       *)
(***************************************************************************)

Writing(e) == writer[e].at \in {"put", "advance"}

\* e is in the log, as an event of the chain.
HasEntry(e) == \E x \in ChainedEvents : x.event = e

(***************************************************************************)
(* The inductive invariant. Its first part types the state, the second is  *)
(* about every behaviour, the third about those in which writers do not    *)
(* overlap and no call has failed after its event was put.                 *)
(***************************************************************************)
AuditTypes ==
    /\ tail \in Events \cup {NoEvent}
    /\ logged \subseteq Chained \cup Unchained
    /\ writer \in [Events -> [at : {"idle", "put", "advance", "done"},
                              prev : Events \cup {NoEvent}]]
    /\ chainBroken \in BOOLEAN
    /\ writersOverlap \in BOOLEAN

\* What is named was written, and what waits to be put is in no entry yet.
NamedIsWritten ==
    /\ \A x \in ChainedEvents : x.prev # NoEvent => HasEntry(x.prev)
    /\ tail # NoEvent => HasEntry(tail)
    /\ \A e \in Events : writer[e].at = "put" /\ writer[e].prev # NoEvent =>
                            HasEntry(writer[e].prev)
    /\ \A e \in Events : writer[e].at = "advance" => HasEntry(e)
    /\ \A e \in Events : writer[e].at \in {"idle", "put"} => ~HasEntry(e)

OneWriter ==
    ~writersOverlap => \A e, f \in Events : Writing(e) /\ Writing(f) => e = f

\* The writer's prev is the tail, which no entry names before the put; after it
\* none names the event that becomes the tail.
NoForkYet ==
    ~writersOverlap /\ ~chainBroken =>
       /\ \A x, y \in ChainedEvents : x.prev = y.prev => x = y
       /\ \A e \in Events : writer[e].at = "put" => writer[e].prev = tail
       /\ (\A e \in Events : writer[e].at # "advance") =>
             \A x \in ChainedEvents : x.prev # tail
       /\ \A e \in Events : writer[e].at = "advance" =>
             \A x \in ChainedEvents : x.prev # e

AuditInv == AuditTypes /\ NamedIsWritten /\ OneWriter /\ NoForkYet

-----------------------------------------------------------------------------
(* What one put adds to the chain *)

\* An event of the runtime is no entry of the chain.
LEMMA UnchainedIsNotChained ==
  ASSUME NEW e \in Events
  PROVE  [event |-> e] \notin Chained
<1> SUFFICES ASSUME [event |-> e] \in Chained PROVE FALSE
  OBVIOUS
<1>1. DOMAIN [event |-> e] = {"event", "prev"}
  BY DEF Chained
<1>2. DOMAIN [event |-> e] = {"event"}
  OBVIOUS
<1> QED BY <1>1, <1>2

LEMMA ChainAfterPut ==
  ASSUME NEW e \in Events, NEW p \in Events \cup {NoEvent},
         logged' = logged \cup {[event |-> e, prev |-> p]}
  PROVE  ChainedEvents' = ChainedEvents \cup {[event |-> e, prev |-> p]}
<1>1. [event |-> e, prev |-> p] \in Chained
  BY DEF Chained
<1> QED BY <1>1 DEF ChainedEvents, Chained

LEMMA ChainAfterRuntime ==
  ASSUME NEW e \in Events, logged' = logged \cup {[event |-> e]}
  PROVE  ChainedEvents' = ChainedEvents
BY UnchainedIsNotChained DEF ChainedEvents, Chained

LEMMA ChainKept ==
  ASSUME UNCHANGED logged
  PROVE  ChainedEvents' = ChainedEvents
BY DEF ChainedEvents, Chained

\* The events of entries are events.
LEMMA EntryTypes ==
  ASSUME NEW x \in ChainedEvents
  PROVE  x.event \in Events /\ x.prev \in Events \cup {NoEvent}
BY DEF ChainedEvents, Chained

-----------------------------------------------------------------------------
(* Initially and at every step *)

LEMMA AuditInitially == AuditInit => AuditInv
<1> SUFFICES ASSUME AuditInit PROVE AuditInv
  OBVIOUS
<1>1. ChainedEvents = {}
  BY DEF AuditInit, ChainedEvents
<1> QED BY <1>1 DEF AuditInit, AuditInv, AuditTypes, NamedIsWritten, OneWriter, NoForkYet,
               HasEntry, Writing

LEMMA ReadTailKeeps ==
  ASSUME AuditInv, NEW e \in Events, ReadTail(e)
  PROVE  AuditInv'
<1> USE DEF ReadTail, WriterGoes
<1>1. ChainedEvents' = ChainedEvents
  BY ChainKept
<1>2. AuditTypes'
  BY DEF AuditInv, AuditTypes
<1>3. NamedIsWritten'
  BY <1>1 DEF AuditInv, AuditTypes, NamedIsWritten, HasEntry
<1>4. OneWriter'
  BY DEF AuditInv, AuditTypes, OneWriter, Writing
<1>5. NoForkYet'
  BY <1>1 DEF AuditInv, AuditTypes, NoForkYet
<1> QED BY <1>2, <1>3, <1>4, <1>5 DEF AuditInv

LEMMA PutEventKeeps ==
  ASSUME AuditInv, NEW e \in Events, PutEvent(e)
  PROVE  AuditInv'
<1> DEFINE p == writer[e].prev
           new == [event |-> e, prev |-> p]
<1> USE DEF PutEvent, WriterGoes
<1>0. p \in Events \cup {NoEvent}
  BY DEF AuditInv, AuditTypes
<1>1. AuditTypes'
  <2>1. new \in Chained
    BY <1>0 DEF Chained
  <2> QED BY <2>1 DEF AuditInv, AuditTypes
<1>2. OneWriter'
  BY DEF AuditInv, AuditTypes, OneWriter, Writing
<1>3. CASE logged' = logged /\ WriterGoes(e, "done") /\ UNCHANGED chainBroken
  <2>1. ChainedEvents' = ChainedEvents
    BY <1>3, ChainKept
  <2>2. NamedIsWritten'
    BY <2>1, <1>3 DEF AuditInv, AuditTypes, NamedIsWritten, HasEntry, ChainedEvents
  <2>3. NoForkYet'
    BY <2>1, <1>3 DEF AuditInv, AuditTypes, NoForkYet
  <2> QED BY <1>1, <1>2, <2>2, <2>3 DEF AuditInv
<1>4. CASE /\ logged' = logged \cup {new}
           /\ \/ WriterGoes(e, "advance") /\ UNCHANGED chainBroken
              \/ WriterGoes(e, "done") /\ chainBroken' = TRUE
  <2>1. ChainedEvents' = ChainedEvents \cup {new}
    BY <1>4, <1>0, ChainAfterPut
  <2>2. \A f \in Events : HasEntry(f)' <=> HasEntry(f) \/ f = e
    <3> HIDE DEF PutEvent, WriterGoes
    <3>1. new.event = e
      OBVIOUS
    <3>2. ASSUME NEW f \in Events, HasEntry(f)' PROVE HasEntry(f) \/ f = e
      BY <2>1, <3>1, <3>2 DEF HasEntry
    <3>3. ASSUME NEW f \in Events, HasEntry(f) \/ f = e PROVE HasEntry(f)'
      BY <2>1, <3>1, <3>3 DEF HasEntry
    <3> QED BY <3>2, <3>3
  <2>3. ~HasEntry(e)
    BY DEF AuditInv, NamedIsWritten
  <2>4. tail # e /\ p # e
    BY <2>3, NoEventAssumption DEF AuditInv, NamedIsWritten
  <2>5. \A x \in ChainedEvents : x.prev # e
    BY <2>3, NoEventAssumption DEF AuditInv, NamedIsWritten
  <2>6. NamedIsWritten'
    <3>1. \A x \in ChainedEvents' : x.prev # NoEvent => HasEntry(x.prev)'
      BY <2>1, <2>2, <1>0, EntryTypes DEF AuditInv, NamedIsWritten
    <3>2. (tail # NoEvent => HasEntry(tail))'
      BY <2>2 DEF AuditInv, AuditTypes, NamedIsWritten
    <3>3. \A f \in Events : (writer[f].at = "put" /\ writer[f].prev # NoEvent =>
                               HasEntry(writer[f].prev))'
      BY <2>2 DEF AuditInv, AuditTypes, NamedIsWritten
    <3>4. \A f \in Events : (writer[f].at = "advance" => HasEntry(f))'
      BY <2>2 DEF AuditInv, AuditTypes, NamedIsWritten
    <3>5. \A f \in Events : (writer[f].at \in {"idle", "put"} => ~HasEntry(f))'
      BY <2>2 DEF AuditInv, AuditTypes, NamedIsWritten
    <3> QED BY <3>1, <3>2, <3>3, <3>4, <3>5 DEF NamedIsWritten
  <2>7. NoForkYet'
    <3> SUFFICES ASSUME ~writersOverlap, ~chainBroken, chainBroken' = FALSE,
                        writer' = [writer EXCEPT ![e].at = "advance"]
                 PROVE  NoForkYet'
      BY <1>4 DEF NoForkYet, AuditInv, AuditTypes
    <3>1. p = tail
      BY DEF AuditInv, NoForkYet
    <3>2. \A f \in Events : writer[f].at # "advance"
      BY DEF AuditInv, OneWriter, Writing
    <3>3. \A x \in ChainedEvents : x.prev # tail
      BY <3>2 DEF AuditInv, NoForkYet
    <3>4. \A x, y \in ChainedEvents' : x.prev = y.prev => x = y
      BY <2>1, <3>1, <3>3 DEF AuditInv, NoForkYet
    <3>5. \A f \in Events : f # e => writer'[f].at \notin {"put", "advance"}
      BY DEF AuditInv, AuditTypes, OneWriter, Writing
    <3>6. writer'[e].at = "advance"
      BY DEF AuditInv, AuditTypes
    <3>7. \A x \in ChainedEvents' : x.prev # e
      BY <2>1, <2>4, <2>5
    <3> QED BY <3>4, <3>5, <3>6, <3>7 DEF NoForkYet
  <2> QED BY <1>1, <1>2, <2>6, <2>7 DEF AuditInv
<1> QED BY <1>3, <1>4

LEMMA AdvanceTailKeeps ==
  ASSUME AuditInv, NEW e \in Events, AdvanceTail(e)
  PROVE  AuditInv'
<1> USE DEF AdvanceTail, WriterGoes
<1>1. ChainedEvents' = ChainedEvents
  BY ChainKept
<1>2. AuditTypes'
  BY DEF AuditInv, AuditTypes
<1>3. NamedIsWritten'
  BY <1>1 DEF AuditInv, AuditTypes, NamedIsWritten, HasEntry
<1>4. OneWriter'
  BY DEF AuditInv, AuditTypes, OneWriter, Writing
<1>5. NoForkYet'
  BY <1>1 DEF AuditInv, AuditTypes, NoForkYet, OneWriter, Writing
<1> QED BY <1>2, <1>3, <1>4, <1>5 DEF AuditInv

LEMMA RuntimePutsEventKeeps ==
  ASSUME AuditInv, NEW e \in Events, RuntimePutsEvent(e)
  PROVE  AuditInv'
<1> USE DEF RuntimePutsEvent, WriterGoes
<1>1. ChainedEvents' = ChainedEvents
  BY ChainAfterRuntime
<1>2. AuditTypes'
  BY DEF AuditInv, AuditTypes, Unchained
<1>3. NamedIsWritten'
  BY <1>1 DEF AuditInv, AuditTypes, NamedIsWritten, HasEntry
<1>4. OneWriter'
  BY DEF AuditInv, AuditTypes, OneWriter, Writing
<1>5. NoForkYet'
  BY <1>1 DEF AuditInv, AuditTypes, NoForkYet
<1> QED BY <1>2, <1>3, <1>4, <1>5 DEF AuditInv

LEMMA AuditStepKeeps == AuditInv /\ [AuditNext]_auditVars => AuditInv'
<1> SUFFICES ASSUME AuditInv, [AuditNext]_auditVars PROVE AuditInv'
  OBVIOUS
<1>1. ASSUME NEW e \in Events, ReadTail(e) PROVE AuditInv'
  BY <1>1, ReadTailKeeps
<1>2. ASSUME NEW e \in Events, PutEvent(e) PROVE AuditInv'
  BY <1>2, PutEventKeeps
<1>3. ASSUME NEW e \in Events, AdvanceTail(e) PROVE AuditInv'
  BY <1>3, AdvanceTailKeeps
<1>4. ASSUME NEW e \in Events, RuntimePutsEvent(e) PROVE AuditInv'
  BY <1>4, RuntimePutsEventKeeps
<1>5. CASE UNCHANGED auditVars
  BY <1>5 DEF auditVars, AuditInv, AuditTypes, NamedIsWritten, OneWriter, NoForkYet, HasEntry,
              Writing, ChainedEvents, Chained, Unchained
<1> QED BY <1>1, <1>2, <1>3, <1>4, <1>5 DEF AuditNext

\* In every behaviour each entry names an event that is in the log, and only
\* writers that overlap, or a call that failed after its event was put, fork the
\* chain of write_event: for any number of events.
THEOREM ChainForks == AuditSpec => []ChainForksOnlyByRace
<1>1. AuditInv => ChainForksOnlyByRace
  BY DEF AuditInv, NamedIsWritten, NoForkYet, HasEntry, ChainForksOnlyByRace
<1> QED BY <1>1, AuditInitially, AuditStepKeeps, PTL DEF AuditSpec

\* The tail, the log and the writers keep their types.
THEOREM AuditTypeCorrect == AuditSpec => []AuditTypeOK
<1>1. AuditInv => AuditTypeOK
  BY DEF AuditInv, AuditTypes, AuditTypeOK
<1> QED BY <1>1, AuditInitially, AuditStepKeeps, PTL DEF AuditSpec

=============================================================================
