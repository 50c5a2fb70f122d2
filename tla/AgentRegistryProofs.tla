------------------------ MODULE AgentRegistryProofs ------------------------
(***************************************************************************)
(* Proofs about AgentRegistry for any number of requests, versions and     *)
(* crashes: the snapshot under a version number is never overwritten, and  *)
(* what the agent item and the versions table say about each other when    *)
(* requests come one at a time.  Then about SubAgentSearch, for any graph: *)
(* the depth-first search decides whether there is a cycle; and about      *)
(* SubAgentGraph, for any number of agents and saves: where the search is  *)
(* enough, the graph of the current versions has none.                     *)
(***************************************************************************)
EXTENDS AgentRegistry, SubAgentGraph, SubAgentSearch, WellFoundedInduction, TLAPS

(***************************************************************************)
(* The inductive invariant. First the types, with what the place of a      *)
(* request says about its operation and about what it has read.            *)
(***************************************************************************)
RegStates ==
    {"idle", "read", "putNew", "putFirst", "putVersion", "putAgent", "reread", "list",
     "unpublish", "mark", "putDraft", "unlist", "deleteAgent", "check", "derive", "done"}

RegHandler ==
    [op : Operations \cup {"none"}, at : RegStates, saw : AgentItem \cup {NoAgent},
     target : 0 .. MaxVersion, listed : SUBSET VersionNumbers]

\* The operations that put a new version, and those that mark one.
Versioning == {"edit", "flatEdit", "pipelineRollback"}

Marks == {"publish", "archive", "projectRollback", "edit"}

RegPlaced(x) ==
    /\ x.at \in {"idle", "done"} <=> x.op = "none"
    /\ x.op \in {"pipelineRollback", "projectRollback"} => x.target \in VersionNumbers
    /\ x.at \in {"putNew", "putFirst"} => x.op \in Creations
    /\ x.op = "create" => x.at \in {"putNew", "putFirst"}
    /\ x.op = "clone" => x.at \in {"read", "putNew", "putFirst"}
    /\ x.at = "putVersion" => x.op \in Versioning
    /\ x.at = "putAgent" =>
          x.op \in Versioning \cup {"publish", "archive", "projectRollback", "softDelete",
                                    "pipelineMark"}
    /\ x.at = "putAgent" /\ x.op \in Versioning => x.saw.currentVersion + 1 \in VersionNumbers
    /\ x.at = "mark" => x.op \in Marks
    /\ x.at = "unpublish" => x.op \in {"publish", "projectRollback"} /\ x.target \in VersionNumbers
    /\ x.at = "list" => x.op \in {"publish", "hardDelete"}
    /\ x.at \in {"unlist", "deleteAgent"} => x.op = "hardDelete"
    /\ x.at = "putDraft" => x.op = "edit"
    /\ x.at = "reread" => x.op \in {"edit", "hardDelete"}
    /\ x.at \in {"check", "derive"} => x.op = "generateIac"
    /\ x.at \in {"putVersion", "putAgent", "mark", "unpublish", "list", "putDraft", "check",
                 "derive", "unlist", "deleteAgent"} => x.saw \in AgentItem

VersionsTyped == versions \in [VersionNumbers -> VersionItem \cup {NoVersion}]

RegTyped ==
    /\ agent \in AgentItem \cup {NoAgent}
    /\ VersionsTyped
    /\ regRequest \in [RegRequests -> RegHandler]
    /\ \A r \in RegRequests : RegPlaced(regRequest[r])
    /\ served \subseteq Operations /\ crashed \subseteq Operations
    /\ regOverlap \in BOOLEAN

(***************************************************************************)
(* Only the first request creates: before it the tables are empty.         *)
(***************************************************************************)
RegFirst ==
    LET first == Min(RegRequests) IN
    /\ \A r \in RegRequests : regRequest[r].at # "idle" => regRequest[first].at # "idle"
    /\ regRequest[first].at = "idle" =>
          agent = NoAgent /\ \A v \in VersionNumbers : versions[v] = NoVersion

(***************************************************************************)
(* Requests one at a time: what the agent item and a versions table say    *)
(* while the request x is served.                                          *)
(***************************************************************************)
Unsafe == Creations \cup {"hardDelete"}

Has(table, v) == table[v] # NoVersion

Sound(table, v) == v \in VersionNumbers /\ Has(table, v) /\ table[v].author # 0

Labelled(table, v) == Has(table, v) /\ table[v].lifecycle = "published"

SeesAgent(x, item) ==
    x.at \in {"putVersion", "putAgent", "mark", "unpublish", "list", "putDraft", "check", "derive"}
    => x.saw = item

CreationHolds(x, item, table) ==
    x.op \in Creations =>
        /\ \A v \in VersionNumbers : ~Has(table, v)
        /\ x.at \in {"read", "putNew"} => item = NoAgent
        /\ x.at = "putFirst" =>
              item \in AgentItem /\ item.currentVersion = 1 /\ item.lifecycle # "published"

\* Between its two puts a creation, and a delete from its first, have an agent
\* without its version.
Unmaking(x) == x.at \in {"putFirst", "unlist", "deleteAgent"}

Putting(x) == x.at = "putAgent" /\ x.op \in Versioning

ReadableHolds(x, item, table) ==
    /\ item # NoAgent /\ ~Unmaking(x) => Sound(table, item.currentVersion)
    /\ Putting(x) => Sound(table, x.saw.currentVersion + 1)
    /\ x.op = "projectRollback" /\ x.at \in {"unpublish", "mark", "putAgent"} =>
          Sound(table, x.target)

NextIsFree(x, item, table) ==
    /\ item # NoAgent =>
          \A v \in VersionNumbers :
             /\ v > item.currentVersion
             /\ ~(Putting(x) /\ v = item.currentVersion + 1)
             => ~Has(table, v)
    /\ x.op = "publish" /\ x.at = "unpublish" => Has(table, x.target)

\* An edit labels the agent last, an archiving its version first.
Relabelling(x) ==
    \/ x.op = "edit" /\ x.at \in {"reread", "mark", "putDraft"}
    \/ x.op = "archive" /\ x.at = "putAgent"

OnePublished(x, item, table) ==
    /\ \A v, w \in VersionNumbers : Labelled(table, v) /\ Labelled(table, w) => v = w
    /\ item # NoAgent /\ item.lifecycle = "published" /\ ~Relabelling(x) =>
          Labelled(table, item.currentVersion)
    /\ x.op = "publish" /\ x.at = "unpublish" =>
          Labelled(table, x.target) /\ x.target # item.currentVersion
    /\ x.op = "publish" /\ x.at = "mark" =>
          \A v \in VersionNumbers : Labelled(table, v) => v = item.currentVersion
    /\ x.op = "publish" /\ x.at = "putAgent" => Labelled(table, item.currentVersion)
    /\ x.op = "hardDelete" /\ x.at # "read" => item # NoAgent /\ item.lifecycle = "archived"

RegHolds(x, item, table, ops, cut) ==
    /\ x.op # "none" => x.op \in ops
    /\ SeesAgent(x, item)
    /\ CreationHolds(x, item, table)
    /\ cut \cap Unsafe = {} => ReadableHolds(x, item, table)
    /\ cut = {} /\ "projectRollback" \notin ops =>
          /\ NextIsFree(x, item, table)
          /\ ops \cap {"flatEdit", "pipelineRollback"} = {} => OnePublished(x, item, table)

Over == [IdleReg EXCEPT !.at = "done"]

RegAlone ==
    ~regOverlap =>
        /\ \A q, r \in RegRequests : RegBusy(q) /\ RegBusy(r) => q = r
        /\ \A r \in RegRequests :
              RegBusy(r) => RegHolds(regRequest[r], agent, versions, served, crashed)
        /\ Quiescent => RegHolds(Over, agent, versions, served, crashed)

RegInv == RegTyped /\ RegFirst /\ RegAlone

\* What a step may do to the versions table.
SnapshotsKept ==
    \A v \in VersionNumbers :
       Readable(v) => versions'[v] = NoVersion \/ versions'[v].author = versions[v].author

-----------------------------------------------------------------------------
(* The four ways in which a step writes the versions table *)

\* record_derived_fields changes the lifecycle of an item, or creates a stub.
LEMMA WithLifecycleKeeps ==
  ASSUME VersionsTyped, NEW v, NEW lifecycle \in Lifecycle,
         versions' = WithLifecycle(v, lifecycle)
  PROVE  VersionsTyped' /\ SnapshotsKept
<1>1. CASE v \in VersionNumbers
  <2> DEFINE item == [author |-> IF Exists(v) THEN versions[v].author ELSE 0,
                      lifecycle |-> lifecycle]
  <2>1. versions' = [versions EXCEPT ![v] = item]
    BY DEF WithLifecycle
  <2>2. item \in VersionItem
    BY <1>1 DEF VersionsTyped, VersionItem, Exists
  <2>3. VersionsTyped'
    BY <2>1, <2>2 DEF VersionsTyped
  <2>4. ASSUME NEW w \in VersionNumbers, Readable(w)
        PROVE  versions'[w].author = versions[w].author
    BY <1>1, <2>1, <2>4 DEF VersionsTyped, Readable
  <2> QED BY <2>3, <2>4 DEF SnapshotsKept
<1>2. CASE v \notin VersionNumbers
  <2>1. versions' = versions
    BY <1>2 DEF WithLifecycle, VersionsTyped
  <2> QED BY <2>1 DEF VersionsTyped, SnapshotsKept
<1> QED BY <1>1, <1>2

\* A put under the condition that the item does not exist.
LEMMA NewVersionKeeps ==
  ASSUME VersionsTyped, NEW v \in VersionNumbers, ~Exists(v), NEW r \in RegRequests,
         versions' = [versions EXCEPT ![v] = [author |-> r, lifecycle |-> "none"]]
  PROVE  VersionsTyped' /\ SnapshotsKept
<1>1. [author |-> r, lifecycle |-> "none"] \in VersionItem
  BY DEF VersionItem, Lifecycle
<1> QED BY <1>1 DEF VersionsTyped, SnapshotsKept, Exists, Readable

LEMMA DeletedVersionKeeps ==
  ASSUME VersionsTyped, NEW v, versions' = [versions EXCEPT ![v] = NoVersion]
  PROVE  VersionsTyped' /\ SnapshotsKept
BY DEF VersionsTyped, SnapshotsKept

LEMMA UntouchedKeeps ==
  ASSUME VersionsTyped, UNCHANGED versions
  PROVE  VersionsTyped' /\ SnapshotsKept
BY DEF VersionsTyped, SnapshotsKept

-----------------------------------------------------------------------------

LEMMA RegStepKeeps ==
  ASSUME RegInv, NEW r \in RegRequests, RegStep(r)
  PROVE  VersionsTyped' /\ SnapshotsKept
<1> USE DEF RegInv, RegTyped
<1>1. CASE CloneAgent(r) \/ CheckArtifact(r) \/ ReadAgent(r) \/ PutNewAgent(r) \/ PutAgent(r)
  BY <1>1, UntouchedKeeps
  DEF CloneAgent, CheckArtifact, ReadAgent, Reads, UpdateAgent, RollbackAgent, DeprecateAgent,
      MarkDeployed, UpdateProjectAgent, PublishProjectAgent, ArchiveProjectAgent,
      RollbackProjectAgent, DeleteProjectAgent, GenerateIac, PutNewAgent, PutAgent
<1>2. CASE RereadAgent(r) \/ ListVersions(r) \/ PutDraft(r) \/ DeleteAgent(r) \/ CutShort(r)
  BY <1>2, UntouchedKeeps DEF RereadAgent, ListVersions, PutDraft, DeleteAgent, CutShort
<1>3. CASE RecordArtifact(r)
  BY <1>3, WithLifecycleKeeps, UntouchedKeeps DEF RecordArtifact, Lifecycle
<1>4. CASE Deprecate(r)
  BY <1>4, WithLifecycleKeeps DEF Deprecate, Lifecycle
<1>5. CASE PutFirstVersion(r)
  <2>1. CASE Exists(1)
    BY <1>5, <2>1, UntouchedKeeps DEF PutFirstVersion
  <2>2. CASE ~Exists(1) /\ 1 \in VersionNumbers
    BY <1>5, <2>2, NewVersionKeeps DEF PutFirstVersion
  <2>3. CASE ~Exists(1) /\ 1 \notin VersionNumbers
    <3>1. versions' = versions
      BY <1>5, <2>3 DEF PutFirstVersion, VersionsTyped
    <3> QED BY <3>1, UntouchedKeeps
  <2> QED BY <2>1, <2>2, <2>3
<1>6. CASE PutNewVersion(r)
  <2> DEFINE next == regRequest[r].saw.currentVersion + 1
  <2>1. CASE Exists(next)
    BY <1>6, <2>1, UntouchedKeeps DEF PutNewVersion
  <2>2. CASE ~Exists(next) /\ next \in VersionNumbers
    BY <1>6, <2>2, NewVersionKeeps DEF PutNewVersion
  <2>3. CASE ~Exists(next) /\ next \notin VersionNumbers
    <3>1. versions' = versions
      BY <1>6, <2>3 DEF PutNewVersion, VersionsTyped
    <3> QED BY <3>1, UntouchedKeeps
  <2> QED BY <2>1, <2>2, <2>3
<1>7. CASE MarkVersion(r)
  <2>1. regRequest[r].op \in Marks
    BY <1>7 DEF MarkVersion, RegPlaced
  <2> QED BY <1>7, <2>1, WithLifecycleKeeps DEF MarkVersion, Marks, Lifecycle
<1>8. CASE DeleteVersion(r)
  BY <1>8, UntouchedKeeps, DeletedVersionKeeps DEF DeleteVersion
<1> QED BY <1>1, <1>2, <1>3, <1>4, <1>5, <1>6, <1>7, <1>8 DEF RegStep

-----------------------------------------------------------------------------
(* What a write does to the versions table *)

\* What Min of a set of numbers is.
LEMMA LeastRequest ==
  ASSUME NEW T \in SUBSET Nat, T # {}
  PROVE  Min(T) \in T /\ \A y \in T : Min(T) <= y
<1>1. PICK x \in T : \A y \in T : ~ (<<y, x>> \in OpToRel(<, Nat))
  BY NatLessThanWellFounded, WFMin
<1>2. ASSUME NEW y \in T PROVE x <= y
  <2>1. x \in Nat /\ y \in Nat /\ <<y, x>> \in Nat \X Nat
    OBVIOUS
  <2>2. <<y, x>>[1] = y /\ <<y, x>>[2] = x
    OBVIOUS
  <2>3. ~ (y < x)
    BY <1>1, <2>1, <2>2 DEF OpToRel
  <2> QED BY <2>1, <2>3
<1> QED BY <1>2 DEF Min

\* Max of a set of version numbers: the least distance to MaxVersion.
LEMMA GreatestVersion ==
  ASSUME NEW T \in SUBSET VersionNumbers, T # {}
  PROVE  Max(T) \in T /\ \A y \in T : Max(T) >= y
<1> DEFINE below == {MaxVersion - v : v \in T}
<1>1. below \in SUBSET Nat /\ below # {}
  <2>1. \A v \in T : MaxVersion - v \in Nat
    BY RegAssumption DEF VersionNumbers
  <2> QED BY <2>1
<1>2. Min(below) \in below /\ \A d \in below : Min(below) <= d
  BY <1>1, LeastRequest
<1>3. PICK x \in T : Min(below) = MaxVersion - x
  BY <1>2
<1>4. ASSUME NEW y \in T PROVE x >= y
  <2>1. MaxVersion - x <= MaxVersion - y
    BY <1>2, <1>3
  <2> QED BY <2>1, RegAssumption DEF VersionNumbers
<1> QED BY <1>4 DEF Max

LEMMA LifecycleWritten ==
  ASSUME VersionsTyped, NEW v \in VersionNumbers, NEW lifecycle \in Lifecycle,
         versions' = WithLifecycle(v, lifecycle)
  PROVE  /\ VersionsTyped'
         /\ \A w \in VersionNumbers :
               /\ Has(versions', w) <=> Has(versions, w) \/ w = v
               /\ Sound(versions, w) => Sound(versions', w)
               /\ Labelled(versions', w) <=>
                     IF w = v THEN lifecycle = "published" ELSE Labelled(versions, w)
<1>1. PICK item : item = [author |-> IF Exists(v) THEN versions[v].author ELSE 0,
                          lifecycle |-> lifecycle]
  OBVIOUS
<1>2. versions' = [versions EXCEPT ![v] = item]
  BY <1>1 DEF WithLifecycle
<1>3. item \in VersionItem /\ item.lifecycle = lifecycle
  BY <1>1 DEF VersionsTyped, VersionItem, Exists
<1>4. Has(versions, v) => item.author = versions[v].author
  BY <1>1 DEF Has, Exists
<1>5. item # NoVersion
  <2>1. item.author \in Nat
    <3>1. item.author = 0 \/ item.author \in RegRequests
      BY <1>3 DEF VersionItem
    <3>2. RegRequests \subseteq Nat
      BY RegAssumption
    <3>3. item.author \in RegRequests => item.author \in Nat
      BY <3>2, Zenon
    <3> QED BY <3>1, <3>3
  <2>2. NoVersion.author = -1
    BY DEF NoVersion
  <2>3. NoVersion.author \notin Nat
    BY <2>2
  <2> QED BY <2>1, <2>3
<1>6. /\ versions'[v] = item
      /\ \A w \in VersionNumbers : w # v => versions'[w] = versions[w]
  BY <1>2 DEF VersionsTyped
<1> QED BY <1>2, <1>3, <1>4, <1>5, <1>6 DEF VersionsTyped, Has, Sound, Labelled

LEMMA NewVersionWritten ==
  ASSUME VersionsTyped, NEW v \in VersionNumbers, ~Exists(v), NEW r \in RegRequests,
         versions' = [versions EXCEPT ![v] = [author |-> r, lifecycle |-> "none"]]
  PROVE  /\ VersionsTyped' /\ Sound(versions', v)
         /\ \A w \in VersionNumbers :
               /\ Has(versions', w) <=> Has(versions, w) \/ w = v
               /\ Sound(versions, w) => Sound(versions', w)
               /\ Labelled(versions', w) <=> Labelled(versions, w)
<1>1. PICK item : item = [author |-> r, lifecycle |-> "none"]
  OBVIOUS
<1>2. item \in VersionItem /\ item.lifecycle = "none" /\ item.author = r
  BY <1>1 DEF VersionItem, Lifecycle
<1>3. item # NoVersion /\ r # 0
  <2>1. NoVersion.author = -1 /\ r \in Nat \ {0}
    BY RegAssumption DEF NoVersion
  <2> QED BY <1>2, <2>1
<1>4. /\ versions'[v] = item
      /\ \A w \in VersionNumbers : w # v => versions'[w] = versions[w]
      /\ VersionsTyped'
  BY <1>1, <1>2 DEF VersionsTyped
<1> QED BY <1>2, <1>3, <1>4 DEF VersionsTyped, Has, Sound, Labelled, Exists

LEMMA VersionDeleted ==
  ASSUME VersionsTyped, NEW v, versions' = [versions EXCEPT ![v] = NoVersion]
  PROVE  /\ VersionsTyped'
         /\ \A w \in VersionNumbers :
               /\ Has(versions', w) => Has(versions, w)
               /\ Labelled(versions', w) => Labelled(versions, w)
BY DEF VersionsTyped, Has, Labelled

-----------------------------------------------------------------------------
(* The frame of a step *)

LEMMA FirstRequest ==
  ASSUME NEW r \in RegRequests
  PROVE  Min(RegRequests) \in RegRequests /\ Min(RegRequests) <= r
<1>1. RegRequests \in SUBSET Nat /\ RegRequests # {}
  BY RegAssumption
<1> QED BY <1>1, LeastRequest

LEMMA RegGoesOn ==
  ASSUME RegInv, NEW r \in RegRequests, NEW x \in RegHandler, RegPlaced(x), x.at # "idle",
         regRequest[Min(RegRequests)].at # "idle" \/ r = Min(RegRequests),
         regRequest' = [regRequest EXCEPT ![r] = x],
         agent' \in AgentItem \cup {NoAgent}, VersionsTyped',
         served' \subseteq Operations, crashed' \subseteq Operations, UNCHANGED regOverlap,
         ~regOverlap =>
            /\ \A q \in RegRequests \ {r} : ~RegBusy(q)
            /\ RegHolds(x, agent', versions', served', crashed')
            /\ x.at = "done" => x = Over
  PROVE  RegInv'
<1>1. /\ regRequest' \in [RegRequests -> RegHandler] /\ regRequest'[r] = x
      /\ \A q \in RegRequests \ {r} : regRequest'[q] = regRequest[q]
  BY DEF RegInv, RegTyped
<1>2. RegTyped'
  <2>1. \A q \in RegRequests : RegPlaced(regRequest'[q])
    BY <1>1 DEF RegInv, RegTyped
  <2>2. (\A q \in RegRequests : RegPlaced(regRequest[q]))'
    BY <2>1 DEF RegPlaced
  <2> QED BY <1>1, <2>2 DEF RegInv, RegTyped
<1>3. regRequest'[Min(RegRequests)].at # "idle"
  BY <1>1, FirstRequest
<1>4. RegFirst'
  BY <1>3 DEF RegFirst
<1>5. ASSUME ~regOverlap
      PROVE  RegAlone'
  <2>1. \A q \in RegRequests \ {r} : regRequest'[q].at \in {"idle", "done"}
    BY <1>1, <1>5 DEF RegBusy
  <2>2. \A q \in RegRequests : regRequest'[q].at \notin {"idle", "done"} => q = r
    BY <2>1
  <2>3. \A q \in RegRequests :
           regRequest'[q].at \notin {"idle", "done"} =>
              RegHolds(regRequest'[q], agent', versions', served', crashed')
    BY <1>1, <1>5, <2>2
  <2>4. (\A q \in RegRequests : regRequest'[q].at \in {"idle", "done"}) =>
           RegHolds(Over, agent', versions', served', crashed')
    BY <1>1, <1>5
  <2>5. (\A q, s \in RegRequests : RegBusy(q) /\ RegBusy(s) => q = s)'
    BY <2>2 DEF RegBusy
  <2>6. (\A q \in RegRequests :
           RegBusy(q) => RegHolds(regRequest[q], agent, versions, served, crashed))'
    BY <2>3 DEF RegBusy, RegHolds, SeesAgent, CreationHolds, ReadableHolds, NextIsFree,
                OnePublished, Sound, Has, Labelled, Unmaking, Putting, Relabelling
  <2>7. (Quiescent => RegHolds(Over, agent, versions, served, crashed))'
    BY <2>4 DEF Quiescent, RegBusy, RegHolds, SeesAgent, CreationHolds, ReadableHolds,
                NextIsFree, OnePublished, Sound, Has, Labelled, Unmaking, Putting, Relabelling
  <2> QED BY <2>5, <2>6, <2>7 DEF RegAlone
<1>6. ASSUME regOverlap
      PROVE  RegAlone'
  <2>1. regOverlap = TRUE
    BY <1>6 DEF RegInv, RegTyped
  <2>2. regOverlap' = TRUE
    BY <2>1
  <2> QED BY <2>2, Zenon DEF RegAlone
<1>7. RegAlone'
  <2>1. regOverlap \/ ~regOverlap
    OBVIOUS
  <2> QED BY <1>5, <1>6, <2>1, Zenon
<1> QED BY <1>2, <1>4, <1>7 DEF RegInv

\* What holds while a request is served.
LEMMA RegServing ==
  ASSUME RegInv, NEW r \in RegRequests, RegBusy(r)
  PROVE  /\ regRequest[r] \in RegHandler /\ RegPlaced(regRequest[r])
         /\ agent \in AgentItem \cup {NoAgent} /\ VersionsTyped
         /\ served \subseteq Operations /\ crashed \subseteq Operations
         /\ regRequest[Min(RegRequests)].at # "idle"
         /\ ~regOverlap =>
               /\ \A q \in RegRequests \ {r} : ~RegBusy(q)
               /\ RegHolds(regRequest[r], agent, versions, served, crashed)
BY DEF RegInv, RegTyped, RegFirst, RegAlone, RegBusy

LEMMA OverIsHandler ==
  /\ Over \in RegHandler /\ RegPlaced(Over) /\ Over.at = "done" /\ Over.op = "none"
<1>1. IdleReg \in RegHandler /\ IdleReg.op = "none"
  BY RegAssumption DEF IdleReg, RegHandler, RegStates
<1>2. Over \in RegHandler /\ Over.at = "done" /\ Over.op = "none"
  BY <1>1 DEF Over, RegHandler, RegStates
<1> QED BY <1>2 DEF RegPlaced, Creations, Versioning

\* A request that ends where what it read and wrote is complete.
LEMMA OverHolds ==
  ASSUME NEW x, NEW item, NEW table, NEW ops, NEW cut, RegHolds(x, item, table, ops, cut),
         ~Unmaking(x), ~Putting(x), ~Relabelling(x)
  PROVE  RegHolds(Over, item, table, ops, cut)
BY OverIsHandler DEF RegHolds, SeesAgent, CreationHolds, ReadableHolds, NextIsFree,
   OnePublished, Creations, Putting

\* A request that is refused, or has nothing more to do.
LEMMA EndsKeeps ==
  ASSUME RegInv, NEW r \in RegRequests, RegBusy(r), Finishes(r),
         UNCHANGED <<agent, versions, served, crashed, regOverlap>>,
         LET x == regRequest[r] IN ~Unmaking(x) /\ ~Putting(x) /\ ~Relabelling(x)
  PROVE  RegInv'
<1>1. regRequest' = [regRequest EXCEPT ![r] = Over]
  BY DEF Finishes, Over
<1>2. ~regOverlap => RegHolds(Over, agent, versions, served, crashed)
  BY RegServing, OverHolds
<1>3. VersionsTyped'
  BY RegServing DEF VersionsTyped
<1> QED BY <1>1, <1>2, <1>3, RegServing, OverIsHandler, RegGoesOn

\* The record a request's step leaves.
LEMMA RegMoves ==
  ASSUME RegInv, NEW r \in RegRequests, NEW state \in RegStates, Moves(r, state)
  PROVE  \E x \in RegHandler :
            /\ regRequest' = [regRequest EXCEPT ![r] = x]
            /\ x.at = state /\ x.op = regRequest[r].op /\ x.saw = regRequest[r].saw
            /\ x.target = regRequest[r].target /\ x.listed = regRequest[r].listed
<1>1. PICK x : x = [regRequest[r] EXCEPT !.at = state]
  OBVIOUS
<1>2. regRequest[r] \in RegHandler
  BY DEF RegInv, RegTyped
<1>3. /\ x \in RegHandler /\ x.at = state /\ x.op = regRequest[r].op /\ x.saw = regRequest[r].saw
      /\ x.target = regRequest[r].target /\ x.listed = regRequest[r].listed
  BY <1>1, <1>2 DEF RegHandler
<1>4. regRequest' = [regRequest EXCEPT ![r] = x]
  BY <1>1 DEF Moves
<1> QED BY <1>3, <1>4

LEMMA RegSees ==
  ASSUME RegInv, NEW r \in RegRequests, NEW state \in RegStates, agent \in AgentItem,
         regRequest' = [regRequest EXCEPT ![r].saw = agent, ![r].at = state]
  PROVE  \E x \in RegHandler :
            /\ regRequest' = [regRequest EXCEPT ![r] = x]
            /\ x.at = state /\ x.op = regRequest[r].op /\ x.saw = agent
            /\ x.target = regRequest[r].target /\ x.listed = regRequest[r].listed
<1>1. PICK x : x = [regRequest[r] EXCEPT !.saw = agent, !.at = state]
  OBVIOUS
<1>2. regRequest[r] \in RegHandler
  BY DEF RegInv, RegTyped
<1>3. /\ x \in RegHandler /\ x.at = state /\ x.op = regRequest[r].op /\ x.saw = agent
      /\ x.target = regRequest[r].target /\ x.listed = regRequest[r].listed
  BY <1>1, <1>2 DEF RegHandler
<1>4. regRequest' = [regRequest EXCEPT ![r] = x]
  BY <1>1 DEF RegInv, RegTyped
<1> QED BY <1>3, <1>4

-----------------------------------------------------------------------------
(* The steps *)

LEMMA RegInitially == RegInit => RegInv
<1> SUFFICES ASSUME RegInit PROVE RegInv
  OBVIOUS
<1>1. IdleReg \in RegHandler /\ RegPlaced(IdleReg) /\ IdleReg.at = "idle"
  <2>1. IdleReg \in RegHandler /\ IdleReg.op = "none" /\ IdleReg.at = "idle"
    BY RegAssumption DEF IdleReg, RegHandler, RegStates
  <2> QED BY <2>1 DEF RegPlaced, Creations, Versioning
<1>2. \A r \in RegRequests : regRequest[r] = IdleReg
  BY DEF RegInit
<1>3. RegTyped
  BY <1>1, <1>2 DEF RegInit, RegTyped, VersionsTyped
<1>4. RegFirst
  <2>1. \A v \in VersionNumbers : versions[v] = NoVersion
    BY DEF RegInit
  <2>2. \A r \in RegRequests : regRequest[r].at = "idle"
    BY <1>1, <1>2
  <2> QED BY <2>1, <2>2 DEF RegInit, RegFirst
<1>5. \A r \in RegRequests : ~RegBusy(r)
  BY <1>1, <1>2 DEF RegBusy
<1>6. RegHolds(Over, agent, versions, served, crashed)
  BY OverIsHandler DEF RegInit, RegHolds, SeesAgent, CreationHolds, ReadableHolds, NextIsFree,
     OnePublished, Creations, Putting, Labelled, Has
<1> QED BY <1>3, <1>4, <1>5, <1>6 DEF RegInv, RegAlone

\* A request arrives; it finds what the one before it left.
LEMMA ArriveKeeps ==
  ASSUME RegInv, NEW r \in RegRequests, NEW op \in Operations, NEW target \in 0 .. MaxVersion,
         op \in {"pipelineRollback", "projectRollback"} => target \in VersionNumbers,
         Arrive(r, op, target)
  PROVE  RegInv'
<1>1. PICK x : x = [IdleReg EXCEPT !.op = op, !.target = target,
                                   !.at = IF op = "create" THEN "putNew" ELSE "read"]
  OBVIOUS
<1>2. /\ x \in RegHandler /\ x.op = op /\ x.target = target
      /\ x.at = IF op = "create" THEN "putNew" ELSE "read"
  <2>1. IdleReg \in RegHandler
    BY RegAssumption DEF IdleReg, RegHandler, RegStates
  <2> QED BY <1>1, <2>1 DEF RegHandler, RegStates
<1>3. op # "none"
  BY DEF Operations
<1>4. RegPlaced(x) /\ x.at # "idle" /\ x.at # "done"
  BY <1>2, <1>3 DEF RegPlaced, Creations, Versioning
<1>5. /\ regRequest' = [regRequest EXCEPT ![r] = x] /\ regRequest[r].at = "idle"
      /\ served' = served \cup {op} /\ UNCHANGED <<agent, versions, crashed, regOverlap>>
      /\ ~regOverlap => Quiescent
      /\ op \in Creations <=> r = Min(RegRequests)
      /\ \A q \in RegRequests : q < r => regRequest[q].at # "idle"
  BY <1>1 DEF Arrive
<1>6. regRequest[Min(RegRequests)].at # "idle" \/ r = Min(RegRequests)
  <2>1. CASE Min(RegRequests) < r
    BY <1>5, <2>1, FirstRequest
  <2>2. CASE ~(Min(RegRequests) < r)
    <3>1. Min(RegRequests) \in Nat /\ r \in Nat /\ Min(RegRequests) <= r
      BY FirstRequest, RegAssumption
    <3> QED BY <2>2, <3>1
  <2> QED BY <2>1, <2>2
<1>7. /\ agent' \in AgentItem \cup {NoAgent} /\ VersionsTyped'
      /\ served' \subseteq Operations /\ crashed' \subseteq Operations
  BY <1>5 DEF RegInv, RegTyped, VersionsTyped
<1>8. ASSUME ~regOverlap
      PROVE  /\ \A q \in RegRequests \ {r} : ~RegBusy(q)
             /\ RegHolds(x, agent, versions, served', crashed)
  <2>1. Quiescent /\ RegHolds(Over, agent, versions, served, crashed)
    BY <1>5, <1>8 DEF RegInv, RegAlone
  <2>2. op \in Creations => agent = NoAgent /\ \A v \in VersionNumbers : ~Has(versions, v)
    BY <1>5 DEF RegInv, RegFirst, Has
  <2>3. CreationHolds(x, agent, versions) /\ SeesAgent(x, agent)
    BY <1>2, <2>2 DEF CreationHolds, SeesAgent
  <2>4. ReadableHolds(Over, agent, versions) => ReadableHolds(x, agent, versions)
    BY <1>2, OverIsHandler DEF ReadableHolds, Unmaking, Putting
  <2>5. NextIsFree(Over, agent, versions) => NextIsFree(x, agent, versions)
    BY <1>2, OverIsHandler DEF NextIsFree, Putting
  <2>6. OnePublished(Over, agent, versions) => OnePublished(x, agent, versions)
    BY <1>2, OverIsHandler DEF OnePublished, Relabelling
  <2> HIDE DEF Over
  <2> QED BY <1>2, <1>5, <2>1, <2>3, <2>4, <2>5, <2>6 DEF RegHolds, Quiescent
<1>9. ~regOverlap => RegHolds(x, agent', versions', served', crashed')
  BY <1>5, <1>8
<1> QED BY <1>4, <1>5, <1>6, <1>7, <1>8, <1>9, <1>2, RegGoesOn

\* Where a method goes on after it has read the agent.
LEMMA ReadsKeeps ==
  ASSUME RegInv, NEW r \in RegRequests, NEW op \in Operations \ Creations,
         NEW refused \in BOOLEAN, NEW next \in RegStates, Reads(r, op, refused, next),
         \/ op \in Versioning /\ next = "putVersion"
         \/ op \in {"softDelete", "pipelineMark"} /\ next = "putAgent"
         \/ op = "publish" /\ next = "list"
         \/ op = "archive" /\ next = "mark"
         \/ op = "projectRollback" /\ next = "unpublish"
         \/ op = "hardDelete" /\ next = "reread"
         \/ op = "generateIac" /\ next = "check",
         op = "projectRollback" /\ ~refused => Sound(versions, regRequest[r].target),
         op = "hardDelete" /\ ~refused => agent.lifecycle = "archived"
  PROVE  RegInv'
<1>1. /\ regRequest[r].op = op /\ regRequest[r].at = "read" /\ RegBusy(r)
      /\ UNCHANGED <<agent, versions, served, crashed, regOverlap>>
  BY DEF Reads, RegAt, RegBusy
<1>2. CASE agent = NoAgent \/ refused
  BY <1>1, <1>2, EndsKeeps DEF Reads, Unmaking, Putting, Relabelling
<1>3. CASE ~(agent = NoAgent \/ refused)
  <2>1. agent \in AgentItem
    BY <1>1, <1>3, RegServing
  <2>2. regRequest' = [regRequest EXCEPT ![r].saw = agent, ![r].at = next]
    BY <1>3 DEF Reads
  <2>3. \E x \in RegHandler :
           /\ regRequest' = [regRequest EXCEPT ![r] = x]
           /\ x.at = next /\ x.op = regRequest[r].op /\ x.saw = agent
           /\ x.target = regRequest[r].target /\ x.listed = regRequest[r].listed
    BY <2>1, <2>2, RegSees
  <2> PICK x \in RegHandler :
           /\ regRequest' = [regRequest EXCEPT ![r] = x]
           /\ x.at = next /\ x.op = regRequest[r].op /\ x.saw = agent
           /\ x.target = regRequest[r].target /\ x.listed = regRequest[r].listed
    BY <2>3
  <2>4. RegPlaced(x) /\ x.at # "idle" /\ x.at # "done"
    BY <1>1, <2>1, <2>3, RegServing DEF RegPlaced, Creations, Versioning, Marks
  <2>5. ASSUME ~regOverlap PROVE RegHolds(x, agent, versions, served, crashed)
    <3>1. RegHolds(regRequest[r], agent, versions, served, crashed)
      BY <1>1, <2>5, RegServing
    <3>2. CreationHolds(x, agent, versions) /\ SeesAgent(x, agent) /\ op \in served
      BY <1>1, <2>3, <3>1 DEF CreationHolds, SeesAgent, RegHolds, Operations
    <3>3. ReadableHolds(regRequest[r], agent, versions) => ReadableHolds(x, agent, versions)
      BY <1>1, <1>3, <2>3 DEF ReadableHolds, Unmaking, Putting, Versioning
    <3>4. NextIsFree(regRequest[r], agent, versions) => NextIsFree(x, agent, versions)
      BY <1>1, <2>3 DEF NextIsFree, Putting
    <3>5. OnePublished(regRequest[r], agent, versions) => OnePublished(x, agent, versions)
      BY <1>1, <1>3, <2>3 DEF OnePublished, Relabelling, Versioning
    <3> QED BY <2>3, <3>1, <3>2, <3>3, <3>4, <3>5 DEF RegHolds
  <2>6. VersionsTyped'
    BY <1>1, RegServing DEF VersionsTyped
  <2> QED BY <1>1, <2>3, <2>4, <2>5, <2>6, RegServing, RegGoesOn
<1> QED BY <1>2, <1>3

LEMMA ReadAgentKeeps ==
  ASSUME RegInv, NEW r \in RegRequests, ReadAgent(r)
  PROVE  RegInv'
<1>1. CASE UpdateAgent(r) \/ DeprecateAgent(r) \/ MarkDeployed(r) \/ UpdateProjectAgent(r)
           \/ PublishProjectAgent(r) \/ ArchiveProjectAgent(r)
  BY <1>1, ReadsKeeps
     DEF UpdateAgent, DeprecateAgent, MarkDeployed, UpdateProjectAgent, PublishProjectAgent,
         ArchiveProjectAgent, Operations, Creations, RegStates, Versioning
<1>2. CASE RollbackAgent(r)
  BY <1>2, ReadsKeeps
     DEF RollbackAgent, NoRollbackTo, Operations, Creations, RegStates, Versioning
<1>3. CASE RollbackProjectAgent(r)
  <2>1. ~NoRollbackTo(regRequest[r].target) => Sound(versions, regRequest[r].target)
    BY DEF NoRollbackTo, Readable, Exists, Sound, Has
  <2>2. NoRollbackTo(regRequest[r].target) \in BOOLEAN
    BY DEF NoRollbackTo
  <2> QED BY <1>3, <2>1, <2>2, ReadsKeeps
          DEF RollbackProjectAgent, Operations, Creations, RegStates
<1>4. CASE GenerateIac(r)
  BY <1>4, ReadsKeeps DEF GenerateIac, Operations, Creations, RegStates
<1>5. CASE DeleteProjectAgent(r)
  BY <1>5, ReadsKeeps DEF DeleteProjectAgent, Operations, Creations, RegStates
<1> QED BY <1>1, <1>2, <1>3, <1>4, <1>5 DEF ReadAgent

\* The agent to copy is there, or the clone ends.
LEMMA CloneAgentKeeps ==
  ASSUME RegInv, NEW r \in RegRequests, CloneAgent(r)
  PROVE  RegInv'
<1>1. /\ regRequest[r].op = "clone" /\ regRequest[r].at = "read" /\ RegBusy(r)
      /\ UNCHANGED <<agent, versions, served, crashed, regOverlap>>
      /\ Moves(r, "putNew") \/ Finishes(r)
  BY DEF CloneAgent, RegAt, RegBusy
<1>2. CASE Finishes(r)
  BY <1>1, <1>2, EndsKeeps DEF Unmaking, Putting, Relabelling
<1>3. CASE Moves(r, "putNew")
  <2>1. \E x \in RegHandler :
            /\ regRequest' = [regRequest EXCEPT ![r] = x]
            /\ x.at = "putNew" /\ x.op = regRequest[r].op /\ x.saw = regRequest[r].saw
            /\ x.target = regRequest[r].target /\ x.listed = regRequest[r].listed
    BY <1>3, RegMoves DEF RegStates
  <2> PICK x \in RegHandler :
            /\ regRequest' = [regRequest EXCEPT ![r] = x]
            /\ x.at = "putNew" /\ x.op = regRequest[r].op /\ x.saw = regRequest[r].saw
            /\ x.target = regRequest[r].target /\ x.listed = regRequest[r].listed
    BY <2>1
  <2>2. RegPlaced(x) /\ x.at # "idle" /\ x.at # "done"
    BY <1>1, RegServing DEF RegPlaced, Creations, Versioning, Marks
  <2>3. ASSUME ~regOverlap PROVE RegHolds(x, agent, versions, served, crashed)
    <3>1. RegHolds(regRequest[r], agent, versions, served, crashed)
      BY <1>1, <2>3, RegServing
    <3>2. CreationHolds(x, agent, versions) /\ SeesAgent(x, agent) /\ agent = NoAgent
      BY <1>1, <3>1 DEF CreationHolds, SeesAgent, RegHolds, Creations
    <3>3. ReadableHolds(x, agent, versions) /\ NextIsFree(x, agent, versions)
      BY <1>1, <3>2 DEF ReadableHolds, NextIsFree, Putting
    <3>4. OnePublished(regRequest[r], agent, versions) => OnePublished(x, agent, versions)
      BY <1>1, <3>2 DEF OnePublished
    <3> QED BY <1>1, <3>1, <3>2, <3>3, <3>4 DEF RegHolds
  <2>4. VersionsTyped'
    BY <1>1, RegServing DEF VersionsTyped
  <2> QED BY <1>1, <2>2, <2>3, <2>4, RegServing, RegGoesOn
<1> QED BY <1>1, <1>2, <1>3

\* The agent is there before its version is.
LEMMA PutNewAgentKeeps ==
  ASSUME RegInv, NEW r \in RegRequests, PutNewAgent(r)
  PROVE  RegInv'
<1>1. /\ regRequest[r].op \in Creations /\ regRequest[r].at = "putNew" /\ RegBusy(r)
      /\ UNCHANGED <<versions, served, crashed, regOverlap>> /\ Moves(r, "putFirst")
  BY DEF PutNewAgent, RegAt, RegBusy
<1>2. PICK lifecycle \in {"none", "draft"} :
         agent' = [currentVersion |-> 1, status |-> "DRAFT", lifecycle |-> lifecycle]
  BY DEF PutNewAgent
<1>3. agent' \in AgentItem /\ agent'.currentVersion = 1 /\ agent'.lifecycle # "published"
  BY <1>2, RegAssumption DEF AgentItem, VersionNumbers, Lifecycle
<1>4. \E x \in RegHandler :
          /\ regRequest' = [regRequest EXCEPT ![r] = x]
          /\ x.at = "putFirst" /\ x.op = regRequest[r].op /\ x.saw = regRequest[r].saw
          /\ x.target = regRequest[r].target /\ x.listed = regRequest[r].listed
  BY <1>1, RegMoves DEF RegStates
<1> PICK x \in RegHandler :
          /\ regRequest' = [regRequest EXCEPT ![r] = x]
          /\ x.at = "putFirst" /\ x.op = regRequest[r].op /\ x.saw = regRequest[r].saw
          /\ x.target = regRequest[r].target /\ x.listed = regRequest[r].listed
  BY <1>4
<1>5. RegPlaced(x) /\ x.at # "idle" /\ x.at # "done"
  BY <1>1, RegServing DEF RegPlaced, Creations, Versioning, Marks
<1>6. ASSUME ~regOverlap PROVE RegHolds(x, agent', versions, served, crashed)
  <2>1. RegHolds(regRequest[r], agent, versions, served, crashed)
    BY <1>1, <1>6, RegServing
  <2>2. \A v \in VersionNumbers : ~Has(versions, v)
    BY <1>1, <2>1 DEF RegHolds, CreationHolds
  <2>3. CreationHolds(x, agent', versions) /\ SeesAgent(x, agent')
    BY <1>1, <1>3, <2>2 DEF CreationHolds, SeesAgent
  <2>4. ReadableHolds(x, agent', versions) /\ NextIsFree(x, agent', versions)
    BY <1>1, <2>2 DEF ReadableHolds, NextIsFree, Putting, Unmaking, Creations
  <2>5. OnePublished(x, agent', versions)
    BY <1>1, <1>3, <2>2 DEF OnePublished, Labelled, Creations
  <2> QED BY <1>1, <2>1, <2>3, <2>4, <2>5 DEF RegHolds
<1>7. VersionsTyped'
  BY <1>1, RegServing DEF VersionsTyped
<1>8. ~regOverlap => RegHolds(x, agent', versions', served', crashed')
  BY <1>1, <1>6
<1> QED BY <1>1, <1>3, <1>5, <1>7, <1>8, RegServing, RegGoesOn

LEMMA PutFirstVersionKeeps ==
  ASSUME RegInv, NEW r \in RegRequests, PutFirstVersion(r)
  PROVE  RegInv'
<1>1. /\ regRequest[r].op \in Creations /\ regRequest[r].at = "putFirst" /\ RegBusy(r)
      /\ UNCHANGED <<agent, served, crashed, regOverlap>> /\ 1 \in VersionNumbers
      /\ regRequest' = [regRequest EXCEPT ![r] = Over]
  BY RegAssumption DEF PutFirstVersion, RegAt, RegBusy, Finishes, Over, VersionNumbers
<1>2. ~regOverlap =>
         /\ \A v \in VersionNumbers : ~Has(versions, v)
         /\ agent \in AgentItem /\ agent.currentVersion = 1 /\ agent.lifecycle # "published"
  BY <1>1, RegServing DEF RegHolds, CreationHolds
<1>3. CASE Exists(1)
  <2>1. regOverlap
    BY <1>1, <1>2, <1>3 DEF Has, Exists
  <2>2. VersionsTyped'
    BY <1>3, RegServing, <1>1 DEF VersionsTyped, PutFirstVersion
  <2> QED BY <1>1, <2>1, <2>2, RegServing, OverIsHandler, RegGoesOn
<1>4. CASE ~Exists(1)
  <2>1. versions' = [versions EXCEPT ![1] = [author |-> r, lifecycle |-> "none"]]
    BY <1>4 DEF PutFirstVersion
  <2>2. /\ VersionsTyped' /\ Sound(versions', 1)
        /\ \A w \in VersionNumbers :
              /\ Has(versions', w) <=> Has(versions, w) \/ w = 1
              /\ Sound(versions, w) => Sound(versions', w)
              /\ Labelled(versions', w) <=> Labelled(versions, w)
    BY <1>1, <1>4, <2>1, RegServing, NewVersionWritten
  <2>3. ASSUME ~regOverlap PROVE RegHolds(Over, agent, versions', served, crashed)
    <3>1. SeesAgent(Over, agent) /\ CreationHolds(Over, agent, versions')
      BY OverIsHandler DEF SeesAgent, CreationHolds, Creations
    <3>2. ReadableHolds(Over, agent, versions')
      BY OverIsHandler, <1>2, <2>2, <2>3 DEF ReadableHolds, Putting
    <3>3. NextIsFree(Over, agent, versions')
      BY OverIsHandler, <1>2, <2>2, <2>3 DEF NextIsFree, VersionNumbers
    <3>4. OnePublished(Over, agent, versions')
      BY OverIsHandler, <1>2, <2>2, <2>3 DEF OnePublished, Labelled
    <3> QED BY OverIsHandler, <3>1, <3>2, <3>3, <3>4 DEF RegHolds
  <2>4. ~regOverlap => RegHolds(Over, agent', versions', served', crashed')
    BY <1>1, <2>3
  <2> QED BY <1>1, <2>2, <2>4, RegServing, OverIsHandler, RegGoesOn
<1> QED BY <1>3, <1>4

\* A version is there before an agent points to it.
LEMMA PutNewVersionKeeps ==
  ASSUME RegInv, NEW r \in RegRequests, PutNewVersion(r)
  PROVE  RegInv'
<1> DEFINE next == regRequest[r].saw.currentVersion + 1
<1>1. /\ regRequest[r].op \in Versioning /\ regRequest[r].at = "putVersion" /\ RegBusy(r)
      /\ UNCHANGED <<agent, served, crashed, regOverlap>> /\ next <= MaxVersion
  BY DEF PutNewVersion, RegAt, RegBusy, Versioning
<1>2. regRequest[r].saw \in AgentItem
  BY <1>1, RegServing DEF RegPlaced
<1>3. next \in VersionNumbers
  BY <1>1, <1>2, RegAssumption DEF AgentItem, VersionNumbers
<1>4. CASE Exists(next)
  <2>1. Finishes(r) /\ UNCHANGED versions
    BY <1>4 DEF PutNewVersion
  <2> QED BY <1>1, <2>1, EndsKeeps DEF Unmaking, Putting, Relabelling
<1>5. CASE ~Exists(next)
  <2>1. /\ versions' = [versions EXCEPT ![next] = [author |-> r, lifecycle |-> "none"]]
        /\ Moves(r, "putAgent")
    BY <1>5 DEF PutNewVersion
  <2>2. /\ VersionsTyped' /\ Sound(versions', next)
        /\ \A w \in VersionNumbers :
              /\ Has(versions', w) <=> Has(versions, w) \/ w = next
              /\ Sound(versions, w) => Sound(versions', w)
              /\ Labelled(versions', w) <=> Labelled(versions, w)
    BY <1>1, <1>3, <1>5, <2>1, RegServing, NewVersionWritten
  <2>3. \E x \in RegHandler :
            /\ regRequest' = [regRequest EXCEPT ![r] = x]
            /\ x.at = "putAgent" /\ x.op = regRequest[r].op /\ x.saw = regRequest[r].saw
            /\ x.target = regRequest[r].target /\ x.listed = regRequest[r].listed
    BY <2>1, RegMoves DEF RegStates
  <2> PICK x \in RegHandler :
            /\ regRequest' = [regRequest EXCEPT ![r] = x]
            /\ x.at = "putAgent" /\ x.op = regRequest[r].op /\ x.saw = regRequest[r].saw
            /\ x.target = regRequest[r].target /\ x.listed = regRequest[r].listed
    BY <2>3
  <2>4. RegPlaced(x) /\ x.at # "idle" /\ x.at # "done"
    BY <1>1, <1>2, <1>3, RegServing DEF RegPlaced, Creations, Versioning, Marks
  <2>5. ASSUME ~regOverlap PROVE RegHolds(x, agent, versions', served, crashed)
    <3>1. RegHolds(regRequest[r], agent, versions, served, crashed)
      BY <1>1, <2>5, RegServing
    <3>2. agent = x.saw /\ agent \in AgentItem /\ agent # NoAgent
      BY <1>1, <1>2, <3>1 DEF RegHolds, SeesAgent, AgentItem, NoAgent
    <3>3. CreationHolds(x, agent, versions') /\ SeesAgent(x, agent)
      BY <1>1, <3>2 DEF CreationHolds, SeesAgent, Creations, Versioning
    <3>4. ReadableHolds(regRequest[r], agent, versions) => ReadableHolds(x, agent, versions')
      <4>1. agent.currentVersion \in VersionNumbers
        BY <3>2 DEF AgentItem
      <4> QED BY <1>1, <2>2, <3>2, <4>1 DEF ReadableHolds, Unmaking, Versioning, Putting
    <3>5. NextIsFree(regRequest[r], agent, versions) => NextIsFree(x, agent, versions')
      BY <1>1, <2>2, <3>2 DEF NextIsFree, Putting
    <3>6. OnePublished(regRequest[r], agent, versions) => OnePublished(x, agent, versions')
      <4>1. agent.currentVersion \in VersionNumbers
        BY <3>2 DEF AgentItem
      <4> QED BY <1>1, <2>2, <3>2, <4>1 DEF OnePublished, Relabelling, Versioning
    <3> QED BY <1>1, <3>1, <3>3, <3>4, <3>5, <3>6 DEF RegHolds
  <2>6. ~regOverlap => RegHolds(x, agent', versions', served', crashed')
    BY <1>1, <2>5
  <2> QED BY <1>1, <2>2, <2>4, <2>6, RegServing, RegGoesOn
<1> QED BY <1>4, <1>5

\* What a method's put leaves in the agent item.
LEMMA UpdatedItem ==
  ASSUME NEW item \in AgentItem, NEW op, NEW target
  PROVE  /\ op \in Versioning /\ item.currentVersion + 1 \in VersionNumbers =>
               /\ Updated(item, op, target) \in AgentItem
               /\ Updated(item, op, target).currentVersion = item.currentVersion + 1
               /\ Updated(item, op, target).lifecycle = item.lifecycle
         /\ op \in {"publish", "archive", "softDelete", "pipelineMark"} =>
               /\ Updated(item, op, target) \in AgentItem
               /\ Updated(item, op, target).currentVersion = item.currentVersion
         /\ op = "publish" => Updated(item, op, target).lifecycle = "published"
         /\ op = "archive" => Updated(item, op, target).lifecycle = "archived"
         /\ op \in {"softDelete", "pipelineMark"} =>
               Updated(item, op, target).lifecycle = item.lifecycle
         /\ op = "projectRollback" /\ target \in VersionNumbers =>
               /\ Updated(item, op, target) \in AgentItem
               /\ Updated(item, op, target).currentVersion = target
<1> USE DEF Updated, AgentItem, Lifecycle
<1>1. CASE op \in {"edit", "flatEdit"}
  BY <1>1 DEF Edited, Versioning
<1>2. CASE op = "pipelineRollback"
  BY <1>2 DEF RolledBack, Versioning
<1>3. CASE op \in {"publish", "archive"}
  BY <1>3 DEF Published, Archived, Versioning
<1>4. CASE op \in {"softDelete", "pipelineMark"}
  BY <1>4 DEF SoftDeleted, MarkedDeployed, Versioning
<1>5. CASE op = "projectRollback"
  BY <1>5 DEF Repointed, Versioning
<1> QED BY <1>1, <1>2, <1>3, <1>4, <1>5 DEF Versioning

LEMMA PutAgentKeeps ==
  ASSUME RegInv, NEW r \in RegRequests, PutAgent(r)
  PROVE  RegInv'
<1>1. PICK y : y = regRequest[r]
  OBVIOUS
<1>2. /\ y.at = "putAgent" /\ RegBusy(r) /\ UNCHANGED <<versions, served, crashed, regOverlap>>
      /\ agent' = Updated(y.saw, y.op, y.target)
      /\ IF y.op = "edit" THEN Moves(r, "reread") ELSE Finishes(r)
  BY <1>1 DEF PutAgent, RegBusy
<1>3. RegPlaced(y) /\ y.saw \in AgentItem
  BY <1>1, <1>2, RegServing DEF RegPlaced
<1>4. ~regOverlap => RegHolds(y, agent, versions, served, crashed) /\ y.saw = agent
  BY <1>1, <1>2, RegServing DEF RegHolds, SeesAgent
<1>5. /\ y.op \in Versioning =>
            /\ agent' \in AgentItem /\ agent'.currentVersion = y.saw.currentVersion + 1
            /\ agent'.lifecycle = y.saw.lifecycle
      /\ y.op \in {"publish", "archive", "softDelete", "pipelineMark"} =>
            agent' \in AgentItem /\ agent'.currentVersion = y.saw.currentVersion
      /\ y.op = "publish" => agent'.lifecycle = "published"
      /\ y.op = "archive" => agent'.lifecycle = "archived"
      /\ y.op \in {"softDelete", "pipelineMark"} => agent'.lifecycle = y.saw.lifecycle
      /\ y.op = "projectRollback" => agent' \in AgentItem /\ agent'.currentVersion = y.target
  BY <1>2, <1>3, UpdatedItem DEF RegPlaced
<1>6. VersionsTyped'
  BY <1>2, RegServing DEF VersionsTyped
<1>7. y.op \in Versioning \cup {"publish", "archive", "projectRollback", "softDelete",
                                "pipelineMark"}
  BY <1>2, <1>3 DEF RegPlaced
<1>8. agent' \in AgentItem
  BY <1>5, <1>7
<1>9. CASE y.op = "edit"
  <2>1. \E x \in RegHandler :
            /\ regRequest' = [regRequest EXCEPT ![r] = x]
            /\ x.at = "reread" /\ x.op = regRequest[r].op /\ x.saw = regRequest[r].saw
            /\ x.target = regRequest[r].target /\ x.listed = regRequest[r].listed
    BY <1>2, <1>9, RegMoves DEF RegStates
  <2> PICK x \in RegHandler :
            /\ regRequest' = [regRequest EXCEPT ![r] = x]
            /\ x.at = "reread" /\ x.op = regRequest[r].op /\ x.saw = regRequest[r].saw
            /\ x.target = regRequest[r].target /\ x.listed = regRequest[r].listed
    BY <2>1
  <2>2. x.op = "edit" /\ x.at = "reread"
    BY <1>1, <1>9
  <2>3. RegPlaced(x) /\ x.at # "idle" /\ x.at # "done"
    BY <2>2, <1>3 DEF RegPlaced, Creations, Versioning, Marks
  <2>4. ASSUME ~regOverlap PROVE RegHolds(x, agent', versions, served, crashed)
    <3>1. y.saw = agent /\ agent # NoAgent
      BY <1>3, <1>4, <2>4 DEF AgentItem, NoAgent
    <3>2. CreationHolds(x, agent', versions) /\ SeesAgent(x, agent')
      BY <2>2 DEF CreationHolds, SeesAgent, Creations
    <3>3. ReadableHolds(y, agent, versions) => ReadableHolds(x, agent', versions)
      BY <1>2, <1>5, <1>9, <2>2, <3>1 DEF ReadableHolds, Putting, Versioning
    <3>4. NextIsFree(y, agent, versions) => NextIsFree(x, agent', versions)
      <4>1. /\ agent'.currentVersion = agent.currentVersion + 1
            /\ agent.currentVersion \in Nat
        BY <1>3, <1>5, <1>9, <3>1, RegAssumption DEF Versioning, AgentItem, VersionNumbers
      <4> QED BY <1>2, <1>9, <2>2, <3>1, <4>1 DEF NextIsFree, Putting, VersionNumbers
    <3>5. OnePublished(y, agent, versions) => OnePublished(x, agent', versions)
      BY <2>2 DEF OnePublished, Relabelling
    <3> QED BY <1>4, <1>9, <2>2, <2>4, <3>2, <3>3, <3>4, <3>5 DEF RegHolds
  <2>5. ~regOverlap => RegHolds(x, agent', versions', served', crashed')
    BY <1>2, <2>4
  <2> QED BY <1>2, <1>6, <1>8, <2>3, <2>5, RegServing, RegGoesOn
<1>10. CASE y.op # "edit"
  <2>1. regRequest' = [regRequest EXCEPT ![r] = Over]
    BY <1>2, <1>10 DEF Finishes, Over
  <2>2. ASSUME ~regOverlap PROVE RegHolds(Over, agent', versions, served, crashed)
    <3>1. y.saw = agent /\ agent # NoAgent /\ y.op \in served
      BY <1>2, <1>3, <1>4, <2>2 DEF AgentItem, NoAgent, RegHolds, RegPlaced
    <3>2. SeesAgent(Over, agent') /\ CreationHolds(Over, agent', versions)
      BY OverIsHandler DEF SeesAgent, CreationHolds, Creations
    <3>3. ReadableHolds(y, agent, versions) => ReadableHolds(Over, agent', versions)
      <4>1. CASE y.op \in Versioning
        BY OverIsHandler, <1>2, <1>5, <3>1, <4>1 DEF ReadableHolds, Putting
      <4>2. CASE y.op = "projectRollback"
        BY OverIsHandler, <1>2, <1>5, <3>1, <4>2 DEF ReadableHolds, Putting
      <4>3. CASE y.op \in {"publish", "archive", "softDelete", "pipelineMark"}
        BY OverIsHandler, <1>2, <1>5, <3>1, <4>3 DEF ReadableHolds, Putting, Unmaking
      <4> QED BY <1>7, <4>1, <4>2, <4>3
    <3>4. y.op # "projectRollback" /\ NextIsFree(y, agent, versions) =>
             NextIsFree(Over, agent', versions)
      <4>1. agent.currentVersion \in Nat /\ VersionNumbers \subseteq Nat
        BY <1>3, <3>1, RegAssumption DEF AgentItem, VersionNumbers
      <4>2. CASE y.op \in Versioning
        <5>1. agent'.currentVersion = agent.currentVersion + 1
          BY <1>5, <3>1, <4>2
        <5> QED BY OverIsHandler, <3>1, <4>1, <5>1 DEF NextIsFree, Putting, VersionNumbers
      <4>3. CASE y.op \in {"publish", "archive", "softDelete", "pipelineMark"}
        BY OverIsHandler, <1>2, <1>5, <3>1, <4>3 DEF NextIsFree, Putting, Versioning
      <4> QED BY <1>7, <4>2, <4>3
    <3>5. y.op \notin {"projectRollback", "flatEdit", "pipelineRollback"}
             /\ OnePublished(y, agent, versions) => OnePublished(Over, agent', versions)
      <4>1. CASE y.op \in {"publish", "archive", "softDelete", "pipelineMark"}
        BY OverIsHandler, <1>2, <1>5, <3>1, <4>1 DEF OnePublished, Relabelling
      <4> QED BY <1>7, <1>10, <4>1 DEF Versioning
    <3> QED BY OverIsHandler, <1>4, <2>2, <3>1, <3>2, <3>3, <3>4, <3>5 DEF RegHolds
  <2>3. ~regOverlap => RegHolds(Over, agent', versions', served', crashed')
    BY <1>2, <2>2
  <2> QED BY <1>2, <1>6, <1>8, <2>1, <2>3, RegServing, OverIsHandler, RegGoesOn
<1> QED BY <1>9, <1>10

LEMMA RereadAgentKeeps ==
  ASSUME RegInv, NEW r \in RegRequests, RereadAgent(r)
  PROVE  RegInv'
<1>1. PICK y : y = regRequest[r]
  OBVIOUS
<1>2. /\ y.at = "reread" /\ y.op \in {"edit", "hardDelete"} /\ RegBusy(r)
      /\ UNCHANGED <<agent, versions, served, crashed, regOverlap>>
  BY <1>1 DEF RereadAgent, RegAt, RegBusy
<1>3. /\ RegPlaced(y) /\ VersionsTyped'
      /\ ~regOverlap => RegHolds(y, agent, versions, served, crashed)
  BY <1>1, <1>2, RegServing DEF VersionsTyped
<1>4. CASE agent = NoAgent
  <2>1. regRequest' = [regRequest EXCEPT ![r] = Over]
    BY <1>4 DEF RereadAgent, Finishes, Over
  <2>2. ~regOverlap => RegHolds(Over, agent, versions, served, crashed)
    BY OverIsHandler, <1>2, <1>3, <1>4
       DEF RegHolds, SeesAgent, CreationHolds, ReadableHolds, NextIsFree, OnePublished,
           Creations, Putting
  <2> QED BY <1>2, <1>3, <2>1, <2>2, RegServing, OverIsHandler, RegGoesOn
<1>5. CASE agent # NoAgent
  <2>1. PICK state \in RegStates :
           /\ regRequest' = [regRequest EXCEPT ![r].saw = agent, ![r].at = state]
           /\ state = IF y.op = "edit" THEN "mark" ELSE "list"
    BY <1>1, <1>5 DEF RereadAgent, RegStates
  <2>2. agent \in AgentItem
    BY <1>2, <1>5, RegServing
  <2>3. \E x \in RegHandler :
           /\ regRequest' = [regRequest EXCEPT ![r] = x]
           /\ x.at = state /\ x.op = regRequest[r].op /\ x.saw = agent
           /\ x.target = regRequest[r].target /\ x.listed = regRequest[r].listed
    BY <2>1, <2>2, RegSees
  <2> PICK x \in RegHandler :
           /\ regRequest' = [regRequest EXCEPT ![r] = x]
           /\ x.at = state /\ x.op = regRequest[r].op /\ x.saw = agent
           /\ x.target = regRequest[r].target /\ x.listed = regRequest[r].listed
    BY <2>3
  <2>4. /\ x.op = y.op /\ x.at \in {"mark", "list"} /\ (x.at = "mark" <=> x.op = "edit")
        /\ x.saw = agent
    BY <1>1, <2>1
  <2>5. RegPlaced(x) /\ x.at # "idle" /\ x.at # "done"
    BY <1>2, <1>3, <2>2, <2>4 DEF RegPlaced, Creations, Versioning, Marks
  <2>6. ASSUME ~regOverlap PROVE RegHolds(x, agent, versions, served, crashed)
    <3>1. CreationHolds(x, agent, versions) /\ SeesAgent(x, agent)
      BY <1>2, <2>4 DEF CreationHolds, SeesAgent, Creations
    <3>2. ReadableHolds(y, agent, versions) => ReadableHolds(x, agent, versions)
      BY <1>2, <2>4 DEF ReadableHolds, Unmaking, Putting
    <3>3. NextIsFree(y, agent, versions) => NextIsFree(x, agent, versions)
      BY <1>2, <2>4 DEF NextIsFree, Putting
    <3>4. OnePublished(y, agent, versions) => OnePublished(x, agent, versions)
      BY <1>2, <2>4 DEF OnePublished, Relabelling
    <3> QED BY <1>3, <2>4, <2>6, <3>1, <3>2, <3>3, <3>4 DEF RegHolds
  <2>7. ~regOverlap => RegHolds(x, agent', versions', served', crashed')
    BY <1>2, <2>6
  <2> QED BY <1>2, <1>3, <2>5, <2>7, RegServing, RegGoesOn
<1> QED BY <1>4, <1>5

LEMMA ListVersionsKeeps ==
  ASSUME RegInv, NEW r \in RegRequests, ListVersions(r)
  PROVE  RegInv'
<1>1. PICK y : y = regRequest[r]
  OBVIOUS
<1>2. PICK items : items = {v \in VersionNumbers : Exists(v)}
  OBVIOUS
<1>3. PICK published : published = {v \in items : versions[v].lifecycle = "published"}
  OBVIOUS
<1>4. /\ y.at = "list" /\ y.op \in {"publish", "hardDelete"} /\ RegBusy(r)
      /\ UNCHANGED <<agent, versions, served, crashed, regOverlap>>
  BY <1>1 DEF ListVersions, RegAt, RegBusy
<1>5. /\ y \in RegHandler /\ RegPlaced(y) /\ y.saw \in AgentItem /\ VersionsTyped'
      /\ ~regOverlap => RegHolds(y, agent, versions, served, crashed) /\ y.saw = agent
  BY <1>1, <1>4, RegServing DEF RegPlaced, VersionsTyped, RegHolds, SeesAgent
<1>6. /\ items \subseteq VersionNumbers /\ published \subseteq VersionNumbers
      /\ \A v \in VersionNumbers : v \in published <=> Labelled(versions, v)
  BY <1>2, <1>3 DEF Labelled, Has, Exists
<1>7. published # {} => Max(published) \in published
  BY <1>6, GreatestVersion
<1>8. CASE \E v \in items : ~Readable(v)
  <2>1. Finishes(r)
    BY <1>2, <1>8 DEF ListVersions
  <2> QED BY <1>1, <1>4, <2>1, EndsKeeps DEF Unmaking, Putting, Relabelling
<1>9. CASE ~(\E v \in items : ~Readable(v)) /\ y.op = "hardDelete"
  <2>1. regRequest' = [regRequest EXCEPT ![r] = [@ EXCEPT !.listed = items, !.at = "unlist"]]
    BY <1>1, <1>2, <1>9 DEF ListVersions
  <2>2. PICK x : x = [y EXCEPT !.listed = items, !.at = "unlist"]
    OBVIOUS
  <2>3. x \in RegHandler /\ x.op = y.op /\ x.at = "unlist" /\ x.saw = y.saw /\ x.target = y.target
    BY <1>5, <1>6, <2>2 DEF RegHandler, RegStates
  <2>4. regRequest' = [regRequest EXCEPT ![r] = x]
    BY <1>1, <2>1, <2>2
  <2>5. RegPlaced(x) /\ x.at # "idle" /\ x.at # "done"
    BY <1>5, <1>9, <2>3 DEF RegPlaced, Creations, Versioning, Marks
  <2>6. ASSUME ~regOverlap PROVE RegHolds(x, agent, versions, served, crashed)
    <3>1. CreationHolds(x, agent, versions) /\ SeesAgent(x, agent)
      BY <1>9, <2>3 DEF CreationHolds, SeesAgent, Creations
    <3>2. ReadableHolds(y, agent, versions) => ReadableHolds(x, agent, versions)
      BY <1>9, <2>3 DEF ReadableHolds, Unmaking, Putting
    <3>3. NextIsFree(y, agent, versions) => NextIsFree(x, agent, versions)
      BY <1>4, <2>3 DEF NextIsFree, Putting
    <3>4. OnePublished(y, agent, versions) => OnePublished(x, agent, versions)
      BY <1>4, <1>9, <2>3 DEF OnePublished, Relabelling
    <3> QED BY <1>5, <2>3, <2>6, <3>1, <3>2, <3>3, <3>4 DEF RegHolds
  <2>7. ~regOverlap => RegHolds(x, agent', versions', served', crashed')
    BY <1>4, <2>6
  <2> QED BY <1>4, <1>5, <2>3, <2>4, <2>5, <2>7, RegServing, RegGoesOn
<1>10. CASE /\ ~(\E v \in items : ~Readable(v)) /\ y.op # "hardDelete"
            /\ published \subseteq {y.saw.currentVersion} \/ Max(published) = y.saw.currentVersion
  <2>1. Moves(r, "mark")
    BY <1>1, <1>2, <1>3, <1>10 DEF ListVersions
  <2>2. \E x \in RegHandler :
            /\ regRequest' = [regRequest EXCEPT ![r] = x]
            /\ x.at = "mark" /\ x.op = regRequest[r].op /\ x.saw = regRequest[r].saw
            /\ x.target = regRequest[r].target /\ x.listed = regRequest[r].listed
    BY <2>1, RegMoves DEF RegStates
  <2> PICK x \in RegHandler :
            /\ regRequest' = [regRequest EXCEPT ![r] = x]
            /\ x.at = "mark" /\ x.op = regRequest[r].op /\ x.saw = regRequest[r].saw
            /\ x.target = regRequest[r].target /\ x.listed = regRequest[r].listed
    BY <2>2
  <2>3. x.op = "publish" /\ y.op = "publish" /\ x.saw = y.saw
    BY <1>1, <1>4, <1>10
  <2>4. RegPlaced(x) /\ x.at # "idle" /\ x.at # "done"
    BY <1>5, <2>3 DEF RegPlaced, Creations, Versioning, Marks
  <2>5. ASSUME ~regOverlap PROVE RegHolds(x, agent, versions, served, crashed)
    <3>1. CreationHolds(x, agent, versions) /\ SeesAgent(x, agent)
      BY <1>5, <2>3, <2>5 DEF CreationHolds, SeesAgent, Creations
    <3>2. ReadableHolds(y, agent, versions) => ReadableHolds(x, agent, versions)
      BY <1>4, <2>3 DEF ReadableHolds, Unmaking, Putting
    <3>3. NextIsFree(y, agent, versions) => NextIsFree(x, agent, versions)
      BY <1>4, <2>3 DEF NextIsFree, Putting
    <3>4. ASSUME OnePublished(y, agent, versions) PROVE OnePublished(x, agent, versions)
      <4>1. ASSUME NEW v \in VersionNumbers, Labelled(versions, v)
            PROVE  v = agent.currentVersion
        <5>1. v \in published
          BY <1>6, <4>1
        <5>2. CASE published \subseteq {y.saw.currentVersion}
          BY <1>5, <2>5, <5>1, <5>2
        <5>3. CASE Max(published) = y.saw.currentVersion
          <6>1. /\ Max(published) \in VersionNumbers
                /\ Labelled(versions, Max(published))
            BY <1>6, <1>7, <5>1
          <6> QED BY <1>5, <2>5, <3>4, <4>1, <5>3, <6>1 DEF OnePublished
        <5> QED BY <1>10, <5>2, <5>3
      <4> QED BY <1>4, <2>3, <3>4, <4>1 DEF OnePublished, Relabelling
    <3> QED BY <1>5, <2>3, <2>5, <3>1, <3>2, <3>3, <3>4 DEF RegHolds
  <2>6. ~regOverlap => RegHolds(x, agent', versions', served', crashed')
    BY <1>4, <2>5
  <2> QED BY <1>4, <1>5, <2>4, <2>6, RegServing, RegGoesOn
<1>11. CASE /\ ~(\E v \in items : ~Readable(v)) /\ y.op # "hardDelete"
            /\ ~(published \subseteq {y.saw.currentVersion}
                    \/ Max(published) = y.saw.currentVersion)
  <2>1. PICK newest \in VersionNumbers :
           /\ newest = Max(published) /\ newest # y.saw.currentVersion
           /\ Labelled(versions, newest)
    BY <1>6, <1>7, <1>11
  <2>2. regRequest' = [regRequest EXCEPT ![r] = [@ EXCEPT !.target = newest, !.at = "unpublish"]]
    BY <1>1, <1>2, <1>3, <1>11, <2>1 DEF ListVersions
  <2>3. PICK x : x = [y EXCEPT !.target = newest, !.at = "unpublish"]
    OBVIOUS
  <2>4. /\ x \in RegHandler /\ x.op = y.op /\ x.at = "unpublish" /\ x.saw = y.saw
        /\ x.target = newest
    <3>1. newest \in 0 .. MaxVersion
      BY RegAssumption DEF VersionNumbers
    <3> QED BY <1>5, <2>3, <3>1 DEF RegHandler, RegStates
  <2>5. regRequest' = [regRequest EXCEPT ![r] = x]
    BY <1>1, <2>2, <2>3
  <2>6. y.op = "publish"
    BY <1>4, <1>11
  <2>7. RegPlaced(x) /\ x.at # "idle" /\ x.at # "done"
    BY <1>5, <2>4, <2>6 DEF RegPlaced, Creations, Versioning, Marks
  <2>8. ASSUME ~regOverlap PROVE RegHolds(x, agent, versions, served, crashed)
    <3>1. CreationHolds(x, agent, versions) /\ SeesAgent(x, agent)
      BY <1>5, <2>4, <2>6, <2>8 DEF CreationHolds, SeesAgent, Creations
    <3>2. ReadableHolds(y, agent, versions) => ReadableHolds(x, agent, versions)
      BY <1>4, <2>4, <2>6 DEF ReadableHolds, Unmaking, Putting
    <3>3. NextIsFree(y, agent, versions) => NextIsFree(x, agent, versions)
      BY <1>4, <2>1, <2>4 DEF NextIsFree, Putting, Labelled
    <3>4. OnePublished(y, agent, versions) => OnePublished(x, agent, versions)
      BY <1>4, <1>5, <2>1, <2>4, <2>6, <2>8 DEF OnePublished, Relabelling
    <3> QED BY <1>5, <2>4, <2>8, <3>1, <3>2, <3>3, <3>4 DEF RegHolds
  <2>9. ~regOverlap => RegHolds(x, agent', versions', served', crashed')
    BY <1>4, <2>8
  <2> QED BY <1>4, <1>5, <2>4, <2>5, <2>7, <2>9, RegServing, RegGoesOn
<1> QED BY <1>8, <1>9, <1>10, <1>11

\* The version published before, or the one a project's rollback leaves.
LEMMA DeprecateKeeps ==
  ASSUME RegInv, NEW r \in RegRequests, Deprecate(r)
  PROVE  RegInv'
<1>1. PICK y : y = regRequest[r]
  OBVIOUS
<1>2. /\ y.at = "unpublish" /\ y.op \in {"publish", "projectRollback"} /\ RegBusy(r)
      /\ UNCHANGED <<agent, served, crashed, regOverlap>> /\ Moves(r, "mark")
  BY <1>1 DEF Deprecate, RegAt, RegBusy
<1>3. /\ RegPlaced(y) /\ y.saw \in AgentItem /\ y.target \in VersionNumbers
      /\ ~regOverlap => RegHolds(y, agent, versions, served, crashed) /\ y.saw = agent
  BY <1>1, <1>2, RegServing DEF RegPlaced, RegHolds, SeesAgent
<1>4. PICK v \in VersionNumbers :
         /\ versions' = WithLifecycle(v, "deprecated")
         /\ v = IF y.op = "publish" THEN y.target ELSE y.saw.currentVersion
  BY <1>1, <1>3 DEF Deprecate, AgentItem
<1>5. "deprecated" \in Lifecycle
  BY DEF Lifecycle
<1>6. /\ VersionsTyped'
      /\ \A w \in VersionNumbers :
            /\ Has(versions', w) <=> Has(versions, w) \/ w = v
            /\ Sound(versions, w) => Sound(versions', w)
            /\ Labelled(versions', w) <=>
                  IF w = v THEN "deprecated" = "published" ELSE Labelled(versions, w)
  BY <1>2, <1>4, <1>5, RegServing, LifecycleWritten
<1>7. \A w \in VersionNumbers : Labelled(versions', w) <=> w # v /\ Labelled(versions, w)
  BY <1>6
<1>8. \E x \in RegHandler :
          /\ regRequest' = [regRequest EXCEPT ![r] = x]
          /\ x.at = "mark" /\ x.op = regRequest[r].op /\ x.saw = regRequest[r].saw
          /\ x.target = regRequest[r].target /\ x.listed = regRequest[r].listed
  BY <1>2, RegMoves DEF RegStates
<1> PICK x \in RegHandler :
          /\ regRequest' = [regRequest EXCEPT ![r] = x]
          /\ x.at = "mark" /\ x.op = regRequest[r].op /\ x.saw = regRequest[r].saw
          /\ x.target = regRequest[r].target /\ x.listed = regRequest[r].listed
  BY <1>8
<1>9. x.at = "mark" /\ x.op = y.op /\ x.saw = y.saw /\ x.target = y.target
  BY <1>1
<1>10. RegPlaced(x) /\ x.at # "idle" /\ x.at # "done"
  BY <1>2, <1>3, <1>9 DEF RegPlaced, Creations, Versioning, Marks
<1>11. ASSUME ~regOverlap PROVE RegHolds(x, agent, versions', served, crashed)
  <2>1. agent = y.saw /\ agent # NoAgent /\ agent.currentVersion \in VersionNumbers
    BY <1>3, <1>11 DEF AgentItem, NoAgent
  <2>2. CreationHolds(x, agent, versions') /\ SeesAgent(x, agent)
    BY <1>2, <1>9, <2>1 DEF CreationHolds, SeesAgent, Creations
  <2>3. ReadableHolds(y, agent, versions) => ReadableHolds(x, agent, versions')
    BY <1>2, <1>3, <1>6, <1>9, <2>1 DEF ReadableHolds, Unmaking, Putting
  <2>4. y.op = "publish" /\ NextIsFree(y, agent, versions) => NextIsFree(x, agent, versions')
    BY <1>2, <1>4, <1>6, <1>9, <2>1 DEF NextIsFree, Putting
  <2>5. y.op = "publish" /\ OnePublished(y, agent, versions) => OnePublished(x, agent, versions')
    BY <1>2, <1>4, <1>7, <1>9, <2>1 DEF OnePublished, Relabelling
  <2> QED BY <1>2, <1>3, <1>9, <1>11, <2>2, <2>3, <2>4, <2>5 DEF RegHolds
<1>12. ~regOverlap => RegHolds(x, agent', versions', served', crashed')
  BY <1>2, <1>11
<1> QED BY <1>2, <1>6, <1>10, <1>12, RegServing, RegGoesOn

\* Which version a method marks, how, and where it goes on.
LEMMA Marked ==
  ASSUME NEW r \in RegRequests, MarkVersion(r), NEW y, y = regRequest[r], RegPlaced(y),
         y.saw \in AgentItem
  PROVE  \E v \in VersionNumbers, lifecycle \in Lifecycle :
            /\ versions' = WithLifecycle(v, lifecycle)
            /\ v = IF y.op = "projectRollback" THEN y.target ELSE y.saw.currentVersion
            /\ y.op = "publish" => lifecycle = "published"
            /\ y.op \in {"archive", "edit"} => lifecycle # "published"
<1>1. y.op \in Marks /\ y.saw.currentVersion \in VersionNumbers
  BY DEF RegPlaced, MarkVersion, AgentItem
<1>2. CASE y.op = "publish"
  BY <1>1, <1>2 DEF MarkVersion, Lifecycle
<1>3. CASE y.op = "archive"
  BY <1>1, <1>3 DEF MarkVersion, Lifecycle
<1>4. CASE y.op = "projectRollback"
  BY <1>4 DEF MarkVersion, Lifecycle, RegPlaced
<1>5. CASE y.op = "edit"
  BY <1>1, <1>5 DEF MarkVersion, Lifecycle
<1> QED BY <1>1, <1>2, <1>3, <1>4, <1>5 DEF Marks

LEMMA MarkVersionKeeps ==
  ASSUME RegInv, NEW r \in RegRequests, MarkVersion(r)
  PROVE  RegInv'
<1>1. PICK y : y = regRequest[r]
  OBVIOUS
<1>2. /\ y.at = "mark" /\ RegBusy(r) /\ UNCHANGED <<agent, served, crashed, regOverlap>>
  BY <1>1 DEF MarkVersion, RegBusy
<1>3. /\ RegPlaced(y) /\ y.saw \in AgentItem /\ y.op \in Marks
      /\ ~regOverlap => RegHolds(y, agent, versions, served, crashed) /\ y.saw = agent
  BY <1>1, <1>2, RegServing DEF RegPlaced, RegHolds, SeesAgent
<1>4. PICK v \in VersionNumbers, lifecycle \in Lifecycle :
            /\ versions' = WithLifecycle(v, lifecycle)
            /\ v = IF y.op = "projectRollback" THEN y.target ELSE y.saw.currentVersion
            /\ y.op = "publish" => lifecycle = "published"
            /\ y.op \in {"archive", "edit"} => lifecycle # "published"
  BY <1>1, <1>3, Marked
<1>5. /\ VersionsTyped'
      /\ \A w \in VersionNumbers :
            /\ Has(versions', w) <=> Has(versions, w) \/ w = v
            /\ Sound(versions, w) => Sound(versions', w)
            /\ Labelled(versions', w) <=>
                  IF w = v THEN lifecycle = "published" ELSE Labelled(versions, w)
  BY <1>2, <1>4, RegServing, LifecycleWritten
<1>6. PICK state \in RegStates :
         Moves(r, state) /\ state = IF y.op = "edit" THEN "putDraft" ELSE "putAgent"
  BY <1>1 DEF MarkVersion, RegStates
<1>7. \E x \in RegHandler :
          /\ regRequest' = [regRequest EXCEPT ![r] = x]
          /\ x.at = state /\ x.op = regRequest[r].op /\ x.saw = regRequest[r].saw
          /\ x.target = regRequest[r].target /\ x.listed = regRequest[r].listed
  BY <1>6, RegMoves
<1> PICK x \in RegHandler :
          /\ regRequest' = [regRequest EXCEPT ![r] = x]
          /\ x.at = state /\ x.op = regRequest[r].op /\ x.saw = regRequest[r].saw
          /\ x.target = regRequest[r].target /\ x.listed = regRequest[r].listed
  BY <1>7
<1>8. /\ x.op = y.op /\ x.saw = y.saw /\ x.target = y.target
      /\ x.at \in {"putDraft", "putAgent"} /\ (x.at = "putDraft" <=> x.op = "edit")
  BY <1>1, <1>6
<1>9. RegPlaced(x) /\ x.at # "idle" /\ x.at # "done"
  BY <1>2, <1>3, <1>8 DEF RegPlaced, Creations, Versioning, Marks
<1>10. ASSUME ~regOverlap PROVE RegHolds(x, agent, versions', served, crashed)
  <2>1. agent = y.saw /\ agent # NoAgent /\ agent.currentVersion \in VersionNumbers
    BY <1>3, <1>10 DEF AgentItem, NoAgent
  <2>2. CreationHolds(x, agent, versions') /\ SeesAgent(x, agent)
    BY <1>3, <1>8, <2>1 DEF CreationHolds, SeesAgent, Creations, Marks
  <2>3. ReadableHolds(y, agent, versions) => ReadableHolds(x, agent, versions')
    BY <1>2, <1>3, <1>5, <1>8, <2>1
       DEF ReadableHolds, Unmaking, Putting, Marks, Versioning, RegPlaced
  <2>4. y.op # "projectRollback" /\ NextIsFree(y, agent, versions) =>
           NextIsFree(x, agent, versions')
    <3>1. ~Putting(x) /\ ~Putting(y)
      BY <1>2, <1>3, <1>8 DEF Putting, Marks, Versioning
    <3>2. y.op # "projectRollback" => v = agent.currentVersion
      BY <1>4, <2>1
    <3>3. VersionNumbers \subseteq Nat
      BY RegAssumption DEF VersionNumbers
    <3> QED BY <1>2, <1>5, <1>8, <2>1, <3>1, <3>2, <3>3 DEF NextIsFree
  <2>5. y.op # "projectRollback" /\ OnePublished(y, agent, versions) =>
           OnePublished(x, agent, versions')
    <3>1. CASE y.op = "publish"
      BY <1>2, <1>4, <1>5, <1>8, <2>1, <3>1 DEF OnePublished, Relabelling
    <3>2. CASE y.op \in {"archive", "edit"}
      BY <1>2, <1>4, <1>5, <1>8, <2>1, <3>2 DEF OnePublished, Relabelling
    <3> QED BY <1>3, <3>1, <3>2 DEF Marks
  <2>6. y.op \in served
    BY <1>3, <1>10 DEF RegHolds, Marks
  <2> QED BY <1>3, <1>8, <1>10, <2>2, <2>3, <2>4, <2>5, <2>6 DEF RegHolds
<1>11. ~regOverlap => RegHolds(x, agent', versions', served', crashed')
  BY <1>2, <1>10
<1> QED BY <1>2, <1>5, <1>9, <1>11, RegServing, RegGoesOn

LEMMA PutDraftKeeps ==
  ASSUME RegInv, NEW r \in RegRequests, PutDraft(r)
  PROVE  RegInv'
<1>1. PICK y : y = regRequest[r]
  OBVIOUS
<1>2. /\ y.at = "putDraft" /\ y.op = "edit" /\ RegBusy(r)
      /\ UNCHANGED <<versions, served, crashed, regOverlap>>
      /\ agent' = [y.saw EXCEPT !.lifecycle = "draft"]
      /\ regRequest' = [regRequest EXCEPT ![r] = Over]
  BY <1>1 DEF PutDraft, RegAt, RegBusy, Finishes, Over
<1>3. /\ RegPlaced(y) /\ y.saw \in AgentItem /\ VersionsTyped'
      /\ ~regOverlap => RegHolds(y, agent, versions, served, crashed) /\ y.saw = agent
  BY <1>1, <1>2, RegServing DEF RegPlaced, VersionsTyped, RegHolds, SeesAgent
<1>4. /\ agent' \in AgentItem /\ agent'.currentVersion = y.saw.currentVersion
      /\ agent'.lifecycle = "draft"
  BY <1>2, <1>3 DEF AgentItem, Lifecycle
<1>5. ASSUME ~regOverlap PROVE RegHolds(Over, agent', versions, served, crashed)
  <2>1. y.saw = agent /\ agent # NoAgent
    BY <1>3, <1>5 DEF AgentItem, NoAgent
  <2>2. SeesAgent(Over, agent') /\ CreationHolds(Over, agent', versions)
    BY OverIsHandler DEF SeesAgent, CreationHolds, Creations
  <2>3. ReadableHolds(y, agent, versions) => ReadableHolds(Over, agent', versions)
    BY OverIsHandler, <1>2, <1>4, <2>1 DEF ReadableHolds, Putting, Unmaking
  <2>4. NextIsFree(y, agent, versions) => NextIsFree(Over, agent', versions)
    BY OverIsHandler, <1>2, <1>4, <2>1 DEF NextIsFree, Putting
  <2>5. OnePublished(y, agent, versions) => OnePublished(Over, agent', versions)
    BY OverIsHandler, <1>4 DEF OnePublished
  <2> QED BY OverIsHandler, <1>3, <1>5, <2>2, <2>3, <2>4, <2>5 DEF RegHolds
<1>6. ~regOverlap => RegHolds(Over, agent', versions', served', crashed')
  BY <1>2, <1>5
<1> QED BY <1>2, <1>3, <1>4, <1>6, RegServing, OverIsHandler, RegGoesOn

LEMMA CheckArtifactKeeps ==
  ASSUME RegInv, NEW r \in RegRequests, CheckArtifact(r)
  PROVE  RegInv'
<1>1. PICK y : y = regRequest[r]
  OBVIOUS
<1>2. /\ y.at = "check" /\ y.op = "generateIac" /\ RegBusy(r)
      /\ UNCHANGED <<agent, versions, served, crashed, regOverlap>>
      /\ Moves(r, "derive") \/ Finishes(r)
  BY <1>1 DEF CheckArtifact, RegAt, RegBusy
<1>3. CASE Finishes(r)
  BY <1>1, <1>2, <1>3, EndsKeeps DEF Unmaking, Putting, Relabelling
<1>4. CASE Moves(r, "derive")
  <2>1. \E x \in RegHandler :
            /\ regRequest' = [regRequest EXCEPT ![r] = x]
            /\ x.at = "derive" /\ x.op = regRequest[r].op /\ x.saw = regRequest[r].saw
            /\ x.target = regRequest[r].target /\ x.listed = regRequest[r].listed
    BY <1>4, RegMoves DEF RegStates
  <2> PICK x \in RegHandler :
            /\ regRequest' = [regRequest EXCEPT ![r] = x]
            /\ x.at = "derive" /\ x.op = regRequest[r].op /\ x.saw = regRequest[r].saw
            /\ x.target = regRequest[r].target /\ x.listed = regRequest[r].listed
    BY <2>1
  <2>2. x.op = y.op /\ x.saw = y.saw
    BY <1>1
  <2>3. /\ RegPlaced(y) /\ VersionsTyped'
        /\ ~regOverlap => RegHolds(y, agent, versions, served, crashed)
    BY <1>1, <1>2, RegServing DEF VersionsTyped
  <2>4. RegPlaced(x) /\ x.at # "idle" /\ x.at # "done"
    BY <1>2, <2>2, <2>3 DEF RegPlaced, Creations, Versioning, Marks
  <2>5. ASSUME ~regOverlap PROVE RegHolds(x, agent, versions, served, crashed)
    <3>1. CreationHolds(x, agent, versions)
      BY <1>2, <2>2 DEF CreationHolds, Creations
    <3>2. SeesAgent(x, agent)
      BY <1>2, <2>2, <2>3, <2>5 DEF SeesAgent, RegHolds
    <3>3. ReadableHolds(y, agent, versions) => ReadableHolds(x, agent, versions)
      BY <1>2, <2>2 DEF ReadableHolds, Unmaking, Putting
    <3>4. NextIsFree(y, agent, versions) => NextIsFree(x, agent, versions)
      BY <1>2, <2>2 DEF NextIsFree, Putting
    <3>5. OnePublished(y, agent, versions) => OnePublished(x, agent, versions)
      BY <1>2, <2>2 DEF OnePublished, Relabelling
    <3> QED BY <2>2, <2>3, <2>5, <3>1, <3>2, <3>3, <3>4, <3>5 DEF RegHolds
  <2>6. ~regOverlap => RegHolds(x, agent', versions', served', crashed')
    BY <1>2, <2>5
  <2> QED BY <1>2, <2>3, <2>4, <2>6, RegServing, RegGoesOn
<1> QED BY <1>2, <1>3, <1>4

\* The version is still there when requests come one at a time: no stub.
LEMMA RecordArtifactKeeps ==
  ASSUME RegInv, NEW r \in RegRequests, RecordArtifact(r)
  PROVE  RegInv'
<1>1. PICK y : y = regRequest[r]
  OBVIOUS
<1>2. PICK v : v = y.saw.currentVersion
  OBVIOUS
<1>3. /\ y.at = "derive" /\ y.op = "generateIac" /\ RegBusy(r) /\ Finishes(r)
      /\ UNCHANGED <<agent, served, crashed, regOverlap>>
      /\ versions' = IF Exists(v) THEN versions ELSE WithLifecycle(v, "none")
  BY <1>1, <1>2 DEF RecordArtifact, RegAt, RegBusy
<1>4. CASE Exists(v)
  <2>1. UNCHANGED versions
    BY <1>3, <1>4
  <2> QED BY <1>1, <1>3, <2>1, EndsKeeps DEF Unmaking, Putting, Relabelling
<1>5. CASE ~Exists(v)
  <2>1. VersionsTyped'
    BY <1>3, <1>5, RegServing, WithLifecycleKeeps DEF Lifecycle
  <2>2. regRequest' = [regRequest EXCEPT ![r] = Over]
    BY <1>3 DEF Finishes, Over
  <2>3. ASSUME ~regOverlap PROVE RegHolds(Over, agent, versions', served, crashed)
    <3>1. /\ RegHolds(y, agent, versions, served, crashed)
          /\ agent = y.saw /\ y.saw \in AgentItem
      BY <1>1, <1>3, <2>3, RegServing DEF RegHolds, SeesAgent, RegPlaced
    <3>2. ~ReadableHolds(y, agent, versions)
      BY <1>2, <1>3, <1>5, <3>1
         DEF ReadableHolds, Unmaking, Sound, Has, Exists, AgentItem, NoAgent
    <3>3. crashed \cap Unsafe # {} /\ crashed # {}
      BY <3>1, <3>2 DEF RegHolds
    <3>4. SeesAgent(Over, agent) /\ CreationHolds(Over, agent, versions')
      BY OverIsHandler DEF SeesAgent, CreationHolds, Creations
    <3> QED BY OverIsHandler, <3>3, <3>4 DEF RegHolds
  <2>4. ~regOverlap => RegHolds(Over, agent', versions', served', crashed')
    BY <1>3, <2>3
  <2> QED BY <1>3, <2>1, <2>2, <2>4, RegServing, OverIsHandler, RegGoesOn
<1> QED BY <1>4, <1>5

\* The newest version left of a deleted agent, or its end.
LEMMA DeleteVersionKeeps ==
  ASSUME RegInv, NEW r \in RegRequests, DeleteVersion(r)
  PROVE  RegInv'
<1>1. PICK y : y = regRequest[r]
  OBVIOUS
<1>2. /\ y.at = "unlist" /\ y.op = "hardDelete" /\ RegBusy(r)
      /\ UNCHANGED <<agent, served, crashed, regOverlap>>
  BY <1>1 DEF DeleteVersion, RegAt, RegBusy
<1>3. /\ y \in RegHandler /\ RegPlaced(y) /\ y.saw \in AgentItem
      /\ ~regOverlap => RegHolds(y, agent, versions, served, crashed)
  BY <1>1, <1>2, RegServing DEF RegPlaced
<1>4. /\ VersionsTyped'
      /\ \A w \in VersionNumbers :
            /\ Has(versions', w) => Has(versions, w)
            /\ Labelled(versions', w) => Labelled(versions, w)
  <2>1. CASE y.listed = {}
    BY <1>1, <1>2, <2>1, RegServing DEF DeleteVersion, VersionsTyped
  <2>2. CASE y.listed # {}
    <3>1. PICK v : versions' = [versions EXCEPT ![v] = NoVersion]
      BY <1>1, <2>2 DEF DeleteVersion
    <3> QED BY <1>2, <3>1, RegServing, VersionDeleted
  <2> QED BY <2>1, <2>2
<1>5. \E x \in RegHandler :
         /\ regRequest' = [regRequest EXCEPT ![r] = x]
         /\ x.at \in {"unlist", "deleteAgent"} /\ x.op = y.op /\ x.saw = y.saw
         /\ x.target = y.target
  <2>1. CASE y.listed = {}
    <3>1. Moves(r, "deleteAgent") /\ "deleteAgent" \in RegStates
      BY <1>1, <2>1 DEF DeleteVersion, RegStates
    <3>2. \E x \in RegHandler :
            /\ regRequest' = [regRequest EXCEPT ![r] = x]
            /\ x.at = "deleteAgent" /\ x.op = regRequest[r].op /\ x.saw = regRequest[r].saw
            /\ x.target = regRequest[r].target /\ x.listed = regRequest[r].listed
      BY <3>1, RegMoves
    <3> QED BY <1>1, <3>2
  <2>2. CASE y.listed # {}
    <3>1. PICK v : regRequest' = [regRequest EXCEPT ![r].listed = @ \ {v}]
      BY <1>1, <2>2 DEF DeleteVersion
    <3>2. PICK x : x = [y EXCEPT !.listed = y.listed \ {v}]
      OBVIOUS
    <3>3. y.listed \ {v} \in SUBSET VersionNumbers
      BY <1>3 DEF RegHandler
    <3>4. /\ x \in RegHandler /\ x.at = "unlist" /\ x.op = y.op /\ x.saw = y.saw
          /\ x.target = y.target
      BY <1>2, <1>3, <3>2, <3>3 DEF RegHandler
    <3>5. regRequest' = [regRequest EXCEPT ![r] = x]
      BY <1>1, <3>1, <3>2
    <3> QED BY <3>4, <3>5
  <2> QED BY <2>1, <2>2
<1> PICK x \in RegHandler :
         /\ regRequest' = [regRequest EXCEPT ![r] = x]
         /\ x.at \in {"unlist", "deleteAgent"} /\ x.op = y.op /\ x.saw = y.saw
         /\ x.target = y.target
  BY <1>5
<1>6. RegPlaced(x) /\ x.at # "idle" /\ x.at # "done"
  BY <1>2, <1>3 DEF RegPlaced, Creations, Versioning, Marks
<1>7. ASSUME ~regOverlap PROVE RegHolds(x, agent, versions', served, crashed)
  <2>1. CreationHolds(x, agent, versions') /\ SeesAgent(x, agent)
    BY <1>2 DEF CreationHolds, SeesAgent, Creations
  <2>2. ReadableHolds(x, agent, versions')
    BY <1>2 DEF ReadableHolds, Unmaking, Putting
  <2>3. NextIsFree(y, agent, versions) => NextIsFree(x, agent, versions')
    BY <1>2, <1>4 DEF NextIsFree, Putting
  <2>4. OnePublished(y, agent, versions) => OnePublished(x, agent, versions')
    BY <1>2, <1>4 DEF OnePublished, Relabelling
  <2> QED BY <1>2, <1>3, <1>7, <2>1, <2>2, <2>3, <2>4 DEF RegHolds
<1>8. ~regOverlap => RegHolds(x, agent', versions', served', crashed')
  BY <1>2, <1>7
<1> QED BY <1>2, <1>4, <1>6, <1>8, RegServing, RegGoesOn

LEMMA DeleteAgentKeeps ==
  ASSUME RegInv, NEW r \in RegRequests, DeleteAgent(r)
  PROVE  RegInv'
<1>1. PICK y : y = regRequest[r]
  OBVIOUS
<1>2. /\ y.at = "deleteAgent" /\ y.op = "hardDelete" /\ RegBusy(r) /\ agent' = NoAgent
      /\ UNCHANGED <<versions, served, crashed, regOverlap>>
      /\ regRequest' = [regRequest EXCEPT ![r] = Over]
  BY <1>1 DEF DeleteAgent, RegAt, RegBusy, Finishes, Over
<1>3. /\ VersionsTyped'
      /\ ~regOverlap => RegHolds(y, agent, versions, served, crashed)
  BY <1>1, <1>2, RegServing DEF VersionsTyped
<1>4. ASSUME ~regOverlap PROVE RegHolds(Over, agent', versions, served, crashed)
  <2>1. SeesAgent(Over, agent') /\ CreationHolds(Over, agent', versions)
    BY OverIsHandler DEF SeesAgent, CreationHolds, Creations
  <2>2. ReadableHolds(Over, agent', versions) /\ NextIsFree(Over, agent', versions)
    BY OverIsHandler, <1>2 DEF ReadableHolds, NextIsFree, Putting
  <2>3. OnePublished(y, agent, versions) => OnePublished(Over, agent', versions)
    BY OverIsHandler, <1>2 DEF OnePublished
  <2> QED BY OverIsHandler, <1>3, <1>4, <2>1, <2>2, <2>3 DEF RegHolds
<1>5. ~regOverlap => RegHolds(Over, agent', versions', served', crashed')
  BY <1>2, <1>4
<1> QED BY <1>2, <1>3, <1>5, RegServing, OverIsHandler, RegGoesOn

\* What a request that is cut short leaves.
LEMMA CutShortKeeps ==
  ASSUME RegInv, NEW r \in RegRequests, CutShort(r)
  PROVE  RegInv'
<1>1. PICK y : y = regRequest[r]
  OBVIOUS
<1>2. /\ y.at \notin {"idle", "done"} /\ RegBusy(r) /\ crashed' = crashed \cup {y.op}
      /\ UNCHANGED <<agent, versions, served, regOverlap>>
      /\ regRequest' = [regRequest EXCEPT ![r] = Over]
  BY <1>1 DEF CutShort, RegBusy, Finishes, Over
<1>3. /\ y \in RegHandler /\ RegPlaced(y) /\ VersionsTyped' /\ crashed \subseteq Operations
      /\ ~regOverlap => RegHolds(y, agent, versions, served, crashed)
  BY <1>1, <1>2, RegServing DEF VersionsTyped
<1>4. y.op \in Operations
  BY <1>2, <1>3 DEF RegPlaced, RegHandler
<1>5. crashed' \subseteq Operations /\ crashed' # {}
  BY <1>2, <1>3, <1>4
<1>6. ASSUME ~regOverlap PROVE RegHolds(Over, agent, versions, served, crashed')
  <2>1. SeesAgent(Over, agent) /\ CreationHolds(Over, agent, versions)
    BY OverIsHandler DEF SeesAgent, CreationHolds, Creations
  <2>2. ASSUME crashed' \cap Unsafe = {} PROVE ReadableHolds(Over, agent, versions)
    <3>1. crashed \cap Unsafe = {} /\ y.op \notin Unsafe
      BY <1>2, <2>2
    <3>2. ~Unmaking(y)
      BY <1>3, <3>1 DEF Unmaking, Unsafe, RegPlaced
    <3> QED BY OverIsHandler, <1>3, <1>6, <3>1, <3>2 DEF RegHolds, ReadableHolds, Putting
  <2> QED BY OverIsHandler, <1>5, <2>1, <2>2 DEF RegHolds
<1>7. ~regOverlap => RegHolds(Over, agent', versions', served', crashed')
  BY <1>2, <1>6
<1> QED BY <1>2, <1>3, <1>5, <1>7, RegServing, OverIsHandler, RegGoesOn

-----------------------------------------------------------------------------

LEMMA RegNextKeeps == RegInv /\ [RegNext]_regVars => RegInv' /\ SnapshotsKept
<1> SUFFICES ASSUME RegInv, [RegNext]_regVars PROVE RegInv' /\ SnapshotsKept
  OBVIOUS
<1>1. ASSUME NEW r \in RegRequests, RegStep(r) PROVE RegInv' /\ SnapshotsKept
  <2>1. SnapshotsKept
    BY <1>1, RegStepKeeps
  <2>2. RegInv'
    BY <1>1, CloneAgentKeeps, CheckArtifactKeeps, RecordArtifactKeeps, ReadAgentKeeps,
       PutNewAgentKeeps, PutFirstVersionKeeps, PutNewVersionKeeps, PutAgentKeeps,
       RereadAgentKeeps, ListVersionsKeeps, DeprecateKeeps, MarkVersionKeeps, PutDraftKeeps,
       DeleteVersionKeeps, DeleteAgentKeeps, CutShortKeeps DEF RegStep
  <2> QED BY <2>1, <2>2
<1>2. ASSUME NEW r \in RegRequests, NEW op \in Operations \ {"pipelineRollback", "projectRollback"},
             Arrive(r, op, 0)
      PROVE  RegInv' /\ SnapshotsKept
  <2>1. 0 \in 0 .. MaxVersion
    BY RegAssumption
  <2>2. RegInv'
    BY <1>2, <2>1, ArriveKeeps
  <2> QED BY <1>2, <2>2, UntouchedKeeps DEF Arrive, RegInv, RegTyped
<1>3. ASSUME NEW r \in RegRequests, NEW op \in {"pipelineRollback", "projectRollback"},
             NEW target \in VersionNumbers, Arrive(r, op, target)
      PROVE  RegInv' /\ SnapshotsKept
  <2>1. target \in 0 .. MaxVersion /\ op \in Operations
    BY RegAssumption DEF VersionNumbers, Operations
  <2>2. RegInv'
    BY <1>3, <2>1, ArriveKeeps
  <2> QED BY <1>3, <2>2, UntouchedKeeps DEF Arrive, RegInv, RegTyped
<1>4. ASSUME UNCHANGED regVars PROVE RegInv' /\ SnapshotsKept
  <2>1. /\ agent' = agent /\ versions' = versions /\ regRequest' = regRequest
        /\ served' = served /\ crashed' = crashed /\ regOverlap' = regOverlap
    BY <1>4 DEF regVars
  <2>2. RegTyped' /\ RegFirst'
    BY <2>1 DEF RegInv, RegTyped, RegFirst, VersionsTyped, RegPlaced
  <2>3. RegAlone'
    BY <2>1 DEF RegInv, RegAlone, RegBusy, Quiescent, RegHolds, SeesAgent, CreationHolds,
       ReadableHolds, NextIsFree, OnePublished, Sound, Has, Labelled, Unmaking, Putting,
       Relabelling
  <2> QED BY <2>1, <2>2, <2>3 DEF RegInv, SnapshotsKept, Readable
<1> QED BY <1>1, <1>2, <1>3, <1>4 DEF RegNext

LEMMA RegAlways == RegSpec => []RegInv
<1>1. RegInit => RegInv
  BY RegInitially
<1>2. RegInv /\ [RegNext]_regVars => RegInv'
  BY RegNextKeeps
<1> QED BY <1>1, <1>2, PTL DEF RegSpec

-----------------------------------------------------------------------------
(* The theorems *)

\* Types: every record a request holds, and the two tables, at every moment of
\* every behaviour.
THEOREM RegTypeCorrect == RegSpec => []RegTypeOK
<1>1. RegInv => RegTypeOK
  BY DEF RegInv, RegTyped, RegTypeOK, VersionsTyped, RegHandler, RegStates
<1> QED BY <1>1, RegAlways, PTL

\* R08, VersionsImmutable: whatever requests overlap or are cut short, the
\* snapshot under a version number stays the one first written there, as
\* AgentVersioner.put writes under a condition and record_derived_fields
\* changes no snapshot.
THEOREM VersionsAreImmutable == RegSpec => VersionsImmutable
<1>1. RegInv /\ [RegNext]_regVars => [SnapshotsKept]_regVars
  BY RegNextKeeps
<1> QED BY <1>1, RegAlways, PTL DEF RegSpec, VersionsImmutable, SnapshotsKept

\* CurrentVersionReadable: when requests come one at a time, GET of an agent
\* finds the version its item names, through every edit, rollback, publish and
\* archive and after any of them is cut short, as _create_new_version puts the
\* version before the agent.
THEOREM CurrentVersionIsReadable == RegSpec => []CurrentVersionReadable
<1>1. RegInv => CurrentVersionReadable
  <2> SUFFICES ASSUME RegInv, ~regOverlap, agent # NoAgent, crashed \cap Unsafe = {},
                      \A r \in RegRequests : RegBusy(r) => regRequest[r].op \notin Unsafe
               PROVE  Readable(agent.currentVersion)
    BY DEF CurrentVersionReadable, Unsafe
  <2>1. CASE Quiescent
    <3>1. RegHolds(Over, agent, versions, served, crashed)
      BY <2>1 DEF RegInv, RegAlone
    <3> QED BY <3>1, OverIsHandler
            DEF RegHolds, ReadableHolds, Unmaking, Sound, Has, Readable, Exists
  <2>2. CASE ~Quiescent
    <3>1. PICK r \in RegRequests : RegBusy(r)
      BY <2>2 DEF Quiescent
    <3>2. /\ RegHolds(regRequest[r], agent, versions, served, crashed)
          /\ RegPlaced(regRequest[r]) /\ regRequest[r].op \notin Unsafe
      BY <3>1, RegServing
    <3>3. ~Unmaking(regRequest[r])
      BY <3>2 DEF Unmaking, Unsafe, RegPlaced
    <3> QED BY <3>2, <3>3 DEF RegHolds, ReadableHolds, Sound, Has, Readable, Exists
  <2> QED BY <2>1, <2>2
<1> QED BY <1>1, RegAlways, PTL

\* VersionsFollowAgent: after requests that came one at a time and ran to their
\* end, with no rollback of a project's agent, the next version number is free,
\* and of a published agent the current version is published and no other.
THEOREM VersionsFollow == RegSpec => []VersionsFollowAgent
<1>1. RegInv => VersionsFollowAgent
  <2> SUFFICES ASSUME RegInv, ~regOverlap, Quiescent, crashed = {},
                      "projectRollback" \notin served, agent # NoAgent
               PROVE  /\ \A v \in VersionNumbers : v > agent.currentVersion => ~Exists(v)
                      /\ served \cap {"flatEdit", "pipelineRollback"} = {}
                            /\ agent.lifecycle = "published" =>
                            \A v \in VersionNumbers :
                               Exists(v) => (versions[v].lifecycle = "published")
                                               = (v = agent.currentVersion)
    BY DEF VersionsFollowAgent
  <2>1. RegHolds(Over, agent, versions, served, crashed)
    BY DEF RegInv, RegAlone
  <2>2. NextIsFree(Over, agent, versions)
    BY <2>1 DEF RegHolds
  <2>3. \A v \in VersionNumbers : v > agent.currentVersion => ~Exists(v)
    BY <2>2, OverIsHandler DEF NextIsFree, Putting, Has, Exists
  <2>4. ASSUME served \cap {"flatEdit", "pipelineRollback"} = {}, agent.lifecycle = "published",
               NEW v \in VersionNumbers, Exists(v)
        PROVE  (versions[v].lifecycle = "published") <=> (v = agent.currentVersion)
    <3>1. OnePublished(Over, agent, versions)
      BY <2>1, <2>4 DEF RegHolds
    <3>2. Labelled(versions, agent.currentVersion) /\ agent.currentVersion \in VersionNumbers
      BY <2>4, <3>1, OverIsHandler DEF OnePublished, Relabelling, RegInv, RegTyped, AgentItem
    <3> QED BY <2>4, <3>1, <3>2 DEF OnePublished, Labelled, Has, Exists
  <2> QED BY <2>3, <2>4
<1> QED BY <1>1, RegAlways, PTL

(***************************************************************************)
(* SubAgentSearch: what can be reached, in a graph.                        *)
(***************************************************************************)
\* A node can be reached from itself.
LEMMA ReachableRoot ==
    ASSUME NEW g, NEW r \in DOMAIN g
    PROVE  r \in Reachable(g, r)
BY DEF Reachable

\* From a node that can be reached so can the nodes it lists.
LEMMA ReachableNext ==
    ASSUME NEW g, NEW r, NEW n \in Reachable(g, r), NEW m \in g[n], m \in DOMAIN g
    PROVE  m \in Reachable(g, r)
BY DEF Reachable, Closed

\* A set that no edge leaves holds all that can be reached from within.
LEMMA ReachableLeast ==
    ASSUME NEW g, NEW r, NEW set \in SUBSET DOMAIN g, r \in set, Closed(g, set)
    PROVE  Reachable(g, r) \subseteq set
BY DEF Reachable

(***************************************************************************)
(* The inductive invariant of the search. The stack is a path from the     *)
(* root, so an edge back to it closes a cycle; a node the search has left  *)
(* lists only nodes it has left, among which there is no cycle, so nothing *)
(* is missed when a visited node is passed over.                           *)
(***************************************************************************)
\* The nodes of the calls that have not returned.
Stacked == {callStack[i] : i \in DOMAIN callStack}

\* The nodes whose calls have returned.
Searched == visited \ recStack

\* The stack holds the path from the root to the node at work, each node once.
StackIsPath ==
    /\ recStack = Stacked
    /\ recStack \subseteq visited
    /\ \A i, j \in DOMAIN callStack : callStack[i] = callStack[j] => i = j
    /\ \A i \in DOMAIN callStack :
          i + 1 \in DOMAIN callStack => callStack[i + 1] \in graph[callStack[i]]
    /\ answer = "searching" => callStack # <<>>
    /\ answer = "none" => callStack = <<>>

\* What the loops have looked at: nothing but nodes searched to their end, and the next
\* call on the stack.
LookedAt ==
    /\ root \in visited
    /\ visited \subseteq Reachable(graph, root)
    /\ \A n \in Nodes : left[n] \subseteq graph[n]
    /\ \A i \in DOMAIN callStack : \A n \in graph[callStack[i]] \ left[callStack[i]] :
          n \in Searched \/ (i + 1 \in DOMAIN callStack /\ n = callStack[i + 1])

\* A node searched to its end lists only such nodes, and there is no cycle among them.
SearchedIsClear ==
    /\ \A n \in Searched : graph[n] \subseteq Searched
    /\ \A set \in SUBSET Searched : ~Endless(graph, set)

SearchTyped ==
    /\ graph \in [Nodes -> SUBSET Nodes]
    /\ root \in Nodes
    /\ callStack \in Seq(Nodes)
    /\ left \in [Nodes -> SUBSET Nodes]
    /\ visited \subseteq Nodes
    /\ recStack \subseteq Nodes
    /\ answer \in {"searching", "cycle", "none"}

SearchInv ==
    /\ SearchTyped
    /\ StackIsPath
    /\ LookedAt
    /\ SearchedIsClear
    /\ answer = "cycle" => CycleBelow(graph, root)

\* A node that lists only nodes searched to their end adds no cycle to them.
LEMMA SearchedGrows ==
    ASSUME NEW g, NEW done, NEW n, n \notin done,
           \A m \in done : g[m] \subseteq done,
           g[n] \subseteq done,
           \A set \in SUBSET done : ~Endless(g, set)
    PROVE  \A set \in SUBSET (done \cup {n}) : ~Endless(g, set)
<1> SUFFICES ASSUME NEW set \in SUBSET (done \cup {n}), Endless(g, set) PROVE FALSE
  OBVIOUS
<1>1. n \in set
  BY DEF Endless
<1>2. set \ {n} # {}
  BY <1>1 DEF Endless
<1>3. \A m \in set \ {n} : g[m] \cap (set \ {n}) # {}
  BY DEF Endless
<1>4. Endless(g, set \ {n})
  BY <1>2, <1>3 DEF Endless
<1>. QED  BY <1>4

LEMMA SearchInitial == SearchInit => SearchInv
<1> SUFFICES ASSUME SearchInit PROVE SearchInv
  OBVIOUS
<1> USE DEF SearchInit
<1>1. SearchTyped
  BY DEF SearchTyped
<1>2. callStack = <<root>> /\ DOMAIN callStack = {1} /\ callStack[1] = root
  OBVIOUS
<1>3. Searched = {}
  BY DEF Searched
<1>4. StackIsPath
  BY <1>2 DEF StackIsPath, Stacked
<1>5. root \in Reachable(graph, root)
  BY ReachableRoot
<1>6. LookedAt
  BY <1>2, <1>3, <1>5 DEF LookedAt
<1>7. SearchedIsClear
  BY <1>3 DEF SearchedIsClear, Endless
<1>. QED  BY <1>1, <1>4, <1>6, <1>7 DEF SearchInv

\* The stack of a search under way.
LEMMA StackTop ==
    ASSUME SearchInv, answer = "searching"
    PROVE  /\ Len(callStack) \in Nat \ {0}
           /\ DOMAIN callStack = 1 .. Len(callStack)
           /\ Node = callStack[Len(callStack)]
           /\ Node \in Nodes /\ Node \in recStack /\ Node \in visited
           /\ callStack \in Seq(Nodes)
BY DEF SearchInv, SearchTyped, StackIsPath, Stacked, Node, Last

(* One lemma for each step of the search. *)

LEMMA DescendKeeps ==
    ASSUME SearchInv, NEW n \in Nodes, Descend(n)
    PROVE  SearchInv'
<1> DEFINE k == Len(callStack)
<1>0. /\ k = Len(callStack) /\ k \in Nat \ {0} /\ DOMAIN callStack = 1 .. k
      /\ Node = callStack[k]
      /\ Node \in Nodes /\ Node \in recStack /\ Node \in visited /\ callStack \in Seq(Nodes)
  BY StackTop DEF Descend, TakesNeighbour
<1> HIDE DEF k
<1>1. /\ answer = "searching" /\ n \in left[Node] /\ n \notin visited
      /\ callStack' = Append(callStack, n)
      /\ left' = [left EXCEPT ![Node] = @ \ {n}, ![n] = graph[n]]
      /\ visited' = visited \cup {n} /\ recStack' = recStack \cup {n}
      /\ graph' = graph /\ root' = root /\ answer' = answer
  BY DEF Descend, TakesNeighbour
<1>2. /\ DOMAIN callStack' = 1 .. k + 1 /\ callStack'[k + 1] = n
      /\ \A i \in 1 .. k : callStack'[i] = callStack[i]
      /\ callStack' \in Seq(Nodes)
  BY <1>0, <1>1
<1>3. /\ graph \in [Nodes -> SUBSET Nodes] /\ left \in [Nodes -> SUBSET Nodes]
      /\ visited \subseteq Nodes /\ recStack \subseteq Nodes /\ root \in Nodes
  BY DEF SearchInv, SearchTyped
<1>4. /\ left'[n] = graph[n] /\ left'[Node] = left[Node] \ {n}
      /\ \A m \in Nodes \ {n, Node} : left'[m] = left[m]
      /\ left' \in [Nodes -> SUBSET Nodes]
  BY <1>0, <1>1, <1>3
<1>5. SearchTyped'
  BY <1>1, <1>2, <1>3, <1>4 DEF SearchTyped
<1>6. n \in graph[Node] /\ n \in Reachable(graph, root)
  <2>1. n \in graph[Node] /\ Node \in Reachable(graph, root)
    BY <1>0, <1>1 DEF SearchInv, LookedAt
  <2>. QED  BY <2>1, <1>3, ReachableNext
<1>7. Searched' = Searched
  BY <1>1 DEF Searched, SearchInv, StackIsPath
<1>8. StackIsPath'
  <2>1. recStack' = Stacked'
    BY <1>0, <1>1, <1>2 DEF SearchInv, StackIsPath, Stacked
  <2>2. recStack' \subseteq visited'
    BY <1>1 DEF SearchInv, StackIsPath
  <2>3. \A i, j \in DOMAIN callStack' : callStack'[i] = callStack'[j] => i = j
    <3>1. \A i \in 1 .. k : callStack[i] # n
      BY <1>0, <1>1 DEF SearchInv, StackIsPath, Stacked
    <3>. QED  BY <3>1, <1>0, <1>2 DEF SearchInv, StackIsPath
  <2>4. \A i \in DOMAIN callStack' :
           i + 1 \in DOMAIN callStack' => callStack'[i + 1] \in graph'[callStack'[i]]
    <3> SUFFICES ASSUME NEW i \in 1 .. k
                 PROVE  callStack'[i + 1] \in graph[callStack[i]]
      BY <1>0, <1>1, <1>2
    <3>1. CASE i = k
      <4>1. callStack'[i + 1] = n /\ callStack[i] = Node
        BY <3>1, <1>0, <1>2
      <4>. QED  BY <4>1, <1>6
    <3>2. CASE i # k
      <4>1. i \in 1 .. k /\ i + 1 \in 1 .. k
        BY <3>2, <1>0
      <4>2. callStack[i + 1] \in graph[callStack[i]]
        BY <4>1, <1>0 DEF SearchInv, StackIsPath
      <4>. QED  BY <4>1, <4>2, <1>2
    <3>. QED  BY <3>1, <3>2
  <2>5. callStack' # <<>>
    BY <1>0, <1>2
  <2>. QED  BY <2>1, <2>2, <2>3, <2>4, <2>5, <1>1 DEF StackIsPath
<1>9. LookedAt'
  <2>1. root' \in visited' /\ visited' \subseteq Reachable(graph', root')
    BY <1>1, <1>6 DEF SearchInv, LookedAt
  <2>2. \A m \in Nodes : left'[m] \subseteq graph'[m]
    BY <1>1, <1>3, <1>4 DEF SearchInv, LookedAt
  <2>3. ASSUME NEW i \in DOMAIN callStack', NEW m \in graph'[callStack'[i]] \ left'[callStack'[i]]
        PROVE  m \in Searched' \/ (i + 1 \in DOMAIN callStack' /\ m = callStack'[i + 1])
    <3>1. CASE i = k + 1
      BY <3>1, <2>3, <1>1, <1>2, <1>4
    <3>2. CASE i = k
      <4>1. m \in (graph[Node] \ left[Node]) \cup {n}
        BY <3>2, <2>3, <1>0, <1>1, <1>2, <1>4
      <4>2. CASE m = n
        BY <4>2, <3>2, <1>0, <1>2
      <4>3. CASE m # n
        <5>1. m \in Searched
          BY <4>1, <4>3, <1>0 DEF SearchInv, LookedAt
        <5>. QED  BY <5>1, <1>7
      <4>. QED  BY <4>2, <4>3
    <3>3. CASE i \in 1 .. k - 1
      <4>1. callStack[i] # Node /\ callStack[i] # n /\ callStack[i] \in Nodes
        BY <3>3, <1>0, <1>1 DEF SearchInv, StackIsPath, Stacked
      <4>2. m \in graph[callStack[i]] \ left[callStack[i]]
        BY <4>1, <3>3, <2>3, <1>0, <1>1, <1>2, <1>4
      <4>3. m \in Searched \/ m = callStack[i + 1]
        BY <4>2, <3>3, <1>0 DEF SearchInv, LookedAt
      <4>. QED  BY <4>3, <3>3, <1>0, <1>2, <1>7
    <3>. QED  BY <3>1, <3>2, <3>3, <1>0, <1>2
  <2>. QED  BY <2>1, <2>2, <2>3 DEF LookedAt
<1>10. SearchedIsClear'
  BY <1>1, <1>7 DEF SearchInv, SearchedIsClear
<1>. QED  BY <1>1, <1>5, <1>8, <1>9, <1>10 DEF SearchInv

LEMMA CloseCycleKeeps ==
    ASSUME SearchInv, NEW n \in Nodes, CloseCycle(n)
    PROVE  SearchInv'
<1> DEFINE k == Len(callStack)
<1>0. /\ k = Len(callStack) /\ k \in Nat \ {0} /\ DOMAIN callStack = 1 .. k
      /\ Node = callStack[k]
      /\ Node \in Nodes /\ Node \in recStack /\ Node \in visited /\ callStack \in Seq(Nodes)
  BY StackTop DEF CloseCycle, TakesNeighbour
<1> HIDE DEF k
<1>1. /\ answer = "searching" /\ n \in left[Node] /\ n \in recStack /\ answer' = "cycle"
      /\ UNCHANGED <<graph, root, callStack, left, visited, recStack>>
  BY DEF CloseCycle, TakesNeighbour
<1>2. PICK j \in 1 .. k : callStack[j] = n
  BY <1>0, <1>1 DEF SearchInv, StackIsPath, Stacked
<1> DEFINE set == {callStack[i] : i \in j .. k}
<1>3. set \subseteq Reachable(graph, root)
  BY <1>0 DEF SearchInv, StackIsPath, Stacked, LookedAt
<1>4. Endless(graph, set)
  <2>1. n \in set
    BY <1>0, <1>2
  <2>2. ASSUME NEW i \in j .. k PROVE graph[callStack[i]] \cap set # {}
    <3>1. CASE i = k
      <4>1. n \in graph[callStack[i]]
        BY <3>1, <1>0, <1>1 DEF SearchInv, LookedAt
      <4>. QED  BY <4>1, <2>1
    <3>2. CASE i # k
      <4>1. i \in 1 .. k /\ i + 1 \in 1 .. k /\ i + 1 \in j .. k
        <5>1. j \in 1 .. k /\ i \in j .. k
          BY <1>2, <2>2
        <5>2. k \in Nat
          BY <1>0
        <5>. QED  BY <5>1, <5>2, <3>2
      <4>2. callStack[i + 1] \in graph[callStack[i]]
        BY <4>1, <1>0 DEF SearchInv, StackIsPath
      <4>. QED  BY <4>1, <4>2
    <3>. QED  BY <3>1, <3>2
  <2>. QED  BY <2>1, <2>2 DEF Endless
<1>5. CycleBelow(graph, root)
  BY <1>3, <1>4 DEF CycleBelow
<1>6. SearchTyped'
  BY <1>1 DEF SearchInv, SearchTyped
<1>7. StackIsPath'
  BY <1>1 DEF SearchInv, StackIsPath, Stacked
<1>8. Searched' = Searched
  BY <1>1 DEF Searched
<1>9. LookedAt'
  BY <1>1, <1>8 DEF SearchInv, LookedAt
<1>10. SearchedIsClear'
  BY <1>1, <1>8 DEF SearchInv, SearchedIsClear
<1>. QED  BY <1>1, <1>5, <1>6, <1>7, <1>9, <1>10 DEF SearchInv

LEMMA PassOverKeeps ==
    ASSUME SearchInv, NEW n \in Nodes, PassOver(n)
    PROVE  SearchInv'
<1> DEFINE k == Len(callStack)
<1>0. /\ k = Len(callStack) /\ k \in Nat \ {0} /\ DOMAIN callStack = 1 .. k
      /\ Node = callStack[k]
      /\ Node \in Nodes /\ Node \in recStack /\ Node \in visited /\ callStack \in Seq(Nodes)
  BY StackTop DEF PassOver, TakesNeighbour
<1> HIDE DEF k
<1>1. /\ answer = "searching" /\ n \in left[Node] /\ n \in Searched
      /\ left' = [left EXCEPT ![Node] = @ \ {n}]
      /\ UNCHANGED <<graph, root, callStack, visited, recStack, answer>>
  BY DEF PassOver, TakesNeighbour, Searched
<1>2. /\ left' \in [Nodes -> SUBSET Nodes] /\ left'[Node] = left[Node] \ {n}
      /\ \A m \in Nodes \ {Node} : left'[m] = left[m]
  BY <1>0, <1>1 DEF SearchInv, SearchTyped
<1>6. SearchTyped'
  BY <1>1, <1>2 DEF SearchInv, SearchTyped
<1>7. StackIsPath'
  BY <1>1 DEF SearchInv, StackIsPath, Stacked
<1>8. Searched' = Searched
  BY <1>1 DEF Searched
<1>9. LookedAt'
  <2>1. root' \in visited' /\ visited' \subseteq Reachable(graph', root')
    BY <1>1 DEF SearchInv, LookedAt
  <2>2. \A m \in Nodes : left'[m] \subseteq graph'[m]
    BY <1>1, <1>2 DEF SearchInv, LookedAt
  <2>3. ASSUME NEW i \in DOMAIN callStack', NEW m \in graph'[callStack'[i]] \ left'[callStack'[i]]
        PROVE  m \in Searched' \/ (i + 1 \in DOMAIN callStack' /\ m = callStack'[i + 1])
    <3>1. callStack[i] \in Nodes /\ i \in DOMAIN callStack
      BY <1>0, <1>1
    <3>2. m = n \/ m \in graph[callStack[i]] \ left[callStack[i]]
      BY <3>1, <2>3, <1>1, <1>2
    <3>. QED  BY <3>1, <3>2, <1>1, <1>8 DEF SearchInv, LookedAt
  <2>. QED  BY <2>1, <2>2, <2>3 DEF LookedAt
<1>10. SearchedIsClear'
  BY <1>1, <1>8 DEF SearchInv, SearchedIsClear
<1>. QED  BY <1>1, <1>6, <1>7, <1>9, <1>10 DEF SearchInv

LEMMA ReturnKeeps ==
    ASSUME SearchInv, Return
    PROVE  SearchInv'
<1> DEFINE k == Len(callStack)
<1>0. /\ k = Len(callStack) /\ k \in Nat \ {0} /\ DOMAIN callStack = 1 .. k
      /\ Node = callStack[k]
      /\ Node \in Nodes /\ Node \in recStack /\ Node \in visited /\ callStack \in Seq(Nodes)
  BY StackTop DEF Return
<1> HIDE DEF k
<1>1. /\ answer = "searching" /\ left[Node] = {} /\ recStack' = recStack \ {Node}
      /\ callStack' = SubSeq(callStack, 1, k - 1)
      /\ answer' = IF k = 1 THEN "none" ELSE answer
      /\ UNCHANGED <<graph, root, left, visited>>
  BY <1>0 DEF Return, Front
<1>2. /\ callStack' \in Seq(Nodes) /\ DOMAIN callStack' = 1 .. k - 1
      /\ \A i \in 1 .. k - 1 : callStack'[i] = callStack[i]
  BY <1>0, <1>1
<1>3. \A i \in 1 .. k - 1 : callStack[i] # Node
  BY <1>0 DEF SearchInv, StackIsPath
<1>4. Searched' = Searched \cup {Node} /\ Node \notin Searched
  BY <1>0, <1>1 DEF Searched
<1>5. graph[Node] \subseteq Searched
  BY <1>0, <1>1 DEF SearchInv, LookedAt
<1>6. SearchTyped'
  BY <1>1, <1>2 DEF SearchInv, SearchTyped
<1>7. StackIsPath'
  <2>1. recStack' = Stacked'
    <3>1. Stacked' = {callStack[i] : i \in 1 .. k - 1}
      BY <1>2 DEF Stacked
    <3>2. Stacked = {callStack[i] : i \in 1 .. k - 1} \cup {Node}
      <4>1. Stacked = {callStack[i] : i \in 1 .. k}
        BY <1>0 DEF Stacked
      <4>2. \A i \in 1 .. k : i \in 1 .. k - 1 \/ i = k
        BY <1>0
      <4>3. \A i \in 1 .. k - 1 : i \in 1 .. k
        BY <1>0
      <4>4. k \in 1 .. k
        BY <1>0
      <4>. QED  BY <4>1, <4>2, <4>3, <4>4, <1>0
    <3>3. recStack = Stacked
      BY DEF SearchInv, StackIsPath
    <3>. QED  BY <3>1, <3>2, <3>3, <1>1, <1>3
  <2>2. recStack' \subseteq visited'
    BY <1>1 DEF SearchInv, StackIsPath
  <2>3. \A i, j \in DOMAIN callStack' : callStack'[i] = callStack'[j] => i = j
    BY <1>0, <1>2 DEF SearchInv, StackIsPath
  <2>4. \A i \in DOMAIN callStack' :
           i + 1 \in DOMAIN callStack' => callStack'[i + 1] \in graph'[callStack'[i]]
    BY <1>0, <1>1, <1>2 DEF SearchInv, StackIsPath
  <2>5. (k = 1 => callStack' = <<>>) /\ (k # 1 => callStack' # <<>>)
    <3>1. callStack' \in Seq(Nodes) /\ Len(callStack') = k - 1
      BY <1>0, <1>1
    <3>2. k = 1 => callStack' = <<>>
      BY <3>1
    <3>3. Len(<<>>) = 0
      OBVIOUS
    <3>4. k # 1 => callStack' # <<>>
      BY <3>1, <3>3, <1>0
    <3>. QED  BY <3>2, <3>4
  <2>. QED  BY <2>1, <2>2, <2>3, <2>4, <2>5, <1>1 DEF StackIsPath
<1>9. LookedAt'
  <2>1. root' \in visited' /\ visited' \subseteq Reachable(graph', root')
    BY <1>1 DEF SearchInv, LookedAt
  <2>2. \A m \in Nodes : left'[m] \subseteq graph'[m]
    BY <1>1 DEF SearchInv, LookedAt
  <2>3. ASSUME NEW i \in DOMAIN callStack', NEW m \in graph'[callStack'[i]] \ left'[callStack'[i]]
        PROVE  m \in Searched' \/ (i + 1 \in DOMAIN callStack' /\ m = callStack'[i + 1])
    <3>1. i \in 1 .. k - 1 /\ m \in graph[callStack[i]] \ left[callStack[i]]
      BY <2>3, <1>1, <1>2
    <3>2. m \in Searched \/ m = callStack[i + 1]
      BY <3>1, <1>0 DEF SearchInv, LookedAt
    <3>3. CASE i = k - 1
      BY <3>2, <3>3, <1>0, <1>4
    <3>4. CASE i # k - 1
      BY <3>1, <3>2, <3>4, <1>0, <1>2, <1>4
    <3>. QED  BY <3>3, <3>4
  <2>. QED  BY <2>1, <2>2, <2>3 DEF LookedAt
<1>10. SearchedIsClear'
  <2>1. \A set \in SUBSET (Searched \cup {Node}) : ~Endless(graph, set)
    BY <1>4, <1>5, SearchedGrows DEF SearchInv, SearchedIsClear
  <2>2. \A m \in Searched' : graph'[m] \subseteq Searched'
    BY <1>1, <1>4, <1>5 DEF SearchInv, SearchedIsClear
  <2>. QED  BY <2>1, <2>2, <1>1, <1>4 DEF SearchedIsClear
<1>. QED  BY <1>1, <1>6, <1>7, <1>9, <1>10 DEF SearchInv

LEMMA SearchInductive == SearchInv /\ [SearchNext]_searchVars => SearchInv'
<1> SUFFICES ASSUME SearchInv, [SearchNext]_searchVars PROVE SearchInv'
  OBVIOUS
<1>1. ASSUME NEW n \in Nodes, Descend(n) PROVE SearchInv'
  BY <1>1, DescendKeeps
<1>2. ASSUME NEW n \in Nodes, CloseCycle(n) PROVE SearchInv'
  BY <1>2, CloseCycleKeeps
<1>3. ASSUME NEW n \in Nodes, PassOver(n) PROVE SearchInv'
  BY <1>3, PassOverKeeps
<1>4. CASE Return
  BY <1>4, ReturnKeeps
<1>5. CASE UNCHANGED searchVars
  BY <1>5 DEF searchVars, SearchInv, SearchTyped, StackIsPath, Stacked, LookedAt, Searched,
     SearchedIsClear
<1>. QED  BY <1>1, <1>2, <1>3, <1>4, <1>5 DEF SearchNext

\* When the search returns, all that the root reaches has been searched.
LEMMA ReturnedIsClear ==
    ASSUME SearchInv, answer = "none"
    PROVE  ~CycleBelow(graph, root)
<1>1. Searched = visited
  BY DEF SearchInv, StackIsPath, Stacked, Searched
<1>2. DOMAIN graph = Nodes /\ visited \subseteq Nodes
  BY DEF SearchInv, SearchTyped
<1>3. Closed(graph, visited)
  BY <1>1 DEF SearchInv, SearchedIsClear, Closed
<1>4. Reachable(graph, root) \subseteq visited
  BY <1>2, <1>3, ReachableLeast DEF SearchInv, LookedAt
<1>. QED  BY <1>1, <1>4 DEF SearchInv, SearchedIsClear, CycleBelow

\* Types, and rec_stack holds the nodes of the calls that have not returned, no other.
THEOREM SearchTypes == SearchSpec => []SearchTypeOK
<1>1. SearchInv => SearchTypeOK
  BY DEF SearchInv, SearchTyped, SearchTypeOK, StackIsPath, Stacked, ToSet
<1>. QED  BY <1>1, SearchInitial, SearchInductive, PTL DEF SearchSpec

\* SearchDecides: on every graph, from every node and whatever the order of the lists,
\* has_cycle answers True exactly when one can go round a cycle from the checked node,
\* though it searches no node twice.
THEOREM SearchIsRight == SearchSpec => []SearchDecides
<1>1. SearchInv => SearchDecides
  BY ReturnedIsClear DEF SearchInv, SearchDecides
<1>. QED  BY <1>1, SearchInitial, SearchInductive, PTL DEF SearchSpec

\* The search is over, or has visited a node more, or has a neighbour less to look at,
\* or has a call less to return from: never the same again, and never fewer visited.
SearchGoesOn ==
    \/ answer' # "searching"
    \/ visited \subseteq visited' /\ visited # visited'
    \/ /\ visited' = visited
       /\ \E n \in Nodes : left[n] # left'[n]
       /\ \A n \in Nodes : left'[n] \subseteq left[n]
    \/ /\ visited' = visited
       /\ left' = left
       /\ Len(callStack') < Len(callStack)

\* The recursion of has_cycle ends: while it searches one of its steps can be taken,
\* and each of them goes on, in a finite graph only so often, in a cyclic one too.
THEOREM SearchTerminates ==
    SearchSpec =>
        /\ [](answer = "searching" => left[Node] = {} \/ \E n \in Nodes : TakesNeighbour(n))
        /\ [][SearchGoesOn]_searchVars
<1>1. SearchInv => (answer = "searching" => left[Node] = {} \/ \E n \in Nodes : TakesNeighbour(n))
  <2> SUFFICES ASSUME SearchInv, answer = "searching", left[Node] # {}
               PROVE  \E n \in Nodes : TakesNeighbour(n)
    OBVIOUS
  <2>1. left[Node] \subseteq Nodes
    BY StackTop DEF SearchInv, SearchTyped
  <2>. QED  BY <2>1 DEF TakesNeighbour
<1>2. SearchInv /\ [SearchNext]_searchVars => [SearchGoesOn]_searchVars
  <2> SUFFICES ASSUME SearchInv, SearchNext PROVE SearchGoesOn
    OBVIOUS
  <2>1. ASSUME NEW n \in Nodes, Descend(n) PROVE SearchGoesOn
    BY <2>1 DEF Descend, SearchGoesOn
  <2>2. ASSUME NEW n \in Nodes, CloseCycle(n) PROVE SearchGoesOn
    BY <2>2 DEF CloseCycle, SearchGoesOn
  <2>3. ASSUME NEW n \in Nodes, PassOver(n) PROVE SearchGoesOn
    <3>1. answer = "searching" /\ n \in left[Node] /\ left' = [left EXCEPT ![Node] = @ \ {n}]
          /\ visited' = visited
      BY <2>3 DEF PassOver, TakesNeighbour
    <3>2. Node \in Nodes /\ left \in [Nodes -> SUBSET Nodes]
      BY <3>1, StackTop DEF SearchInv, SearchTyped
    <3>. QED  BY <3>1, <3>2 DEF SearchGoesOn
  <2>4. CASE Return
    <3> DEFINE k == Len(callStack)
    <3>1. answer = "searching" /\ callStack' = SubSeq(callStack, 1, k - 1)
          /\ left' = left /\ visited' = visited
      BY <2>4 DEF Return, Front
    <3>2. k = Len(callStack) /\ callStack \in Seq(Nodes) /\ k \in Nat \ {0}
      BY <3>1, StackTop
    <3> HIDE DEF k
    <3>3. Len(callStack') = k - 1
      BY <3>1, <3>2
    <3>. QED  BY <3>1, <3>2, <3>3 DEF SearchGoesOn
  <2>. QED  BY <2>1, <2>2, <2>3, <2>4 DEF SearchNext
<1>. QED  BY <1>1, <1>2, SearchInitial, SearchInductive, PTL DEF SearchSpec

(***************************************************************************)
(* SubAgentGraph: the inductive invariant.                                 *)
(***************************************************************************)
\* Where changes come one at a time, the only save under way was checked against the
\* graph as it is now.
SaveIsChecked ==
    ~savesOverlap =>
       \A s \in Savers : save[s] # NoSave =>
          /\ \A t \in Savers \ {s} : save[t] = NoSave
          /\ save[s].kind = "create" => ~InRegistry(save[s].agent)
          /\ save[s].kind = "update" =>
                save[s].list = {} \/ ~HasCycle(save[s].agent, save[s].list)

\* As long as nobody has listed an agent that did not exist and no current version is an
\* old one, all listed agents exist.
ListedExist ==
    ~namedAbsent /\ ~repointed => \A a \in GraphAgents : \A b \in SubAgents(a) : InRegistry(b)

GraphInv == GraphTypeOK /\ SaveIsChecked /\ ListedExist /\ CheckedGraphAcyclic

\* What an agent's sub-agents depend on.
LEMMA ListsOf ==
    ASSUME GraphTypeOK
    PROVE  /\ \A a \in GraphAgents : SubAgents(a) \subseteq GraphAgents
           /\ \A a \in GraphAgents : ~InRegistry(a) => SubAgents(a) = {}
BY DEF GraphTypeOK, VersionList, SubAgents, InRegistry

LEMMA GraphInitial == GraphInit => GraphInv
<1> SUFFICES ASSUME GraphInit PROVE GraphInv
  OBVIOUS
<1> USE DEF GraphInit
<1>1. GraphTypeOK
  <2>1. saves \in 0 .. MaxSaves
    BY GraphAssumption
  <2>2. current \in [GraphAgents -> Nat] /\ \A a \in GraphAgents : current[a] = 0
    OBVIOUS
  <2>3. save \in [Savers -> SaveInFlight \cup {NoSave}]
    OBVIOUS
  <2>. QED  BY <2>1, <2>2, <2>3 DEF GraphTypeOK
<1>2. \A a \in GraphAgents : SubAgents(a) = {}
  BY DEF SubAgents
<1>3. CheckedGraphAcyclic
  BY <1>2 DEF CheckedGraphAcyclic, Acyclic
<1>. QED  BY <1>1, <1>2, <1>3 DEF GraphInv, SaveIsChecked, ListedExist

\* A change begins within the bound, and alone where changes come one at a time.
LEMMA MayBeginFacts ==
    ASSUME GraphTypeOK, NEW s \in Savers, MayBegin(s)
    PROVE  /\ save[s] = NoSave
           /\ saves' \in 0 .. MaxSaves
           /\ ~savesOverlap => \A t \in Savers : save[t] = NoSave
<1>1. saves \in Nat /\ saves' = saves + 1
  BY DEF GraphTypeOK, MayBegin
<1>2. saves < MaxSaves
  BY <1>1, GraphAssumption DEF MayBegin, GraphTypeOK
<1>. QED  BY <1>1, <1>2, GraphAssumption DEF MayBegin

\* A step that touches neither versions nor current versions leaves the graph alone.
LEMMA GraphAlone ==
    ASSUME UNCHANGED <<lists, current>>
    PROVE  /\ \A x : SubAgents(x)' = SubAgents(x)
           /\ \A x : InRegistry(x)' = InRegistry(x)
           /\ Acyclic' = Acyclic
           /\ \A x, list : HasCycle(x, list)' = HasCycle(x, list)
BY DEF SubAgents, InRegistry, Acyclic, HasCycle, ProposedGraph

\* A check that lets the save go on.
LEMMA SaveBegins ==
    ASSUME GraphInv, NEW s \in Savers, MayBegin(s),
           NEW x \in SaveInFlight,
           x.kind = "create" => ~InRegistry(x.agent),
           x.kind = "update" => x.list = {} \/ ~HasCycle(x.agent, x.list),
           save' = [save EXCEPT ![s] = x] \/ UNCHANGED save,
           UNCHANGED <<lists, current, namedAbsent, repointed, savesOverlap>>
    PROVE  GraphInv'
<1>1. /\ save[s] = NoSave /\ saves' \in 0 .. MaxSaves
      /\ ~savesOverlap => \A t \in Savers : save[t] = NoSave
  BY MayBeginFacts DEF GraphInv
<1>2. save' \in [Savers -> SaveInFlight \cup {NoSave}]
  BY DEF GraphInv, GraphTypeOK
<1>3. GraphTypeOK'
  BY <1>1, <1>2 DEF GraphInv, GraphTypeOK
<1>4. SaveIsChecked'
  <2> SUFFICES ASSUME ~savesOverlap, NEW t \in Savers, save'[t] # NoSave
               PROVE  /\ \A u \in Savers \ {t} : save'[u] = NoSave
                      /\ save'[t].kind = "create" => ~InRegistry(save'[t].agent)
                      /\ save'[t].kind = "update" => save'[t].list = {}
                            \/ ~HasCycle(save'[t].agent, save'[t].list)
    BY GraphAlone, Zenon DEF SaveIsChecked
  <2>1. save \in [Savers -> SaveInFlight \cup {NoSave}]
    BY DEF GraphInv, GraphTypeOK
  <2>2. t = s /\ save'[t] = x /\ \A u \in Savers \ {s} : save'[u] = NoSave
    BY <1>1, <2>1
  <2>. QED  BY <2>2
<1>5. ListedExist' /\ CheckedGraphAcyclic'
  BY GraphAlone DEF GraphInv, ListedExist, CheckedGraphAcyclic
<1>. QED  BY <1>3, <1>4, <1>5 DEF GraphInv

(* One lemma for each step of a change. *)

LEMMA CheckNewAgentKeeps ==
    ASSUME GraphInv, NEW s \in Savers, NEW a \in GraphAgents, NEW list \in SUBSET GraphAgents,
           CheckNewAgent(s, a, list)
    PROVE  GraphInv'
<1> DEFINE x == [agent |-> a, list |-> list, saw |-> 0, kind |-> "create"]
<1>1. x \in SaveInFlight /\ x.kind = "create" /\ x.agent = a
  BY DEF SaveInFlight
<1>2. save' = [save EXCEPT ![s] = x] \/ UNCHANGED save
  BY DEF CheckNewAgent
<1> HIDE DEF x
<1>. QED  BY <1>1, <1>2, SaveBegins DEF CheckNewAgent

LEMMA CheckNewVersionKeeps ==
    ASSUME GraphInv, NEW s \in Savers, NEW a \in GraphAgents, NEW list \in SUBSET GraphAgents,
           CheckNewVersion(s, a, list)
    PROVE  GraphInv'
<1> DEFINE x == [agent |-> a, list |-> list, saw |-> current[a], kind |-> "update"]
<1>1. x \in SaveInFlight /\ x.kind = "update" /\ x.agent = a /\ x.list = list
  BY DEF SaveInFlight, GraphInv, GraphTypeOK
<1>2. \/ UNCHANGED save
      \/ save' = [save EXCEPT ![s] = x] /\ (list = {} \/ ~HasCycle(a, list))
  BY DEF CheckNewVersion
<1> DEFINE y == [x EXCEPT !.list = {}]
<1>3. y \in SaveInFlight /\ y.kind = "update" /\ y.list = {}
  BY <1>1 DEF SaveInFlight
<1> HIDE DEF x, y
<1>4. MayBegin(s) /\ UNCHANGED <<lists, current, namedAbsent, repointed, savesOverlap>>
  BY DEF CheckNewVersion
<1>5. CASE UNCHANGED save
  BY <1>3, <1>4, <1>5, SaveBegins
<1>6. CASE save' = [save EXCEPT ![s] = x] /\ (list = {} \/ ~HasCycle(a, list))
  BY <1>1, <1>4, <1>6, SaveBegins
<1>. QED  BY <1>2, <1>5, <1>6

\* What the new graph says once the version is written.
LEMMA WrittenGraph ==
    ASSUME GraphTypeOK, NEW a \in GraphAgents, NEW next \in Nat \ {0}, NEW list,
           ~ \E v \in lists : v.agent = a /\ v.version = next,
           lists' = lists \cup {[agent |-> a, version |-> next, list |-> list]},
           current' = [current EXCEPT ![a] = next]
    PROVE  /\ SubAgents(a)' = list
           /\ InRegistry(a)'
           /\ \A b \in GraphAgents \ {a} :
                 SubAgents(b)' = SubAgents(b) /\ InRegistry(b)' = InRegistry(b)
<1> DEFINE new == [agent |-> a, version |-> next, list |-> list]
<1>1. lists' = lists \cup {new}
  OBVIOUS
<1>2. new.agent = a /\ new.version = next /\ new.list = list
  OBVIOUS
<1>3. current'[a] = next /\ \A b \in GraphAgents \ {a} : current'[b] = current[b]
  BY DEF GraphTypeOK
<1> HIDE DEF new
<1>4. SubAgents(a)' = list
  <2>1. {w \in lists' : w.agent = a /\ w.version = current'[a]} = {new}
    BY <1>1, <1>2, <1>3
  <2>2. SubAgents(a)' = UNION {v.list : v \in {new}}
    BY <2>1 DEF SubAgents
  <2>. QED  BY <2>2, <1>2
<1>5. ASSUME NEW b \in GraphAgents \ {a}
      PROVE  SubAgents(b)' = SubAgents(b) /\ InRegistry(b)' = InRegistry(b)
  <2>1. {w \in lists' : w.agent = b /\ w.version = current'[b]}
           = {w \in lists : w.agent = b /\ w.version = current[b]}
    BY <1>1, <1>2, <1>3
  <2>. QED  BY <2>1, <1>3 DEF SubAgents, InRegistry
<1>. QED  BY <1>3, <1>4, <1>5 DEF InRegistry

\* A new agent that nobody lists adds no cycle.
LEMMA NewAgentClear ==
    ASSUME NEW a \in GraphAgents, Acyclic,
           a \notin SubAgents(a)',
           \A b \in GraphAgents \ {a} : SubAgents(b)' = SubAgents(b) /\ a \notin SubAgents(b)
    PROVE  Acyclic'
<1> SUFFICES ASSUME NEW set \in (SUBSET GraphAgents) \ {{}}
             PROVE  \E b \in set : SubAgents(b)' \cap set = {}
  BY DEF Acyclic
<1>1. CASE set = {a}
  BY <1>1
<1>2. CASE set # {a}
  <2>1. set \ {a} \in (SUBSET GraphAgents) \ {{}}
    BY <1>2
  <2>2. PICK b \in set \ {a} : SubAgents(b) \cap (set \ {a}) = {}
    BY <2>1 DEF Acyclic
  <2>3. SubAgents(b)' \cap set = {}
    BY <2>2
  <2>. QED  BY <2>3
<1>. QED  BY <1>1, <1>2

\* A new list of an agent adds no cycle when the validator's search finds none.
LEMMA NewListClear ==
    ASSUME NEW a \in GraphAgents, NEW list \in SUBSET GraphAgents, Acyclic,
           list = {} \/ ~HasCycle(a, list),
           \A b \in GraphAgents : SubAgents(b) \subseteq GraphAgents,
           SubAgents(a)' = list,
           \A b \in GraphAgents \ {a} : SubAgents(b)' = SubAgents(b)
    PROVE  Acyclic'
<1> SUFFICES ASSUME NEW set \in (SUBSET GraphAgents) \ {{}},
                    \A b \in set : SubAgents(b)' \cap set # {}
             PROVE  FALSE
  BY DEF Acyclic
<1>1. a \in set
  BY DEF Acyclic
<1>2. list # {}
  BY <1>1
<1> DEFINE g == ProposedGraph(a, list)
           below == Reachable(g, a)
<1>3. /\ DOMAIN g = GraphAgents \cup {NewAgent}
      /\ \A b \in GraphAgents : g[b] = SubAgents(b)'
      /\ g[NewAgent] = {}
  BY GraphAssumption DEF ProposedGraph
<1>4. ~CycleBelow(g, a)
  BY <1>2 DEF HasCycle
<1> HIDE DEF g
<1>5. \A b \in set : g[b] \cap set # {} /\ g[b] \subseteq DOMAIN g
  BY <1>3
<1>6. a \in below
  BY <1>3, ReachableRoot
<1>7. \A b \in set \cap below : g[b] \cap (set \cap below) # {}
  BY <1>5, ReachableNext
<1>8. Endless(g, set \cap below)
  BY <1>1, <1>6, <1>7 DEF Endless
<1>. QED  BY <1>4, <1>8 DEF CycleBelow

\* The types once the version is written.
LEMMA WrittenTyped ==
    ASSUME GraphTypeOK, NEW a \in GraphAgents, NEW next \in Nat \ {0},
           NEW list \in SUBSET GraphAgents,
           ~ \E v \in lists : v.agent = a /\ v.version = next,
           lists' = lists \cup {[agent |-> a, version |-> next, list |-> list]},
           current' = [current EXCEPT ![a] = next],
           save' \in [Savers -> SaveInFlight \cup {NoSave}], namedAbsent' \in BOOLEAN,
           UNCHANGED <<saves, repointed, savesOverlap>>
    PROVE  GraphTypeOK'
<1> DEFINE new == [agent |-> a, version |-> next, list |-> list]
<1>1. /\ lists' = lists \cup {new} /\ new \in VersionList
      /\ new.agent = a /\ new.version = next
  BY DEF VersionList
<1> HIDE DEF new
<1>2. /\ current' \in [GraphAgents -> Nat] /\ current'[a] = next
      /\ \A b \in GraphAgents \ {a} : current'[b] = current[b]
  BY DEF GraphTypeOK
<1>3. ASSUME NEW b \in GraphAgents, current'[b] # 0
      PROVE  \E v \in lists' : v.agent = b /\ v.version = current'[b]
  <2>1. CASE b = a
    BY <2>1, <1>1, <1>2
  <2>2. CASE b # a
    BY <2>2, <1>1, <1>2, <1>3 DEF GraphTypeOK
  <2>. QED  BY <2>1, <2>2
<1>4. \A v, w \in lists' : v.agent = w.agent /\ v.version = w.version => v = w
  BY <1>1 DEF GraphTypeOK
<1>. QED  BY <1>1, <1>2, <1>3, <1>4 DEF GraphTypeOK

LEMMA WriteSaveKeeps ==
    ASSUME GraphInv, NEW s \in Savers, WriteSave(s)
    PROVE  GraphInv'
<1>0. GraphTypeOK /\ save[s] \in SaveInFlight
  BY DEF GraphInv, GraphTypeOK, WriteSave
<1>1. PICK a \in GraphAgents, list \in SUBSET GraphAgents, next \in Nat \ {0} :
         a = save[s].agent /\ list = save[s].list /\ next = save[s].saw + 1
  BY <1>0 DEF SaveInFlight
<1>2. /\ save[s] # NoSave
      /\ save' = [save EXCEPT ![s] = NoSave]
      /\ namedAbsent' = (namedAbsent \/ \E b \in list : ~InRegistry(b))
      /\ UNCHANGED <<saves, repointed, savesOverlap>>
  BY <1>1 DEF WriteSave
<1> DEFINE exists == \E v \in lists : v.agent = a /\ v.version = next
<1>3. /\ exists => UNCHANGED <<lists, current>>
      /\ ~exists => /\ lists' = lists \cup {[agent |-> a, version |-> next, list |-> list]}
                    /\ current' = [current EXCEPT ![a] = next]
  BY <1>1 DEF WriteSave
<1>4. /\ save' \in [Savers -> SaveInFlight \cup {NoSave}] /\ save'[s] = NoSave
      /\ \A t \in Savers \ {s} : save'[t] = save[t]
  BY <1>0, <1>2 DEF GraphTypeOK
<1>5. SaveIsChecked'
  <2> SUFFICES ASSUME ~savesOverlap, NEW t \in Savers, save'[t] # NoSave PROVE FALSE
    BY <1>2, Zenon DEF SaveIsChecked
  <2>1. \A u \in Savers \ {s} : save[u] = NoSave
    BY <1>2 DEF GraphInv, SaveIsChecked
  <2>. QED  BY <2>1, <1>4
<1>6. CASE exists
  <2>1. UNCHANGED <<lists, current>>
    BY <1>3, <1>6
  <2>2. GraphTypeOK'
    BY <2>1, <1>0, <1>2, <1>4 DEF GraphTypeOK
  <2>3. ListedExist' /\ CheckedGraphAcyclic'
    BY <2>1, <1>2, GraphAlone DEF GraphInv, ListedExist, CheckedGraphAcyclic
  <2>. QED  BY <2>2, <2>3, <1>5 DEF GraphInv
<1>7. CASE ~exists
  <2>1. /\ lists' = lists \cup {[agent |-> a, version |-> next, list |-> list]}
        /\ current' = [current EXCEPT ![a] = next]
    BY <1>3, <1>7
  <2>2. /\ SubAgents(a)' = list /\ InRegistry(a)'
        /\ \A b \in GraphAgents \ {a} :
              SubAgents(b)' = SubAgents(b) /\ InRegistry(b)' = InRegistry(b)
    BY <2>1, <1>0, <1>7, WrittenGraph
  <2>3. GraphTypeOK'
    <3>1. namedAbsent' \in BOOLEAN
      BY <1>2
    <3>2. save' \in [Savers -> SaveInFlight \cup {NoSave}]
      BY <1>4
    <3>3. UNCHANGED <<saves, repointed, savesOverlap>>
      BY <1>2
    <3>4. ~ \E v \in lists : v.agent = a /\ v.version = next
      BY <1>7
    <3>. QED  BY ONLY <3>1, <3>2, <3>3, <3>4, <2>1, <1>0, WrittenTyped
  <2>4. /\ \A b \in GraphAgents : SubAgents(b) \subseteq GraphAgents
        /\ \A b \in GraphAgents : ~InRegistry(b) => SubAgents(b) = {}
    BY <1>0, ListsOf
  <2>5. ~namedAbsent' /\ ~repointed =>
           /\ ~namedAbsent
           /\ \A b \in list : InRegistry(b)
           /\ \A b \in GraphAgents : \A c \in SubAgents(b) : InRegistry(c)
    BY <1>2 DEF GraphInv, ListedExist
  <2>6. ListedExist'
    <3> SUFFICES ASSUME ~namedAbsent', ~repointed,
                        NEW b \in GraphAgents, NEW c \in SubAgents(b)'
                 PROVE  InRegistry(c)'
      BY <1>2 DEF ListedExist
    <3>1. InRegistry(c) /\ c \in GraphAgents
      BY <2>2, <2>4, <2>5
    <3>. QED  BY <3>1, <2>2
  <2>7. CheckedGraphAcyclic'
    <3> SUFFICES ASSUME ~savesOverlap, ~namedAbsent', ~repointed PROVE Acyclic'
      BY <1>2 DEF CheckedGraphAcyclic
    <3>1. Acyclic
      BY <2>5 DEF GraphInv, CheckedGraphAcyclic
    <3>2. CASE ~InRegistry(a)
      <4>1. a \notin list /\ \A b \in GraphAgents : a \notin SubAgents(b)
        BY <3>2, <2>5
      <4>. QED  BY <4>1, <2>2, <3>1, NewAgentClear
    <3>3. CASE InRegistry(a)
      <4>1. save[s].kind = "update"
        BY <3>3, <1>0, <1>1, <1>2 DEF GraphInv, SaveIsChecked, SaveInFlight
      <4>2. list = {} \/ ~HasCycle(a, list)
        BY <4>1, <1>1, <1>2 DEF GraphInv, SaveIsChecked
      <4>. QED  BY <4>2, <2>2, <2>4, <3>1, NewListClear
    <3>. QED  BY <3>2, <3>3
  <2>. QED  BY <2>3, <2>6, <2>7, <1>5 DEF GraphInv
<1>. QED  BY <1>6, <1>7

LEMMA RepointKeeps ==
    ASSUME GraphInv, NEW s \in Savers, NEW a \in GraphAgents, NEW version,
           Repoint(s, a, version)
    PROVE  GraphInv'
<1>1. /\ save[s] = NoSave /\ saves' \in 0 .. MaxSaves
      /\ ~savesOverlap => \A t \in Savers : save[t] = NoSave
  BY MayBeginFacts DEF GraphInv, Repoint
<1>2. /\ current' = [current EXCEPT ![a] = version] /\ repointed'
      /\ UNCHANGED <<lists, save, namedAbsent, savesOverlap>>
  BY DEF Repoint
<1>3. PICK v \in lists : v.agent = a /\ v.version = version
  BY DEF Repoint
<1>4. version \in Nat \ {0}
  BY <1>3 DEF GraphInv, GraphTypeOK, VersionList
<1>5. /\ current' \in [GraphAgents -> Nat] /\ current'[a] = version
      /\ \A b \in GraphAgents \ {a} : current'[b] = current[b]
  BY <1>2, <1>4 DEF GraphInv, GraphTypeOK
<1>6. GraphTypeOK'
  BY <1>1, <1>2, <1>3, <1>5 DEF GraphInv, GraphTypeOK, Repoint
<1>7. SaveIsChecked'
  BY <1>1, <1>2 DEF SaveIsChecked
<1>8. ListedExist'
  BY <1>2 DEF ListedExist
<1>9. CheckedGraphAcyclic'
  BY <1>2 DEF CheckedGraphAcyclic
<1>. QED  BY <1>6, <1>7, <1>8, <1>9 DEF GraphInv
LEMMA DeleteKeeps ==
    ASSUME GraphInv, NEW s \in Savers, NEW a \in GraphAgents, Delete(s, a)
    PROVE  GraphInv'
<1>1. /\ save[s] = NoSave /\ saves' \in 0 .. MaxSaves
      /\ ~savesOverlap => \A t \in Savers : save[t] = NoSave
  BY MayBeginFacts DEF GraphInv, Delete
<1>2. /\ lists' = {v \in lists : v.agent # a} /\ current' = [current EXCEPT ![a] = 0]
      /\ namedAbsent' = (namedAbsent \/ \E b \in GraphAgents \ {a} : a \in SubAgents(b))
      /\ UNCHANGED <<save, repointed, savesOverlap>>
  BY DEF Delete
<1>3. /\ current' \in [GraphAgents -> Nat] /\ current'[a] = 0
      /\ \A b \in GraphAgents \ {a} : current'[b] = current[b]
  BY <1>2 DEF GraphInv, GraphTypeOK
<1>4. GraphTypeOK'
  <2>1. lists' \subseteq VersionList /\ namedAbsent' \in BOOLEAN
    BY <1>2 DEF GraphInv, GraphTypeOK
  <2>2. ASSUME NEW b \in GraphAgents, current'[b] # 0
        PROVE  \E v \in lists' : v.agent = b /\ v.version = current'[b]
    BY <2>2, <1>2, <1>3 DEF GraphInv, GraphTypeOK
  <2>3. \A v, w \in lists' : v.agent = w.agent /\ v.version = w.version => v = w
    BY <1>2 DEF GraphInv, GraphTypeOK
  <2>. QED  BY <1>1, <1>2, <1>3, <2>1, <2>2, <2>3 DEF GraphInv, GraphTypeOK
<1>5. SubAgents(a)' = {}
  BY <1>2 DEF SubAgents
<1>6. ASSUME NEW b \in GraphAgents \ {a}
      PROVE  SubAgents(b)' = SubAgents(b) /\ InRegistry(b)' = InRegistry(b)
  <2>1. {w \in lists' : w.agent = b /\ w.version = current'[b]}
           = {w \in lists : w.agent = b /\ w.version = current[b]}
    BY <1>2, <1>3
  <2>. QED  BY <2>1, <1>3 DEF SubAgents, InRegistry
<1>7. SaveIsChecked'
  BY <1>1, <1>2 DEF SaveIsChecked
<1>8. ListedExist'
  <2> SUFFICES ASSUME ~namedAbsent', ~repointed,
                      NEW b \in GraphAgents, NEW c \in SubAgents(b)'
               PROVE  InRegistry(c)'
    BY <1>2 DEF ListedExist
  <2>1. b # a /\ c \in SubAgents(b)
    BY <1>5, <1>6
  <2>2. c \in GraphAgents /\ c # a
    BY <2>1, <1>2, ListsOf DEF GraphInv
  <2>. QED  BY <2>1, <2>2, <1>2, <1>6 DEF GraphInv, ListedExist
<1>9. CheckedGraphAcyclic'
  <2> SUFFICES ASSUME Acyclic PROVE Acyclic'
    BY <1>2 DEF GraphInv, CheckedGraphAcyclic
  <2> SUFFICES ASSUME NEW set \in (SUBSET GraphAgents) \ {{}}
               PROVE  \E b \in set : SubAgents(b)' \cap set = {}
    BY DEF Acyclic
  <2>1. CASE a \in set
    BY <2>1, <1>5
  <2>2. CASE a \notin set
    BY <2>2, <1>6 DEF Acyclic
  <2>. QED  BY <2>1, <2>2
<1>. QED  BY <1>4, <1>7, <1>8, <1>9 DEF GraphInv

LEMMA GraphInductive == GraphInv /\ [GraphNext]_graphVars => GraphInv'
<1> SUFFICES ASSUME GraphInv, [GraphNext]_graphVars PROVE GraphInv'
  OBVIOUS
<1>1. ASSUME NEW s \in Savers, NEW a \in GraphAgents, NEW list \in SUBSET GraphAgents,
             CheckNewAgent(s, a, list) \/ CheckNewVersion(s, a, list)
      PROVE  GraphInv'
  BY <1>1, CheckNewAgentKeeps, CheckNewVersionKeeps
<1>2. ASSUME NEW s \in Savers, WriteSave(s) PROVE GraphInv'
  BY <1>2, WriteSaveKeeps
<1>3. ASSUME NEW s \in Savers, NEW a \in GraphAgents, Delete(s, a) PROVE GraphInv'
  BY <1>3, DeleteKeeps
<1>4. ASSUME NEW s \in Savers, NEW a \in GraphAgents, NEW v \in 1 .. MaxSaves,
             Repoint(s, a, v)
      PROVE  GraphInv'
  BY <1>4, RepointKeeps
<1>5. CASE UNCHANGED graphVars
  <2>1. /\ UNCHANGED <<lists, current>>
        /\ UNCHANGED <<save, saves, namedAbsent, repointed, savesOverlap>>
    BY <1>5 DEF graphVars
  <2>2. GraphTypeOK'
    BY <2>1 DEF GraphInv, GraphTypeOK
  <2>3. SaveIsChecked'
    BY <2>1, GraphAlone, Zenon DEF GraphInv, SaveIsChecked
  <2>4. ListedExist' /\ CheckedGraphAcyclic'
    BY <2>1, GraphAlone DEF GraphInv, ListedExist, CheckedGraphAcyclic
  <2>. QED  BY <2>2, <2>3, <2>4 DEF GraphInv
<1>. QED  BY <1>1, <1>2, <1>3, <1>4, <1>5 DEF GraphNext

\* Types: the agents' current versions exist, and no two items of the versions table have
\* the same key, whatever changes overlap.
THEOREM GraphTypes == GraphSpec => []GraphTypeOK
<1>1. GraphInv => GraphTypeOK
  BY DEF GraphInv
<1>. QED  BY <1>1, GraphInitial, GraphInductive, PTL DEF GraphSpec

\* R12, CheckedGraphAcyclic: for any number of agents and of changes one at a time, the
\* check of create_agent and _create_new_version keeps the graph of the current versions
\* free of cycles, through deletes, until an agent that does not exist is listed or a
\* project's rollback points an agent back.
THEOREM GraphStaysAcyclic == GraphSpec => []CheckedGraphAcyclic
<1>1. GraphInv => CheckedGraphAcyclic
  BY DEF GraphInv
<1>. QED  BY <1>1, GraphInitial, GraphInductive, PTL DEF GraphSpec
============================================================================
