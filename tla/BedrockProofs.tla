---------------------------- MODULE BedrockProofs ---------------------------
(***************************************************************************)
(* Proofs about what the Factory keeps in Bedrock, for every set of        *)
(* documents, requests and policies: KnowledgeBase (documents, scans and   *)
(* ingestion jobs) and GuardrailPolicy (policies and their Bedrock         *)
(* guardrails).                                                            *)
(***************************************************************************)
EXTENDS KnowledgeBase, GuardrailPolicy, FiniteSetTheorems,
        WellFoundedInduction, TLAPS

-----------------------------------------------------------------------------
(***************************************************************************)
(* KnowledgeBase: only scanned documents are retrieved, whatever overlaps, *)
(* and one ingestion job runs at a time when requests do not overlap. What *)
(* is to be ruled out is a write between a scan and the job it lets start. *)
(***************************************************************************)

(***************************************************************************)
(* Types: a request that goes on with what it read has read an item.       *)
(***************************************************************************)
KbHandler ==
    [at : HandlerStates, saw : KbItem \cup {NoKb}, files : SUBSET Documents, stored : Nat,
     patch : Patch \cup {NoPatch}, item : KbItem \cup {NoKb}]

KbPlaced(x) ==
    /\ x.at \in {"upload", "deleteObject"} => x.saw \in KbItem
    /\ x.at \in {"reread", "put"} => x.patch \in Patch
    /\ x.at = "put" => x.item \in KbItem

KbTyped ==
    /\ kb \in KbItem \cup {NoKb}
    /\ bucket \in [Documents -> Content]
    /\ bedrock \in BOOLEAN
    /\ index \in [Documents -> Content]
    /\ jobs \in Seq(JobStatus)
    /\ kbRequest \in [KbRequests -> KbHandler]
    /\ \A r \in KbRequests : KbPlaced(kbRequest[r])
    /\ truncated \in BOOLEAN
    /\ kbMode \in {"serial", "settled"}

\* A step of a request replaces its record by x.
KbBecomes(r, x) ==
    /\ x \in KbHandler /\ KbPlaced(x)
    /\ kbRequest' = [kbRequest EXCEPT ![r] = x]

Finished == [IdleHandler EXCEPT !.at = "done"]

Reading(state, files) == [IdleHandler EXCEPT !.at = state, !.saw = kb, !.files = files]

Storing(patch) == [IdleHandler EXCEPT !.at = "reread", !.patch = patch]

-----------------------------------------------------------------------------
(* The records a request may leave *)

LEMMA KbHandlers ==
  /\ IdleHandler \in KbHandler /\ IdleHandler.at = "idle" /\ KbPlaced(IdleHandler)
  /\ Finished \in KbHandler /\ Finished.at = "done" /\ KbPlaced(Finished)
BY DEF IdleHandler, Finished, KbHandler, HandlerStates, KbPlaced, NoKb, NoPatch

LEMMA KbEnds ==
  ASSUME NEW r \in KbRequests, Ends(r)
  PROVE  KbBecomes(r, Finished)
BY KbHandlers DEF Ends, Finished, KbBecomes

LEMMA KbStores ==
  ASSUME NEW r \in KbRequests, NEW patch \in Patch, Stores(r, patch)
  PROVE  /\ KbBecomes(r, Storing(patch))
         /\ Storing(patch).at = "reread" /\ Storing(patch).patch = patch
<1>1. /\ Storing(patch) \in KbHandler
      /\ Storing(patch).at = "reread" /\ Storing(patch).patch = patch
  BY DEF Storing, IdleHandler, KbHandler, HandlerStates
<1> QED BY <1>1 DEF Stores, KbBecomes, KbPlaced, Storing

LEMMA KbStarts ==
  ASSUME KbTyped, NEW r \in KbRequests, NEW state \in HandlerStates \ {"put", "reread"},
         NEW files \in SUBSET Documents, kb # NoKb, Starts(r, state, files)
  PROVE  /\ KbBecomes(r, Reading(state, files))
         /\ Reading(state, files).at = state /\ Reading(state, files).saw = kb
         /\ Reading(state, files).files = files
<1>1. /\ Reading(state, files) \in KbHandler
      /\ Reading(state, files).at = state /\ Reading(state, files).saw = kb
      /\ Reading(state, files).files = files
  BY DEF Reading, IdleHandler, KbHandler, HandlerStates, KbTyped
<1> QED BY <1>1 DEF Starts, KbBecomes, KbPlaced, Reading, KbTyped

\* A request that goes on with the fields it has.
LEMMA KbGoes ==
  ASSUME KbTyped, NEW r \in KbRequests,
         NEW state \in HandlerStates \ {"upload", "deleteObject", "reread", "put"},
         Goes(r, state)
  PROVE  \E x : /\ KbBecomes(r, x) /\ x.at = state
                /\ x.files = kbRequest[r].files /\ x.saw = kbRequest[r].saw
<1> DEFINE x == [kbRequest[r] EXCEPT !.at = state]
<1>1. kbRequest[r] \in KbHandler
  BY DEF KbTyped
<1>2. x \in KbHandler /\ x.at = state /\ x.files = kbRequest[r].files /\ x.saw = kbRequest[r].saw
  BY <1>1 DEF KbHandler
<1>3. kbRequest' = [kbRequest EXCEPT ![r] = x]
  BY DEF Goes, KbTyped
<1> QED BY <1>2, <1>3 DEF KbBecomes, KbPlaced

LEMMA KbBecomesKeeps ==
  ASSUME KbTyped, NEW r \in KbRequests, NEW x, KbBecomes(r, x)
  PROVE  /\ kbRequest' \in [KbRequests -> KbHandler]
         /\ \A q \in KbRequests : KbPlaced(kbRequest'[q])
         /\ kbRequest'[r] = x
         /\ \A q \in KbRequests \ {r} : kbRequest'[q] = kbRequest[q]
BY DEF KbTyped, KbBecomes

-----------------------------------------------------------------------------
(***************************************************************************)
(* The gate in front of the index: past a listing that shows every object, *)
(* what the scan would still reject is on its list; past the scan, and     *)
(* while a job runs, there is nothing of the kind.                         *)
(***************************************************************************)
Poisoned(objects) == {d \in Documents : objects[d] = "poisoned"}

Gate(x, objects) ==
    /\ x.at \in {"scan", "copy", "remove"} => Poisoned(objects) \subseteq x.files
    /\ x.at = "startSync" => Poisoned(objects) = {}

IndexGate ==
    kbMode = "settled" /\ ~truncated =>
        /\ Poisoned(index) = {}
        /\ JobRuns => Poisoned(bucket) = {}
        /\ \A r \in KbRequests : Gate(kbRequest[r], bucket)

(***************************************************************************)
(* The lock: one request at a time, a job that runs is the last started,   *)
(* and its record says so, is about to, or is gone.                        *)
(***************************************************************************)
Locks(x) ==
    /\ x.at \in {"reread", "put"}
    /\ x.patch.field = "syncStatus" /\ x.patch.value = "IN_PROGRESS"

Unlocks(x) ==
    /\ x.at \in {"reread", "put"}
    /\ x.patch.field = "syncStatus" /\ x.patch.value # "IN_PROGRESS"

LastJobRuns == \A j \in DOMAIN jobs : jobs[j] = "RUNNING" => j = Len(jobs)

RecordLocked == kb = NoKb \/ kb.syncStatus = "IN_PROGRESS"

SyncLock ==
    kbMode = "serial" =>
        /\ \A q, r \in KbRequests : KbBusy(q) /\ KbBusy(r) => q = r
        /\ (\A r \in KbRequests : KbAt(r, "idle")) => jobs = << >>
        /\ \A r \in KbRequests : KbAt(r, "put") => kbRequest[r].item = kb
        /\ LastJobRuns
        /\ JobRuns =>
              /\ RecordLocked \/ \E r \in KbRequests : Locks(kbRequest[r])
              /\ \A r \in KbRequests :
                    kbRequest[r].at \notin SyncHandlerStates /\ ~Unlocks(kbRequest[r])

KbInv == KbTyped /\ IndexGate /\ SyncLock

-----------------------------------------------------------------------------
(* What a step of one request has to keep *)

LEMMA GateStep ==
  ASSUME KbTyped, IndexGate, NEW r \in KbRequests, NEW x, KbBecomes(r, x),
         UNCHANGED kbMode, truncated => truncated', Poisoned(bucket') \subseteq Poisoned(bucket),
         kbMode = "settled" /\ ~truncated' =>
            /\ Poisoned(index') = {}
            /\ JobRuns' => JobRuns \/ Poisoned(bucket') = {}
            /\ Gate(x, bucket')
  PROVE  IndexGate'
<1> SUFFICES ASSUME kbMode = "settled", ~truncated'
             PROVE  /\ Poisoned(index') = {}
                    /\ JobRuns' => Poisoned(bucket') = {}
                    /\ \A q \in KbRequests : Gate(kbRequest'[q], bucket')
  BY DEF IndexGate, Poisoned, Gate
<1>1. JobRuns' => Poisoned(bucket') = {}
  BY DEF IndexGate
<1>2. ASSUME NEW q \in KbRequests PROVE Gate(kbRequest'[q], bucket')
  <2>1. CASE q = r
    BY <2>1, KbBecomesKeeps
  <2>2. CASE q # r
    BY <2>2, KbBecomesKeeps DEF IndexGate, Gate
  <2> QED BY <2>1, <2>2
<1> QED BY <1>1, <1>2

LEMMA QuietGate ==
  ASSUME KbTyped, IndexGate, NEW r \in KbRequests, NEW x, KbBecomes(r, x),
         UNCHANGED <<kbMode, truncated, index, jobs>>,
         Poisoned(bucket') \subseteq Poisoned(bucket), Gate(x, bucket')
  PROVE  IndexGate'
BY GateStep DEF IndexGate, JobRuns

\* In serial mode the request that moves is the only one under way.
LEMMA Alone ==
  ASSUME SyncLock, kbMode = "serial", NEW r \in KbRequests, KbBusy(r) \/ MayStart(r)
  PROVE  \A q \in KbRequests \ {r} : ~KbBusy(q)
BY DEF SyncLock, MayStart

LEMMA LockStep ==
  ASSUME KbTyped, SyncLock, NEW r \in KbRequests, NEW x, KbBecomes(r, x), x.at # "idle",
         KbBusy(r) \/ MayStart(r), UNCHANGED kbMode,
         kbMode = "serial" =>
            /\ x.at = "put" => x.item = kb'
            /\ LastJobRuns'
            /\ JobRuns' => /\ RecordLocked' \/ Locks(x)
                           /\ x.at \notin SyncHandlerStates /\ ~Unlocks(x)
  PROVE  SyncLock'
<1> SUFFICES ASSUME kbMode = "serial" PROVE SyncLock'
  BY DEF SyncLock
<1>1. /\ kbRequest'[r] = x
      /\ \A q \in KbRequests \ {r} : kbRequest'[q] = kbRequest[q]
  BY KbBecomesKeeps
<1>2. \A q \in KbRequests \ {r} : kbRequest'[q].at \in {"idle", "done"}
  BY <1>1, Alone DEF KbBusy
<1>3. \A p, q \in KbRequests : KbBusy(p)' /\ KbBusy(q)' => p = q
  BY <1>2 DEF KbBusy
<1>4. ~\A q \in KbRequests : KbAt(q, "idle")'
  BY <1>1 DEF KbAt
<1>5. \A q \in KbRequests : KbAt(q, "put")' => kbRequest'[q].item = kb'
  BY <1>1, <1>2 DEF KbAt
<1>6. ASSUME JobRuns'
      PROVE  /\ RecordLocked' \/ \E q \in KbRequests : Locks(kbRequest[q])'
             /\ \A q \in KbRequests :
                   kbRequest'[q].at \notin SyncHandlerStates /\ ~Unlocks(kbRequest[q])'
  BY <1>1, <1>2, <1>6 DEF SyncHandlerStates, Unlocks, Locks
<1> QED BY <1>3, <1>4, <1>5, <1>6 DEF SyncLock

LEMMA QuietLock ==
  ASSUME KbTyped, SyncLock, NEW r \in KbRequests, NEW x, KbBecomes(r, x),
         x.at \notin {"idle", "put"},
         KbBusy(r) \/ MayStart(r), UNCHANGED <<kb, jobs, kbMode>>,
         kbRequest[r].at \notin {"reread", "put"},
         x.at \in SyncHandlerStates => kbRequest[r].at \in SyncHandlerStates,
         x.at = "reread" => x.patch.field # "syncStatus"
  PROVE  SyncLock'
<1>1. kbMode = "serial" => LastJobRuns'
  BY DEF SyncLock, LastJobRuns
<1>2. ASSUME kbMode = "serial", JobRuns'
      PROVE  RecordLocked' /\ x.at \notin SyncHandlerStates /\ ~Unlocks(x)
  <2>1. JobRuns
    BY <1>2 DEF JobRuns
  <2>2. \A q \in KbRequests : ~Locks(kbRequest[q])
    BY <1>2, Alone DEF Locks, KbBusy
  <2> QED BY <1>2, <2>1, <2>2 DEF SyncLock, RecordLocked, Unlocks
<1> QED BY <1>1, <1>2, LockStep

\* A step that changes the item, the objects and the handler's record at most.
LEMMA KbTypedStep ==
  ASSUME KbTyped, NEW r \in KbRequests, NEW x, KbBecomes(r, x),
         UNCHANGED <<bedrock, index, jobs, truncated, kbMode>>,
         kb' \in KbItem \cup {NoKb}, bucket' \in [Documents -> Content]
  PROVE  KbTyped'
<1>1. /\ kbRequest' \in [KbRequests -> KbHandler]
      /\ \A q \in KbRequests : KbPlaced(kbRequest'[q])
  BY KbBecomesKeeps
<1> QED BY <1>1 DEF KbTyped, KbPlaced

\* A request that ends, or that goes on outside the sync, leaves the rest alone.
LEMMA KbQuietStep ==
  ASSUME KbInv, NEW r \in KbRequests, NEW x, KbBecomes(r, x),
         UNCHANGED <<kb, bedrock, index, jobs, truncated, kbMode>>,
         bucket' \in [Documents -> Content], Poisoned(bucket') \subseteq Poisoned(bucket),
         KbBusy(r) \/ MayStart(r),
         kbRequest[r].at \notin {"reread", "put"},
         x.at \notin {"idle", "put"} \cup SyncHandlerStates,
         x.at = "reread" => x.patch.field # "syncStatus"
  PROVE  KbInv'
<1>1. KbTyped'
  BY KbTypedStep DEF KbInv, KbTyped
<1>2. IndexGate'
  BY QuietGate DEF KbInv, Gate, SyncHandlerStates
<1>3. SyncLock'
  BY QuietLock DEF KbInv
<1> QED BY <1>1, <1>2, <1>3 DEF KbInv

-----------------------------------------------------------------------------
(* Requests outside the sync *)

LEMMA ReadDocumentsKeeps ==
  ASSUME KbInv, NEW r \in KbRequests, StartUpload(r) \/ StartDeleteDocument(r) \/ StartDeleteKb(r)
  PROVE  KbInv'
<1>1. PICK state \in {"upload", "deleteObject", "refs"}, files \in SUBSET Documents :
         kb # NoKb /\ MayStart(r) /\ Starts(r, state, files)
  BY DEF StartUpload, StartDeleteDocument, StartDeleteKb, Provisioned
<1>2. UNCHANGED <<kb, bucket, bedrock, index, jobs, truncated, kbMode>>
  BY DEF StartUpload, StartDeleteDocument, StartDeleteKb
<1>3. kbRequest[r].at = "idle"
  BY <1>1 DEF MayStart, KbAt
<1>4. /\ KbBecomes(r, Reading(state, files)) /\ Reading(state, files).at = state
  BY <1>1, KbStarts DEF KbInv, HandlerStates
<1>5. bucket' \in [Documents -> Content]
  BY <1>2 DEF KbInv, KbTyped
<1> QED BY <1>1, <1>2, <1>3, <1>4, <1>5, KbQuietStep DEF SyncHandlerStates, Poisoned

\* A step that leaves to its request only the end, whatever it made of the bucket.
LEMMA KbEndKeeps ==
  ASSUME KbInv, NEW r \in KbRequests, Ends(r), KbBusy(r) \/ MayStart(r),
         kbRequest[r].at \notin {"reread", "put"},
         UNCHANGED <<kb, bucket, bedrock, index, jobs, truncated, kbMode>>
  PROVE  KbInv'
<1>1. KbBecomes(r, Finished) /\ Finished.at = "done"
  BY KbEnds, KbHandlers
<1>2. bucket' \in [Documents -> Content]
  BY DEF KbInv, KbTyped
<1> QED BY <1>1, <1>2, KbQuietStep DEF SyncHandlerStates, Poisoned

LEMMA UploadFileKeeps ==
  ASSUME KbInv, NEW r \in KbRequests, UploadFile(r)
  PROVE  KbInv'
<1> DEFINE d == Min(kbRequest[r].files)
           rest == kbRequest[r].files \ {d}
           x == [kbRequest[r] EXCEPT !.files = rest, !.stored = kbRequest[r].stored + 1]
           y == [kbRequest[r] EXCEPT !.files = rest]
<1>1. /\ kbRequest[r] \in KbHandler /\ KbPlaced(kbRequest[r])
      /\ kbRequest[r].at = "upload" /\ KbBusy(r)
  BY DEF KbInv, KbTyped, UploadFile, KbAt, KbBusy
<1>2. UNCHANGED <<kb, bedrock, index, jobs, truncated, kbMode>>
  BY DEF UploadFile
<1>3. CASE /\ bucket' = [bucket EXCEPT ![d] = "clean"]
           /\ kbRequest' = [kbRequest EXCEPT ![r].files = @ \ {d}, ![r].stored = @ + 1]
  <2>1. x \in KbHandler /\ x.at = "upload" /\ x.saw = kbRequest[r].saw
    <3> DEFINE n == kbRequest[r].stored + 1
    <3>1. rest \in SUBSET Documents /\ n \in Nat
      BY <1>1 DEF KbHandler
    <3>2. x = [y EXCEPT !.stored = n]
      OBVIOUS
    <3>3. y \in KbHandler /\ y.at = "upload" /\ y.saw = kbRequest[r].saw
      BY <1>1, <3>1 DEF KbHandler
    <3> HIDE DEF x, y, n
    <3> QED BY <3>1, <3>2, <3>3 DEF KbHandler
  <2>2. kbRequest' = [kbRequest EXCEPT ![r] = x]
    BY <1>3 DEF KbInv, KbTyped
  <2>3. KbBecomes(r, x)
    BY <1>1, <2>1, <2>2 DEF KbBecomes, KbPlaced
  <2>4. bucket' \in [Documents -> Content] /\ Poisoned(bucket') \subseteq Poisoned(bucket)
    BY <1>3 DEF KbInv, KbTyped, Content, Poisoned
  <2> HIDE DEF x, d
  <2> QED BY <1>1, <1>2, <2>1, <2>3, <2>4, KbQuietStep DEF SyncHandlerStates
<1>4. CASE kbRequest' = [kbRequest EXCEPT ![r].files = @ \ {d}] /\ UNCHANGED bucket
  <2>1. y \in KbHandler /\ y.at = "upload" /\ y.saw = kbRequest[r].saw
    BY <1>1 DEF KbHandler
  <2>2. kbRequest' = [kbRequest EXCEPT ![r] = y]
    BY <1>4 DEF KbInv, KbTyped
  <2>3. KbBecomes(r, y)
    BY <1>1, <2>1, <2>2 DEF KbBecomes, KbPlaced
  <2>4. bucket' \in [Documents -> Content] /\ Poisoned(bucket') \subseteq Poisoned(bucket)
    BY <1>4 DEF KbInv, KbTyped, Poisoned
  <2> HIDE DEF y, d
  <2> QED BY <1>1, <1>2, <2>1, <2>3, <2>4, KbQuietStep DEF SyncHandlerStates
<1>5. CASE Ends(r) /\ UNCHANGED bucket
  BY <1>1, <1>2, <1>5, KbEndKeeps
<1> QED BY <1>3, <1>4, <1>5 DEF UploadFile

\* What is stored without touching sync_status.
LEMMA KbStoreKeeps ==
  ASSUME KbInv, NEW r \in KbRequests, NEW patch \in Patch, Stores(r, patch),
         patch.field # "syncStatus",
         KbBusy(r) \/ MayStart(r), kbRequest[r].at \notin {"reread", "put"},
         bucket' \in [Documents -> Content], Poisoned(bucket') \subseteq Poisoned(bucket),
         UNCHANGED <<kb, bedrock, index, jobs, truncated, kbMode>>
  PROVE  KbInv'
<1>1. /\ KbBecomes(r, Storing(patch))
      /\ Storing(patch).at = "reread" /\ Storing(patch).patch = patch
  BY KbStores
<1> QED BY <1>1, KbQuietStep DEF SyncHandlerStates

LEMMA DocumentPatch ==
  ASSUME NEW n \in Nat
  PROVE  /\ [field |-> "documentCount", value |-> n] \in Patch
         /\ [field |-> "documentCount", value |-> n].field # "syncStatus"
BY DEF Patch

LEMMA CountStoredKeeps ==
  ASSUME KbInv, NEW r \in KbRequests, FinishUpload(r) \/ DeleteObject(r)
  PROVE  KbInv'
<1>1. /\ kbRequest[r].saw \in KbItem /\ kbRequest[r].stored \in Nat
      /\ kbRequest[r].at \in {"upload", "deleteObject"}
  <2>1. kbRequest[r].at \in {"upload", "deleteObject"}
    BY DEF FinishUpload, DeleteObject, KbAt
  <2> QED BY <2>1 DEF KbInv, KbTyped, KbPlaced, KbHandler
<1>2. kbRequest[r].saw.documentCount \in Nat
  BY <1>1 DEF KbItem
<1>3. PICK n \in Nat : Stores(r, [field |-> "documentCount", value |-> n])
  <2>1. CASE FinishUpload(r)
    BY <1>1, <1>2, <2>1 DEF FinishUpload
  <2>2. CASE DeleteObject(r)
    <3> DEFINE count == kbRequest[r].saw.documentCount
    <3>1. (IF count = 0 THEN 0 ELSE count - 1) \in Nat
      BY <1>2
    <3> QED BY <2>2, <3>1 DEF DeleteObject
  <2> QED BY <2>1, <2>2
<1>4. /\ bucket' \in [Documents -> Content] /\ Poisoned(bucket') \subseteq Poisoned(bucket)
      /\ UNCHANGED <<kb, bedrock, index, jobs, truncated, kbMode>>
  BY DEF FinishUpload, DeleteObject, KbInv, KbTyped, Poisoned, Content
<1> QED BY <1>1, <1>3, <1>4, KbStoreKeeps, DocumentPatch DEF KbBusy

LEMMA ReindexKeeps ==
  ASSUME KbInv, NEW r \in KbRequests, Reindex(r)
  PROVE  KbInv'
<1>1. /\ [field |-> "status", value |-> "INDEXING"] \in Patch
      /\ [field |-> "status", value |-> "INDEXING"].field # "syncStatus"
  BY DEF Patch
<1>2. kbRequest[r].at = "idle" /\ bucket' \in [Documents -> Content]
  BY DEF Reindex, MayStart, KbAt, KbInv, KbTyped
<1> QED BY <1>1, <1>2, KbStoreKeeps DEF Reindex, Poisoned

\* A step of a request that goes on without writing anything.
LEMMA KbGoesKeeps ==
  ASSUME KbInv, NEW r \in KbRequests, NEW state \in {"deprovision", "emptyPrefix", "deleteItem"},
         Goes(r, state), KbBusy(r), kbRequest[r].at \notin {"reread", "put"},
         bucket' \in [Documents -> Content], Poisoned(bucket') \subseteq Poisoned(bucket),
         UNCHANGED <<kb, bedrock, index, jobs, truncated, kbMode>>
  PROVE  KbInv'
<1>1. PICK x : KbBecomes(r, x) /\ x.at = state
  BY KbGoes DEF KbInv, HandlerStates
<1> QED BY <1>1, KbQuietStep DEF SyncHandlerStates

LEMMA CheckReferencesKeeps ==
  ASSUME KbInv, NEW r \in KbRequests, CheckReferences(r)
  PROVE  KbInv'
<1>1. kbRequest[r].at = "refs" /\ KbBusy(r) /\ bucket' \in [Documents -> Content]
  BY DEF CheckReferences, KbAt, KbBusy, KbInv, KbTyped
<1> QED BY <1>1, KbEndKeeps, KbGoesKeeps DEF CheckReferences, Poisoned

LEMMA EmptyPrefixKeeps ==
  ASSUME KbInv, NEW r \in KbRequests, EmptyPrefix(r)
  PROVE  KbInv'
<1>1. kbRequest[r].at = "emptyPrefix" /\ KbBusy(r)
  BY DEF EmptyPrefix, KbAt, KbBusy
<1>2. bucket' \in [Documents -> Content] /\ Poisoned(bucket') \subseteq Poisoned(bucket)
  BY DEF EmptyPrefix, KbInv, KbTyped, Content, Poisoned
<1>3. UNCHANGED <<kb, bedrock, index, jobs, truncated, kbMode>>
  BY DEF EmptyPrefix
<1>4. CASE Goes(r, "deleteItem")
  BY <1>1, <1>2, <1>3, <1>4, KbGoesKeeps
<1>5. CASE Ends(r) /\ UNCHANGED bucket
  BY <1>1, <1>3, <1>5, KbEndKeeps
<1> QED BY <1>4, <1>5 DEF EmptyPrefix

LEMMA DeprovisionKeeps ==
  ASSUME KbInv, NEW r \in KbRequests, Deprovision(r)
  PROVE  KbInv'
<1>1. kbRequest[r].at = "deprovision" /\ KbBusy(r)
  BY DEF Deprovision, KbAt, KbBusy
<1>2. bucket' \in [Documents -> Content] /\ Poisoned(bucket') \subseteq Poisoned(bucket)
  BY DEF Deprovision, KbInv, KbTyped, Content, Poisoned
<1>3. CASE UNCHANGED <<bedrock, index, jobs>>
  BY <1>1, <1>2, <1>3, KbGoesKeeps DEF Deprovision
<1>4. CASE /\ bedrock' = FALSE
           /\ index' = [d \in Documents |-> "none"]
           /\ jobs' = [j \in DOMAIN jobs |-> IF jobs[j] = "RUNNING" THEN "FAILED" ELSE jobs[j]]
  <2>1. PICK x : KbBecomes(r, x) /\ x.at = "emptyPrefix"
    BY KbGoes DEF KbInv, HandlerStates, Deprovision
  <2>2. UNCHANGED <<kb, bucket, truncated, kbMode>>
    BY DEF Deprovision
  <2>3. jobs' \in Seq(JobStatus) /\ \A j \in DOMAIN jobs' : jobs'[j] # "RUNNING"
    BY <1>4 DEF KbInv, KbTyped, JobStatus
  <2>4. ~JobRuns' /\ LastJobRuns'
    BY <2>3 DEF JobRuns, LastJobRuns
  <2>5. index' \in [Documents -> Content] /\ Poisoned(index') = {}
    BY <1>4 DEF Poisoned, Content
  <2>6. KbTyped'
    BY <1>4, <2>1, <2>2, <2>3, <2>5, KbBecomesKeeps DEF KbInv, KbTyped, KbPlaced
  <2>7. IndexGate'
    BY <1>2, <2>1, <2>2, <2>4, <2>5, GateStep DEF KbInv, Gate
  <2>8. SyncLock'
    BY <1>1, <2>1, <2>2, <2>4, LockStep DEF KbInv
  <2> QED BY <2>6, <2>7, <2>8 DEF KbInv
<1> QED BY <1>3, <1>4 DEF Deprovision

LEMMA DeleteItemKeeps ==
  ASSUME KbInv, NEW r \in KbRequests, DeleteItem(r)
  PROVE  KbInv'
<1>1. KbBecomes(r, Finished) /\ Finished.at = "done" /\ KbBusy(r)
  BY KbEnds, KbHandlers DEF DeleteItem, KbAt, KbBusy
<1>2. kb' = NoKb /\ UNCHANGED <<bucket, bedrock, index, jobs, truncated, kbMode>>
  BY DEF DeleteItem
<1>3. KbTyped'
  BY <1>1, <1>2, KbTypedStep DEF KbInv, KbTyped
<1>4. IndexGate'
  BY <1>1, <1>2, QuietGate DEF KbInv, Gate
<1>5. kbMode = "serial" => LastJobRuns'
  BY <1>2 DEF KbInv, SyncLock, LastJobRuns
<1>6. RecordLocked' /\ ~Unlocks(Finished) /\ Finished.at \notin SyncHandlerStates
  BY <1>1, <1>2 DEF RecordLocked, Unlocks, SyncHandlerStates
<1>7. SyncLock'
  BY <1>1, <1>2, <1>5, <1>6, LockStep DEF KbInv
<1> QED BY <1>3, <1>4, <1>7 DEF KbInv

-----------------------------------------------------------------------------
(* The sync *)

\* Between its listing and its job the sync keeps the gate and holds no lock yet.
LEMMA SyncStep ==
  ASSUME KbInv, NEW r \in KbRequests, NEW x, KbBecomes(r, x),
         UNCHANGED <<kb, bedrock, index, jobs, kbMode>>,
         truncated' \in BOOLEAN, truncated => truncated',
         bucket' \in [Documents -> Content], Poisoned(bucket') \subseteq Poisoned(bucket),
         kbRequest[r].at \in SyncHandlerStates,
         x.at \in SyncHandlerStates \cup {"done"},
         kbMode = "settled" /\ ~truncated' => Gate(x, bucket')
  PROVE  KbInv'
<1>1. KbBusy(r) /\ kbRequest[r].at \notin {"reread", "put"}
  BY DEF KbBusy, SyncHandlerStates
<1>2. x.at \notin {"idle", "put", "reread"}
  BY DEF SyncHandlerStates
<1>3. KbTyped'
  BY KbBecomesKeeps DEF KbInv, KbTyped, KbPlaced
<1>4. SyncLock'
  BY <1>1, <1>2, QuietLock DEF KbInv
<1>5. IndexGate'
  BY GateStep DEF KbInv, IndexGate, JobRuns
<1> QED BY <1>3, <1>4, <1>5 DEF KbInv

LEMMA StartSyncKeeps ==
  ASSUME KbInv, NEW r \in KbRequests, StartSync(r)
  PROVE  KbInv'
<1> DEFINE x == Reading("list", {})
<1>1. KbBecomes(r, x) /\ x.at = "list"
  BY KbStarts DEF StartSync, Provisioned, KbInv, HandlerStates
<1>2. UNCHANGED <<kb, bucket, bedrock, index, jobs, truncated, kbMode>>
  BY DEF StartSync
<1>3. KbTyped'
  BY <1>1, <1>2, KbTypedStep DEF KbInv, KbTyped
<1>4. IndexGate'
  BY <1>1, <1>2, QuietGate DEF KbInv, Gate
<1> HIDE DEF x
<1>5. ASSUME kbMode = "serial" PROVE ~JobRuns' /\ LastJobRuns'
  <2>1. \A q \in KbRequests : ~KbBusy(q)
    BY <1>5 DEF StartSync, MayStart
  <2>2. ~RecordLocked
    BY DEF StartSync, Provisioned, RecordLocked
  <2>3. ~JobRuns
    BY <1>5, <2>1, <2>2 DEF KbInv, SyncLock, Locks, KbBusy
  <2> QED BY <1>2, <1>5, <2>3 DEF KbInv, SyncLock, JobRuns, LastJobRuns
<1>6. SyncLock'
  BY <1>1, <1>2, <1>5, LockStep DEF KbInv, StartSync
<1> QED BY <1>3, <1>4, <1>6 DEF KbInv

LEMMA ListDocumentsKeeps ==
  ASSUME KbInv, NEW r \in KbRequests, ListDocuments(r)
  PROVE  KbInv'
<1> DEFINE x == [kbRequest[r] EXCEPT !.at = "scan", !.files = FirstPage]
<1>1. kbRequest[r] \in KbHandler /\ kbRequest[r].at = "list"
  BY DEF KbInv, KbTyped, ListDocuments, KbAt
<1>2. FirstPage \subseteq Documents
  BY DEF FirstPage, Objects
<1>3. x \in KbHandler /\ x.at = "scan" /\ x.files = FirstPage
  <2> DEFINE page == FirstPage
  <2>1. page \in SUBSET Documents
    BY <1>2
  <2> HIDE DEF page
  <2>2. x = [kbRequest[r] EXCEPT !.at = "scan", !.files = page]
    BY DEF page
  <2>3. page = FirstPage
    BY DEF page
  <2> HIDE DEF x
  <2> QED BY <1>1, <2>1, <2>2, <2>3 DEF KbHandler, HandlerStates
<1>4. kbRequest' = [kbRequest EXCEPT ![r] = x]
  BY DEF ListDocuments, KbInv, KbTyped
<1>5. KbBecomes(r, x)
  BY <1>3, <1>4 DEF KbBecomes, KbPlaced
<1>6. ASSUME ~truncated' PROVE Gate(x, bucket')
  <2>1. FirstPage = Objects /\ bucket' = bucket
    BY <1>6 DEF ListDocuments
  <2> QED BY <1>3, <2>1 DEF Gate, Poisoned, Objects
<1> HIDE DEF x
<1>7. truncated' \in BOOLEAN /\ (truncated => truncated')
  BY DEF ListDocuments, KbInv, KbTyped
<1>8. UNCHANGED <<kb, bucket, bedrock, index, jobs, kbMode>> /\ bucket \in [Documents -> Content]
  BY DEF ListDocuments, KbInv, KbTyped
<1> QED BY <1>1, <1>3, <1>5, <1>6, <1>7, <1>8, SyncStep DEF SyncHandlerStates, Poisoned

\* The scan goes on to the next object when this one is gone from the list and
\* would not be rejected.
LEMMA NextDocument ==
  ASSUME KbInv, NEW r \in KbRequests, NEW d, NEW x \in KbHandler,
         kbRequest[r].at \in {"scan", "remove"},
         x.at = "scan", x.files = kbRequest[r].files \ {d},
         kbRequest' = [kbRequest EXCEPT ![r] = x],
         bucket' \in [Documents -> Content], Poisoned(bucket') \subseteq Poisoned(bucket) \ {d},
         UNCHANGED <<kb, bedrock, index, jobs, truncated, kbMode>>
  PROVE  KbInv'
<1>1. KbBecomes(r, x)
  BY DEF KbBecomes, KbPlaced
<1>2. ASSUME kbMode = "settled", ~truncated' PROVE Gate(x, bucket')
  <2>1. Poisoned(bucket) \subseteq kbRequest[r].files
    BY <1>2 DEF KbInv, IndexGate, Gate
  <2> QED BY <2>1 DEF Gate
<1>3. truncated' \in BOOLEAN
  BY DEF KbInv, KbTyped
<1> QED BY <1>1, <1>2, <1>3, SyncStep DEF SyncHandlerStates

LEMMA Shortened ==
  ASSUME NEW x \in KbHandler, NEW d
  PROVE  /\ [x EXCEPT !.files = x.files \ {d}] \in KbHandler
         /\ [x EXCEPT !.files = x.files \ {d}].at = x.at
         /\ [x EXCEPT !.files = x.files \ {d}].files = x.files \ {d}
<1> DEFINE rest == x.files \ {d}
<1>1. rest \in SUBSET Documents
  BY DEF KbHandler
<1>2. rest = x.files \ {d}
  OBVIOUS
<1> HIDE DEF rest
<1>3. [x EXCEPT !.files = rest] \in KbHandler /\ [x EXCEPT !.files = rest].at = x.at
      /\ [x EXCEPT !.files = rest].files = rest
  BY <1>1 DEF KbHandler
<1> QED BY <1>2, <1>3

\* The sync goes on to its next step with the same objects on its list.
LEMMA SyncGoes ==
  ASSUME KbInv, NEW r \in KbRequests, NEW state \in {"scan", "copy", "remove", "startSync"},
         Goes(r, state), kbRequest[r].at \in {"scan", "copy"},
         state = "startSync" => kbRequest[r].files = {},
         UNCHANGED <<kb, bucket, bedrock, index, jobs, truncated, kbMode>>
  PROVE  KbInv'
<1>1. PICK x : KbBecomes(r, x) /\ x.at = state /\ x.files = kbRequest[r].files
  BY KbGoes DEF KbInv, HandlerStates
<1>2. kbMode = "settled" /\ ~truncated' => Gate(x, bucket')
  BY <1>1 DEF KbInv, IndexGate, Gate
<1>3. /\ truncated' \in BOOLEAN /\ bucket' \in [Documents -> Content]
      /\ Poisoned(bucket') \subseteq Poisoned(bucket)
  BY DEF KbInv, KbTyped, Poisoned
<1> QED BY <1>1, <1>2, <1>3, SyncStep DEF SyncHandlerStates

\* What Min of a set of numbers is.
LEMMA LeastMember ==
  ASSUME NEW T \in SUBSET Nat, T # {}
  PROVE  Min(T) \in T /\ \A y \in T : Min(T) <= y
<1>1. PICK x \in T : \A y \in T : ~ (<<y, x>> \in OpToRel(<, Nat))
  BY NatLessThanWellFounded, WFMin
<1>2. ASSUME NEW y \in T PROVE x <= y
  <2>1. x \in Nat /\ y \in Nat /\ <<y, x>> \in Nat \X Nat
    OBVIOUS
  <2>2. <<y, x>>[1] = y /\ <<y, x>>[2] = x
    OBVIOUS
  <2>3. ~ (y < x)
    BY <1>1, <2>1, <2>2 DEF OpToRel
  <2> QED BY <2>1, <2>3
<1> QED BY <1>2 DEF Min

LEMMA ScanDocumentKeeps ==
  ASSUME KbInv, NEW r \in KbRequests, ScanDocument(r)
  PROVE  KbInv'
<1>1. PICK d : d = Min(kbRequest[r].files)
  OBVIOUS
<1>2. /\ kbRequest[r].at = "scan" /\ KbBusy(r)
      /\ UNCHANGED <<kb, bucket, bedrock, index, jobs, truncated, kbMode>>
  BY DEF ScanDocument, KbAt, KbBusy
<1>3. \/ Ends(r) \/ Goes(r, "copy")
      \/ /\ bucket[d] = "clean"
         /\ kbRequest' = [kbRequest EXCEPT ![r].files = @ \ {d}]
  <2>1. kbRequest[r].files # {} /\ kbRequest[r].files \subseteq Documents
    BY DEF ScanDocument, KbInv, KbTyped, KbHandler
  <2>2. d \in Documents
    BY <1>1, <2>1, LeastMember, DocumentsAssumption
  <2>3. bucket[d] \in Content
    BY <2>2 DEF KbInv, KbTyped
  <2> QED BY <1>1, <2>3 DEF ScanDocument, Content
<1>4. CASE bucket[d] = "clean" /\ kbRequest' = [kbRequest EXCEPT ![r].files = @ \ {d}]
  <2>1. kbRequest[r] \in KbHandler
    BY DEF KbInv, KbTyped
  <2>2. PICK x : x = [kbRequest[r] EXCEPT !.files = kbRequest[r].files \ {d}]
    OBVIOUS
  <2>3. x \in KbHandler /\ x.at = "scan" /\ x.files = kbRequest[r].files \ {d}
    BY <1>2, <2>1, <2>2, Shortened
  <2>4. kbRequest' = [kbRequest EXCEPT ![r] = x]
    BY <1>4, <2>2 DEF KbInv, KbTyped
  <2>5. bucket' \in [Documents -> Content] /\ Poisoned(bucket') \subseteq Poisoned(bucket) \ {d}
    BY <1>2, <1>4 DEF KbInv, KbTyped, Poisoned
  <2> QED BY <1>2, <2>3, <2>4, <2>5, NextDocument
<1> QED BY <1>2, <1>3, <1>4, KbEndKeeps, SyncGoes

LEMMA CopyAndCompleteKeep ==
  ASSUME KbInv, NEW r \in KbRequests, CopyToQuarantine(r) \/ ScanComplete(r)
  PROVE  KbInv'
<1>1. /\ kbRequest[r].at \in {"scan", "copy"} /\ KbBusy(r)
      /\ UNCHANGED <<kb, bucket, bedrock, index, jobs, truncated, kbMode>>
  BY DEF CopyToQuarantine, ScanComplete, KbAt, KbBusy
<1>2. \/ Ends(r) \/ Goes(r, "remove")
      \/ Goes(r, "startSync") /\ kbRequest[r].files = {}
  BY DEF CopyToQuarantine, ScanComplete
<1> QED BY <1>1, <1>2, KbEndKeeps, SyncGoes

LEMMA RemoveDocumentKeeps ==
  ASSUME KbInv, NEW r \in KbRequests, RemoveDocument(r)
  PROVE  KbInv'
<1>1. PICK d : d = Min(kbRequest[r].files)
  OBVIOUS
<1>2. /\ kbRequest[r].at = "remove"
      /\ bucket' = [bucket EXCEPT ![d] = "none"]
      /\ kbRequest' = [kbRequest EXCEPT ![r].at = "scan", ![r].files = @ \ {d}]
      /\ UNCHANGED <<kb, bedrock, index, jobs, truncated, kbMode>>
  BY <1>1 DEF RemoveDocument, KbAt
<1>3. kbRequest[r] \in KbHandler
  BY DEF KbInv, KbTyped
<1>4. PICK y : y = [kbRequest[r] EXCEPT !.at = "scan"]
  OBVIOUS
<1>5. y \in KbHandler /\ y.at = "scan" /\ y.files = kbRequest[r].files
  BY <1>3, <1>4 DEF KbHandler, HandlerStates
<1>6. PICK x : x = [y EXCEPT !.files = y.files \ {d}]
  OBVIOUS
<1>7. x \in KbHandler /\ x.at = "scan" /\ x.files = kbRequest[r].files \ {d}
  BY <1>5, <1>6, Shortened
<1>8. kbRequest' = [kbRequest EXCEPT ![r] = x]
  <2>1. x = [kbRequest[r] EXCEPT !.at = "scan", !.files = kbRequest[r].files \ {d}]
    BY <1>4, <1>5, <1>6
  <2> QED BY <1>2, <2>1 DEF KbInv, KbTyped
<1>9. bucket' \in [Documents -> Content] /\ Poisoned(bucket') \subseteq Poisoned(bucket) \ {d}
  BY <1>2 DEF KbInv, KbTyped, Content, Poisoned
<1> QED BY <1>2, <1>7, <1>8, <1>9, NextDocument

LEMMA SyncPatch ==
  ASSUME NEW status \in {"IN_PROGRESS", "COMPLETE", "FAILED"}
  PROVE  /\ [field |-> "syncStatus", value |-> status] \in Patch
         /\ [field |-> "syncStatus", value |-> status].field = "syncStatus"
         /\ [field |-> "syncStatus", value |-> status].value = status
BY DEF Patch

LEMMA StartIngestionKeeps ==
  ASSUME KbInv, NEW r \in KbRequests, StartIngestion(r)
  PROVE  KbInv'
<1>1. /\ kbRequest[r].at = "startSync" /\ KbBusy(r)
      /\ UNCHANGED <<kb, bucket, bedrock, index, truncated, kbMode>>
  BY DEF StartIngestion, KbAt, KbBusy
<1>2. CASE Ends(r) /\ UNCHANGED jobs
  BY <1>1, <1>2, KbEndKeeps
<1>3. CASE /\ jobs' = Append(jobs, "RUNNING")
           /\ Stores(r, [field |-> "syncStatus", value |-> "IN_PROGRESS"])
  <2> DEFINE patch == [field |-> "syncStatus", value |-> "IN_PROGRESS"]
  <2>1. patch \in Patch /\ patch.field = "syncStatus" /\ patch.value = "IN_PROGRESS"
    BY SyncPatch
  <2> HIDE DEF patch
  <2>2. Stores(r, patch)
    BY <1>3 DEF patch
  <2>3. PICK x : KbBecomes(r, x) /\ x.at = "reread" /\ x.patch = patch
    BY <2>1, <2>2, KbStores
  <2>4. jobs \in Seq(JobStatus) /\ "RUNNING" \in JobStatus
    BY DEF KbInv, KbTyped, JobStatus
  <2>5. /\ jobs' \in Seq(JobStatus) /\ Len(jobs') = Len(jobs) + 1
        /\ DOMAIN jobs' = 1 .. Len(jobs) + 1
        /\ \A j \in 1 .. Len(jobs) : jobs'[j] = jobs[j]
    BY <1>3, <2>4
  <2>6. KbTyped'
    BY <1>1, <2>3, <2>5, KbBecomesKeeps DEF KbInv, KbTyped, KbPlaced
  <2>7. kbMode = "settled" /\ ~truncated => Poisoned(bucket) = {}
    BY <1>1 DEF KbInv, IndexGate, Gate
  <2>8. IndexGate'
    <3>1. kbMode = "settled" /\ ~truncated' =>
             /\ Poisoned(index') = {}
             /\ Poisoned(bucket') = {}
             /\ Gate(x, bucket')
      BY <1>1, <2>3, <2>7 DEF KbInv, IndexGate, Gate
    <3> QED BY <1>1, <2>3, <3>1, GateStep DEF KbInv
  <2>9. ASSUME kbMode = "serial" PROVE LastJobRuns'
    <3>1. ~JobRuns
      BY <1>1, <2>9 DEF KbInv, SyncLock, SyncHandlerStates
    <3> QED BY <2>4, <2>5, <3>1 DEF LastJobRuns, JobRuns
  <2>10. Locks(x) /\ ~Unlocks(x) /\ x.at \notin SyncHandlerStates
    BY <2>1, <2>3 DEF Locks, Unlocks, SyncHandlerStates
  <2>11. SyncLock'
    BY <1>1, <2>3, <2>9, <2>10, LockStep DEF KbInv
  <2> QED BY <2>6, <2>8, <2>11 DEF KbInv
<1> QED BY <1>2, <1>3 DEF StartIngestion

LEMMA PollSyncStatusKeeps ==
  ASSUME KbInv, NEW r \in KbRequests, PollSyncStatus(r)
  PROVE  KbInv'
<1>1. PICK j \in DOMAIN jobs :
         /\ kbMode = "serial" => j = Len(jobs)
         /\ IF jobs[j] = "RUNNING" THEN Ends(r)
            ELSE Stores(r, [field |-> "syncStatus", value |-> jobs[j]])
  BY DEF PollSyncStatus
<1>2. /\ MayStart(r) /\ kbRequest[r].at = "idle"
      /\ UNCHANGED <<kb, bucket, bedrock, index, jobs, truncated, kbMode>>
  BY DEF PollSyncStatus, MayStart, KbAt
<1>3. CASE jobs[j] = "RUNNING"
  BY <1>1, <1>2, <1>3, KbEndKeeps
<1>4. CASE jobs[j] # "RUNNING"
  <2>1. PICK status : status = jobs[j]
    OBVIOUS
  <2>2. status \in {"COMPLETE", "FAILED"}
    BY <1>4, <2>1 DEF KbInv, KbTyped, JobStatus
  <2>3. PICK patch : patch = [field |-> "syncStatus", value |-> status]
    OBVIOUS
  <2>4. patch \in Patch
    BY <2>2, <2>3, SyncPatch
  <2>5. Stores(r, patch)
    BY <1>1, <1>4, <2>1, <2>3
  <2>6. PICK x : KbBecomes(r, x) /\ x.at = "reread"
    BY <2>4, <2>5, KbStores
  <2>7. KbTyped'
    BY <1>2, <2>6, KbTypedStep DEF KbInv, KbTyped
  <2>8. IndexGate'
    BY <1>2, <2>6, QuietGate DEF KbInv, Gate
  <2>9. ASSUME kbMode = "serial" PROVE LastJobRuns' /\ ~JobRuns'
    BY <1>1, <1>2, <1>4, <2>9 DEF KbInv, SyncLock, LastJobRuns, JobRuns
  <2>10. SyncLock'
    BY <1>2, <2>6, <2>9, LockStep DEF KbInv
  <2> QED BY <2>7, <2>8, <2>10 DEF KbInv
<1> QED BY <1>3, <1>4

-----------------------------------------------------------------------------
(* The store *)

LEMMA StoreRereadKeeps ==
  ASSUME KbInv, NEW r \in KbRequests, StoreReread(r)
  PROVE  KbInv'
<1>1. /\ kbRequest[r].at = "reread" /\ KbBusy(r)
      /\ UNCHANGED <<kb, bucket, bedrock, index, jobs, truncated, kbMode>>
  BY DEF StoreReread, KbAt, KbBusy
<1>2. kbMode = "serial" => LastJobRuns'
  BY <1>1 DEF KbInv, SyncLock, LastJobRuns
<1>3. PICK x : /\ KbBecomes(r, x)
               /\ \/ kb = NoKb /\ x.at = "done"
                  \/ x.at = "put" /\ x.item = kb /\ x.patch = kbRequest[r].patch
  <2>1. CASE kb = NoKb
    BY <2>1, KbEnds, KbHandlers DEF StoreReread
  <2>2. CASE kb # NoKb
    <3>1. PICK x : x = [kbRequest[r] EXCEPT !.at = "put", !.item = kb]
      OBVIOUS
    <3>2. kbRequest[r] \in KbHandler /\ kb \in KbItem /\ kbRequest[r].patch \in Patch
      BY <1>1, <2>2 DEF KbInv, KbTyped, KbPlaced
    <3>3. x \in KbHandler /\ x.at = "put" /\ x.item = kb /\ x.patch = kbRequest[r].patch
      BY <3>1, <3>2 DEF KbHandler, HandlerStates
    <3>4. kbRequest' = [kbRequest EXCEPT ![r] = x]
      BY <2>2, <3>1 DEF StoreReread, KbInv, KbTyped
    <3>5. KbBecomes(r, x)
      BY <3>2, <3>3, <3>4 DEF KbBecomes, KbPlaced
    <3> QED BY <3>3, <3>5
  <2> QED BY <2>1, <2>2
<1>4. KbTyped'
  BY <1>1, <1>3, KbTypedStep DEF KbInv, KbTyped
<1>5. IndexGate'
  BY <1>1, <1>3, QuietGate DEF KbInv, Gate
<1>6. ASSUME kbMode = "serial", JobRuns'
      PROVE  /\ RecordLocked' \/ Locks(x)
             /\ x.at \notin SyncHandlerStates /\ ~Unlocks(x)
  <2>1. JobRuns
    BY <1>1, <1>6 DEF JobRuns
  <2>2. ~Unlocks(kbRequest[r]) /\ (RecordLocked \/ Locks(kbRequest[r]))
    <3>1. \A q \in KbRequests : Locks(kbRequest[q]) => q = r
      BY <1>1, <1>6, Alone DEF KbInv, Locks, KbBusy
    <3> QED BY <1>6, <2>1, <3>1 DEF KbInv, SyncLock
  <2>3. RecordLocked' <=> RecordLocked
    BY <1>1 DEF RecordLocked
  <2> QED BY <1>1, <1>3, <2>2, <2>3 DEF RecordLocked, Locks, Unlocks, SyncHandlerStates
<1>7. SyncLock'
  <2>1. x.at # "idle" /\ (x.at = "put" => x.item = kb')
    BY <1>1, <1>3
  <2> QED BY <1>1, <1>2, <1>3, <1>6, <2>1, LockStep DEF KbInv
<1> QED BY <1>4, <1>5, <1>7 DEF KbInv

\* What a patch makes of an item.
LEMMA PatchedItem ==
  ASSUME NEW item \in KbItem, NEW patch \in Patch
  PROVE  /\ Patched(item, patch) \in KbItem
         /\ Patched(item, patch).syncStatus =
               IF patch.field = "syncStatus" THEN patch.value ELSE item.syncStatus
<1>1. \/ patch.field = "documentCount" /\ patch.value \in Nat
      \/ patch.field = "syncStatus" /\ patch.value \in {"IN_PROGRESS", "COMPLETE", "FAILED"}
      \/ patch.field = "status" /\ patch.value = "INDEXING"
  BY DEF Patch
<1>2. PICK value : value = patch.value
  OBVIOUS
<1>3. CASE patch.field = "documentCount"
  BY <1>1, <1>2, <1>3 DEF Patched, KbItem
<1>4. CASE patch.field = "status"
  BY <1>1, <1>2, <1>4 DEF Patched, KbItem
<1>5. CASE patch.field = "syncStatus"
  <2>1. PICK half : half = [item EXCEPT !.syncStatus = value]
    OBVIOUS
  <2>2. half \in KbItem /\ half.syncStatus = value
    BY <1>1, <1>2, <1>5, <2>1 DEF KbItem
  <2>3. PICK status \in {"SYNCING", "ACTIVE"} : Patched(item, patch) = [half EXCEPT !.status = status]
    BY <1>2, <1>5, <2>1 DEF Patched
  <2> QED BY <1>2, <1>5, <2>2, <2>3 DEF KbItem
<1> QED BY <1>1, <1>3, <1>4, <1>5

LEMMA StorePutKeeps ==
  ASSUME KbInv, NEW r \in KbRequests, StorePut(r)
  PROVE  KbInv'
<1> PICK item, patch : item = kbRequest[r].item /\ patch = kbRequest[r].patch
  OBVIOUS
<1>1. /\ kbRequest[r].at = "put" /\ KbBusy(r) /\ kb' = Patched(item, patch)
      /\ UNCHANGED <<bucket, bedrock, index, jobs, truncated, kbMode>>
  BY DEF StorePut, KbAt, KbBusy
<1>2. KbBecomes(r, Finished) /\ Finished.at = "done"
  BY KbEnds, KbHandlers DEF StorePut
<1>3. item \in KbItem /\ patch \in Patch
  BY <1>1 DEF KbInv, KbTyped, KbPlaced
<1>4. /\ kb' \in KbItem
      /\ kb'.syncStatus = IF patch.field = "syncStatus" THEN patch.value ELSE item.syncStatus
  BY <1>1, <1>3, PatchedItem
<1>5. KbTyped'
  BY <1>1, <1>2, <1>4, KbTypedStep DEF KbInv, KbTyped
<1>6. IndexGate'
  BY <1>1, <1>2, QuietGate DEF KbInv, Gate
<1>7. kbMode = "serial" => LastJobRuns'
  BY <1>1 DEF KbInv, SyncLock, LastJobRuns
<1>8. ASSUME kbMode = "serial", JobRuns' PROVE kb'.syncStatus = "IN_PROGRESS"
  <2>1. JobRuns /\ kb = item
    BY <1>1, <1>8 DEF KbInv, SyncLock, JobRuns, KbAt
  <2>2. ~Unlocks(kbRequest[r]) /\ (RecordLocked \/ Locks(kbRequest[r]))
    <3>1. \A q \in KbRequests : Locks(kbRequest[q]) => q = r
      BY <1>1, <1>8, Alone DEF KbInv, Locks, KbBusy
    <3> QED BY <1>8, <2>1, <3>1 DEF KbInv, SyncLock
  <2>3. CASE patch.field = "syncStatus"
    BY <1>1, <1>4, <2>2, <2>3 DEF Unlocks
  <2>4. CASE patch.field # "syncStatus"
    <3>1. kb # NoKb
      BY <1>3, <2>1 DEF KbItem, NoKb
    <3> QED BY <1>4, <2>1, <2>2, <2>4, <3>1 DEF Locks, RecordLocked
  <2> QED BY <2>3, <2>4
<1>9. SyncLock'
  BY <1>1, <1>2, <1>7, <1>8, LockStep DEF KbInv, RecordLocked, Unlocks, SyncHandlerStates
<1> QED BY <1>5, <1>6, <1>9 DEF KbInv

LEMMA CreateKbKeeps ==
  ASSUME KbInv, CreateKb
  PROVE  KbInv'
<1>1. UNCHANGED <<bucket, index, jobs, kbRequest, truncated, kbMode>>
  BY DEF CreateKb
<1>2. kb' \in KbItem /\ bedrock' \in BOOLEAN
  BY DEF CreateKb, NewKb, KbItem
<1>3. KbTyped'
  BY <1>1, <1>2 DEF KbInv, KbTyped, KbPlaced
<1>4. IndexGate'
  BY <1>1 DEF KbInv, IndexGate, Gate, Poisoned, JobRuns
<1>5. SyncLock'
  <2> SUFFICES ASSUME kbMode = "serial" PROVE SyncLock'
    BY <1>1 DEF SyncLock
  <2>1. jobs = << >>
    BY DEF CreateKb, KbInv, SyncLock
  <2>2. ~JobRuns' /\ LastJobRuns'
    BY <1>1, <2>1 DEF JobRuns, LastJobRuns
  <2>3. \A r \in KbRequests : KbAt(r, "idle") /\ ~KbBusy(r)
    BY DEF CreateKb, KbAt, KbBusy
  <2> QED BY <1>1, <2>1, <2>2, <2>3 DEF SyncLock, KbAt, KbBusy
<1> QED BY <1>3, <1>4, <1>5 DEF KbInv

LEMMA PresignedPutKeeps ==
  ASSUME KbInv, NEW d \in Documents, NEW content \in {"clean", "poisoned"},
         PresignedPut(d, content)
  PROVE  KbInv'
<1>1. /\ bucket' = [bucket EXCEPT ![d] = content]
      /\ UNCHANGED <<kb, bedrock, index, jobs, kbRequest, truncated, kbMode>>
  BY DEF PresignedPut
<1>2. KbTyped'
  BY <1>1 DEF KbInv, KbTyped, KbPlaced, Content
<1>3. IndexGate'
  <2> SUFFICES ASSUME kbMode = "settled", ~truncated
               PROVE  /\ Poisoned(index') = {}
                      /\ JobRuns' => Poisoned(bucket') = {}
                      /\ \A r \in KbRequests : Gate(kbRequest'[r], bucket')
    BY <1>1 DEF IndexGate, Gate, Poisoned
  <2>1. ~JobRuns /\ \A r \in KbRequests : kbRequest[r].at \notin SyncHandlerStates
    BY DEF PresignedPut
  <2> QED BY <1>1, <2>1 DEF KbInv, IndexGate, Gate, SyncHandlerStates, JobRuns
<1>4. SyncLock'
  BY <1>1 DEF KbInv, SyncLock, KbBusy, KbAt, LastJobRuns, JobRuns, RecordLocked, Locks, Unlocks
<1> QED BY <1>2, <1>3, <1>4 DEF KbInv

LEMMA JobCrawlsKeeps ==
  ASSUME KbInv, NEW j \in DOMAIN jobs, JobCrawls(j)
  PROVE  KbInv'
<1>1. UNCHANGED <<kb, bucket, bedrock, kbRequest, truncated, kbMode>> /\ JobRuns
  BY DEF JobCrawls, JobRuns
<1>2. PICK status \in {"COMPLETE", "FAILED"} : jobs' = [jobs EXCEPT ![j] = status]
  BY DEF JobCrawls
<1>3. jobs' \in Seq(JobStatus)
  BY <1>2 DEF KbInv, KbTyped, JobStatus
<1>4. /\ DOMAIN jobs' = DOMAIN jobs /\ Len(jobs') = Len(jobs)
      /\ \A i \in DOMAIN jobs : jobs'[i] = "RUNNING" => jobs[i] = "RUNNING"
  BY <1>2 DEF KbInv, KbTyped
<1>5. index' = bucket \/ index' = index
  BY DEF JobCrawls
<1>6. KbTyped'
  BY <1>1, <1>3, <1>5 DEF KbInv, KbTyped, KbPlaced
<1>7. IndexGate'
  BY <1>1, <1>5 DEF KbInv, IndexGate, Gate, Poisoned
<1>8. SyncLock'
  <2> SUFFICES ASSUME kbMode = "serial" PROVE SyncLock'
    BY <1>1 DEF SyncLock
  <2>1. LastJobRuns'
    BY <1>4 DEF KbInv, SyncLock, LastJobRuns
  <2>2. ~\A r \in KbRequests : KbAt(r, "idle")
    BY <1>1 DEF KbInv, SyncLock, JobRuns
  <2> QED BY <1>1, <2>1, <2>2
          DEF KbInv, SyncLock, KbBusy, KbAt, RecordLocked, Locks, Unlocks
<1> QED BY <1>6, <1>7, <1>8 DEF KbInv

-----------------------------------------------------------------------------

LEMMA KbInitially == KbInit => KbInv
<1> SUFFICES ASSUME KbInit PROVE KbInv
  OBVIOUS
<1>1. KbTyped
  <2>1. \A r \in KbRequests : kbRequest[r] = IdleHandler
    BY DEF KbInit
  <2>2. kbRequest \in [KbRequests -> KbHandler]
    BY KbHandlers DEF KbInit
  <2>3. jobs \in Seq(JobStatus)
    BY DEF KbInit
  <2>4. bucket \in [Documents -> Content] /\ index \in [Documents -> Content]
    BY DEF KbInit, Content
  <2> QED BY <2>1, <2>2, <2>3, <2>4, KbHandlers DEF KbInit, KbTyped
<1>2. ~JobRuns /\ LastJobRuns
  BY DEF KbInit, JobRuns, LastJobRuns
<1>3. \A r \in KbRequests : kbRequest[r].at = "idle"
  BY KbHandlers DEF KbInit
<1>4. IndexGate
  BY <1>2, <1>3 DEF KbInit, IndexGate, Gate, Poisoned
<1>5. SyncLock
  BY <1>2, <1>3 DEF KbInit, SyncLock, KbBusy, KbAt
<1> QED BY <1>1, <1>4, <1>5 DEF KbInv

LEMMA KbNextKeeps == KbInv /\ [KbNext]_kbVars => KbInv'
<1> SUFFICES ASSUME KbInv, [KbNext]_kbVars PROVE KbInv'
  OBVIOUS
<1>1. ASSUME NEW r \in KbRequests, KbRequestStep(r) PROVE KbInv'
  <2>1. CASE StartUpload(r) \/ UploadFile(r) \/ FinishUpload(r) \/ StartDeleteDocument(r)
             \/ DeleteObject(r) \/ Reindex(r)
    BY <2>1, ReadDocumentsKeeps, UploadFileKeeps, CountStoredKeeps, ReindexKeeps
  <2>2. CASE StartSync(r) \/ ListDocuments(r) \/ ScanDocument(r) \/ CopyToQuarantine(r)
             \/ RemoveDocument(r) \/ ScanComplete(r) \/ StartIngestion(r) \/ PollSyncStatus(r)
    BY <2>2, StartSyncKeeps, ListDocumentsKeeps, ScanDocumentKeeps, CopyAndCompleteKeep,
       RemoveDocumentKeeps, StartIngestionKeeps, PollSyncStatusKeeps
  <2>3. CASE StartDeleteKb(r) \/ CheckReferences(r) \/ Deprovision(r) \/ EmptyPrefix(r)
             \/ DeleteItem(r) \/ StoreReread(r) \/ StorePut(r)
    BY <2>3, ReadDocumentsKeeps, CheckReferencesKeeps, DeprovisionKeeps, EmptyPrefixKeeps,
       DeleteItemKeeps, StoreRereadKeeps, StorePutKeeps
  <2> QED BY <1>1, <2>1, <2>2, <2>3 DEF KbRequestStep
<1>2. CASE CreateKb
  BY <1>2, CreateKbKeeps
<1>3. CASE (\E d \in Documents, content \in {"clean", "poisoned"} : PresignedPut(d, content))
           \/ \E j \in DOMAIN jobs : JobCrawls(j)
  BY <1>3, PresignedPutKeeps, JobCrawlsKeeps
<1>4. CASE UNCHANGED kbVars
  <2>1. KbTyped'
    BY <1>4 DEF kbVars, KbInv, KbTyped, KbPlaced
  <2>2. IndexGate'
    BY <1>4 DEF kbVars, KbInv, IndexGate, Gate, Poisoned, JobRuns
  <2>3. SyncLock'
    BY <1>4 DEF kbVars, KbInv, SyncLock, KbBusy, KbAt, LastJobRuns, JobRuns, RecordLocked,
                Locks, Unlocks
  <2> QED BY <2>1, <2>2, <2>3 DEF KbInv
<1> QED BY <1>1, <1>2, <1>3, <1>4 DEF KbNext

\* The item, the objects, the jobs and what requests hold keep their types: what a
\* request puts back is an item it has read, changed by the patch it came with.
THEOREM KbTypeCorrect == KbSpec => []KbTypeOK
<1>1. KbInv => KbTypeOK
  BY DEF KbInv, KbTyped, KbTypeOK, KbHandler
<1> QED BY <1>1, KbInitially, KbNextKeeps, PTL DEF KbSpec

\* trigger_sync's scan before the ingestion: whatever syncs, uploads and deletes
\* overlap, Bedrock never retrieves from a document the scan would reject, when no
\* presigned upload lands while a sync or a job runs and no listing is cut off.
THEOREM VettedIndex == KbSpec => []IndexIsVetted
<1>1. KbInv => IndexIsVetted
  BY DEF KbInv, IndexGate, IndexIsVetted, Poisoned
<1> QED BY <1>1, KbInitially, KbNextKeeps, PTL DEF KbSpec

\* sync_status as a lock: with one request at a time and polls for the last job,
\* two ingestion jobs never run together.
THEOREM OneIngestion == KbSpec => []OneJobAtATime
<1>1. KbInv => OneJobAtATime
  <2> SUFFICES ASSUME KbInv, kbMode = "serial"
               PROVE  Cardinality({j \in DOMAIN jobs : jobs[j] = "RUNNING"}) <= 1
    BY DEF OneJobAtATime
  <2>1. {j \in DOMAIN jobs : jobs[j] = "RUNNING"} \subseteq {Len(jobs)}
    BY DEF KbInv, SyncLock, LastJobRuns
  <2>2. IsFiniteSet({Len(jobs)}) /\ Cardinality({Len(jobs)}) = 1
    BY FS_Singleton
  <2>3. Cardinality({j \in DOMAIN jobs : jobs[j] = "RUNNING"}) <= Cardinality({Len(jobs)})
    BY <2>1, <2>2, FS_Subset
  <2> QED BY <2>2, <2>3
<1> QED BY <1>1, KbInitially, KbNextKeeps, PTL DEF KbSpec

-----------------------------------------------------------------------------
(***************************************************************************)
(* GuardrailPolicy: requests one at a time leave in Bedrock the guardrail  *)
(* the item names and no other. The invariant says, for every step of a    *)
(* request, which guardrails the request itself still answers for.         *)
(***************************************************************************)

(***************************************************************************)
(* Types                                                                   *)
(***************************************************************************)
PolicyHandler ==
    [op : {"none", "create", "update", "delete", "dropCredential"},
     at : {"idle", "putNew", "read", "reread", "put", "provision", "undo", "refs",
           "deprovision", "delete", "dropCredential", "done"},
     copy : PolicyItem \cup {NoPolicy}, writes : {"fields", "guardrail"},
     new : PolicyItem \cup {NoPolicy}]

PolicyPlaced(x) ==
    /\ x.at \in {"idle", "done"} => x.op = "none"
    /\ x.op \in {"create", "update"} => x.new \in PolicyItem /\ x.new.guardrail = 0
    /\ x.at \in {"provision", "put", "deprovision"} => x.copy \in PolicyItem
    /\ x.at = "reread" /\ x.writes = "guardrail" => x.copy \in PolicyItem
    /\ x.at = "refs" /\ x.op = "delete" => x.copy \in PolicyItem
    /\ x.at \in {"putNew", "read"} => x.writes = "fields"
    /\ x.at = "provision" => x.writes = "guardrail"
    /\ x.at \in {"reread", "put"} /\ x.op = "create" => x.writes = "guardrail"

PolicyTyped ==
    /\ policy \in PolicyItem \cup {NoPolicy}
    /\ credential \in BOOLEAN
    /\ guardrails \subseteq [id : GuardrailIds, account : Accounts]
    /\ lastGuardrail \in 0 .. MaxGuardrails
    /\ policyRequest \in [PolicyRequests -> PolicyHandler]
    /\ \A r \in PolicyRequests : PolicyPlaced(policyRequest[r])
    /\ agentNames \in [now : BOOLEAN, before : BOOLEAN, gone : BOOLEAN]
    /\ lookup \in [state : {"none", "pending", "resolved"}, guardrail : {0} \cup GuardrailIds]
    /\ leftBehind \in BOOLEAN
    /\ policyOverlap \in BOOLEAN

(***************************************************************************)
(* Where Bedrock stands, one request at a time and none cut short.         *)
(***************************************************************************)
Ids == {g.id : g \in guardrails}

Named == Ids = IF policy # NoPolicy THEN {policy.guardrail} \ {0} ELSE {}

\* The item does not name what is in Bedrock while this request is at it.
Unnamed(x) ==
    \/ x.at \in {"reread", "put"} /\ x.writes = "guardrail"
    \/ x.at = "delete"

Released == agentNames.now => agentNames.gone

Accounted(x) ==
    /\ x.at = "provision" => policy = x.copy
    /\ x.at = "provision" /\ x.op = "create" => policy.guardrail = 0
    /\ x.at \in {"reread", "put"} /\ x.writes = "guardrail" =>
          /\ policy # NoPolicy /\ Ids = {x.copy.guardrail} /\ x.copy.guardrail # 0
          /\ policy.guardrail \in {0, x.copy.guardrail}
    /\ x.at = "put" => policy # NoPolicy
    /\ x.at = "put" /\ x.writes = "fields" => x.copy.guardrail = policy.guardrail
    /\ x.at = "undo" => policy # NoPolicy /\ policy.guardrail = 0
    /\ x.at = "refs" /\ x.op = "delete" => x.copy = policy /\ policy # NoPolicy
    /\ x.at = "deprovision" => x.copy = policy /\ policy # NoPolicy /\ Released
    /\ x.at = "delete" => Ids = {} /\ Released
    /\ x.op = "create" =>
          /\ lookup.guardrail = 0 /\ Released
          /\ policy # NoPolicy => policy.guardrail = 0

\* An update keeps the guardrail that the container may have looked up.
LookupKept == policy # NoPolicy /\ lookup.guardrail # 0 => policy.guardrail = lookup.guardrail

\* The policy is created once: a version that names it with no policy there was
\* saved or restored so.
NamesKept ==
    /\ LookupKept
    /\ lookup.state # "resolved" => lookup.guardrail = 0
    /\ policy = NoPolicy => Released
    /\ agentNames.now /\ ~agentNames.gone /\ lookup.guardrail # 0 => lookup.guardrail \in Ids

PolicyAccounts ==
    ~policyOverlap /\ ~leftBehind =>
        /\ \A q, r \in PolicyRequests : PolicyBusy(q) /\ PolicyBusy(r) => q = r
        /\ Named \/ \E r \in PolicyRequests : Unnamed(policyRequest[r])
        /\ \A r \in PolicyRequests :
              /\ Accounted(policyRequest[r])
              /\ policyRequest[r].op = "create" => r = 1
              /\ r = 1 /\ policyRequest[r].at \in {"idle", "putNew"} =>
                    policy = NoPolicy /\ lookup.guardrail = 0
        /\ NamesKept
        /\ \A g, h \in guardrails : g = h

PolicyInv == PolicyTyped /\ PolicyAccounts

-----------------------------------------------------------------------------
(* The records a request may leave *)

\* A step of a request replaces its record by x.
PolicyBecomes(r, x) ==
    /\ x \in PolicyHandler /\ PolicyPlaced(x)
    /\ policyRequest' = [policyRequest EXCEPT ![r] = x]

PolicyAnswered == [IdlePolicyRequest EXCEPT !.at = "done"]

LEMMA NoPolicyIsNone ==
  /\ NoPolicy \notin PolicyItem
  /\ \A p \in PolicyItem : p # NoPolicy /\ p.guardrail \in {0} \cup GuardrailIds
<1>1. NoPolicy.guardrail = -1
  BY DEF NoPolicy
<1>2. \A p \in PolicyItem : p.guardrail \in {0} \cup GuardrailIds
  BY DEF PolicyItem
<1> QED BY <1>1, <1>2, GuardrailsAssumption DEF GuardrailIds

LEMMA PolicyHandlers ==
  /\ IdlePolicyRequest \in PolicyHandler /\ PolicyPlaced(IdlePolicyRequest)
  /\ IdlePolicyRequest.at = "idle" /\ IdlePolicyRequest.op = "none"
  /\ PolicyAnswered \in PolicyHandler /\ PolicyPlaced(PolicyAnswered)
  /\ PolicyAnswered.at = "done" /\ PolicyAnswered.op = "none"
BY DEF IdlePolicyRequest, PolicyAnswered, PolicyHandler, PolicyPlaced

LEMMA PolicyAnswers ==
  ASSUME NEW r \in PolicyRequests, Answers(r)
  PROVE  \E x : PolicyBecomes(r, x) /\ x.at = "done" /\ x.op = "none"
BY PolicyHandlers DEF Answers, PolicyAnswered, PolicyBecomes

LEMMA PolicyProceeds ==
  ASSUME PolicyTyped, NEW r \in PolicyRequests,
         NEW state \in {"reread", "undo", "deprovision", "delete", "dropCredential"},
         Proceeds(r, state),
         state = "reread" => policyRequest[r].copy \in PolicyItem /\ policyRequest[r].writes = "guardrail",
         state = "deprovision" => policyRequest[r].copy \in PolicyItem
  PROVE  \E x : /\ PolicyBecomes(r, x) /\ x.at = state
                /\ x.op = policyRequest[r].op /\ x.copy = policyRequest[r].copy
                /\ x.writes = policyRequest[r].writes
<1> DEFINE x == [policyRequest[r] EXCEPT !.at = state]
<1>1. policyRequest[r] \in PolicyHandler /\ PolicyPlaced(policyRequest[r])
  BY DEF PolicyTyped
<1>2. /\ x \in PolicyHandler /\ x.at = state
      /\ x.op = policyRequest[r].op /\ x.copy = policyRequest[r].copy
      /\ x.writes = policyRequest[r].writes /\ x.new = policyRequest[r].new
  BY <1>1 DEF PolicyHandler
<1>3. policyRequest' = [policyRequest EXCEPT ![r] = x]
  BY DEF Proceeds, PolicyTyped
<1> HIDE DEF x
<1>4. PolicyPlaced(x)
  BY <1>1, <1>2 DEF PolicyPlaced
<1> QED BY <1>2, <1>3, <1>4 DEF PolicyBecomes

LEMMA PolicyBecomesKeeps ==
  ASSUME PolicyTyped, NEW r \in PolicyRequests, NEW x, PolicyBecomes(r, x)
  PROVE  /\ policyRequest' \in [PolicyRequests -> PolicyHandler]
         /\ \A q \in PolicyRequests : PolicyPlaced(policyRequest'[q])
         /\ policyRequest'[r] = x
         /\ \A q \in PolicyRequests \ {r} : policyRequest'[q] = policyRequest[q]
BY DEF PolicyTyped, PolicyBecomes

\* One request at a time: the others are idle, and do nothing to Bedrock.
LEMMA PolicyOthers ==
  ASSUME PolicyInv, ~policyOverlap, ~leftBehind, NEW r \in PolicyRequests,
         PolicyBusy(r) \/ PolicyQuiescent
  PROVE  /\ \A q \in PolicyRequests \ {r} :
               policyRequest[q].at \in {"idle", "done"} /\ policyRequest[q].op = "none"
         /\ ~Unnamed(policyRequest[r]) => Named
         /\ Accounted(policyRequest[r]) /\ NamesKept
         /\ policyRequest[r].op = "create" => r = 1
         /\ \A g, h \in guardrails : g = h
<1>1. \A q \in PolicyRequests \ {r} : ~PolicyBusy(q)
  BY DEF PolicyInv, PolicyAccounts, PolicyQuiescent
<1>2. \A q \in PolicyRequests \ {r} :
         policyRequest[q].at \in {"idle", "done"} /\ policyRequest[q].op = "none"
  BY <1>1 DEF PolicyBusy, PolicyInv, PolicyTyped, PolicyPlaced
<1>3. \A q \in PolicyRequests \ {r} : ~Unnamed(policyRequest[q])
  BY <1>2 DEF Unnamed
<1> QED BY <1>2, <1>3 DEF PolicyInv, PolicyAccounts

LEMMA PolicyStepKeeps ==
  ASSUME PolicyInv, NEW r \in PolicyRequests, NEW x, PolicyBecomes(r, x),
         UNCHANGED <<policyOverlap, agentNames, lookup>>,
         policy' \in PolicyItem \cup {NoPolicy}, credential' \in BOOLEAN,
         guardrails' \subseteq [id : GuardrailIds, account : Accounts],
         lastGuardrail' \in 0 .. MaxGuardrails, leftBehind' \in BOOLEAN,
         leftBehind => leftBehind', PolicyBusy(r) \/ PolicyQuiescent \/ policyOverlap,
         ~policyOverlap /\ ~leftBehind' =>
            /\ Named' \/ Unnamed(x)
            /\ Accounted(x)'
            /\ x.op = "create" => r = 1
            /\ x.at \in {"idle", "putNew"} => policy' = NoPolicy /\ lookup.guardrail = 0
            /\ policy = NoPolicy => policy' = NoPolicy \/ r = 1
            /\ NamesKept'
            /\ \A g, h \in guardrails' : g = h
  PROVE  PolicyInv'
<1>1. /\ policyRequest' \in [PolicyRequests -> PolicyHandler]
      /\ \A q \in PolicyRequests : PolicyPlaced(policyRequest'[q])
      /\ policyRequest'[r] = x
      /\ \A q \in PolicyRequests \ {r} : policyRequest'[q] = policyRequest[q]
  BY PolicyBecomesKeeps DEF PolicyInv
<1>2. PolicyTyped'
  BY <1>1 DEF PolicyInv, PolicyTyped, PolicyPlaced
<1>3. ASSUME ~policyOverlap, ~leftBehind'
      PROVE  /\ \A q, p \in PolicyRequests : PolicyBusy(q)' /\ PolicyBusy(p)' => q = p
             /\ Named' \/ \E q \in PolicyRequests : Unnamed(policyRequest[q])'
             /\ \A q \in PolicyRequests :
                   /\ Accounted(policyRequest[q])'
                   /\ policyRequest'[q].op = "create" => q = 1
                   /\ q = 1 /\ policyRequest'[q].at \in {"idle", "putNew"} =>
                         policy' = NoPolicy /\ lookup'.guardrail = 0
             /\ NamesKept'
             /\ \A g, h \in guardrails' : g = h
  <2>1. \A q \in PolicyRequests \ {r} :
           policyRequest'[q].at \in {"idle", "done"} /\ policyRequest'[q].op = "none"
    BY <1>1, <1>3, PolicyOthers
  <2>2. \A q, p \in PolicyRequests : PolicyBusy(q)' /\ PolicyBusy(p)' => q = p
    BY <2>1 DEF PolicyBusy
  <2>3. Named' \/ \E q \in PolicyRequests : Unnamed(policyRequest[q])'
    BY <1>1, <1>3 DEF Unnamed
  <2>4. ASSUME NEW q \in PolicyRequests
        PROVE  /\ Accounted(policyRequest[q])'
               /\ policyRequest'[q].op = "create" => q = 1
               /\ q = 1 /\ policyRequest'[q].at \in {"idle", "putNew"} =>
                     policy' = NoPolicy /\ lookup'.guardrail = 0
    <3>1. CASE q = r
      BY <1>1, <1>3, <3>1 DEF Accounted, Released
    <3>2. CASE q # r
      <4>1. Accounted(policyRequest[q])' /\ policyRequest'[q].op # "create"
        BY <2>1, <3>2 DEF Accounted
      <4>2. policyRequest'[q] = policyRequest[q]
        BY <1>1, <3>2
      <4>3. q = 1 /\ policyRequest[q].at \in {"idle", "putNew"} =>
               policy = NoPolicy /\ lookup.guardrail = 0
        BY <1>3 DEF PolicyInv, PolicyAccounts
      <4> QED BY <1>3, <3>2, <4>1, <4>2, <4>3
    <3> QED BY <3>1, <3>2
  <2> QED BY <1>3, <2>2, <2>3, <2>4
<1>4. PolicyAccounts'
  BY <1>3 DEF PolicyAccounts
<1> QED BY <1>2, <1>4 DEF PolicyInv

-----------------------------------------------------------------------------
(* The steps *)

LEMMA PolicyInitially == PolicyInit => PolicyInv
<1> SUFFICES ASSUME PolicyInit PROVE PolicyInv
  OBVIOUS
<1>1. \A r \in PolicyRequests : policyRequest[r] = IdlePolicyRequest
  BY DEF PolicyInit
<1>2. policyRequest \in [PolicyRequests -> PolicyHandler]
  BY PolicyHandlers DEF PolicyInit
<1>3. PolicyTyped
  <2>1. \A r \in PolicyRequests : PolicyPlaced(policyRequest[r])
    BY <1>1, PolicyHandlers
  <2>2. /\ agentNames \in [now : BOOLEAN, before : BOOLEAN, gone : BOOLEAN]
        /\ lookup \in [state : {"none", "pending", "resolved"}, guardrail : {0} \cup GuardrailIds]
    BY DEF PolicyInit
  <2>3. guardrails \subseteq [id : GuardrailIds, account : Accounts]
    BY DEF PolicyInit
  <2>4. lastGuardrail \in 0 .. MaxGuardrails
    BY GuardrailsAssumption DEF PolicyInit
  <2> QED BY <1>2, <2>1, <2>2, <2>3, <2>4 DEF PolicyInit, PolicyTyped
<1>4. Named /\ NamesKept
  BY DEF PolicyInit, Named, Ids, NamesKept, LookupKept, Released
<1>5. \A r \in PolicyRequests : Accounted(policyRequest[r])
  BY <1>1, PolicyHandlers DEF Accounted
<1>6. PolicyAccounts
  BY <1>1, <1>4, <1>5, PolicyHandlers DEF PolicyInit, PolicyAccounts, PolicyBusy
<1> QED BY <1>3, <1>6 DEF PolicyInv

LEMMA ReceivePolicyRequestKeeps ==
  ASSUME PolicyInv, NEW r \in PolicyRequests,
         NEW op \in {"create", "update", "delete", "dropCredential"},
         NEW new \in PolicyItem \cup {NoPolicy},
         op \in {"create", "update"} => new \in PolicyItem /\ new.guardrail = 0,
         ReceivePolicyRequest(r, op, new)
  PROVE  PolicyInv'
<1> DEFINE state == CASE op = "create" -> "putNew"
                      [] op = "dropCredential" -> "refs"
                      [] OTHER -> "read"
<1>1. PICK x : x = [IdlePolicyRequest EXCEPT !.op = op, !.new = new, !.at = state]
  OBVIOUS
<1>2. /\ state \in {"putNew", "refs", "read"}
      /\ state = "putNew" => op = "create"
      /\ state = "refs" => op = "dropCredential"
  OBVIOUS
<1>3. policyRequest' = [policyRequest EXCEPT ![r] = x]
  BY <1>1 DEF ReceivePolicyRequest
<1> HIDE DEF state
<1>4. /\ x \in PolicyHandler /\ x.op = op /\ x.new = new /\ x.at = state
      /\ x.writes = "fields"
  BY <1>1, <1>2 DEF IdlePolicyRequest, PolicyHandler
<1>5. PolicyBecomes(r, x)
  BY <1>2, <1>3, <1>4 DEF PolicyBecomes, PolicyPlaced
<1>6. /\ PolicyBusy(r) \/ PolicyQuiescent \/ policyOverlap
      /\ policyRequest[r].at = "idle"
      /\ x.op = "create" => r = 1
      /\ UNCHANGED <<policy, credential, guardrails, lastGuardrail, agentNames, lookup,
                     leftBehind, policyOverlap>>
  BY <1>4 DEF ReceivePolicyRequest
<1>7. ASSUME ~policyOverlap, ~leftBehind
      PROVE  /\ Named' /\ NamesKept' /\ Accounted(x)'
             /\ x.at \in {"idle", "putNew"} => policy' = NoPolicy /\ lookup.guardrail = 0
             /\ \A g, h \in guardrails' : g = h
  <2>1. Named /\ NamesKept /\ \A g, h \in guardrails : g = h
    BY <1>6, <1>7, PolicyOthers DEF Unnamed
  <2>2. x.op = "create" => policy = NoPolicy /\ lookup.guardrail = 0
    BY <1>6, <1>7 DEF PolicyInv, PolicyAccounts
  <2>3. Accounted(x)'
    BY <1>2, <1>4, <1>6, <2>1, <2>2 DEF Accounted, NamesKept, Released
  <2> QED BY <1>2, <1>4, <1>6, <2>1, <2>2, <2>3 DEF Named, Ids, NamesKept, LookupKept, Released
<1> QED BY <1>5, <1>6, <1>7, PolicyStepKeeps DEF PolicyInv, PolicyTyped

\* A request that ends once the item names what there is in Bedrock.
LEMMA PolicyEndKeeps ==
  ASSUME PolicyInv, NEW r \in PolicyRequests, Answers(r), PolicyBusy(r),
         UNCHANGED <<guardrails, lastGuardrail, policyOverlap, agentNames, lookup>>,
         policy' \in PolicyItem \cup {NoPolicy}, credential' \in BOOLEAN,
         leftBehind' \in BOOLEAN, leftBehind => leftBehind',
         ~policyOverlap /\ ~leftBehind' =>
            /\ Named' /\ LookupKept'
            /\ policy = NoPolicy => policy' = NoPolicy \/ r = 1
            /\ policy' = NoPolicy => policy = NoPolicy \/ Released
  PROVE  PolicyInv'
<1>1. PICK x : PolicyBecomes(r, x) /\ x.at = "done" /\ x.op = "none"
  BY PolicyAnswers
<1>2. Accounted(x)'
  BY <1>1 DEF Accounted
<1>3. ASSUME ~policyOverlap, ~leftBehind'
      PROVE  NamesKept' /\ \A g, h \in guardrails' : g = h
  <2>1. NamesKept /\ \A g, h \in guardrails : g = h
    BY <1>3, PolicyOthers
  <2> QED BY <1>3, <2>1 DEF NamesKept, Released, Ids
<1> QED BY <1>1, <1>2, <1>3, PolicyStepKeeps DEF PolicyInv, PolicyTyped

\* Nothing but the request itself has moved.
LEMMA PolicyStopKeeps ==
  ASSUME PolicyInv, NEW r \in PolicyRequests, Answers(r), PolicyBusy(r),
         UNCHANGED <<policy, credential, guardrails, lastGuardrail, policyOverlap, agentNames,
                     lookup, leftBehind>>,
         ~policyOverlap /\ ~leftBehind => Named
  PROVE  PolicyInv'
<1>1. ~policyOverlap /\ ~leftBehind => LookupKept'
  BY DEF PolicyInv, PolicyAccounts, NamesKept, LookupKept
<1> QED BY <1>1, PolicyEndKeeps DEF PolicyInv, PolicyTyped, Named, Ids

\* A request that goes on; the item and Bedrock stay as they are.
LEMMA PolicyGoesKeeps ==
  ASSUME PolicyInv, NEW r \in PolicyRequests, NEW x, PolicyBecomes(r, x), PolicyBusy(r),
         UNCHANGED <<policy, credential, guardrails, lastGuardrail, policyOverlap, agentNames,
                     lookup, leftBehind>>,
         x.op = policyRequest[r].op, x.at \notin {"idle", "putNew"},
         ~policyOverlap /\ ~leftBehind => Accounted(x) /\ (Named \/ Unnamed(x))
  PROVE  PolicyInv'
<1>1. ASSUME ~policyOverlap, ~leftBehind'
      PROVE  /\ Named' \/ Unnamed(x)
             /\ Accounted(x)'
             /\ x.op = "create" => r = 1
             /\ NamesKept'
             /\ \A g, h \in guardrails' : g = h
  <2>1. /\ NamesKept /\ \A g, h \in guardrails : g = h
        /\ x.op = "create" => r = 1
    BY <1>1, PolicyOthers
  <2> QED BY <1>1, <2>1 DEF NamesKept, LookupKept, Released, Ids, Named, Accounted
<1> QED BY <1>1, PolicyStepKeeps DEF PolicyInv, PolicyTyped

\* Once its fields are put, a policy with Bedrock is provisioned.
LEMMA AfterFieldsKeeps ==
  ASSUME PolicyInv, NEW r \in PolicyRequests, NEW item \in PolicyItem, AfterFields(r, item),
         PolicyBusy(r), policyRequest[r].op \in {"create", "update"},
         policy' = item,
         UNCHANGED <<credential, guardrails, lastGuardrail, policyOverlap, agentNames, lookup,
                     leftBehind>>,
         ~policyOverlap /\ ~leftBehind =>
            /\ Named' /\ LookupKept'
            /\ policyRequest[r].op = "create" => item.guardrail = 0
            /\ policyRequest[r].op = "update" => policy # NoPolicy
  PROVE  PolicyInv'
<1>1. item # NoPolicy
  BY NoPolicyIsNone
<1>2. ~policyOverlap /\ ~leftBehind /\ policyRequest[r].op = "create" => r = 1
  BY PolicyOthers
<1>3. CASE item.enabled
  <2>1. PICK x : /\ PolicyBecomes(r, x) /\ x.at = "provision"
                 /\ x.op = policyRequest[r].op /\ x.copy = item /\ x.writes = "guardrail"
    <3>1. PICK x : x = [policyRequest[r] EXCEPT !.at = "provision", !.copy = item,
                                                !.writes = "guardrail"]
      OBVIOUS
    <3>2. policyRequest' = [policyRequest EXCEPT ![r] = x]
      BY <1>3, <3>1 DEF AfterFields, PolicyInv, PolicyTyped
    <3>3. policyRequest[r] \in PolicyHandler /\ PolicyPlaced(policyRequest[r])
      BY DEF PolicyInv, PolicyTyped
    <3>4. /\ x \in PolicyHandler /\ x.at = "provision"
          /\ x.op = policyRequest[r].op /\ x.copy = item
          /\ x.writes = "guardrail" /\ x.new = policyRequest[r].new
      BY <3>1, <3>3 DEF PolicyHandler
    <3> QED BY <3>2, <3>3, <3>4 DEF PolicyBecomes, PolicyPlaced
  <2>2. ASSUME ~policyOverlap, ~leftBehind'
        PROVE  Accounted(x)' /\ NamesKept' /\ \A g, h \in guardrails' : g = h
    <3>1. NamesKept /\ (\A g, h \in guardrails : g = h) /\ Accounted(policyRequest[r])
      BY <2>2, PolicyOthers
    <3> QED BY <1>1, <2>1, <2>2, <3>1 DEF NamesKept, Released, Ids, Accounted
  <2> QED BY <1>1, <1>2, <2>1, <2>2, PolicyStepKeeps DEF PolicyInv, PolicyTyped
<1>4. CASE ~item.enabled
  <2>1. Answers(r)
    BY <1>4 DEF AfterFields
  <2> QED BY <1>1, <1>2, <2>1, PolicyEndKeeps DEF PolicyInv, PolicyTyped
<1> QED BY <1>3, <1>4

LEMMA PutNewPolicyKeeps ==
  ASSUME PolicyInv, NEW r \in PolicyRequests, PutNewPolicy(r) \/ PutApprovedPolicy(r)
  PROVE  PolicyInv'
<1>1. /\ policyRequest[r].op = "create" /\ policyRequest[r].at = "putNew" /\ PolicyBusy(r)
      /\ UNCHANGED <<credential, guardrails, lastGuardrail, policyOverlap, agentNames, lookup,
                     leftBehind>>
  BY DEF PutNewPolicy, PutApprovedPolicy, PolicyAt, PolicyBusy
<1>2. policyRequest[r].new \in PolicyItem /\ policyRequest[r].new.guardrail = 0
  BY <1>1 DEF PolicyInv, PolicyTyped, PolicyPlaced
<1>3. ~policyOverlap /\ ~leftBehind => Ids = {} /\ r = 1 /\ lookup.guardrail = 0
  <2> SUFFICES ASSUME ~policyOverlap, ~leftBehind
               PROVE  Ids = {} /\ r = 1 /\ lookup.guardrail = 0
    OBVIOUS
  <2>1. Named /\ NamesKept /\ r = 1 /\ Accounted(policyRequest[r])
    BY <1>1, PolicyOthers DEF Unnamed
  <2>2. policy = NoPolicy
    BY <1>1, <2>1 DEF PolicyInv, PolicyAccounts
  <2> QED BY <1>1, <2>1, <2>2 DEF Named, NamesKept, Accounted
<1>4. CASE PutNewPolicy(r)
  <2>1. ~policyOverlap /\ ~leftBehind => Named' /\ LookupKept'
    BY <1>1, <1>2, <1>3, <1>4 DEF Named, Ids, LookupKept, PutNewPolicy
  <2> QED BY <1>1, <1>2, <1>4, <2>1, AfterFieldsKeeps DEF PutNewPolicy
<1>5. CASE PutApprovedPolicy(r)
  <2>1. /\ policy' \in PolicyItem /\ policy'.guardrail = 0 /\ Answers(r)
    BY <1>5 DEF PutApprovedPolicy, PolicyItem, Accounts
  <2>2. ~policyOverlap /\ ~leftBehind => Named' /\ LookupKept'
    BY <1>1, <1>3, <2>1 DEF Named, Ids, LookupKept
  <2> QED BY <1>1, <1>3, <2>1, <2>2, NoPolicyIsNone, PolicyEndKeeps DEF PolicyInv, PolicyTyped
<1> QED BY <1>4, <1>5

LEMMA ReadPolicyKeeps ==
  ASSUME PolicyInv, NEW r \in PolicyRequests, ReadPolicy(r)
  PROVE  PolicyInv'
<1>1. /\ policyRequest[r].op \in {"update", "delete"} /\ policyRequest[r].at = "read"
      /\ PolicyBusy(r)
      /\ UNCHANGED <<policy, credential, guardrails, lastGuardrail, policyOverlap, agentNames,
                     lookup, leftBehind>>
  BY DEF ReadPolicy, PolicyAt, PolicyBusy
<1>2. ~policyOverlap /\ ~leftBehind => Named
  BY <1>1, PolicyOthers DEF Unnamed
<1>3. CASE Answers(r)
  BY <1>1, <1>2, <1>3, PolicyStopKeeps
<1>4. ASSUME policy # NoPolicy,
             policyRequest' = [policyRequest EXCEPT
                ![r].copy = policy,
                ![r].at = IF policyRequest[r].op = "update" THEN "reread" ELSE "refs"]
      PROVE  PolicyInv'
  <2>1. PICK state \in {"reread", "refs"} :
           /\ state = IF policyRequest[r].op = "update" THEN "reread" ELSE "refs"
           /\ policyRequest' = [policyRequest EXCEPT ![r].copy = policy, ![r].at = state]
    BY <1>4
  <2>2. /\ policyRequest[r] \in PolicyHandler /\ PolicyPlaced(policyRequest[r])
        /\ policy \in PolicyItem
    BY <1>4 DEF PolicyInv, PolicyTyped
  <2>3. policyRequest[r].writes = "fields"
    BY <1>1, <2>2 DEF PolicyPlaced
  <2>4. PICK x : x = [policyRequest[r] EXCEPT !.copy = policy, !.at = state]
    OBVIOUS
  <2>5. /\ x \in PolicyHandler /\ x.at = state /\ x.op = policyRequest[r].op
        /\ x.copy = policy /\ x.writes = "fields" /\ x.new = policyRequest[r].new
    BY <2>2, <2>3, <2>4 DEF PolicyHandler
  <2>6. policyRequest' = [policyRequest EXCEPT ![r] = x]
    BY <2>1, <2>4 DEF PolicyInv, PolicyTyped
  <2>7. PolicyBecomes(r, x)
    BY <1>1, <2>2, <2>5, <2>6 DEF PolicyBecomes, PolicyPlaced
  <2>8. ~policyOverlap /\ ~leftBehind => Accounted(x)
    BY <1>1, <1>4, <2>1, <2>5 DEF Accounted
  <2> QED BY <1>1, <1>2, <2>5, <2>7, <2>8, PolicyGoesKeeps
<1> QED BY <1>3, <1>4 DEF ReadPolicy

LEMMA RereadPolicyKeeps ==
  ASSUME PolicyInv, NEW r \in PolicyRequests, RereadPolicy(r)
  PROVE  PolicyInv'
<1>1. /\ policyRequest[r].op \in {"create", "update"} /\ policyRequest[r].at = "reread"
      /\ PolicyBusy(r)
      /\ UNCHANGED <<policy, credential, guardrails, lastGuardrail, policyOverlap, agentNames,
                     lookup, leftBehind>>
  BY DEF RereadPolicy, PolicyAt, PolicyBusy
<1>2. /\ policyRequest[r] \in PolicyHandler /\ PolicyPlaced(policyRequest[r])
  BY DEF PolicyInv, PolicyTyped
<1>3. ~policyOverlap /\ ~leftBehind =>
         Accounted(policyRequest[r]) /\ (Named \/ Unnamed(policyRequest[r]))
  BY <1>1, PolicyOthers
<1>4. CASE policy = NoPolicy
  <2>1. ~policyOverlap /\ ~leftBehind => Named
    BY <1>1, <1>3, <1>4 DEF Accounted, Unnamed
  <2> QED BY <1>1, <1>4, <2>1, PolicyStopKeeps DEF RereadPolicy
<1>5. CASE policy # NoPolicy
  <2> DEFINE named == [policy EXCEPT !.guardrail = policyRequest[r].copy.guardrail]
             fields == [policyRequest[r].new EXCEPT !.guardrail = policy.guardrail]
  <2>1. policy \in PolicyItem
    BY <1>5 DEF PolicyInv, PolicyTyped
  <2>2. PICK copy :
           copy = IF policyRequest[r].writes = "guardrail" THEN named ELSE fields
    OBVIOUS
  <2>3. /\ copy \in PolicyItem
        /\ policyRequest[r].writes = "guardrail" => copy.guardrail = policyRequest[r].copy.guardrail
        /\ policyRequest[r].writes = "fields" => copy.guardrail = policy.guardrail
    <3>1. CASE policyRequest[r].writes = "guardrail"
      <4>1. policyRequest[r].copy.guardrail \in {0} \cup GuardrailIds
        BY <1>1, <1>2, <3>1 DEF PolicyPlaced, PolicyItem
      <4> QED BY <2>1, <2>2, <3>1, <4>1 DEF PolicyItem
    <3>2. CASE policyRequest[r].writes = "fields"
      <4>1. policyRequest[r].new \in PolicyItem /\ policy.guardrail \in {0} \cup GuardrailIds
        BY <1>1, <1>2, <2>1 DEF PolicyPlaced, PolicyItem
      <4> QED BY <2>2, <3>2, <4>1 DEF PolicyItem
    <3> QED BY <1>2, <3>1, <3>2 DEF PolicyHandler
  <2>4. policyRequest' = [policyRequest EXCEPT ![r].at = "put", ![r].copy = copy]
    BY <1>5, <2>2 DEF RereadPolicy
  <2> HIDE DEF named, fields
  <2>5. PICK x : x = [policyRequest[r] EXCEPT !.at = "put", !.copy = copy]
    OBVIOUS
  <2>6. /\ x \in PolicyHandler /\ x.at = "put" /\ x.op = policyRequest[r].op
        /\ x.copy = copy /\ x.writes = policyRequest[r].writes /\ x.new = policyRequest[r].new
    BY <1>2, <2>3, <2>5 DEF PolicyHandler
  <2>7. policyRequest' = [policyRequest EXCEPT ![r] = x]
    BY <2>4, <2>5 DEF PolicyInv, PolicyTyped
  <2>8. PolicyBecomes(r, x)
    BY <1>1, <1>2, <2>3, <2>6, <2>7 DEF PolicyBecomes, PolicyPlaced
  <2>9. ~policyOverlap /\ ~leftBehind => Accounted(x) /\ (Named \/ Unnamed(x))
    BY <1>1, <1>3, <1>5, <2>3, <2>6 DEF Accounted, Unnamed
  <2> QED BY <1>1, <2>6, <2>8, <2>9, PolicyGoesKeeps
<1> QED BY <1>4, <1>5

LEMMA PutPolicyKeeps ==
  ASSUME PolicyInv, NEW r \in PolicyRequests, PutPolicy(r)
  PROVE  PolicyInv'
<1>1. /\ policyRequest[r].op \in {"create", "update"} /\ policyRequest[r].at = "put"
      /\ PolicyBusy(r) /\ policy' = policyRequest[r].copy
      /\ UNCHANGED <<credential, guardrails, lastGuardrail, policyOverlap, agentNames,
                     lookup, leftBehind>>
  BY DEF PutPolicy, PolicyAt, PolicyBusy
<1>2. /\ policyRequest[r] \in PolicyHandler /\ PolicyPlaced(policyRequest[r])
      /\ policyRequest[r].copy \in PolicyItem /\ policyRequest[r].copy # NoPolicy
  BY <1>1, NoPolicyIsNone DEF PolicyInv, PolicyTyped, PolicyPlaced
<1>3. ~policyOverlap /\ ~leftBehind =>
         /\ Accounted(policyRequest[r]) /\ policy # NoPolicy /\ LookupKept
         /\ ~Unnamed(policyRequest[r]) => Named
  BY <1>1, PolicyOthers DEF Accounted, NamesKept
<1>4. CASE policyRequest[r].writes = "fields"
  <2>1. policyRequest[r].op = "update"
    BY <1>1, <1>2, <1>4 DEF PolicyPlaced
  <2>2. ~policyOverlap /\ ~leftBehind => Named' /\ LookupKept'
    BY <1>1, <1>2, <1>3, <1>4 DEF Named, Ids, Accounted, Unnamed, LookupKept
  <2> QED BY <1>1, <1>2, <1>3, <1>4, <2>1, <2>2, AfterFieldsKeeps DEF PutPolicy
<1>5. CASE policyRequest[r].writes # "fields"
  <2>1. policyRequest[r].writes = "guardrail" /\ Answers(r)
    BY <1>2, <1>5 DEF PolicyHandler, PutPolicy
  <2>2. ~policyOverlap /\ ~leftBehind => Named' /\ LookupKept'
    BY <1>1, <1>2, <1>3, <2>1 DEF Named, Ids, Accounted, LookupKept
  <2> QED BY <1>1, <1>2, <1>3, <2>1, <2>2, PolicyEndKeeps DEF PolicyInv, PolicyTyped
<1> QED BY <1>4, <1>5

LEMMA ProvisionGuardrailKeeps ==
  ASSUME PolicyInv, NEW r \in PolicyRequests, ProvisionGuardrail(r)
  PROVE  PolicyInv'
<1> DEFINE copy == policyRequest[r].copy
           own == [id |-> copy.guardrail, account |-> copy.account]
           created == [id |-> lastGuardrail + 1, account |-> copy.account]
<1>1. /\ policyRequest[r].op \in {"create", "update"} /\ policyRequest[r].at = "provision"
      /\ PolicyBusy(r)
      /\ UNCHANGED <<policy, credential, policyOverlap, agentNames, lookup, leftBehind>>
  BY DEF ProvisionGuardrail, PolicyAt, PolicyBusy
<1>2. /\ policyRequest[r] \in PolicyHandler /\ PolicyPlaced(policyRequest[r])
      /\ copy \in PolicyItem /\ copy # NoPolicy
      /\ policyRequest[r].writes = "guardrail"
  BY <1>1, NoPolicyIsNone DEF PolicyInv, PolicyTyped, PolicyPlaced
<1>3. ~policyOverlap /\ ~leftBehind =>
         /\ Accounted(policyRequest[r]) /\ Named /\ NamesKept /\ policy = copy
         /\ policyRequest[r].op = "create" => r = 1 /\ lookup.guardrail = 0 /\ Released
  BY <1>1, PolicyOthers DEF Accounted, Unnamed
<1>4. CASE own \in guardrails /\ Proceeds(r, "reread") /\ UNCHANGED <<guardrails, lastGuardrail>>
  <2>1. PICK x : /\ PolicyBecomes(r, x) /\ x.at = "reread" /\ x.op = policyRequest[r].op
                 /\ x.copy = copy /\ x.writes = "guardrail"
    BY <1>2, <1>4, PolicyProceeds DEF PolicyInv
  <2>2. ~policyOverlap /\ ~leftBehind => Accounted(x) /\ Unnamed(x)
    <3> SUFFICES ASSUME ~policyOverlap, ~leftBehind PROVE Accounted(x) /\ Unnamed(x)
      OBVIOUS
    <3>1. copy.guardrail \in Ids
      BY <1>4 DEF Ids
    <3>2. Ids = {copy.guardrail} /\ copy.guardrail # 0
      BY <1>2, <1>3, <3>1 DEF Named
    <3> QED BY <1>2, <1>3, <2>1, <3>2 DEF Accounted, Unnamed
  <2> QED BY <1>1, <1>4, <2>1, <2>2, PolicyGoesKeeps
<1>5. ASSUME copy.guardrail = 0, lastGuardrail < MaxGuardrails,
             guardrails' = guardrails \cup {created}, lastGuardrail' = lastGuardrail + 1,
             policyRequest' = [policyRequest EXCEPT
                    ![r].at = "reread", ![r].copy.guardrail = created.id]
      PROVE  PolicyInv'
  <2>1. PICK n \in GuardrailIds : n = lastGuardrail + 1
    BY <1>5, GuardrailsAssumption DEF PolicyInv, PolicyTyped, GuardrailIds
  <2>2. PICK new : new = [copy EXCEPT !.guardrail = n]
    OBVIOUS
  <2>3. new \in PolicyItem /\ new.guardrail = n /\ copy.account \in Accounts /\ n # 0
    BY <1>2, <2>1, <2>2 DEF PolicyItem, GuardrailIds
  <2>4. PICK x : x = [policyRequest[r] EXCEPT !.at = "reread", !.copy = new]
    OBVIOUS
  <2>5. /\ x \in PolicyHandler /\ x.at = "reread" /\ x.op = policyRequest[r].op
        /\ x.copy = new /\ x.writes = "guardrail" /\ x.new = policyRequest[r].new
    BY <1>2, <2>3, <2>4 DEF PolicyHandler
  <2>6. policyRequest' = [policyRequest EXCEPT ![r] = x]
    BY <1>5, <2>1, <2>2, <2>4 DEF PolicyInv, PolicyTyped
  <2>7. PolicyBecomes(r, x)
    BY <1>1, <1>2, <2>3, <2>5, <2>6 DEF PolicyBecomes, PolicyPlaced
  <2>8. /\ guardrails' \subseteq [id : GuardrailIds, account : Accounts]
        /\ lastGuardrail' \in 0 .. MaxGuardrails
    BY <1>5, <2>1, <2>3, GuardrailsAssumption DEF PolicyInv, PolicyTyped, GuardrailIds
  <2>9. ASSUME ~policyOverlap, ~leftBehind
        PROVE  /\ Accounted(x)' /\ NamesKept' /\ policy # NoPolicy
               /\ \A g, h \in guardrails' : g = h
    <3>1. Ids = {} /\ policy # NoPolicy
      BY <1>2, <1>3, <1>5, <2>9 DEF Named
    <3>2. guardrails' = {created}
      BY <1>5, <3>1 DEF Ids
    <3>3. Ids' = {n}
      BY <2>1, <3>2 DEF Ids
    <3>4. NamesKept'
      BY <1>1, <1>3, <2>9, <3>1 DEF NamesKept, LookupKept, Released
    <3> QED BY <1>1, <1>3, <1>5, <2>3, <2>5, <2>9, <3>1, <3>2, <3>3, <3>4
            DEF Accounted, Released
  <2>10. Unnamed(x)
    BY <2>5 DEF Unnamed
  <2>11. ~policyOverlap /\ ~leftBehind => (x.op = "create" => r = 1)
    BY <1>3, <2>5
  <2> QED BY <1>1, <2>5, <2>7, <2>8, <2>9, <2>10, <2>11, PolicyStepKeeps DEF PolicyInv, PolicyTyped
<1> QED BY <1>4, <1>5 DEF ProvisionGuardrail

LEMMA ProvisionFailsKeeps ==
  ASSUME PolicyInv, NEW r \in PolicyRequests, ProvisionFails(r)
  PROVE  PolicyInv'
<1>1. /\ policyRequest[r].op \in {"create", "update"} /\ policyRequest[r].at = "provision"
      /\ PolicyBusy(r)
      /\ UNCHANGED <<policy, credential, guardrails, lastGuardrail, policyOverlap, agentNames,
                     lookup, leftBehind>>
  BY DEF ProvisionFails, PolicyAt, PolicyBusy
<1>2. policyRequest[r].copy # NoPolicy
  BY <1>1, NoPolicyIsNone DEF PolicyInv, PolicyTyped, PolicyPlaced
<1>3. ~policyOverlap /\ ~leftBehind => Accounted(policyRequest[r]) /\ Named
  BY <1>1, PolicyOthers DEF Unnamed
<1>4. CASE policyRequest[r].op = "create"
  <2>1. PICK x : PolicyBecomes(r, x) /\ x.at = "undo" /\ x.op = "create"
    BY <1>4, PolicyProceeds DEF PolicyInv, ProvisionFails, GivesUp
  <2>2. ~policyOverlap /\ ~leftBehind => Accounted(x)
    BY <1>1, <1>2, <1>3, <1>4, <2>1 DEF Accounted
  <2> QED BY <1>1, <1>3, <1>4, <2>1, <2>2, PolicyGoesKeeps
<1>5. CASE policyRequest[r].op # "create"
  BY <1>1, <1>3, <1>5, PolicyStopKeeps DEF ProvisionFails, GivesUp
<1> QED BY <1>4, <1>5

\* From here on nothing is said of Bedrock.
LEMMA ProvisionAnswerLostKeeps ==
  ASSUME PolicyInv, NEW r \in PolicyRequests, ProvisionAnswerLost(r)
  PROVE  PolicyInv'
<1> DEFINE created == [id |-> lastGuardrail + 1, account |-> policyRequest[r].copy.account]
<1>1. /\ policyRequest[r].at = "provision" /\ PolicyBusy(r) /\ GivesUp(r)
      /\ lastGuardrail < MaxGuardrails /\ guardrails' = guardrails \cup {created}
      /\ lastGuardrail' = lastGuardrail + 1 /\ leftBehind' = TRUE
      /\ UNCHANGED <<policy, credential, agentNames, lookup, policyOverlap>>
  BY DEF ProvisionAnswerLost, PolicyAt, PolicyBusy
<1>2. policyRequest[r].copy \in PolicyItem
  BY <1>1 DEF PolicyInv, PolicyTyped, PolicyPlaced
<1>3. lastGuardrail + 1 \in GuardrailIds /\ lastGuardrail' \in 0 .. MaxGuardrails
  BY <1>1, GuardrailsAssumption DEF PolicyInv, PolicyTyped, GuardrailIds
<1>4. guardrails' \subseteq [id : GuardrailIds, account : Accounts]
  BY <1>1, <1>2, <1>3 DEF PolicyInv, PolicyTyped, PolicyItem
<1> HIDE DEF created
<1>5. PICK x : PolicyBecomes(r, x)
  <2>1. CASE Proceeds(r, "undo")
    BY <2>1, PolicyProceeds DEF PolicyInv
  <2>2. CASE Answers(r)
    BY <2>2, PolicyAnswers
  <2> QED BY <1>1, <2>1, <2>2 DEF GivesUp
<1> QED BY <1>1, <1>3, <1>4, <1>5, PolicyStepKeeps DEF PolicyInv, PolicyTyped

LEMMA CheckPolicyReferencesKeeps ==
  ASSUME PolicyInv, NEW r \in PolicyRequests, CheckPolicyReferences(r)
  PROVE  PolicyInv'
<1>1. /\ policyRequest[r].op = "delete" /\ policyRequest[r].at = "refs" /\ PolicyBusy(r)
      /\ UNCHANGED <<policy, credential, guardrails, lastGuardrail, policyOverlap, agentNames,
                     lookup, leftBehind>>
  BY DEF CheckPolicyReferences, PolicyAt, PolicyBusy
<1>2. ~policyOverlap /\ ~leftBehind => Accounted(policyRequest[r]) /\ Named
  BY <1>1, PolicyOthers DEF Unnamed
<1>3. CASE agentNames.now
  BY <1>1, <1>2, <1>3, PolicyStopKeeps DEF CheckPolicyReferences
<1>4. CASE ~agentNames.now
  \* The copy of a delete is the item that it found.
  <2>1. policyRequest[r].copy \in PolicyItem
    BY <1>1 DEF PolicyInv, PolicyTyped, PolicyPlaced
  <2>2. PICK x : /\ PolicyBecomes(r, x) /\ x.at = "deprovision" /\ x.op = "delete"
                 /\ x.copy = policyRequest[r].copy
    BY <1>1, <1>4, <2>1, PolicyProceeds DEF PolicyInv, CheckPolicyReferences
  <2>3. ~policyOverlap /\ ~leftBehind => Accounted(x)
    BY <1>1, <1>2, <1>4, <2>2 DEF Accounted, Released
  <2> QED BY <1>1, <1>2, <2>2, <2>3, PolicyGoesKeeps
<1> QED BY <1>3, <1>4

LEMMA DeprovisionGuardrailKeeps ==
  ASSUME PolicyInv, NEW r \in PolicyRequests, DeprovisionGuardrail(r)
  PROVE  PolicyInv'
<1> DEFINE copy == policyRequest[r].copy
           own == [id |-> copy.guardrail, account |-> copy.account]
<1>1. /\ policyRequest[r].op = "delete" /\ policyRequest[r].at = "deprovision" /\ PolicyBusy(r)
      /\ UNCHANGED <<policy, credential, lastGuardrail, policyOverlap, agentNames, lookup>>
      /\ guardrails' \subseteq guardrails /\ leftBehind' \in BOOLEAN
      /\ leftBehind => leftBehind'
  <2>1. leftBehind \in BOOLEAN
    BY DEF PolicyInv, PolicyTyped
  <2>2. /\ policyRequest[r].op = "delete" /\ policyRequest[r].at = "deprovision" /\ PolicyBusy(r)
        /\ UNCHANGED <<policy, credential, lastGuardrail, policyOverlap, agentNames, lookup>>
    BY DEF DeprovisionGuardrail, PolicyAt, PolicyBusy
  <2>3. \/ UNCHANGED <<guardrails, leftBehind>>
        \/ guardrails' = guardrails \ {own} /\ UNCHANGED leftBehind
        \/ leftBehind' = TRUE /\ UNCHANGED guardrails
    BY DEF DeprovisionGuardrail
  <2> QED BY <2>1, <2>2, <2>3
<1>2. PICK x : PolicyBecomes(r, x) /\ x.at = "delete" /\ x.op = "delete"
  BY <1>1, PolicyProceeds DEF DeprovisionGuardrail, PolicyInv
<1>3. ASSUME ~policyOverlap, ~leftBehind'
      PROVE  Ids' = {} /\ Released /\ NamesKept' /\ \A g, h \in guardrails' : g = h
  <2>1. /\ Accounted(policyRequest[r]) /\ Named /\ NamesKept
        /\ \A g, h \in guardrails : g = h
    BY <1>1, <1>3, PolicyOthers DEF Unnamed
  <2>2. policy = copy /\ policy # NoPolicy /\ Released
    BY <1>1, <2>1 DEF Accounted
  <2>3. Ids' = {}
    <3>1. CASE copy.guardrail = 0 /\ UNCHANGED guardrails
      BY <2>1, <2>2, <3>1 DEF Named, Ids
    <3>2. CASE own \in guardrails /\ guardrails' = guardrails \ {own}
      BY <2>1, <3>2 DEF Ids
    <3> QED BY <1>3, <3>1, <3>2 DEF DeprovisionGuardrail
  <2> QED BY <1>1, <2>1, <2>2, <2>3 DEF NamesKept, LookupKept, Released
<1>4. ~policyOverlap /\ ~leftBehind' => Accounted(x)'
  BY <1>1, <1>2, <1>3 DEF Accounted, Released
<1>5. guardrails' \subseteq [id : GuardrailIds, account : Accounts]
  BY <1>1 DEF PolicyInv, PolicyTyped
<1> QED BY <1>1, <1>2, <1>3, <1>4, <1>5, PolicyStepKeeps DEF PolicyInv, PolicyTyped, Unnamed

LEMMA DeletePolicyItemKeeps ==
  ASSUME PolicyInv, NEW r \in PolicyRequests, DeletePolicyItem(r)
  PROVE  PolicyInv'
<1>1. /\ \/ policyRequest[r].at = "delete"
         \/ policyRequest[r].at = "undo" /\ policyRequest[r].op = "create"
      /\ PolicyBusy(r) /\ policy' = NoPolicy /\ Answers(r)
      /\ UNCHANGED <<credential, guardrails, lastGuardrail, policyOverlap, agentNames,
                     lookup, leftBehind>>
  BY DEF DeletePolicyItem, PolicyAt, PolicyBusy
<1>2. ASSUME ~policyOverlap, ~leftBehind PROVE Ids = {} /\ Released
  <2>1. /\ Accounted(policyRequest[r]) /\ NamesKept
        /\ ~Unnamed(policyRequest[r]) => Named
    BY <1>1, <1>2, PolicyOthers
  <2> QED BY <1>1, <2>1 DEF Accounted, NamesKept, Named, Unnamed, Released
<1>3. ~policyOverlap /\ ~leftBehind => Named' /\ LookupKept'
  BY <1>1, <1>2 DEF Named, Ids, LookupKept
<1> QED BY <1>1, <1>2, <1>3, PolicyEndKeeps DEF PolicyInv, PolicyTyped

LEMMA DropCredentialKeeps ==
  ASSUME PolicyInv, NEW r \in PolicyRequests, CheckCredentialReferences(r) \/ DeleteCredential(r)
  PROVE  PolicyInv'
<1>1. /\ policyRequest[r].op = "dropCredential" /\ PolicyBusy(r)
      /\ policyRequest[r].at \in {"refs", "dropCredential"}
      /\ UNCHANGED <<policy, guardrails, lastGuardrail, policyOverlap, agentNames, lookup,
                     leftBehind>>
  BY DEF CheckCredentialReferences, DeleteCredential, PolicyAt, PolicyBusy
<1>2. ~policyOverlap /\ ~leftBehind => Named /\ LookupKept
  BY <1>1, PolicyOthers DEF Unnamed, NamesKept
<1>3. ~policyOverlap /\ ~leftBehind => Named' /\ LookupKept'
  BY <1>1, <1>2 DEF Named, Ids, LookupKept
<1>4. CASE Answers(r) /\ credential' \in BOOLEAN
  BY <1>1, <1>3, <1>4, PolicyEndKeeps DEF PolicyInv, PolicyTyped
<1>5. CASE Proceeds(r, "dropCredential") /\ UNCHANGED credential
  <2>1. PICK x : PolicyBecomes(r, x) /\ x.at = "dropCredential" /\ x.op = "dropCredential"
    BY <1>1, <1>5, PolicyProceeds DEF PolicyInv
  <2>2. Accounted(x)
    BY <2>1 DEF Accounted
  <2> QED BY <1>1, <1>2, <1>5, <2>1, <2>2, PolicyGoesKeeps
<1>6. CASE CheckCredentialReferences(r)
  BY <1>4, <1>5, <1>6 DEF CheckCredentialReferences, PolicyInv, PolicyTyped
<1>7. CASE DeleteCredential(r)
  BY <1>4, <1>7 DEF DeleteCredential
<1> QED BY <1>6, <1>7

LEMMA CutPolicyRequestKeeps ==
  ASSUME PolicyInv, NEW r \in PolicyRequests, CutPolicyRequest(r)
  PROVE  PolicyInv'
BY PolicyEndKeeps DEF CutPolicyRequest, PolicyInv, PolicyTyped

\* The agent and the container, between requests or among them.
LEMMA PolicyReadersKeep ==
  ASSUME PolicyInv,
         UNCHANGED <<policy, credential, guardrails, lastGuardrail, policyRequest, leftBehind,
                     policyOverlap>>,
         agentNames' \in [now : BOOLEAN, before : BOOLEAN, gone : BOOLEAN],
         lookup' \in [state : {"none", "pending", "resolved"}, guardrail : {0} \cup GuardrailIds],
         ~policyOverlap /\ ~leftBehind =>
            /\ NamesKept'
            /\ \/ lookup'.guardrail \in {0, lookup.guardrail}
               \/ policy # NoPolicy /\ lookup'.guardrail = policy.guardrail
            /\ Released => Released' \/ PolicyQuiescent
  PROVE  PolicyInv'
<1>1. PolicyTyped'
  BY DEF PolicyInv, PolicyTyped, PolicyPlaced
<1>2. ASSUME ~policyOverlap, ~leftBehind
      PROVE  \A r \in PolicyRequests :
                /\ Accounted(policyRequest[r])'
                /\ r = 1 /\ policyRequest[r].at \in {"idle", "putNew"} =>
                      policy = NoPolicy /\ lookup'.guardrail = 0
  <2>1. ASSUME NEW r \in PolicyRequests
        PROVE  Accounted(policyRequest[r])
  BY <1>2, <2>1 DEF PolicyInv, PolicyAccounts
  <2>2. ASSUME NEW r \in PolicyRequests, PolicyQuiescent
        PROVE  Accounted(policyRequest[r])'
    <3>1. policyRequest[r].at \in {"idle", "done"} /\ policyRequest[r].op = "none"
      BY <2>2 DEF PolicyQuiescent, PolicyBusy, PolicyInv, PolicyTyped, PolicyPlaced
    <3> QED BY <3>1 DEF Accounted
  <2>3. ASSUME NEW r \in PolicyRequests, ~PolicyQuiescent
        PROVE  Accounted(policyRequest[r])'
    <3>1. Released => Released'
      BY <1>2, <2>3
    <3>2. policyRequest[r].op = "create" => lookup'.guardrail = 0
      BY <1>2, <2>1 DEF Accounted
    <3> QED BY <2>1, <3>1, <3>2 DEF Accounted, Ids
  <2>4. \A r \in PolicyRequests :
           r = 1 /\ policyRequest[r].at \in {"idle", "putNew"} =>
              policy = NoPolicy /\ lookup'.guardrail = 0
    BY <1>2 DEF PolicyInv, PolicyAccounts
  <2> QED BY <2>2, <2>3, <2>4
<1>3. PolicyAccounts'
  <2> SUFFICES ASSUME ~policyOverlap, ~leftBehind
               PROVE  /\ \A q, r \in PolicyRequests : PolicyBusy(q)' /\ PolicyBusy(r)' => q = r
                      /\ Named' \/ \E r \in PolicyRequests : Unnamed(policyRequest[r])'
                      /\ \A r \in PolicyRequests :
                            /\ Accounted(policyRequest[r])'
                            /\ policyRequest'[r].op = "create" => r = 1
                            /\ r = 1 /\ policyRequest'[r].at \in {"idle", "putNew"} =>
                                  policy' = NoPolicy /\ lookup'.guardrail = 0
                      /\ NamesKept'
                      /\ \A g, h \in guardrails' : g = h
    BY DEF PolicyAccounts
  <2>1. /\ \A q, r \in PolicyRequests : PolicyBusy(q)' /\ PolicyBusy(r)' => q = r
        /\ \A r \in PolicyRequests : policyRequest'[r].op = "create" => r = 1
        /\ \A g, h \in guardrails' : g = h
    BY DEF PolicyInv, PolicyAccounts, PolicyBusy
  <2>2. Named' \/ \E r \in PolicyRequests : Unnamed(policyRequest[r])'
    BY DEF PolicyInv, PolicyAccounts, Named, Ids, Unnamed
  <2> QED BY <1>2, <2>1, <2>2
<1> QED BY <1>1, <1>3 DEF PolicyInv

\* The agent has a version that may name the policy whether or not it is there.
LEMMA VersionKeeps ==
  ASSUME PolicyInv, policyOverlap \/ PolicyQuiescent,
         UNCHANGED <<policy, credential, guardrails, lastGuardrail, policyRequest, lookup,
                     leftBehind, policyOverlap>>,
         agentNames' \in [now : BOOLEAN, before : BOOLEAN, gone : BOOLEAN],
         agentNames'.now => (agentNames'.gone <=> policy = NoPolicy)
  PROVE  PolicyInv'
<1>1. ASSUME ~policyOverlap, ~leftBehind PROVE NamesKept'
  <2>1. NamesKept /\ Named
    BY <1>1 DEF PolicyInv, PolicyAccounts, PolicyQuiescent, PolicyBusy, Unnamed
  <2>2. LookupKept' /\ Ids' = Ids
    BY <2>1 DEF NamesKept, LookupKept, Ids
  <2>3. policy # NoPolicy /\ lookup.guardrail # 0 => lookup.guardrail \in Ids
    BY <2>1 DEF NamesKept, LookupKept, Named
  <2> QED BY <2>1, <2>2, <2>3 DEF NamesKept, Released
<1> QED BY <1>1, PolicyReadersKeep DEF PolicyInv, PolicyTyped

LEMMA SaveAgentKeeps ==
  ASSUME PolicyInv, NEW names \in BOOLEAN, SaveAgent(names)
  PROVE  PolicyInv'
<1>1. agentNames \in [now : BOOLEAN, before : BOOLEAN, gone : BOOLEAN]
  BY DEF PolicyInv, PolicyTyped
<1>2. PICK b \in BOOLEAN : b = (agentNames.before \/ names)
  BY <1>1
<1>3. PICK g \in BOOLEAN : g = (names /\ policy = NoPolicy)
  OBVIOUS
<1>4. agentNames' = [now |-> names, before |-> b, gone |-> g]
  BY <1>2, <1>3 DEF SaveAgent
<1>5. /\ agentNames' \in [now : BOOLEAN, before : BOOLEAN, gone : BOOLEAN]
      /\ agentNames'.now = names /\ agentNames'.gone = g
  BY <1>4
<1>6. agentNames'.now => (agentNames'.gone <=> policy = NoPolicy)
  BY <1>3, <1>5
<1> QED BY <1>5, <1>6, VersionKeeps DEF SaveAgent

LEMMA RestoreOldVersionKeeps ==
  ASSUME PolicyInv, RestoreOldVersion
  PROVE  PolicyInv'
<1>1. agentNames \in [now : BOOLEAN, before : BOOLEAN, gone : BOOLEAN]
  BY DEF PolicyInv, PolicyTyped
<1>2. PICK g \in BOOLEAN : g = (policy = NoPolicy)
  OBVIOUS
<1>3. agentNames' = [agentNames EXCEPT !.now = TRUE, !.gone = g]
  BY <1>2 DEF RestoreOldVersion
<1>4. /\ agentNames' \in [now : BOOLEAN, before : BOOLEAN, gone : BOOLEAN]
      /\ agentNames'.now => (agentNames'.gone <=> policy = NoPolicy)
  BY <1>1, <1>2, <1>3
<1> QED BY <1>4, VersionKeeps DEF RestoreOldVersion

LEMMA BeginLookupKeeps ==
  ASSUME PolicyInv, BeginLookup
  PROVE  PolicyInv'
<1>1. /\ lookup \in [state : {"none", "pending", "resolved"}, guardrail : {0} \cup GuardrailIds]
      /\ agentNames.now
      /\ UNCHANGED <<policy, credential, guardrails, lastGuardrail, policyRequest, agentNames,
                     leftBehind, policyOverlap>>
  BY DEF PolicyInv, PolicyTyped, BeginLookup
<1>2. /\ lookup' \in [state : {"none", "pending", "resolved"}, guardrail : {0} \cup GuardrailIds]
      /\ lookup'.guardrail = lookup.guardrail /\ lookup'.state = "pending"
      /\ lookup.state = "none"
  BY <1>1 DEF BeginLookup
<1>3. ~policyOverlap /\ ~leftBehind => NamesKept'
  BY <1>1, <1>2 DEF PolicyInv, PolicyAccounts, NamesKept, LookupKept, Released, Ids
<1>4. Released => Released'
  BY <1>1 DEF Released
<1> QED BY <1>1, <1>2, <1>3, <1>4, PolicyReadersKeep DEF PolicyInv, PolicyTyped

LEMMA EndLookupKeeps ==
  ASSUME PolicyInv, EndLookup
  PROVE  PolicyInv'
<1>1. /\ UNCHANGED <<policy, credential, guardrails, lastGuardrail, policyRequest, agentNames,
                     leftBehind, policyOverlap>>
      /\ lookup.state = "pending"
  BY DEF EndLookup
<1>2. /\ lookup' \in [state : {"none", "pending", "resolved"}, guardrail : {0} \cup GuardrailIds]
      /\ lookup'.state = "resolved"
      /\ \/ lookup'.guardrail = 0
         \/ policy # NoPolicy /\ lookup'.guardrail = policy.guardrail
  BY NoPolicyIsNone DEF PolicyInv, PolicyTyped, EndLookup
<1>3. ASSUME ~policyOverlap, ~leftBehind PROVE NamesKept'
  <2>1. NamesKept
    BY <1>3 DEF PolicyInv, PolicyAccounts
  <2>2. LookupKept' /\ Ids' = Ids
    BY <1>1, <1>2 DEF LookupKept, Ids
  <2>3. ASSUME agentNames.now, ~agentNames.gone, lookup'.guardrail # 0
        PROVE  lookup'.guardrail \in Ids
    <3>1. policy # NoPolicy /\ lookup'.guardrail = policy.guardrail
      BY <1>2, <2>3
    <3>2. CASE Named
      BY <2>3, <3>1, <3>2 DEF Named
    <3>3. ASSUME NEW r \in PolicyRequests, Unnamed(policyRequest[r])
          PROVE  policy.guardrail \in Ids
      BY <1>3, <2>3, <3>1, <3>3 DEF PolicyInv, PolicyAccounts, Accounted, Unnamed, Released
    <3> QED BY <1>3, <3>1, <3>2, <3>3 DEF PolicyInv, PolicyAccounts
  <2> QED BY <1>1, <1>2, <2>1, <2>2, <2>3 DEF NamesKept, Released
<1>4. Released => Released'
  BY <1>1 DEF Released
<1> QED BY <1>1, <1>2, <1>3, <1>4, PolicyReadersKeep DEF PolicyInv, PolicyTyped

-----------------------------------------------------------------------------
(* The theorems *)

LEMMA PolicyNextKeeps == PolicyInv /\ [PolicyNext]_policyVars => PolicyInv'
<1> SUFFICES ASSUME PolicyInv, [PolicyNext]_policyVars PROVE PolicyInv'
  OBVIOUS
<1>1. ASSUME NEW r \in PolicyRequests, NEW op \in {"create", "update"},
             NEW enabled \in BOOLEAN, NEW account \in Accounts,
             ReceivePolicyRequest(r, op, [enabled |-> enabled, account |-> account,
                                          guardrail |-> 0])
      PROVE  PolicyInv'
  <2>1. PICK new : new = [enabled |-> enabled, account |-> account, guardrail |-> 0]
    OBVIOUS
  <2>2. new \in PolicyItem /\ new.guardrail = 0
    BY <2>1 DEF PolicyItem
  <2>3. ReceivePolicyRequest(r, op, new)
    BY <1>1, <2>1
  <2> QED BY <2>2, <2>3, ReceivePolicyRequestKeeps
<1>2. ASSUME NEW r \in PolicyRequests, NEW op \in {"delete", "dropCredential"},
             ReceivePolicyRequest(r, op, NoPolicy)
      PROVE  PolicyInv'
  BY <1>2, ReceivePolicyRequestKeeps
<1>3. ASSUME NEW r \in PolicyRequests, PolicyStep(r)
      PROVE  PolicyInv'
  BY <1>3, PutNewPolicyKeeps, ReadPolicyKeeps, RereadPolicyKeeps, PutPolicyKeeps,
     ProvisionGuardrailKeeps, ProvisionFailsKeeps, ProvisionAnswerLostKeeps,
     CheckPolicyReferencesKeeps, DeprovisionGuardrailKeeps, DeletePolicyItemKeeps, DropCredentialKeeps,
     CutPolicyRequestKeeps DEF PolicyStep
<1>4. ASSUME NEW names \in BOOLEAN, SaveAgent(names) PROVE PolicyInv'
  BY <1>4, SaveAgentKeeps
<1>5. CASE RestoreOldVersion \/ BeginLookup \/ EndLookup
  BY <1>5, RestoreOldVersionKeeps, BeginLookupKeeps, EndLookupKeeps
<1>6. CASE UNCHANGED policyVars
  BY <1>6 DEF policyVars, PolicyInv, PolicyTyped, PolicyPlaced, PolicyAccounts, PolicyBusy,
              Named, Ids, Unnamed, Accounted, Released, NamesKept, LookupKept
<1> QED BY <1>1, <1>2, <1>3, <1>4, <1>5, <1>6 DEF PolicyNext

LEMMA PolicyAlways == PolicySpec => []PolicyInv
<1> QED BY PolicyInitially, PolicyNextKeeps, PTL DEF PolicySpec

\* The item, its requests and what Bedrock holds keep their types.
THEOREM PolicyTypeCorrect == PolicySpec => []PolicyTypeOK
<1>1. PolicyInv => PolicyTypeOK
  BY DEF PolicyInv, PolicyTyped, PolicyHandler, PolicyTypeOK
<1> QED BY <1>1, PolicyAlways, PTL

\* However many calls Bedrock refuses, requests one at a time leave in Bedrock
\* exactly the guardrail that the item names (guardrail_policies.py), and the
\* guardrail a container looked up exists while the agent's current version names
\* the policy, unless there was no such policy when that version was saved or
\* restored (agents.py looks it up for neither); as long as no request was cut short,
\* no create_guardrail took effect with its answer lost and no deprovisioning
\* failed and was swallowed.
THEOREM BedrockAccounted == PolicySpec => []GuardrailsAccounted
<1>1. ASSUME PolicyInv, ~policyOverlap, ~leftBehind
      PROVE  BedrockHasPolicy /\ AgentKeepsGuardrail
  <2>1. NamesKept /\ (PolicyQuiescent => Named)
    BY <1>1 DEF PolicyInv, PolicyAccounts, PolicyQuiescent, PolicyBusy, Unnamed
  <2>2. BedrockHasPolicy
    BY <2>1 DEF BedrockHasPolicy, Named, Ids
  <2>3. AgentKeepsGuardrail
    BY <2>1 DEF AgentKeepsGuardrail, NamesKept, Ids
  <2> QED BY <2>2, <2>3
<1>2. PolicyInv => GuardrailsAccounted
  BY <1>1 DEF GuardrailsAccounted
<1> QED BY <1>2, PolicyAlways, PTL

=============================================================================
