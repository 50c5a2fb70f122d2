--------------------------- MODULE KnowledgeBase ---------------------------
(* One knowledge base of the library: its item in the knowledge bases table   *)
(* (app/modules/knowledge_base/store.py), the documents under its prefix of   *)
(* the customer's bucket, its Bedrock knowledge base and ingestion jobs       *)
(* (provisioner.py), the scan of documents (ingestion_scan.py) and the        *)
(* requests that act on them (app/api/v1/knowledge_bases.py).                 *)
(*                                                                            *)
(* Each request is a handler that awaits between its reads and its writes, so *)
(* several of them interleave.  A document may also reach the bucket through  *)
(* a presigned URL, without any handler.  S3 and Bedrock are external: the    *)
(* crawl of an ingestion job reads what the prefix holds when the job runs,   *)
(* not when it was started.                                                   *)
(*                                                                            *)
(* kbMode, chosen once, says what the callers do:                             *)
(*   "serial"  one request at a time, each poll for the job started last,     *)
(*             presigned uploads whenever they like;                          *)
(*   "settled" requests overlap, presigned uploads end before a sync starts.  *)
EXTENDS Integers, Sequences, FiniteSets, FiniteSetsExt

CONSTANTS
    Documents,       \* object names under the prefix: numbers, in S3's order
    KbRequests,      \* the requests a behaviour serves, numbered as they arrive
    MaxOverlapping,  \* bound on the requests served where they may overlap
    MaxJobs,         \* bound on the ingestion jobs a behaviour starts
    PageSize         \* objects in one list_objects_v2 reply

ASSUME DocumentsAssumption == Documents \subseteq Nat

VARIABLES
    kb,              \* the item, or NoKb
    bucket,          \* [Documents -> Content], the objects under the prefix
    bedrock,         \* does the Bedrock knowledge base exist?
    index,           \* [Documents -> Content], what Bedrock retrieves from
    jobs,            \* the ingestion jobs' statuses, in the order they started
    kbRequest,       \* [KbRequests -> KbHandler]
    truncated,       \* has a listing been cut off at PageSize?
    kbMode           \* fixed by the initial state

kbVars == <<kb, bucket, bedrock, index, jobs, kbRequest, truncated, kbMode>>

----------------------------------------------------------------------------
(* Types *)

\* What the properties tell apart of an object: whether validate_document and
\* scan_for_prompt_injection would reject it.  What the scan cannot read (a
\* PDF's text) it passes: it counts as clean here.
Content == {"none", "clean", "poisoned"}

NoKb == [status |-> "none"]

KbItem ==
    [status : {"INDEXING", "ACTIVE", "SYNCING"}, documentCount : Nat,
     syncStatus : {"none", "IN_PROGRESS", "COMPLETE", "FAILED"},
     provisioned : BOOLEAN, bucketSet : BOOLEAN]

JobStatus == {"RUNNING", "COMPLETE", "FAILED"}

NoPatch == [field |-> "none"]

\* What a read-modify-write of the store changes in the item it re-reads.
Patch ==
    [field : {"documentCount"}, value : Nat]
        \cup [field : {"syncStatus"}, value : {"IN_PROGRESS", "COMPLETE", "FAILED"}]
        \cup [field : {"status"}, value : {"INDEXING"}]

IdleHandler ==
    [at |-> "idle", saw |-> NoKb, files |-> {}, stored |-> 0, patch |-> NoPatch, item |-> NoKb]

HandlerStates ==
    {"idle", "upload", "deleteObject", "list", "scan", "copy", "remove", "startSync", "refs",
     "deprovision", "emptyPrefix", "deleteItem", "reread", "put", "done"}

KbTypeOK ==
    /\ kb \in KbItem \cup {NoKb}
    /\ bucket \in [Documents -> Content]
    /\ bedrock \in BOOLEAN
    /\ index \in [Documents -> Content]
    /\ jobs \in Seq(JobStatus)
    /\ \A r \in KbRequests :
          /\ kbRequest[r].at \in HandlerStates
          /\ kbRequest[r].saw \in KbItem \cup {NoKb}
          /\ kbRequest[r].stored \in Nat
          /\ kbRequest[r].patch \in Patch \cup {NoPatch}
          /\ kbRequest[r].item \in KbItem \cup {NoKb}
    /\ truncated \in BOOLEAN
    /\ kbMode \in {"serial", "settled"}

KbInit ==
    /\ kb = NoKb
    /\ bucket = [d \in Documents |-> "none"]
    /\ bedrock = FALSE
    /\ index = [d \in Documents |-> "none"]
    /\ jobs = << >>
    /\ kbRequest = [r \in KbRequests |-> IdleHandler]
    /\ truncated = FALSE
    /\ kbMode \in {"serial", "settled"}

----------------------------------------------------------------------------
(* Helpers *)

KbAt(r, state) == kbRequest[r].at = state

KbBusy(r) == kbRequest[r].at \notin {"idle", "done"}

MayStart(r) ==
    /\ KbAt(r, "idle")
    /\ \A q \in KbRequests : q < r => ~KbAt(q, "idle")
    /\ kbMode = "serial" => \A q \in KbRequests : ~KbBusy(q)
    /\ kbMode = "settled" => r <= MaxOverlapping

Objects == {d \in Documents : bucket[d] # "none"}

\* One list_objects_v2 reply, in the order of the keys.  No caller asks for
\* the next page.
FirstPage ==
    {d \in Objects : Cardinality({e \in Objects : e < d}) < PageSize}

Provisioned(item) == item # NoKb /\ item.bucketSet

Goes(r, state) == kbRequest' = [kbRequest EXCEPT ![r].at = state]

Ends(r) == kbRequest' = [kbRequest EXCEPT ![r] = [IdleHandler EXCEPT !.at = "done"]]

Starts(r, state, files) ==
    kbRequest' = [kbRequest EXCEPT
                    ![r] = [IdleHandler EXCEPT !.at = state, !.saw = kb, !.files = files]]

\* Continue with one of the store's get-then-put methods.
Stores(r, patch) ==
    kbRequest' = [kbRequest EXCEPT
                    ![r] = [IdleHandler EXCEPT !.at = "reread", !.patch = patch]]

JobRuns == \E j \in DOMAIN jobs : jobs[j] = "RUNNING"

SyncHandlerStates == {"list", "scan", "copy", "remove", "startSync"}

----------------------------------------------------------------------------
(* The store *)

\* With a bucket in the tenant's settings the Bedrock resources come first, and
\* when they fail no item is written.  source_type "s3" names a bucket of its
\* own, with or without Bedrock behind it; bucketSet is FALSE too when it names
\* no prefix.
NewKb(provisioned, bucketSet) ==
    [status |-> IF provisioned THEN "ACTIVE" ELSE "INDEXING", documentCount |-> 0,
     syncStatus |-> "none", provisioned |-> provisioned, bucketSet |-> bucketSet]

CreateKb ==
    /\ kb = NoKb
    /\ \A r \in KbRequests : KbAt(r, "idle")
    /\ \E provisioned, bucketSet \in BOOLEAN :
          /\ kb' = NewKb(provisioned, bucketSet)
          /\ bedrock' = provisioned
    /\ UNCHANGED <<bucket, index, jobs, kbRequest, truncated, kbMode>>

StoreReread(r) ==
    /\ KbAt(r, "reread")
    /\ IF kb = NoKb
       THEN Ends(r)                       \* KnowledgeBaseNotFoundError
       ELSE kbRequest' = [kbRequest EXCEPT ![r].at = "put", ![r].item = kb]
    /\ UNCHANGED <<kb, bucket, bedrock, index, jobs, truncated, kbMode>>

\* Mutant of Patched: a running sync is not recorded.
PatchedStatus(item, patch) ==
    CASE patch.field = "documentCount" -> [item EXCEPT !.documentCount = patch.value]
      [] patch.field = "status"        -> [item EXCEPT !.status = patch.value]
      [] patch.field = "syncStatus"    ->
            [item EXCEPT !.status = IF patch.value = "IN_PROGRESS" THEN "SYNCING" ELSE "ACTIVE"]

Patched(item, patch) ==
    CASE patch.field = "documentCount" -> [item EXCEPT !.documentCount = patch.value]
      [] patch.field = "status"        -> [item EXCEPT !.status = patch.value]
      [] patch.field = "syncStatus"    ->
            [item EXCEPT !.syncStatus = patch.value,
                         !.status = IF patch.value = "IN_PROGRESS" THEN "SYNCING" ELSE "ACTIVE"]

\* A whole-item put, with no condition.
StorePut(r) ==
    /\ KbAt(r, "put")
    /\ kb' = Patched(kbRequest[r].item, kbRequest[r].patch)
    /\ Ends(r)
    /\ UNCHANGED <<bucket, bedrock, index, jobs, truncated, kbMode>>

----------------------------------------------------------------------------
(* Documents *)

\* POST .../documents: the record's count is read once, before the files.
StartUpload(r) ==
    /\ MayStart(r) /\ Provisioned(kb)
    /\ \E files \in (SUBSET Documents) \ {{}} : Starts(r, "upload", files)
    /\ UNCHANGED <<kb, bucket, bedrock, index, jobs, truncated, kbMode>>

\* Each file is scanned from memory and written only when it passes.
UploadFile(r) ==
    /\ KbAt(r, "upload") /\ kbRequest[r].files # {}
    /\ LET d == Min(kbRequest[r].files) IN
          \/ /\ bucket' = [bucket EXCEPT ![d] = "clean"]
             /\ kbRequest' = [kbRequest EXCEPT ![r].files = @ \ {d}, ![r].stored = @ + 1]
          \/ /\ kbRequest' = [kbRequest EXCEPT ![r].files = @ \ {d}]     \* rejected
             /\ UNCHANGED bucket
          \/ Ends(r) /\ UNCHANGED bucket                                 \* 503
    /\ UNCHANGED <<kb, bedrock, index, jobs, truncated, kbMode>>

FinishUpload(r) ==
    /\ KbAt(r, "upload") /\ kbRequest[r].files = {}
    /\ Stores(r, [field |-> "documentCount",
                  value |-> kbRequest[r].saw.documentCount + kbRequest[r].stored])
    /\ UNCHANGED <<kb, bucket, bedrock, index, jobs, truncated, kbMode>>

\* The browser's PUT to a presigned URL: no handler of the Runtime runs.
PresignedPut(d, content) ==
    /\ Provisioned(kb)
    /\ kbMode = "settled" =>
          ~JobRuns /\ \A r \in KbRequests : kbRequest[r].at \notin SyncHandlerStates
    /\ bucket' = [bucket EXCEPT ![d] = content]
    /\ UNCHANGED <<kb, bedrock, index, jobs, kbRequest, truncated, kbMode>>

StartDeleteDocument(r) ==
    /\ MayStart(r) /\ Provisioned(kb)
    /\ \E d \in Documents : Starts(r, "deleteObject", {d})
    /\ UNCHANGED <<kb, bucket, bedrock, index, jobs, truncated, kbMode>>

\* Mutant of DeleteObject: the count is not kept from going below zero.
DeleteObjectBelowZero(r) ==
    /\ KbAt(r, "deleteObject")
    /\ bucket' = [d \in Documents |-> IF d \in kbRequest[r].files THEN "none" ELSE bucket[d]]
    /\ Stores(r, [field |-> "documentCount", value |-> kbRequest[r].saw.documentCount - 1])
    /\ UNCHANGED <<kb, bedrock, index, jobs, truncated, kbMode>>

\* The count goes down whether or not there was such an object.
DeleteObject(r) ==
    /\ KbAt(r, "deleteObject")
    /\ bucket' = [d \in Documents |-> IF d \in kbRequest[r].files THEN "none" ELSE bucket[d]]
    /\ LET count == kbRequest[r].saw.documentCount IN
       Stores(r, [field |-> "documentCount", value |-> IF count = 0 THEN 0 ELSE count - 1])
    /\ UNCHANGED <<kb, bedrock, index, jobs, truncated, kbMode>>

Reindex(r) ==
    /\ MayStart(r) /\ kb # NoKb
    /\ Stores(r, [field |-> "status", value |-> "INDEXING"])
    /\ UNCHANGED <<kb, bucket, bedrock, index, jobs, truncated, kbMode>>

----------------------------------------------------------------------------
(* Sync *)

StartSync(r) ==
    /\ MayStart(r) /\ Provisioned(kb)
    /\ kb.syncStatus # "IN_PROGRESS"
    /\ Starts(r, "list", {})
    /\ UNCHANGED <<kb, bucket, bedrock, index, jobs, truncated, kbMode>>

ListDocuments(r) ==
    /\ KbAt(r, "list")
    /\ kbRequest' = [kbRequest EXCEPT ![r].at = "scan", ![r].files = FirstPage]
    /\ truncated' = (truncated \/ FirstPage # Objects)
    /\ UNCHANGED <<kb, bucket, bedrock, index, jobs, kbMode>>

\* Reads one listed object and scans it.  An object deleted since then makes
\* get_object raise, and the request ends.
ScanDocument(r) ==
    /\ KbAt(r, "scan") /\ kbRequest[r].files # {}
    /\ LET d == Min(kbRequest[r].files) IN
          CASE bucket[d] = "none"     -> Ends(r)
            [] bucket[d] = "clean"    -> kbRequest' = [kbRequest EXCEPT ![r].files = @ \ {d}]
            [] bucket[d] = "poisoned" -> Goes(r, "copy")
    /\ UNCHANGED <<kb, bucket, bedrock, index, jobs, truncated, kbMode>>

CopyToQuarantine(r) ==
    /\ KbAt(r, "copy")
    /\ LET d == Min(kbRequest[r].files) IN
       IF bucket[d] = "none" THEN Ends(r) ELSE Goes(r, "remove")
    /\ UNCHANGED <<kb, bucket, bedrock, index, jobs, truncated, kbMode>>

\* Mutant of RemoveDocument: the copy is quarantined and the original stays.
KeepDocument(r) ==
    /\ KbAt(r, "remove")
    /\ kbRequest' = [kbRequest EXCEPT
          ![r].at = "scan", ![r].files = @ \ {Min(kbRequest[r].files)}]
    /\ UNCHANGED <<kb, bucket, bedrock, index, jobs, truncated, kbMode>>

RemoveDocument(r) ==
    /\ KbAt(r, "remove")
    /\ LET d == Min(kbRequest[r].files) IN
          /\ bucket' = [bucket EXCEPT ![d] = "none"]
          /\ kbRequest' = [kbRequest EXCEPT ![r].at = "scan", ![r].files = @ \ {d}]
    /\ UNCHANGED <<kb, bedrock, index, jobs, truncated, kbMode>>

ScanComplete(r) ==
    /\ KbAt(r, "scan") /\ kbRequest[r].files = {}
    /\ Goes(r, "startSync")
    /\ UNCHANGED <<kb, bucket, bedrock, index, jobs, truncated, kbMode>>

\* start_sync works from the record as it was before the scan, and raises
\* without a Bedrock knowledge base behind it or when Bedrock refuses.
StartIngestion(r) ==
    /\ KbAt(r, "startSync")
    /\ \/ /\ kbRequest[r].saw.provisioned /\ bedrock /\ Len(jobs) < MaxJobs
          /\ jobs' = Append(jobs, "RUNNING")
          /\ Stores(r, [field |-> "syncStatus", value |-> "IN_PROGRESS"])
       \/ Ends(r) /\ UNCHANGED jobs
    /\ UNCHANGED <<kb, bucket, bedrock, index, truncated, kbMode>>

\* GET .../sync/status names a job and files its outcome in the record.
PollSyncStatus(r) ==
    /\ MayStart(r) /\ kb # NoKb /\ kb.provisioned
    /\ \E j \in DOMAIN jobs :
          /\ kbMode = "serial" => j = Len(jobs)
          /\ IF jobs[j] = "RUNNING" THEN Ends(r)
             ELSE Stores(r, [field |-> "syncStatus", value |-> jobs[j]])
    /\ UNCHANGED <<kb, bucket, bedrock, index, jobs, truncated, kbMode>>

----------------------------------------------------------------------------
(* DELETE of the knowledge base *)

StartDeleteKb(r) ==
    /\ MayStart(r) /\ kb # NoKb
    /\ Starts(r, "refs", {})
    /\ UNCHANGED <<kb, bucket, bedrock, index, jobs, truncated, kbMode>>

\* Reads the current version of every agent: 409 when one names this kb_id.
CheckReferences(r) ==
    /\ KbAt(r, "refs")
    /\ Ends(r) \/ Goes(r, "deprovision")
    /\ UNCHANGED <<kb, bucket, bedrock, index, jobs, truncated, kbMode>>

\* Best effort: a failure is swallowed, whatever is left behind.
Deprovision(r) ==
    /\ KbAt(r, "deprovision")
    /\ \/ /\ bedrock' = FALSE
          /\ index' = [d \in Documents |-> "none"]
          /\ jobs' = [j \in DOMAIN jobs |-> IF jobs[j] = "RUNNING" THEN "FAILED" ELSE jobs[j]]
       \/ UNCHANGED <<bedrock, index, jobs>>
    /\ Goes(r, "emptyPrefix")
    /\ UNCHANGED <<kb, bucket, truncated, kbMode>>

\* One page of the prefix.  A storage error ends the request here.
EmptyPrefix(r) ==
    /\ KbAt(r, "emptyPrefix")
    /\ \/ /\ bucket' = [d \in Documents |->
               IF Provisioned(kbRequest[r].saw) /\ d \in FirstPage THEN "none" ELSE bucket[d]]
          /\ Goes(r, "deleteItem")
       \/ Ends(r) /\ UNCHANGED bucket
    /\ UNCHANGED <<kb, bedrock, index, jobs, truncated, kbMode>>

DeleteItem(r) ==
    /\ KbAt(r, "deleteItem")
    /\ kb' = NoKb
    /\ Ends(r)
    /\ UNCHANGED <<bucket, bedrock, index, jobs, truncated, kbMode>>

----------------------------------------------------------------------------
(* The environment *)

\* Bedrock crawls the prefix, dropping what is no longer there, or fails.
JobCrawls(j) ==
    /\ jobs[j] = "RUNNING"
    /\ \/ index' = bucket /\ jobs' = [jobs EXCEPT ![j] = "COMPLETE"]
       \/ jobs' = [jobs EXCEPT ![j] = "FAILED"] /\ UNCHANGED index
    /\ UNCHANGED <<kb, bucket, bedrock, kbRequest, truncated, kbMode>>

KbRequestStep(r) ==
    \/ StartUpload(r) \/ UploadFile(r) \/ FinishUpload(r)
    \/ StartDeleteDocument(r) \/ DeleteObject(r) \/ Reindex(r)
    \/ StartSync(r) \/ ListDocuments(r) \/ ScanDocument(r) \/ CopyToQuarantine(r)
    \/ RemoveDocument(r) \/ ScanComplete(r) \/ StartIngestion(r) \/ PollSyncStatus(r)
    \/ StartDeleteKb(r) \/ CheckReferences(r) \/ Deprovision(r) \/ EmptyPrefix(r) \/ DeleteItem(r)
    \/ StoreReread(r) \/ StorePut(r)

KbNext ==
    \/ CreateKb
    \/ \E r \in KbRequests : KbRequestStep(r)
    \/ \E d \in Documents, content \in {"clean", "poisoned"} : PresignedPut(d, content)
    \/ \E j \in DOMAIN jobs : JobCrawls(j)

KbSpec == KbInit /\ [][KbNext]_kbVars

----------------------------------------------------------------------------
(* Properties *)

\* Bedrock never retrieves from a document the scan would reject, as long as no
\* presigned upload lands while a sync or a job is under way and no listing is
\* cut off: whatever syncs, uploads and deletes overlap, the gate of
\* trigger_sync is one nothing skips.
IndexIsVetted ==
    kbMode = "settled" /\ ~truncated => \A d \in Documents : index[d] # "poisoned"

\* One request at a time, and a client that polls the job it started, two
\* ingestion jobs never run together: the record's sync_status, written after
\* the job was started and cleared by polls, by uploads and edits in between
\* rewritten whole, is a lock that holds.
OneJobAtATime ==
    kbMode = "serial" => Cardinality({j \in DOMAIN jobs : jobs[j] = "RUNNING"}) <= 1

=============================================================================
