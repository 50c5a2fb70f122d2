---- MODULE ToolApproval ----
(***************************************************************************)
(* Human approval of a HIGH / DESTRUCTIVE tool call, across the two        *)
(* services that share the HITL reviews table:                             *)
(*   - the generated agent runtime (services/agent-runtime) runs a chat    *)
(*     turn, pauses it on a tool call that needs approval, and resumes it  *)
(*     when a client asks it to;                                           *)
(*   - the Factory Runtime (app/modules/hitl) lets reviewers approve,      *)
(*     reject or ask for information, by a read of the review followed by  *)
(*     an unconditional put of the whole item.                             *)
(* A review is named by the turn that may create it.                       *)
(***************************************************************************)
EXTENDS Naturals, Sequences

CONSTANTS
    Reviews,         \* chat turns, each of which may create one review
    Reviewers,       \* request handlers of the Factory Runtime's HITL routes
    Resumers,        \* request handlers of the runtime's resume route
    Batches,         \* the batches of tool calls the LLM may answer a turn with
    SerialDecisions, \* TRUE: decisions on one review never overlap in time
    MaxAborts        \* bound on handlers that die or raise half way

(* What ToolPolicyEngine.check decides for a call: run it, ask a human,     *)
(* deny it; "unknown" is a call that names no tool of the agent or whose    *)
(* arguments do not parse, reported to the LLM without being invoked.       *)
Policy == {"allow", "approve", "deny", "unknown"}

ASSUME BatchesAssumption == Batches \subseteq Seq(Policy)
ASSUME SerialAssumption == SerialDecisions \in BOOLEAN
ASSUME MaxAbortsAssumption == MaxAborts \in Nat

VARIABLES
    batch,     \* batch[r]: the policy of each tool call the LLM makes in turn r
    review,    \* the reviews table: one item per turn, "absent" until created
    turn,      \* run(): where the chat turn is, and its position in the batch
    decision,  \* what each reviewer's handler holds between its get and its put
    resume,    \* what each resume handler holds
    invoked,   \* invoked[r][i]: times the Lambda of call i of turn r was invoked
    reported,  \* outcomes the resume route has returned for a review
    aborts     \* handlers aborted so far

vars == <<batch, review, turn, decision, resume, invoked, reported, aborts>>

Calls(r) == 1..Len(batch[r])
Decided == {"approved", "rejected", "info_requested"}
Status == {"absent", "pending"} \cup Decided
ResumedAt == {"missing", "null", "set"}
\* Mutants of Denied: a timeout is not denied; a rejection is not denied.
DeniedByReviewer == {"rejected"}
DeniedByClock == {"timeout"}

Denied == {"rejected", "timeout"}   \* the decisions that end a resume with no call
Outcomes == Decided \cup {"timeout"}

Absent == [status |-> "absent", resumed_at |-> "missing", call |-> 0, expired |-> FALSE]
IdleDecision == [pc |-> "idle"]
IdleResume == [pc |-> "idle"]

Init ==
    /\ batch \in [Reviews -> Batches]
    /\ review = [r \in Reviews |-> Absent]
    /\ turn = [r \in Reviews |-> [pc |-> "idle", next |-> 1]]
    /\ decision = [v \in Reviewers |-> IdleDecision]
    /\ resume = [c \in Resumers |-> IdleResume]
    /\ invoked = [r \in Reviews |-> [i \in Calls(r) |-> 0]]
    /\ reported = [r \in Reviews |-> {}]
    /\ aborts = 0

(***************************************************************************)
(* The chat turn: AgentOrchestrator.run and ToolExecutor.execute.          *)
(***************************************************************************)

\* The LLM answered with tool calls; execute() starts on the batch.
StartTurn(r) ==
    /\ turn[r].pc = "idle"
    /\ turn' = [turn EXCEPT ![r].pc = "calling"]
    /\ UNCHANGED <<batch, review, decision, resume, invoked, reported, aborts>>

\* An allowed call is invoked; an unknown one only adds an error result.
TurnCall(r) ==
    LET i == turn[r].next IN
    /\ turn[r].pc = "calling"
    /\ i \in Calls(r)
    /\ batch[r][i] \in {"allow", "unknown"}
    /\ invoked' = IF batch[r][i] = "allow"
                  THEN [invoked EXCEPT ![r][i] = @ + 1]
                  ELSE invoked
    /\ turn' = [turn EXCEPT ![r].next = i + 1]
    /\ UNCHANGED <<batch, review, decision, resume, reported, aborts>>

\* ToolDeniedError: the turn ends with a 403.
TurnDenied(r) ==
    LET i == turn[r].next IN
    /\ turn[r].pc = "calling"
    /\ i \in Calls(r)
    /\ batch[r][i] = "deny"
    /\ turn' = [turn EXCEPT ![r].pc = "refused"]
    /\ UNCHANGED <<batch, review, decision, resume, invoked, reported, aborts>>

\* The call the review names: the first of the batch with the tool's name. That
\* is the call that raised, unless an earlier call of that tool was malformed.
Matching(r, i) == {i} \cup {j \in 1..(i - 1) : batch[r][j] = "unknown"}

\* ApprovalRequiredError: _request_tool_approval puts a new pending item, with
\* no resumed_at attribute.
RequestApproval(r) ==
    LET i == turn[r].next IN
    /\ turn[r].pc = "calling"
    /\ i \in Calls(r)
    /\ batch[r][i] = "approve"
    /\ \E j \in Matching(r, i) :
         review' = [review EXCEPT ![r] = [status |-> "pending", resumed_at |-> "missing",
                                          call |-> j, expired |-> FALSE]]
    /\ turn' = [turn EXCEPT ![r].pc = "notifying"]
    /\ UNCHANGED <<batch, decision, resume, invoked, reported, aborts>>

\* The SNS publish after the put may raise: the client then gets a 500 and never
\* learns the review id, but the review is there to be decided.
NotifyReviewers(r) ==
    /\ turn[r].pc = "notifying"
    /\ \E pc \in {"paused", "failed"} : turn' = [turn EXCEPT ![r].pc = pc]
    /\ UNCHANGED <<batch, review, decision, resume, invoked, reported, aborts>>

\* The batch is done: the second LLM call and _finalize answer the client.
FinishTurn(r) ==
    /\ turn[r].pc = "calling"
    /\ turn[r].next \notin Calls(r)
    /\ turn' = [turn EXCEPT ![r].pc = "answered"]
    /\ UNCHANGED <<batch, review, decision, resume, invoked, reported, aborts>>

\* timeout_hours pass. Only get_decision looks at the clock; nothing is stored.
Expire(r) ==
    /\ review[r].status = "pending"
    /\ ~review[r].expired
    /\ review' = [review EXCEPT ![r].expired = TRUE]
    /\ UNCHANGED <<batch, turn, decision, resume, invoked, reported, aborts>>

(***************************************************************************)
(* The reviewers: HitlReviewStore._decide, a get and then a put.           *)
(***************************************************************************)

\* _require_pending: an item that is absent (404) or decided (409) changes nothing.
RequirePending(v, r) ==
    /\ decision[v].pc = "idle"
    /\ SerialDecisions =>
         \A w \in Reviewers : decision[w].pc = "put" => decision[w].review # r
    /\ review[r].status = "pending"
    /\ \E d \in Decided :
         decision' = [decision EXCEPT ![v] =
                        [pc |-> "put", review |-> r, to |-> d, read |-> review[r]]]
    /\ UNCHANGED <<batch, review, turn, resume, invoked, reported, aborts>>

\* model_dump writes a resumed_at the item did not have as an explicit NULL.
Dumped(resumed_at) == IF resumed_at = "missing" THEN "null" ELSE resumed_at

\* The put rewrites the whole item from what was read. The deadline is a fact
\* about the clock, not an attribute, so it is not written back.
Decide(v) ==
    /\ decision[v].pc = "put"
    /\ LET r == decision[v].review
           read == decision[v].read
       IN review' = [review EXCEPT ![r] =
                       [status |-> decision[v].to,
                        resumed_at |-> Dumped(read.resumed_at),
                        call |-> read.call,
                        expired |-> review[r].expired]]
    /\ decision' = [decision EXCEPT ![v] = IdleDecision]
    /\ UNCHANGED <<batch, turn, resume, invoked, reported, aborts>>

\* The handler dies, or put_item raises, before the put.
AbortDecision(v) ==
    /\ decision[v].pc = "put"
    /\ aborts < MaxAborts
    /\ decision' = [decision EXCEPT ![v] = IdleDecision]
    /\ aborts' = aborts + 1
    /\ UNCHANGED <<batch, review, turn, resume, invoked, reported>>

(***************************************************************************)
(* The resume route: AgentOrchestrator.resume_after_approval.              *)
(***************************************************************************)

\* What get_decision reports for a review that exists.
Decision(r) ==
    IF review[r].status = "pending" /\ review[r].expired THEN "timeout"
    ELSE review[r].status

\* Mutant of GetDecision: a pending review is not turned away.
GetAnyDecision(c, r) ==
    /\ resume[c].pc = "idle"
    /\ Decision(r) # "absent"
    /\ resume' = [resume EXCEPT ![c] =
                    [pc |-> "claim", review |-> r, saw |-> Decision(r), next |-> 1]]
    /\ UNCHANGED <<batch, review, turn, decision, invoked, reported, aborts>>

\* A review that is absent, or pending and not expired, gets a 202.
GetDecision(c, r) ==
    /\ resume[c].pc = "idle"
    /\ Decision(r) \notin {"absent", "pending"}
    /\ resume' = [resume EXCEPT ![c] =
                    [pc |-> "claim", review |-> r, saw |-> Decision(r), next |-> 1]]
    /\ UNCHANGED <<batch, review, turn, decision, invoked, reported, aborts>>

\* Mutants of Claimable: the update is unconditional; its condition leaves out the
\* NULL that a reviewer's put writes.
AlwaysClaimable(r) == r \in Reviews
ClaimableIfMissing(r) == review[r].resumed_at = "missing"

\* try_claim_resume's condition: resumed_at is missing, or the NULL of a put.
Claimable(r) == review[r].resumed_at \in {"missing", "null"}

\* The conditional update succeeds: this handler owns the outcome.
TryClaimResume(c) ==
    /\ resume[c].pc = "claim"
    /\ LET r == resume[c].review IN
         /\ Claimable(r)
         /\ review' = [review EXCEPT ![r].resumed_at = "set"]
    /\ resume' = [resume EXCEPT ![c].pc =
                    IF resume[c].saw \in Denied THEN "deny" ELSE "calling"]
    /\ UNCHANGED <<batch, turn, decision, invoked, reported, aborts>>

\* ConditionalCheckFailedException: the client gets "already_processed".
AlreadyProcessed(c) ==
    /\ resume[c].pc = "claim"
    /\ ~Claimable(resume[c].review)
    /\ resume' = [resume EXCEPT ![c] = IdleResume]
    /\ UNCHANGED <<batch, review, turn, decision, invoked, reported, aborts>>

\* Rejected or timed out: an audit event and the blocked response.
ReportDenied(c) ==
    /\ resume[c].pc = "deny"
    /\ reported' = [reported EXCEPT ![resume[c].review] = @ \cup {resume[c].saw}]
    /\ resume' = [resume EXCEPT ![c] = IdleResume]
    /\ UNCHANGED <<batch, review, turn, decision, invoked, aborts>>

\* enforce() is skipped for the call the review names and for no other.
Enforced(r, i) ==
    IF i = review[r].call /\ batch[r][i] # "unknown" THEN "allow" ELSE batch[r][i]

\* The whole batch is executed again, from its first call.
ResumeCall(c) ==
    /\ resume[c].pc = "calling"
    /\ LET r == resume[c].review
           i == resume[c].next
       IN /\ i \in Calls(r)
          /\ Enforced(r, i) \in {"allow", "unknown"}
          /\ invoked' = IF Enforced(r, i) = "allow"
                        THEN [invoked EXCEPT ![r][i] = @ + 1]
                        ELSE invoked
          /\ resume' = [resume EXCEPT ![c].next = i + 1]
    /\ UNCHANGED <<batch, review, turn, decision, reported, aborts>>

\* A later call of the batch is denied or needs an approval of its own: the
\* exception leaves resume_after_approval and the client gets a 500.
ResumeRaises(c) ==
    /\ resume[c].pc = "calling"
    /\ LET r == resume[c].review
           i == resume[c].next
       IN /\ i \in Calls(r)
          /\ Enforced(r, i) \in {"deny", "approve"}
    /\ resume' = [resume EXCEPT ![c] = IdleResume]
    /\ UNCHANGED <<batch, review, turn, decision, invoked, reported, aborts>>

FinishResume(c) ==
    /\ resume[c].pc = "calling"
    /\ resume[c].next \notin Calls(resume[c].review)
    /\ reported' = [reported EXCEPT ![resume[c].review] = @ \cup {"approved"}]
    /\ resume' = [resume EXCEPT ![c] = IdleResume]
    /\ UNCHANGED <<batch, review, turn, decision, invoked, aborts>>

\* The container stops, or a Lambda / LLM / DynamoDB call raises, half way.
AbortResume(c) ==
    /\ resume[c].pc # "idle"
    /\ aborts < MaxAborts
    /\ resume' = [resume EXCEPT ![c] = IdleResume]
    /\ aborts' = aborts + 1
    /\ UNCHANGED <<batch, review, turn, decision, invoked, reported>>

TurnStep(r) ==
    \/ StartTurn(r) \/ TurnCall(r) \/ TurnDenied(r)
    \/ RequestApproval(r) \/ NotifyReviewers(r) \/ FinishTurn(r)

\* The steps a resume handler takes once it has read the decision.
ResumeStep(c) ==
    \/ TryClaimResume(c) \/ AlreadyProcessed(c) \/ ReportDenied(c)
    \/ ResumeCall(c) \/ ResumeRaises(c) \/ FinishResume(c)

Next ==
    \/ \E r \in Reviews : TurnStep(r) \/ Expire(r)
    \/ \E v \in Reviewers :
         (\E r \in Reviews : RequirePending(v, r)) \/ Decide(v) \/ AbortDecision(v)
    \/ \E c \in Resumers :
         (\E r \in Reviews : GetDecision(c, r)) \/ ResumeStep(c) \/ AbortResume(c)

Spec == Init /\ [][Next]_vars

\* Handlers run to their end unless they abort, and the client of a decided
\* review keeps calling the resume route.
Fairness ==
    /\ \A c \in Resumers : WF_vars(ResumeStep(c))
    /\ \A r \in Reviews : SF_vars(\E c \in Resumers : GetDecision(c, r))

FairSpec == Spec /\ Fairness

----
(***************************************************************************)
(* Properties.                                                             *)
(***************************************************************************)

ReviewItem == [status : Status, resumed_at : ResumedAt, call : Nat, expired : BOOLEAN]

TurnState ==
    [pc : {"idle", "calling", "notifying", "paused", "failed", "refused", "answered"},
     next : Nat \ {0}]

Deciding == [pc : {"put"}, review : Reviews, to : Decided, read : ReviewItem]

Resuming == [pc : {"claim", "deny", "calling"}, review : Reviews,
             saw : Outcomes, next : Nat \ {0}]

InvokedType ==
    /\ DOMAIN invoked = Reviews
    /\ \A r \in Reviews : invoked[r] \in [Calls(r) -> Nat]

\* Type invariant of the tables and of what the handlers hold.
TypeOK ==
    /\ batch \in [Reviews -> Seq(Policy)]
    /\ review \in [Reviews -> ReviewItem]
    /\ turn \in [Reviews -> TurnState]
    /\ decision \in [Reviewers -> Deciding \cup {IdleDecision}]
    /\ resume \in [Resumers -> Resuming \cup {IdleResume}]
    /\ InvokedType
    /\ reported \in [Reviews -> SUBSET Outcomes]
    /\ aborts \in Nat

\* A call that needs approval is invoked at most once, however many clients
\* resume the review, retry, or lose their handler half way
\* (tool_approval.py try_claim_resume: a racing or retried resume must not
\* invoke a DESTRUCTIVE tool a second time).
GatedCallAtMostOnce ==
    \A r \in Reviews : \A i \in Calls(r) :
        batch[r][i] = "approve" => invoked[r][i] <= 1

\* A gated call runs only once a reviewer has answered something other than
\* "rejected", and only the call the review was opened for
\* (resume_after_approval, ToolExecutor.execute).
GatedCallNeedsDecision ==
    \A r \in Reviews : \A i \in Calls(r) :
        /\ batch[r][i] = "deny" => invoked[r][i] = 0
        /\ batch[r][i] = "approve" /\ invoked[r][i] > 0
             => /\ review[r].call = i
                /\ review[r].status \in {"approved", "info_requested"}

\* Once a review is decided its status never changes again
\* (HitlReviewStore._require_pending answers 409).
DecisionIsFinal ==
    [][\A r \in Reviews :
         review[r].status \in Decided => review'[r].status = review[r].status]_vars

\* With a client that keeps asking, every decided review is eventually claimed by
\* a resume (get_decision, try_claim_resume).
DecidedIsClaimed ==
    \A r \in Reviews :
        review[r].status \in Decided ~> review[r].resumed_at = "set"

\* The comment in resume_after_approval: once claimed, the review is locked to
\* the outcome returned. Two different outcomes are never reported.
OutcomeIsLocked ==
    \A r \in Reviews : \A o, p \in reported[r] : o = p

\* The gated call runs only when a human has approved it
\* (tool_executor.py docstring on pre_approved_call_id).
GatedCallOnlyIfApproved ==
    \A r \in Reviews : \A i \in Calls(r) :
        batch[r][i] = "approve" /\ invoked[r][i] > 0 => review[r].status = "approved"

(* The abstract specification this one implements when decisions on one     *)
(* review do not overlap. A review with several gated calls has one that    *)
(* was paused on; only that one can run.                                    *)
Contract == INSTANCE ToolApprovalContract WITH
    status <- [r \in Reviews |-> review[r].status],
    ran <- [r \in Reviews |-> review[r].status # "absent" /\ invoked[r][review[r].call] > 0]

\* The review and the gated call go through the steps of the contract and no
\* other (resume_after_approval over the reviews table).
ImplementsContract == Contract!Spec
====
