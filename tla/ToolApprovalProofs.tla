---- MODULE ToolApprovalProofs ----
(***************************************************************************)
(* Proofs about ToolApproval for every set of turns, reviewers, clients    *)
(* and batches.                                                            *)
(***************************************************************************)
EXTENDS ToolApproval, TLAPS

(***************************************************************************)
(* The inductive invariant behind the safety properties, when decisions on *)
(* one review do not overlap.                                              *)
(***************************************************************************)
Granted == {"approved", "info_requested"}

\* A turn that has not paused has no review.
ReviewOfPausedTurn ==
    \A r \in Reviews :
        turn[r].pc \in {"idle", "calling", "refused", "answered"}
            => review[r].status = "absent"

\* A review names the gated call it was opened for, or a malformed one before it.
ReviewNamesGate ==
    \A r \in Reviews :
        review[r].status # "absent"
            => review[r].call \in Calls(r) /\ batch[r][review[r].call] \in {"approve", "unknown"}

\* Between its get and its put a reviewer's handler holds what the table holds.
PutIsFresh ==
    \A v \in Reviewers : decision[v].pc = "put" =>
        /\ review[decision[v].review].status = "pending"
        /\ decision[v].read.call = review[decision[v].review].call

OnePutPerReview ==
    \A v, w \in Reviewers :
        decision[v].pc = "put" /\ decision[w].pc = "put"
            /\ decision[v].review = decision[w].review => v = w

\* A resume acts on a decision that still stands.
ResumeSawDecision ==
    \A c \in Resumers : resume[c].pc # "idle" =>
        /\ review[resume[c].review].status # "absent"
        /\ resume[c].saw \in Decided => review[resume[c].review].status = resume[c].saw

\* A resume that executes tools holds the claim, granted, and nobody else does.
CallingHoldsClaim ==
    \A c \in Resumers : resume[c].pc = "calling" =>
        /\ resume[c].saw \in Granted
        /\ review[resume[c].review].resumed_at = "set"

OneCallingPerReview ==
    \A c, d \in Resumers :
        resume[c].pc = "calling" /\ resume[d].pc = "calling"
            /\ resume[c].review = resume[d].review => c = d

\* A resume that has not passed the gated call finds it not yet run.
GateAhead ==
    \A c \in Resumers :
        resume[c].pc = "calling"
            /\ resume[c].next <= review[resume[c].review].call
            => invoked[resume[c].review][review[resume[c].review].call] = 0

GatedRun ==
    \A r \in Reviews : \A i \in Calls(r) :
        /\ batch[r][i] \in {"deny", "unknown"} => invoked[r][i] = 0
        /\ batch[r][i] = "approve" =>
             /\ invoked[r][i] <= 1
             /\ invoked[r][i] > 0 =>
                  /\ i = review[r].call
                  /\ review[r].status \in Granted
                  /\ review[r].resumed_at = "set"

Claims ==
    /\ ReviewOfPausedTurn /\ ReviewNamesGate
    /\ PutIsFresh /\ OnePutPerReview
    /\ ResumeSawDecision /\ CallingHoldsClaim /\ OneCallingPerReview
    /\ GateAhead /\ GatedRun

IInv == TypeOK /\ Claims
----
(***************************************************************************)
(* Type correctness. It needs no assumption on how decisions overlap.      *)
(***************************************************************************)
LEMMA CallPolicy ==
    ASSUME TypeOK, NEW r \in Reviews
    PROVE  /\ Calls(r) \subseteq Nat \ {0}
           /\ \A i \in Calls(r) : batch[r][i] \in Policy
BY DEF TypeOK, Calls

LEMMA MatchingCall ==
    ASSUME TypeOK, NEW r \in Reviews, NEW i \in Calls(r), batch[r][i] = "approve"
    PROVE  \A j \in Matching(r, i) : j \in Calls(r) /\ batch[r][j] \in {"approve", "unknown"}
BY DEF Matching, TypeOK, Calls

LEMMA InvokedStep ==
    ASSUME InvokedType, NEW r \in Reviews, NEW i \in Calls(r), batch' = batch,
           invoked' = [invoked EXCEPT ![r][i] = @ + 1]
    PROVE  InvokedType'
<1>1. invoked[r] \in [Calls(r) -> Nat] BY DEF InvokedType
<1>2. invoked'[r] = [invoked[r] EXCEPT ![i] = invoked[r][i] + 1]
  BY DEF InvokedType
<1>3. invoked'[r] \in [Calls(r) -> Nat] BY <1>1, <1>2
<1>4. \A q \in Reviews : Calls(q)' = Calls(q) BY DEF Calls
<1>5. \A q \in Reviews \ {r} : invoked'[q] = invoked[q] BY DEF InvokedType
<1>6. DOMAIN invoked' = Reviews BY DEF InvokedType
<1> QED BY <1>3, <1>4, <1>5, <1>6 DEF InvokedType

LEMMA InvokedSame ==
    ASSUME InvokedType, batch' = batch, invoked' = invoked PROVE InvokedType'
BY DEF InvokedType, Calls

\* What a busy handler holds.
LEMMA Busy ==
    ASSUME TypeOK
    PROVE  /\ \A v \in Reviewers : decision[v].pc # "idle" => decision[v] \in Deciding
           /\ \A v \in Reviewers : decision[v].pc = "put" => decision[v] \in Deciding
           /\ \A c \in Resumers : resume[c].pc # "idle" => resume[c] \in Resuming
BY DEF TypeOK, IdleDecision, IdleResume

\* Every step keeps the tables and the handlers well formed.
LEMMA TypeStep == TypeOK /\ [Next]_vars => TypeOK'
<1> SUFFICES ASSUME TypeOK, [Next]_vars PROVE TypeOK' OBVIOUS
<1>1. ASSUME NEW r \in Reviews, TurnStep(r) PROVE TypeOK'
  <2>0. turn[r] \in TurnState BY DEF TypeOK
  <2>1. CASE StartTurn(r)
    <3>1. turn' \in [Reviews -> TurnState]
      BY <2>1, <2>0 DEF StartTurn, TypeOK, TurnState
    <3> QED BY <3>1, <2>1, InvokedSame DEF StartTurn, TypeOK
  <2>2. CASE TurnCall(r)
    <3>0. [turn[r] EXCEPT !.next = turn[r].next + 1] \in TurnState
      BY <2>0 DEF TurnState
    <3>1. turn' \in [Reviews -> TurnState]
      BY <2>2, <3>0 DEF TurnCall, TypeOK
    <3>2. InvokedType'
      BY <2>2, InvokedStep, InvokedSame DEF TurnCall, TypeOK
    <3> QED BY <3>1, <3>2, <2>2 DEF TurnCall, TypeOK
  <2>3. CASE TurnDenied(r)
    <3>1. turn' \in [Reviews -> TurnState]
      BY <2>3, <2>0 DEF TurnDenied, TypeOK, TurnState
    <3> QED BY <3>1, <2>3, InvokedSame DEF TurnDenied, TypeOK
  <2>4. CASE RequestApproval(r)
    <3>1. turn' \in [Reviews -> TurnState]
      BY <2>4, <2>0 DEF RequestApproval, TypeOK, TurnState
    <3>2. review' \in [Reviews -> ReviewItem]
      BY <2>4, CallPolicy, MatchingCall
         DEF RequestApproval, TypeOK, ReviewItem, Status, ResumedAt
    <3> QED BY <3>1, <3>2, <2>4, InvokedSame DEF RequestApproval, TypeOK
  <2>5. CASE NotifyReviewers(r)
    <3>1. turn' \in [Reviews -> TurnState]
      BY <2>5, <2>0 DEF NotifyReviewers, TypeOK, TurnState
    <3> QED BY <3>1, <2>5, InvokedSame DEF NotifyReviewers, TypeOK
  <2>6. CASE FinishTurn(r)
    <3>1. turn' \in [Reviews -> TurnState]
      BY <2>6, <2>0 DEF FinishTurn, TypeOK, TurnState
    <3> QED BY <3>1, <2>6, InvokedSame DEF FinishTurn, TypeOK
  <2> QED BY <1>1, <2>1, <2>2, <2>3, <2>4, <2>5, <2>6 DEF TurnStep
<1>2. ASSUME NEW r \in Reviews, Expire(r) PROVE TypeOK'
  <2>1. review' \in [Reviews -> ReviewItem] BY <1>2 DEF Expire, TypeOK, ReviewItem
  <2> QED BY <2>1, <1>2, InvokedSame DEF Expire, TypeOK
<1>3. ASSUME NEW v \in Reviewers, NEW r \in Reviews, RequirePending(v, r) PROVE TypeOK'
  <2>1. decision' \in [Reviewers -> Deciding \cup {IdleDecision}]
    <3>1. PICK d \in Decided :
            decision' = [decision EXCEPT ![v] =
                           [pc |-> "put", review |-> r, to |-> d, read |-> review[r]]]
      BY <1>3 DEF RequirePending
    <3>2. [pc |-> "put", review |-> r, to |-> d, read |-> review[r]] \in Deciding
      BY DEF Deciding, TypeOK
    <3> QED BY <3>1, <3>2 DEF TypeOK
  <2> QED BY <2>1, <1>3, InvokedSame DEF RequirePending, TypeOK
<1>4. ASSUME NEW v \in Reviewers, Decide(v) PROVE TypeOK'
  <2>1. decision[v] \in Deciding BY <1>4, Busy DEF Decide
  <2>2. review' \in [Reviews -> ReviewItem]
    BY <2>1, <1>4 DEF Decide, Dumped, TypeOK, Deciding, ReviewItem, Status, ResumedAt
  <2>3. decision' \in [Reviewers -> Deciding \cup {IdleDecision}]
    BY <1>4 DEF Decide, TypeOK
  <2> QED BY <2>2, <2>3, <1>4, InvokedSame DEF Decide, TypeOK
<1>5. ASSUME NEW v \in Reviewers, AbortDecision(v) PROVE TypeOK'
  BY <1>5, InvokedSame DEF AbortDecision, TypeOK
<1>6. ASSUME NEW c \in Resumers, NEW r \in Reviews, GetDecision(c, r) PROVE TypeOK'
  <2>1. Decision(r) \in Outcomes
    BY <1>6 DEF GetDecision, Decision, TypeOK, ReviewItem, Status, Outcomes, Decided
  <2>2. [pc |-> "claim", review |-> r, saw |-> Decision(r), next |-> 1] \in Resuming
    BY <2>1 DEF Resuming
  <2>3. resume' \in [Resumers -> Resuming \cup {IdleResume}]
    BY <2>2, <1>6 DEF GetDecision, TypeOK
  <2> QED BY <2>3, <1>6, InvokedSame DEF GetDecision, TypeOK
<1>7. ASSUME NEW c \in Resumers, ResumeStep(c) PROVE TypeOK'
  <2>0. resume[c] \in Resuming
    BY <1>7, Busy DEF ResumeStep, TryClaimResume, AlreadyProcessed, ReportDenied,
       ResumeCall, ResumeRaises, FinishResume
  <2>1. CASE TryClaimResume(c)
    <3> DEFINE q == resume[c].review
    <3>0. /\ q \in Reviews /\ review[q] \in ReviewItem
          /\ review' = [review EXCEPT ![q] = [review[q] EXCEPT !.resumed_at = "set"]]
      BY <2>1, <2>0 DEF TryClaimResume, TypeOK, Resuming
    <3> HIDE DEF q
    <3>1. review' \in [Reviews -> ReviewItem]
      <4>1. [review[q] EXCEPT !.resumed_at = "set"] \in ReviewItem
        BY <3>0 DEF ReviewItem, ResumedAt
      <4> QED BY <3>0, <4>1 DEF TypeOK
    <3>2. [resume[c] EXCEPT !.pc = IF resume[c].saw \in Denied THEN "deny" ELSE "calling"]
            \in Resuming
      BY <2>0 DEF Resuming
    <3>3. resume' \in [Resumers -> Resuming \cup {IdleResume}]
      BY <2>1, <3>2 DEF TryClaimResume, TypeOK
    <3> QED BY <3>1, <3>3, <2>1, InvokedSame DEF TryClaimResume, TypeOK
  <2>2. CASE AlreadyProcessed(c)
    BY <2>2, InvokedSame DEF AlreadyProcessed, TypeOK
  <2>3. CASE ReportDenied(c)
    <3>1. resume[c].saw \in Outcomes
      BY <2>0 DEF Resuming
    <3>2. reported' \in [Reviews -> SUBSET Outcomes]
      BY <3>1, <2>3, <2>0 DEF ReportDenied, TypeOK, Resuming
    <3> QED BY <3>2, <2>3, InvokedSame DEF ReportDenied, TypeOK
  <2>4. CASE ResumeCall(c)
    <3>1. [resume[c] EXCEPT !.next = resume[c].next + 1] \in Resuming
      BY <2>0 DEF Resuming
    <3>2. resume' \in [Resumers -> Resuming \cup {IdleResume}]
      BY <2>4, <3>1 DEF ResumeCall, TypeOK
    <3>3. InvokedType'
      BY <2>4, <2>0, InvokedStep, InvokedSame DEF ResumeCall, TypeOK, Resuming
    <3> QED BY <3>2, <3>3, <2>4 DEF ResumeCall, TypeOK
  <2>5. CASE ResumeRaises(c)
    BY <2>5, InvokedSame DEF ResumeRaises, TypeOK
  <2>6. CASE FinishResume(c)
    <3>1. reported' \in [Reviews -> SUBSET Outcomes]
      BY <2>6, <2>0 DEF FinishResume, TypeOK, Resuming, Outcomes, Decided
    <3> QED BY <3>1, <2>6, InvokedSame DEF FinishResume, TypeOK
  <2> QED BY <1>7, <2>1, <2>2, <2>3, <2>4, <2>5, <2>6 DEF ResumeStep
<1>8. ASSUME NEW c \in Resumers, AbortResume(c) PROVE TypeOK'
  BY <1>8, InvokedSame DEF AbortResume, TypeOK
<1>9. CASE UNCHANGED vars BY <1>9, InvokedSame DEF vars, TypeOK
<1> QED BY <1>1, <1>2, <1>3, <1>4, <1>5, <1>6, <1>7, <1>8, <1>9 DEF Next

\* The tables and the handlers are always well formed, whatever overlaps.
THEOREM TypeCorrect == Spec => []TypeOK
<1>1. Init => TypeOK
  BY BatchesAssumption DEF Init, TypeOK, Absent, ReviewItem, TurnState, InvokedType,
     Status, ResumedAt
<1> QED BY <1>1, TypeStep, PTL DEF Spec
----
(***************************************************************************)
(* Safety, for decisions on one review that do not overlap.                *)
(***************************************************************************)

\* A chat turn touches no review but the one it creates.
LEMMA TurnKeepsClaims ==
    ASSUME IInv, TypeOK', NEW r \in Reviews, TurnStep(r) PROVE Claims'
<1>0. turn[r] \in TurnState /\ review[r] \in ReviewItem BY DEF IInv, TypeOK
<1>1. CASE StartTurn(r) \/ TurnDenied(r) \/ NotifyReviewers(r) \/ FinishTurn(r)
  <2>1. UNCHANGED <<batch, review, decision, resume, invoked, reported, aborts>>
    BY <1>1 DEF StartTurn, TurnDenied, NotifyReviewers, FinishTurn
  <2>3. \A q \in Reviews : q # r => turn'[q] = turn[q]
    BY <1>1 DEF IInv, TypeOK, StartTurn, TurnDenied, NotifyReviewers, FinishTurn
  <2>4. turn[r].pc \in {"idle", "calling"} \/ turn'[r].pc \in {"paused", "failed"}
    BY <1>0, <1>1 DEF IInv, TypeOK, TurnState, StartTurn, TurnDenied, NotifyReviewers,
       FinishTurn
  <2>2. ReviewOfPausedTurn'
    BY <2>1, <2>3, <2>4 DEF IInv, Claims, ReviewOfPausedTurn
  <2> QED
    BY <2>1, <2>2 DEF IInv, Claims, ReviewNamesGate, PutIsFresh, OnePutPerReview,
       ResumeSawDecision, CallingHoldsClaim, OneCallingPerReview, GateAhead, GatedRun, Calls
<1>2. CASE TurnCall(r)
  <2>1. UNCHANGED <<batch, review, decision, resume, reported, aborts>>
    BY <1>2 DEF TurnCall
  <2>2. ReviewOfPausedTurn' /\ review[r].status = "absent"
    BY <1>2, <2>1 DEF IInv, Claims, TypeOK, ReviewOfPausedTurn, TurnCall
  <2>3. /\ \A q \in Reviews : q # r => invoked'[q] = invoked[q]
        /\ \A i \in Calls(r) : batch[r][i] \in {"approve", "deny", "unknown"}
                                 => invoked'[r][i] = invoked[r][i]
    BY <1>2 DEF TurnCall, IInv, TypeOK, InvokedType
  <2>4. GatedRun'
    BY <2>1, <2>3 DEF IInv, Claims, GatedRun, Calls
  <2>5. GateAhead'
    <3> SUFFICES ASSUME NEW c \in Resumers, resume[c].pc = "calling",
                        resume[c].next <= review[resume[c].review].call
                 PROVE  invoked'[resume[c].review][review[resume[c].review].call] = 0
      BY <2>1 DEF GateAhead
    <3>1. resume[c].review \in Reviews BY Busy DEF Resuming, IInv
    <3>2. resume[c].review # r
      BY <2>2 DEF IInv, Claims, ResumeSawDecision
    <3> QED BY <2>3, <3>1, <3>2 DEF IInv, Claims, GateAhead
  <2> QED
    BY <2>1, <2>2, <2>4, <2>5 DEF IInv, Claims, ReviewNamesGate, PutIsFresh,
       OnePutPerReview, ResumeSawDecision, CallingHoldsClaim, OneCallingPerReview, Calls
<1>3. CASE RequestApproval(r)
  <2>1. UNCHANGED <<batch, decision, resume, invoked, reported, aborts>>
    BY <1>3 DEF RequestApproval
  <2>2. review[r].status = "absent"
    BY <1>3 DEF RequestApproval, IInv, Claims, ReviewOfPausedTurn
  <2>3. /\ \A q \in Reviews : q # r => review'[q] = review[q]
        /\ review'[r].status = "pending" /\ review'[r].call \in Calls(r)
        /\ batch[r][review'[r].call] \in {"approve", "unknown"}
        /\ \A q \in Reviews : q # r => turn'[q] = turn[q]
        /\ turn'[r].pc = "notifying"
    BY <1>3, MatchingCall DEF RequestApproval, IInv, TypeOK
  <2>4. ReviewOfPausedTurn' /\ ReviewNamesGate'
    BY <2>1, <2>3 DEF IInv, Claims, ReviewOfPausedTurn, ReviewNamesGate, Calls
  <2>5. \A v \in Reviewers : decision[v].pc = "put" =>
            decision[v].review \in Reviews /\ decision[v].review # r
    BY <2>2, Busy DEF IInv, Claims, PutIsFresh, Deciding
  <2>6. \A c \in Resumers : resume[c].pc # "idle" =>
            resume[c].review \in Reviews /\ resume[c].review # r
    BY <2>2, Busy DEF IInv, Claims, ResumeSawDecision, Resuming
  <2>7. PutIsFresh' /\ OnePutPerReview'
    BY <2>1, <2>3, <2>5 DEF IInv, Claims, PutIsFresh, OnePutPerReview
  <2>8. ResumeSawDecision' /\ CallingHoldsClaim' /\ OneCallingPerReview' /\ GateAhead'
    BY <2>1, <2>3, <2>6 DEF IInv, Claims, ResumeSawDecision, CallingHoldsClaim,
       OneCallingPerReview, GateAhead
  <2>9. GatedRun'
    <3> SUFFICES ASSUME NEW q \in Reviews, NEW i \in Calls(q)
                 PROVE  /\ batch[q][i] \in {"deny", "unknown"} => invoked[q][i] = 0
                        /\ batch[q][i] = "approve" =>
                             /\ invoked[q][i] <= 1
                             /\ invoked[q][i] > 0 =>
                                  /\ i = review'[q].call
                                  /\ review'[q].status \in Granted
                                  /\ review'[q].resumed_at = "set"
      BY <2>1 DEF GatedRun, Calls
    <3>1. CASE q = r BY <2>2, <3>1 DEF IInv, Claims, GatedRun, Granted
    <3>2. CASE q # r BY <2>3, <3>2 DEF IInv, Claims, GatedRun
    <3> QED BY <3>1, <3>2
  <2> QED BY <2>4, <2>7, <2>8, <2>9 DEF Claims
<1> QED BY <1>1, <1>2, <1>3 DEF TurnStep

\* A reviewer's put lands on a review that is still pending, so no granted resume
\* and no run of the gated call can be undone by it.
LEMMA ReviewerKeepsClaims ==
    ASSUME SerialDecisions, IInv, TypeOK', NEW v \in Reviewers,
           \/ \E r \in Reviews : RequirePending(v, r)
           \/ Decide(v)
           \/ AbortDecision(v)
    PROVE  Claims'
<1>1. CASE \E r \in Reviews : RequirePending(v, r)
  <2>1. PICK r \in Reviews : RequirePending(v, r) BY <1>1
  <2>2. UNCHANGED <<batch, review, turn, resume, invoked, reported, aborts>>
    BY <2>1 DEF RequirePending
  <2>3. /\ review[r].status = "pending"
        /\ \A w \in Reviewers : decision[w].pc = "put" => decision[w].review # r
        /\ \A w \in Reviewers : w # v => decision'[w] = decision[w]
        /\ decision'[v].review = r /\ decision'[v].read = review[r]
    BY <2>1 DEF RequirePending, IInv, TypeOK
  <2>4. PutIsFresh' /\ OnePutPerReview'
    BY <2>2, <2>3 DEF IInv, Claims, PutIsFresh, OnePutPerReview
  <2> QED
    BY <2>2, <2>4 DEF IInv, Claims, ReviewOfPausedTurn, ReviewNamesGate, ResumeSawDecision,
       CallingHoldsClaim, OneCallingPerReview, GateAhead, GatedRun, Calls
<1>2. CASE Decide(v)
  <2> DEFINE r == decision[v].review
  <2>1. UNCHANGED <<batch, turn, resume, invoked, reported, aborts>>
    BY <1>2 DEF Decide
  <2>2. decision[v] \in Deciding /\ r \in Reviews
    BY <1>2, Busy DEF Decide, Deciding, IInv
  <2>3. review[r].status = "pending" /\ decision[v].read.call = review[r].call
    BY <1>2 DEF Decide, IInv, Claims, PutIsFresh
  <2>4. /\ \A q \in Reviews : q # r => review'[q] = review[q]
        /\ review'[r].status \in Decided
        /\ review'[r].call = review[r].call
        /\ \A w \in Reviewers : w # v => decision'[w] = decision[w]
        /\ decision'[v].pc = "idle"
    BY <1>2, <2>2, <2>3 DEF Decide, IInv, TypeOK, Deciding, IdleDecision
  <2>5. ReviewOfPausedTurn' /\ ReviewNamesGate'
    BY <2>1, <2>3, <2>4 DEF IInv, Claims, ReviewOfPausedTurn, ReviewNamesGate, Calls
  <2>6. PutIsFresh' /\ OnePutPerReview'
    <3>1. \A w \in Reviewers : w # v /\ decision[w].pc = "put"
                                => decision[w].review \in Reviews \ {r}
      BY <1>2, Busy DEF IInv, Claims, OnePutPerReview, Decide, Deciding
    <3> QED BY <3>1, <2>4 DEF IInv, Claims, PutIsFresh, OnePutPerReview
  <2>7. \A c \in Resumers : resume[c].pc # "idle" =>
          /\ resume[c].review \in Reviews
          /\ resume[c].review = r => resume[c].saw \notin Decided
    BY <2>3, Busy DEF IInv, Claims, ResumeSawDecision, Decided, Resuming
  <2>8. /\ ResumeSawDecision' /\ CallingHoldsClaim' /\ OneCallingPerReview' /\ GateAhead'
    BY <2>1, <2>4, <2>7 DEF IInv, Claims, ResumeSawDecision, CallingHoldsClaim,
       OneCallingPerReview, GateAhead, Granted, Decided
  <2>9. GatedRun'
    <3>1. \A i \in Calls(r) : batch[r][i] = "approve" => ~(invoked[r][i] > 0)
      BY <2>2, <2>3 DEF IInv, Claims, GatedRun, Granted
    <3> QED BY <2>1, <2>4, <3>1 DEF IInv, Claims, GatedRun, Calls
  <2> QED BY <2>5, <2>6, <2>8, <2>9 DEF Claims
<1>3. CASE AbortDecision(v)
  <2>1. UNCHANGED <<batch, review, turn, resume, invoked, reported>>
    BY <1>3 DEF AbortDecision
  <2>2. /\ \A w \in Reviewers : w # v => decision'[w] = decision[w]
        /\ decision'[v].pc = "idle"
    BY <1>3 DEF AbortDecision, IInv, TypeOK, IdleDecision
  <2>3. PutIsFresh' /\ OnePutPerReview'
    BY <2>1, <2>2 DEF IInv, Claims, PutIsFresh, OnePutPerReview
  <2> QED
    BY <2>1, <2>3 DEF IInv, Claims, ReviewOfPausedTurn, ReviewNamesGate, ResumeSawDecision,
       CallingHoldsClaim, OneCallingPerReview, GateAhead, GatedRun, Calls
<1> QED BY <1>1, <1>2, <1>3

\* A resume takes the claim only when nobody holds it, and runs the gated call only
\* while it holds the claim and has not run it yet.
LEMMA ResumeKeepsClaims ==
    ASSUME IInv, TypeOK', NEW c \in Resumers,
           \/ \E r \in Reviews : GetDecision(c, r)
           \/ ResumeStep(c)
           \/ AbortResume(c)
    PROVE  Claims'
<1> DEFINE Idles == /\ \A d \in Resumers : d # c => resume'[d] = resume[d]
                    /\ resume'[c].pc = "idle"
                    /\ UNCHANGED <<batch, review, turn, decision, invoked>>
<1>0. ASSUME Idles PROVE Claims'
  BY <1>0 DEF IInv, Claims, ReviewOfPausedTurn, ReviewNamesGate, PutIsFresh,
     OnePutPerReview, ResumeSawDecision, CallingHoldsClaim, OneCallingPerReview,
     GateAhead, GatedRun, Calls
<1>1. CASE \E r \in Reviews : GetDecision(c, r)
  <2>1. PICK r \in Reviews : GetDecision(c, r) BY <1>1
  <2>2. UNCHANGED <<batch, review, turn, decision, invoked>>
    BY <2>1 DEF GetDecision
  <2>3. /\ \A d \in Resumers : d # c => resume'[d] = resume[d]
        /\ resume'[c].pc = "claim" /\ resume'[c].review = r
        /\ resume'[c].saw = Decision(r)
        /\ Decision(r) \notin {"absent", "pending"}
    BY <2>1 DEF GetDecision, IInv, TypeOK
  <2>4. ResumeSawDecision'
    BY <2>2, <2>3 DEF IInv, Claims, ResumeSawDecision, Decision, Decided
  <2> QED
    BY <2>2, <2>3, <2>4 DEF IInv, Claims, ReviewOfPausedTurn, ReviewNamesGate,
       PutIsFresh, OnePutPerReview, CallingHoldsClaim, OneCallingPerReview, GateAhead,
       GatedRun, Calls
<1>2. CASE AlreadyProcessed(c) \/ ReportDenied(c) \/ ResumeRaises(c) \/ FinishResume(c)
          \/ AbortResume(c)
  BY <1>2, <1>0 DEF AlreadyProcessed, ReportDenied, ResumeRaises, FinishResume,
     AbortResume, IdleResume, IInv, TypeOK
<1>3. CASE TryClaimResume(c)
  <2> DEFINE r == resume[c].review
  <2>1. UNCHANGED <<batch, turn, decision, invoked>>
    BY <1>3 DEF TryClaimResume
  <2>2. /\ resume[c] \in Resuming /\ r \in Reviews /\ resume[c].pc = "claim"
        /\ review[r].resumed_at # "set"
    BY <1>3, Busy DEF TryClaimResume, Claimable, Resuming, IInv
  <2>3. /\ \A q \in Reviews : q # r => review'[q] = review[q]
        /\ review'[r].status = review[r].status /\ review'[r].call = review[r].call
        /\ review'[r].resumed_at = "set"
    BY <1>3, <2>2 DEF TryClaimResume, IInv, TypeOK, ReviewItem
  <2>4. /\ \A d \in Resumers : d # c => resume'[d] = resume[d]
        /\ resume'[c].review = r /\ resume'[c].saw = resume[c].saw
        /\ resume'[c].pc \in {"deny", "calling"}
        /\ resume'[c].pc = "calling" => resume[c].saw \notin Denied
    BY <1>3, <2>2 DEF TryClaimResume, IInv, TypeOK, Resuming
  <2>5. \A d \in Resumers : resume[d].pc = "calling"
                              => resume[d].review \in Reviews \ {r}
    BY <2>2, Busy DEF IInv, Claims, CallingHoldsClaim, Resuming
  <2>6. \A d \in Resumers : resume[d].pc # "idle" => resume[d].review \in Reviews
    BY Busy DEF IInv, Resuming
  <2>7. ReviewOfPausedTurn' /\ ReviewNamesGate'
    BY <2>1, <2>3 DEF IInv, Claims, ReviewOfPausedTurn, ReviewNamesGate, Calls
  <2>8. PutIsFresh' /\ OnePutPerReview'
    <3>1. \A v \in Reviewers : decision[v].pc = "put" => decision[v].review \in Reviews
      BY Busy DEF IInv, Deciding
    <3> QED BY <2>1, <2>3, <3>1 DEF IInv, Claims, PutIsFresh, OnePutPerReview
  <2>9. ResumeSawDecision'
    BY <2>2, <2>3, <2>4, <2>6 DEF IInv, Claims, ResumeSawDecision
  <2>10. CallingHoldsClaim' /\ OneCallingPerReview'
    <3>1. resume'[c].pc = "calling" => resume[c].saw \in Granted
      BY <2>2, <2>4 DEF Resuming, Outcomes, Decided, Denied, Granted
    <3> QED
      BY <2>3, <2>4, <2>5, <3>1 DEF IInv, Claims, CallingHoldsClaim, OneCallingPerReview
  <2>11. GateAhead'
    <3>1. invoked[r][review[r].call] = 0
      <4>1. review[r].call \in Calls(r) /\ batch[r][review[r].call] \in {"approve", "unknown"}
        BY <2>2 DEF IInv, Claims, ResumeSawDecision, ReviewNamesGate
      <4>2. invoked[r][review[r].call] \in Nat
        BY <4>1, <2>2 DEF IInv, TypeOK, InvokedType
      <4> QED BY <4>1, <4>2, <2>2 DEF IInv, Claims, GatedRun
    <3> QED BY <2>1, <2>3, <2>4, <2>5, <3>1 DEF IInv, Claims, GateAhead
  <2>12. GatedRun'
    BY <2>1, <2>3 DEF IInv, Claims, GatedRun, Calls
  <2> QED BY <2>7, <2>8, <2>9, <2>10, <2>11, <2>12 DEF Claims
<1>4. CASE ResumeCall(c)
  <2> DEFINE r == resume[c].review
             i == resume[c].next
  <2>1. UNCHANGED <<batch, review, turn, decision>>
    BY <1>4 DEF ResumeCall
  <2>2. /\ resume[c] \in Resuming /\ r \in Reviews /\ resume[c].pc = "calling"
        /\ i \in Calls(r) /\ i \in Nat
    BY <1>4, Busy DEF ResumeCall, Resuming, IInv
  <2>3. /\ \A d \in Resumers : d # c => resume'[d] = resume[d]
        /\ resume'[c].review = r /\ resume'[c].saw = resume[c].saw
        /\ resume'[c].pc = "calling" /\ resume'[c].next = i + 1
    BY <1>4, <2>2 DEF ResumeCall, IInv, TypeOK, Resuming
  <2>4. /\ review[r].call \in Calls(r) /\ batch[r][review[r].call] \in {"approve", "unknown"}
        /\ review[r].status \in Granted /\ review[r].resumed_at = "set"
        /\ review[r].call \in Nat
    BY <2>2, CallPolicy DEF IInv, Claims, ResumeSawDecision, ReviewNamesGate,
       CallingHoldsClaim, Granted, Decided, TypeOK, ReviewItem
  <2>5. /\ \A q \in Reviews : q # r => invoked'[q] = invoked[q]
        /\ \A j \in Calls(r) : j # i => invoked'[r][j] = invoked[r][j]
        /\ invoked'[r][i] \in {invoked[r][i], invoked[r][i] + 1}
        /\ invoked[r][i] \in Nat
        /\ batch[r][i] = "unknown" => invoked'[r][i] = invoked[r][i]
        /\ i # review[r].call /\ batch[r][i] \in {"approve", "deny"}
             => invoked'[r][i] = invoked[r][i]
    BY <1>4, <2>2 DEF ResumeCall, Enforced, IInv, TypeOK, InvokedType
  <2>6. \A d \in Resumers : d # c /\ resume[d].pc = "calling"
                              => resume[d].review \in Reviews \ {r}
    BY <2>2, Busy DEF IInv, Claims, OneCallingPerReview, Resuming
  <2>7. ResumeSawDecision' /\ CallingHoldsClaim' /\ OneCallingPerReview'
    BY <2>1, <2>2, <2>3 DEF IInv, Claims, ResumeSawDecision, CallingHoldsClaim,
       OneCallingPerReview
  <2>8. GateAhead'
    <3>1. i + 1 <= review[r].call => invoked'[r][review[r].call] = 0
      BY <2>2, <2>4, <2>5 DEF IInv, Claims, GateAhead
    <3> QED BY <2>1, <2>3, <2>5, <2>6, <3>1 DEF IInv, Claims, GateAhead
  <2>9. GatedRun'
    <3> SUFFICES ASSUME NEW q \in Reviews, NEW j \in Calls(q)
                 PROVE  /\ batch[q][j] \in {"deny", "unknown"} => invoked'[q][j] = 0
                        /\ batch[q][j] = "approve" =>
                             /\ invoked'[q][j] <= 1
                             /\ invoked'[q][j] > 0 =>
                                  /\ j = review[q].call
                                  /\ review[q].status \in Granted
                                  /\ review[q].resumed_at = "set"
      BY <2>1 DEF GatedRun, Calls
    <3>1. CASE q = r /\ j = i /\ i = review[r].call /\ batch[r][i] = "approve"
      <4>1. invoked[r][i] = 0
        BY <3>1, <2>2 DEF IInv, Claims, GateAhead
      <4>2. invoked'[q][j] \in {0, 1}
        BY <3>1, <2>2, <2>4, <2>5, <4>1
      <4> QED BY <3>1, <2>4, <4>2
    <3>2. CASE ~(q = r /\ j = i /\ i = review[r].call /\ batch[r][i] = "approve")
      <4>1. batch[q][j] \in {"approve", "deny", "unknown"} => invoked'[q][j] = invoked[q][j]
        BY <3>2, <2>4, <2>5
      <4>2. /\ batch[q][j] \in {"deny", "unknown"} => invoked[q][j] = 0
            /\ batch[q][j] = "approve" =>
                 /\ invoked[q][j] <= 1
                 /\ invoked[q][j] > 0 =>
                      /\ j = review[q].call
                      /\ review[q].status \in Granted
                      /\ review[q].resumed_at = "set"
        BY DEF IInv, Claims, GatedRun
      <4> QED BY <4>1, <4>2
    <3> QED BY <3>1, <3>2
  <2> QED
    BY <2>1, <2>7, <2>8, <2>9 DEF IInv, Claims, ReviewOfPausedTurn, ReviewNamesGate,
       PutIsFresh, OnePutPerReview, Calls
<1> QED BY <1>1, <1>2, <1>3, <1>4 DEF ResumeStep

\* The deadline passing changes neither the status nor the claim of a review.
LEMMA ExpiryKeepsClaims ==
    ASSUME IInv, NEW r \in Reviews, Expire(r) PROVE Claims'
<1>1. UNCHANGED <<batch, turn, decision, resume, invoked>> BY DEF Expire
<1>2. \A q \in Reviews : /\ review'[q].status = review[q].status
                         /\ review'[q].call = review[q].call
                         /\ review'[q].resumed_at = review[q].resumed_at
  BY DEF Expire, IInv, TypeOK, ReviewItem
<1>3. \A v \in Reviewers : decision[v].pc = "put" => decision[v].review \in Reviews
  BY Busy DEF IInv, Deciding
<1>4. \A c \in Resumers : resume[c].pc # "idle" => resume[c].review \in Reviews
  BY Busy DEF IInv, Resuming
<1>5. ReviewOfPausedTurn' /\ ReviewNamesGate' /\ GatedRun'
  BY <1>1, <1>2 DEF IInv, Claims, ReviewOfPausedTurn, ReviewNamesGate, GatedRun, Calls
<1>6. PutIsFresh' /\ OnePutPerReview'
  BY <1>1, <1>2, <1>3 DEF IInv, Claims, PutIsFresh, OnePutPerReview
<1>7. ResumeSawDecision' /\ CallingHoldsClaim' /\ OneCallingPerReview' /\ GateAhead'
  BY <1>1, <1>2, <1>4 DEF IInv, Claims, ResumeSawDecision, CallingHoldsClaim,
     OneCallingPerReview, GateAhead
<1> QED BY <1>5, <1>6, <1>7 DEF Claims

LEMMA InvStep == SerialDecisions /\ IInv /\ [Next]_vars => IInv'
<1> SUFFICES ASSUME SerialDecisions, IInv, [Next]_vars PROVE Claims'
  BY TypeStep DEF IInv
<1>1. TypeOK' BY TypeStep DEF IInv
<1>2. CASE UNCHANGED vars
  BY <1>2 DEF vars, IInv, Claims, ReviewOfPausedTurn, ReviewNamesGate, PutIsFresh,
     OnePutPerReview, ResumeSawDecision, CallingHoldsClaim, OneCallingPerReview,
     GateAhead, GatedRun, Calls
<1>3. CASE Next
  BY <1>1, <1>3, TurnKeepsClaims, ReviewerKeepsClaims, ResumeKeepsClaims, ExpiryKeepsClaims
     DEF Next
<1> QED BY <1>2, <1>3

\* The inductive invariant holds in every state.
THEOREM Invariance == ASSUME SerialDecisions PROVE Spec => []IInv
<1>1. Init => Claims
  <2> SUFFICES ASSUME Init PROVE Claims OBVIOUS
  <2>1. GatedRun BY DEF Init, GatedRun
  <2> QED
    BY <2>1 DEF Init, Claims, ReviewOfPausedTurn, ReviewNamesGate, PutIsFresh,
       OnePutPerReview, ResumeSawDecision, CallingHoldsClaim, OneCallingPerReview,
       GateAhead, Absent, IdleDecision, IdleResume
<1>2. Init => TypeOK
  BY BatchesAssumption DEF Init, TypeOK, Absent, ReviewItem, TurnState, InvokedType,
     Status, ResumedAt
<1>3. IInv /\ [Next]_vars => IInv' BY InvStep
<1> QED BY <1>1, <1>2, <1>3, PTL DEF Spec, IInv

\* However many clients resume a review, and wherever their handlers die, a call
\* that needs approval is invoked at most once (try_claim_resume).
THEOREM AtMostOnce == ASSUME SerialDecisions PROVE Spec => []GatedCallAtMostOnce
<1>1. IInv => GatedCallAtMostOnce
  BY DEF IInv, Claims, GatedRun, GatedCallAtMostOnce
<1> QED BY <1>1, Invariance, PTL

\* A gated call runs only after a decision other than "rejected" on the review
\* opened for that very call (resume_after_approval, ToolExecutor.execute).
THEOREM NeedsDecision == ASSUME SerialDecisions PROVE Spec => []GatedCallNeedsDecision
<1>1. IInv => GatedCallNeedsDecision
  BY DEF IInv, Claims, GatedRun, GatedCallNeedsDecision, Granted
<1> QED BY <1>1, Invariance, PTL

\* What one step may do to a review: create it, decide it, claim it or let its
\* deadline pass.
LEMMA ReviewStep ==
    ASSUME SerialDecisions, IInv, [Next]_vars, NEW r \in Reviews,
           review'[r].status # review[r].status
    PROVE  /\ invoked' = invoked
           /\ \A q \in Reviews \ {r} : review'[q] = review[q]
           /\ \/ /\ review[r].status = "absent" /\ review'[r].status = "pending"
                 /\ review'[r].call \in Calls(r)
                 /\ batch[r][review'[r].call] \in {"approve", "unknown"}
              \/ /\ review[r].status = "pending" /\ review'[r].status \in Decided
                 /\ review'[r].call = review[r].call
<1>1. ASSUME NEW q \in Reviews, TurnStep(q)
      PROVE RequestApproval(q) /\ q = r /\ review[r].status = "absent"
  <2>1. q = r /\ RequestApproval(q)
    BY <1>1 DEF TurnStep, StartTurn, TurnCall, TurnDenied, RequestApproval,
       NotifyReviewers, FinishTurn, IInv, TypeOK
  <2> QED BY <2>1 DEF RequestApproval, IInv, Claims, ReviewOfPausedTurn
<1>2. ASSUME NEW v \in Reviewers, Decide(v)
      PROVE  decision[v].review = r /\ review[r].status = "pending"
  <2>1. decision[v] \in Deciding BY <1>2, Busy DEF Decide, IInv
  <2> QED BY <1>2, <2>1 DEF Decide, Deciding, IInv, TypeOK, Claims, PutIsFresh
<1>3. ASSUME NEW q \in Reviews, Expire(q) PROVE FALSE
  BY <1>3 DEF Expire, IInv, TypeOK, ReviewItem
<1>4. ASSUME NEW c \in Resumers, ResumeStep(c) PROVE FALSE
  <2>1. CASE TryClaimResume(c)
    <3>1. resume[c].review \in Reviews BY <2>1, Busy DEF TryClaimResume, Resuming, IInv
    <3> QED BY <2>1, <3>1 DEF TryClaimResume, IInv, TypeOK, ReviewItem
  <2> QED BY <1>4, <2>1 DEF ResumeStep, AlreadyProcessed, ReportDenied, ResumeCall,
          ResumeRaises, FinishResume
<1>5. CASE \E q \in Reviews : TurnStep(q)
  <2>1. RequestApproval(r) /\ review[r].status = "absent" BY <1>1, <1>5
  <2> QED BY <2>1, MatchingCall DEF RequestApproval, IInv, TypeOK
<1>6. CASE \E v \in Reviewers : Decide(v)
  <2>1. PICK v \in Reviewers : Decide(v) BY <1>6
  <2>2. decision[v] \in Deciding BY <2>1, Busy DEF Decide, IInv
  <2>3. decision[v].review = r /\ review[r].status = "pending"
    BY <2>1, <1>2
  <2>4. decision[v].read.call = review[r].call
    BY <2>1, <2>3 DEF Decide, IInv, Claims, PutIsFresh
  <2> QED BY <2>1, <2>2, <2>3, <2>4 DEF Decide, IInv, TypeOK, Deciding
<1> QED BY <1>3, <1>4, <1>5, <1>6 DEF Next, vars, RequirePending, AbortDecision,
        GetDecision, AbortResume

\* Once a review is decided, its status never changes (_require_pending).
THEOREM Final == ASSUME SerialDecisions PROVE Spec => DecisionIsFinal
<1>1. IInv /\ [Next]_vars =>
        [\A r \in Reviews :
           review[r].status \in Decided => review'[r].status = review[r].status]_vars
  BY ReviewStep DEF Decided
<1> QED BY <1>1, Invariance, PTL DEF Spec, DecisionIsFinal

(***************************************************************************)
(* Refinement: every step of the two services is a step of the contract,   *)
(* or changes nothing the contract speaks of.                              *)
(***************************************************************************)
RanOf(r) == review[r].status # "absent" /\ invoked[r][review[r].call] > 0

\* Which steps run the gated call: a granted resume that has not run it yet.
LEMMA RunStep ==
    ASSUME SerialDecisions, IInv, [Next]_vars,
           \A q \in Reviews : review'[q].status = review[q].status
    PROVE  \/ \A q \in Reviews : RanOf(q)' = RanOf(q)
           \/ \E r \in Reviews :
                /\ review[r].status \in Granted /\ ~RanOf(r) /\ RanOf(r)'
                /\ \A q \in Reviews \ {r} : RanOf(q)' = RanOf(q)
<1>0. IInv' BY InvStep
<1>1. ASSUME NEW r \in Reviews, TurnStep(r) PROVE \A q \in Reviews : RanOf(q)' = RanOf(q)
  <2>1. CASE TurnCall(r)
    <3>1. review[r].status = "absent"
      BY <2>1 DEF TurnCall, IInv, Claims, ReviewOfPausedTurn
    <3>2. review' = review /\ \A q \in Reviews : q # r => invoked'[q] = invoked[q]
      BY <2>1 DEF TurnCall, IInv, TypeOK, InvokedType
    <3> QED BY <3>1, <3>2 DEF RanOf
  <2>2. CASE RequestApproval(r)
    <3>1. review[r].status = "absent" /\ invoked' = invoked
      BY <2>2 DEF RequestApproval, IInv, Claims, ReviewOfPausedTurn
    <3>2. review'[r].call \in Calls(r) /\ batch[r][review'[r].call] \in {"approve", "unknown"}
      BY <2>2, MatchingCall DEF RequestApproval, IInv, TypeOK
    <3>3. ~(invoked[r][review'[r].call] > 0)
      BY <3>1, <3>2 DEF IInv, Claims, GatedRun, Granted
    <3>4. \A q \in Reviews : q # r => review'[q] = review[q]
      BY <2>2 DEF RequestApproval, IInv, TypeOK
    <3> QED BY <3>1, <3>3, <3>4 DEF RanOf
  <2> QED BY <1>1, <2>1, <2>2 DEF TurnStep, StartTurn, TurnDenied, NotifyReviewers,
          FinishTurn, RanOf
<1>2. ASSUME NEW r \in Reviews, Expire(r) PROVE \A q \in Reviews : RanOf(q)' = RanOf(q)
  BY <1>2 DEF Expire, IInv, TypeOK, ReviewItem, RanOf
<1>3. ASSUME NEW v \in Reviewers, Decide(v) PROVE FALSE
  <2>1. decision[v] \in Deciding BY <1>3, Busy DEF Decide, IInv
  <2> QED BY <1>3, <2>1 DEF Decide, Deciding, IInv, TypeOK, Claims, PutIsFresh, Decided
<1>4. ASSUME NEW c \in Resumers, TryClaimResume(c)
      PROVE  \A q \in Reviews : RanOf(q)' = RanOf(q)
  <2>1. resume[c].review \in Reviews BY <1>4, Busy DEF TryClaimResume, Resuming, IInv
  <2> QED BY <1>4, <2>1 DEF TryClaimResume, IInv, TypeOK, ReviewItem, RanOf
<1>5. ASSUME NEW c \in Resumers, ResumeCall(c), NEW r \in Reviews, NEW i \in Nat,
             r = resume[c].review, i = resume[c].next
      PROVE  \/ \A q \in Reviews : RanOf(q)' = RanOf(q)
             \/ /\ review[r].status \in Granted
                /\ ~RanOf(r) /\ RanOf(r)'
                /\ \A q \in Reviews \ {r} : RanOf(q)' = RanOf(q)
  <2>1. /\ r \in Reviews /\ i \in Calls(r) /\ i \in Nat /\ review' = review
        /\ resume[c].pc = "calling"
    BY <1>5, Busy DEF ResumeCall, Resuming, IInv
  <2>2. /\ review[r].status \in Granted /\ review[r].call \in Calls(r)
    BY <1>5, <2>1 DEF IInv, Claims, CallingHoldsClaim, ResumeSawDecision, Granted,
       Decided, ReviewNamesGate
  <2>3. \A q \in Reviews \ {r} : invoked'[q] = invoked[q]
    BY <1>5 DEF ResumeCall, IInv, TypeOK, InvokedType
  <2>4. \A q \in Reviews \ {r} : RanOf(q)' = RanOf(q) BY <2>1, <2>3 DEF RanOf
  <2>5. CASE i = review[r].call
    <3>0. i <= i BY <2>1
    <3>1. invoked[r][i] = 0
      <4>1. resume[c].next <= review[resume[c].review].call BY <1>5, <2>5, <3>0
      <4> QED BY <1>5, <2>1, <2>5, <4>1 DEF IInv, Claims, GateAhead
    <3>2. invoked'[r][i] = IF batch[r][i] = "unknown" THEN 0 ELSE 1
      <4>1. Enforced(r, i) = IF batch[r][i] = "unknown" THEN "unknown" ELSE "allow"
        BY <2>5 DEF Enforced
      <4>2. invoked' = IF Enforced(r, i) = "allow"
                       THEN [invoked EXCEPT ![r][i] = @ + 1] ELSE invoked
        BY <1>5 DEF ResumeCall
      <4>3. DOMAIN invoked = Reviews /\ DOMAIN invoked[r] = Calls(r)
        BY <2>1 DEF IInv, TypeOK, InvokedType
      <4> QED BY <2>1, <3>1, <4>1, <4>2, <4>3
    <3>3. review[r].status # "absent" BY <2>2 DEF Granted
    <3>4. CASE batch[r][i] = "unknown"
      <4>1. RanOf(r)' = RanOf(r) BY <2>1, <2>5, <3>1, <3>2, <3>4 DEF RanOf
      <4> QED BY <2>4, <4>1
    <3>5. CASE batch[r][i] # "unknown"
      <4>1. ~RanOf(r) /\ RanOf(r)' BY <2>1, <2>5, <3>1, <3>2, <3>3, <3>5 DEF RanOf
      <4> QED BY <2>2, <2>4, <4>1
    <3> QED BY <3>4, <3>5
  <2>6. CASE i # review[r].call
    <3>1. invoked'[r][review[r].call] = invoked[r][review[r].call]
      BY <1>5, <2>1, <2>2, <2>6 DEF ResumeCall, IInv, TypeOK, InvokedType
    <3>2. RanOf(r)' = RanOf(r) BY <2>1, <3>1 DEF RanOf
    <3> QED BY <2>4, <3>2
  <2> QED BY <2>5, <2>6
<1>6. CASE \E c \in Resumers : ResumeCall(c)
  <2>1. PICK c \in Resumers : ResumeCall(c) BY <1>6
  <2>2. resume[c].review \in Reviews /\ resume[c].next \in Nat
    BY <2>1, Busy DEF ResumeCall, Resuming, IInv
  <2> QED BY <2>1, <2>2, <1>5
<1>7. CASE UNCHANGED <<review, invoked>>
  BY <1>7 DEF RanOf
<1> QED BY <1>1, <1>2, <1>3, <1>4, <1>6, <1>7 DEF Next, vars, RequirePending,
        AbortDecision, GetDecision, AbortResume, ResumeStep, AlreadyProcessed,
        ReportDenied, ResumeRaises, FinishResume

\* The two services implement the contract: one request, one decision, and at most
\* one run of the gated call, never after a rejection.
THEOREM Refinement == ASSUME SerialDecisions PROVE Spec => ImplementsContract
<1> DEFINE status == [r \in Reviews |-> review[r].status]
           ran == [r \in Reviews |-> review[r].status # "absent"
                                       /\ invoked[r][review[r].call] > 0]
<1>1. Init => Contract!Init
  <2> SUFFICES ASSUME Init PROVE Contract!Init OBVIOUS
  <2>1. \A r \in Reviews : review[r].status = "absent" BY DEF Init, Absent
  <2>2. status = [r \in Reviews |-> "absent"] BY <2>1
  <2>3. ran = [r \in Reviews |-> FALSE] BY <2>1
  <2> QED BY <2>2, <2>3 DEF Contract!Init
<1>2. IInv /\ [Next]_vars /\ SerialDecisions => [Contract!Next]_<<status, ran>>
  <2> SUFFICES ASSUME IInv, [Next]_vars, SerialDecisions
               PROVE  [Contract!Next]_<<status, ran>>
    OBVIOUS
  <2>0. IInv' BY InvStep
  <2>1. CASE \A q \in Reviews : review'[q].status = review[q].status
    <3>1. status' = status BY <2>1
    <3>2. CASE \A q \in Reviews : RanOf(q)' = RanOf(q)
      <4>1. ran' = ran BY <3>2 DEF RanOf
      <4> QED BY <3>1, <4>1
    <3>3. ASSUME NEW r \in Reviews, review[r].status \in Granted, ~RanOf(r), RanOf(r)',
                 \A q \in Reviews \ {r} : RanOf(q)' = RanOf(q)
          PROVE  Contract!Run(r)
      <4>1. ran' = [ran EXCEPT ![r] = TRUE] BY <3>3 DEF RanOf
      <4>2. ~ran[r] BY <3>3 DEF RanOf
      <4>3. status[r] \in {"approved", "info_requested"} BY <3>3 DEF Granted
      <4> QED BY <3>1, <4>1, <4>2, <4>3 DEF Contract!Run
    <3> QED BY <2>1, <3>2, <3>3, RunStep DEF Contract!Next
  <2>2. ASSUME NEW r \in Reviews, review'[r].status # review[r].status
        PROVE  Contract!Request(r) \/ Contract!Answer(r)
    <3>0. /\ invoked' = invoked
          /\ \A q \in Reviews \ {r} : review'[q] = review[q]
      BY <2>2, ReviewStep
    <3>1. CASE /\ review[r].status = "absent" /\ review'[r].status = "pending"
               /\ review'[r].call \in Calls(r)
               /\ batch[r][review'[r].call] \in {"approve", "unknown"}
      <4>1. \A i \in Calls(r) : batch[r][i] \in {"approve", "unknown"} => ~(invoked[r][i] > 0)
        BY <3>1 DEF IInv, Claims, GatedRun, Granted
      <4>2. ran' = ran BY <3>0, <3>1, <4>1
      <4>3. status' = [status EXCEPT ![r] = "pending"] BY <3>0, <3>1
      <4> QED BY <3>1, <4>2, <4>3 DEF Contract!Request
    <3>2. CASE /\ review[r].status = "pending" /\ review'[r].status \in Decided
               /\ review'[r].call = review[r].call
      <4>1. ran' = ran BY <3>0, <3>2 DEF Decided
      <4>2. status' = [status EXCEPT ![r] = review'[r].status] BY <3>0, <3>2
      <4> QED BY <3>2, <4>1, <4>2 DEF Contract!Answer, Decided
    <3> QED BY <2>2, <3>1, <3>2, ReviewStep
  <2> QED BY <2>1, <2>2 DEF Contract!Next
<1> QED BY <1>1, <1>2, Invariance, PTL DEF Spec, ImplementsContract, Contract!Spec
====
