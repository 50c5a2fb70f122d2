---------------------------- MODULE BuildWithAI ----------------------------
(* A Build with AI session: its item                                          *)
(* (app/modules/task_planner/session_store.py), the requests that propose and *)
(* approve it (app/api/v1/build_with_ai.py), and the approval's execution     *)
(* (app/modules/task_planner/executor.py), which creates the missing          *)
(* resources, then the sub-agents, then the agent that lists them.            *)
(*                                                                            *)
(* buildOverlap, chosen once, says whether approvals of the session overlap.  *)
EXTENDS Integers, Sequences, FiniteSets, SequencesExt

CONSTANTS
    Approvals,        \* the requests that may approve the session
    MaxMissing,       \* bound on the missing resources of a proposal
    MaxSubAgents      \* bound on its sub-agents

ASSUME BuildAssumption == MaxMissing \in Nat /\ MaxSubAgents \in Nat

VARIABLES
    session,          \* the item, or NoSession
    approval,         \* [Approvals -> Execution]
    made,             \* what was created: [thing, by, lists]
    approvalLost,     \* did the process die, or the last put fail?
    buildOverlap      \* may approvals overlap?  fixed by the initial state

buildVars == <<session, approval, made, approvalLost, buildOverlap>>

----------------------------------------------------------------------------

\* The steps of an approval, in order.
Missing == [kind : {"resource"}, n : 1 .. MaxMissing]
SubAgentsOf == [kind : {"subAgent"}, n : 1 .. MaxSubAgents]
Orchestrator == [kind |-> "orchestrator", n |-> 1]
Things == Missing \cup SubAgentsOf \cup {Orchestrator}

NoSession == [status |-> "none"]

Session ==
    [status : {"proposed", "failed", "completed"}, missing : 0 .. MaxMissing,
     subAgents : 0 .. MaxSubAgents, listed : SUBSET Things]

IdleApproval == [at |-> "idle", left |-> <<>>, created |-> {}, saw |-> NoSession]

BuildTypeOK ==
    /\ session \in Session \cup {NoSession}
    /\ \A a \in Approvals :
          /\ approval[a].at \in {"idle", "creating", "putCompleted", "putFailed", "done"}
          /\ approval[a].left \in Seq(Things)
          /\ approval[a].created \subseteq Things
          /\ approval[a].saw \in Session \cup {NoSession}
    /\ made \subseteq [thing : Things, by : Approvals, lists : SUBSET Things]
    /\ approvalLost \in BOOLEAN
    /\ buildOverlap \in BOOLEAN

BuildInit ==
    /\ session = NoSession
    /\ approval = [a \in Approvals |-> IdleApproval]
    /\ made = {}
    /\ approvalLost = FALSE
    /\ buildOverlap \in BOOLEAN

----------------------------------------------------------------------------

\* The sub-agents before their orchestrator, which needs their ids.
Plan(item) ==
    [n \in 1 .. item.missing |-> [kind |-> "resource", n |-> n]]
        \o [n \in 1 .. item.subAgents |-> [kind |-> "subAgent", n |-> n]]
        \o <<Orchestrator>>

AgentsOf(things) == {t \in things : t.kind # "resource"}

ProposeBuild ==
    /\ session = NoSession
    /\ \E missing \in 0 .. MaxMissing, subAgents \in 0 .. MaxSubAgents :
          session' = [status |-> "proposed", missing |-> missing, subAgents |-> subAgents,
                      listed |-> {}]
    /\ UNCHANGED <<approval, made, approvalLost, buildOverlap>>

\* 409 unless the session is still proposed.
ReadSession(a) ==
    /\ approval[a].at = "idle"
    /\ session # NoSession
    /\ buildOverlap \/ \A b \in Approvals : approval[b].at \in {"idle", "done"}
    /\ approval' = [approval EXCEPT ![a] =
          IF session.status # "proposed" THEN [IdleApproval EXCEPT !.at = "done"]
          ELSE [at |-> "creating", left |-> Plan(session), created |-> {}, saw |-> session]]
    /\ UNCHANGED <<session, made, approvalLost, buildOverlap>>

\* The stores put a new item under a fresh id.  One that raises may have put
\* it: an agent without its version, or an answer that was lost.
CreateNext(a) ==
    LET thing == Head(approval[a].left)
        rest == Tail(approval[a].left)
        new == [thing |-> thing, by |-> a,
                lists |-> IF thing = Orchestrator THEN approval[a].created \cap SubAgentsOf
                          ELSE {}]
    IN  /\ approval[a].at = "creating"
        /\ \/ /\ made' = made \cup {new}
              /\ approval' = [approval EXCEPT
                    ![a].left = rest, ![a].created = @ \cup {thing},
                    ![a].at = IF rest = <<>> THEN "putCompleted" ELSE "creating"]
           \/ /\ thing \in Missing                  \* skip_resource_keys
              /\ approval' = [approval EXCEPT ![a].left = rest]
              /\ UNCHANGED made
           \/ /\ approval' = [approval EXCEPT ![a].at = "putFailed"]
              /\ made' \in {made, made \cup {new}}
        /\ UNCHANGED <<session, approvalLost, buildOverlap>>

\* Mutant of PutOutcome: a failed approval leaves the session as it was read.
PutCompletedOnly(a) ==
    /\ approval[a].at \in {"putCompleted", "putFailed"}
    /\ session' = IF approval[a].at = "putCompleted"
                  THEN [approval[a].saw EXCEPT !.status = "completed",
                                               !.listed = approval[a].created]
                  ELSE session
    /\ approval' = [approval EXCEPT ![a] = [IdleApproval EXCEPT !.at = "done"]]
    /\ UNCHANGED <<made, approvalLost, buildOverlap>>

\* The item as it was read, completed or failed.  What a failed approval had
\* created is not listed.
PutOutcome(a) ==
    /\ approval[a].at \in {"putCompleted", "putFailed"}
    /\ session' = IF approval[a].at = "putCompleted"
                  THEN [approval[a].saw EXCEPT !.status = "completed",
                                               !.listed = approval[a].created]
                  ELSE [approval[a].saw EXCEPT !.status = "failed"]
    /\ approval' = [approval EXCEPT ![a] = [IdleApproval EXCEPT !.at = "done"]]
    /\ UNCHANGED <<made, approvalLost, buildOverlap>>

\* The session stays proposed.
LoseApproval(a) ==
    /\ approval[a].at \notin {"idle", "done"}
    /\ approval' = [approval EXCEPT ![a] = [IdleApproval EXCEPT !.at = "done"]]
    /\ approvalLost' = TRUE
    /\ UNCHANGED <<session, made, buildOverlap>>

BuildNext ==
    \/ ProposeBuild
    \/ \E a \in Approvals :
          ReadSession(a) \/ CreateNext(a) \/ PutOutcome(a) \/ LoseApproval(a)

BuildSpec == BuildInit /\ [][BuildNext]_buildVars

----------------------------------------------------------------------------
(* Properties *)

\* A session is acted on once: however many approvals are asked for, and also
\* after one that failed partway, nothing of the proposal is created twice, a
\* completed session lists exactly what exists, and the orchestrator lists
\* every sub-agent of the proposal.  Approvals that overlap, and one whose
\* outcome was never recorded, are the exceptions.
ApprovedOnce ==
    ~buildOverlap /\ ~approvalLost =>
        /\ \A m, n \in made : m.thing = n.thing => m = n
        /\ session.status = "completed" =>
              /\ session.listed = {m.thing : m \in made}
              /\ \A m \in made :
                    m.thing = Orchestrator => m.lists = session.listed \cap SubAgentsOf
              /\ Cardinality(AgentsOf(session.listed)) = session.subAgents + 1

=============================================================================
