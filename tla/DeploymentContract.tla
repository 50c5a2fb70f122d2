---- MODULE DeploymentContract ----
(***************************************************************************)
(* What a deployment of an agent promises, whichever pipeline carries it   *)
(* out: with no records, no stages, no executions and no approvals. A      *)
(* deployment is requested, cleared by the gates its pipeline has, and     *)
(* only then applied; what it deploys never changes; and the agent is live *)
(* with a version that was applied, or with none.                          *)
(***************************************************************************)
CONSTANTS Deployments, Versions, NoVersion

VARIABLES
    status,   \* status[d]: "absent", "requested", "cleared" or "applied"
    version,  \* the version d deploys
    live      \* the agent's live version

Init ==
    /\ status = [d \in Deployments |-> "absent"]
    /\ version = [d \in Deployments |-> NoVersion]
    /\ live = NoVersion

Goes(d, from, to) == status[d] = from /\ status' = [status EXCEPT ![d] = to]

Request(d) ==
    /\ Goes(d, "absent", "requested")
    /\ \E v \in Versions : version' = [version EXCEPT ![d] = v]
    /\ UNCHANGED live

Clear(d) == Goes(d, "requested", "cleared") /\ UNCHANGED <<version, live>>

\* The pipeline that was past the gates fails before it applies.
Withdraw(d) == Goes(d, "cleared", "requested") /\ UNCHANGED <<version, live>>

\* With the apply, or after it, the version goes live.
Apply(d) ==
    /\ Goes(d, "cleared", "applied")
    /\ live' \in {live, version[d]}
    /\ UNCHANGED version

GoLive(d) ==
    /\ status[d] = "applied"
    /\ live' = version[d]
    /\ UNCHANGED <<status, version>>

\* A writer that read the agent before its first version went live puts it back.
Forget == live' = NoVersion /\ UNCHANGED <<status, version>>

Next ==
    \/ \E d \in Deployments :
          Request(d) \/ Clear(d) \/ Withdraw(d) \/ Apply(d) \/ GoLive(d)
    \/ Forget

Spec == Init /\ [][Next]_<<status, version, live>>
====
