---- MODULE ToolApprovalContract ----
(***************************************************************************)
(* What human approval of tool calls promises, with no table, no handlers  *)
(* and no retries: a gated call is requested, decided once, and run at     *)
(* most once, never after a rejection.                                     *)
(***************************************************************************)
CONSTANTS Reviews

VARIABLES
    status,  \* status[r]: "absent", "pending" or the decision
    ran      \* ran[r]: whether the gated call of turn r was run

Init ==
    /\ status = [r \in Reviews |-> "absent"]
    /\ ran = [r \in Reviews |-> FALSE]

Request(r) ==
    /\ status[r] = "absent"
    /\ status' = [status EXCEPT ![r] = "pending"]
    /\ UNCHANGED ran

Answer(r) ==
    /\ status[r] = "pending"
    /\ \E d \in {"approved", "rejected", "info_requested"} :
         status' = [status EXCEPT ![r] = d]
    /\ UNCHANGED ran

Run(r) ==
    /\ status[r] \in {"approved", "info_requested"}
    /\ ~ran[r]
    /\ ran' = [ran EXCEPT ![r] = TRUE]
    /\ UNCHANGED status

Next == \E r \in Reviews : Request(r) \/ Answer(r) \/ Run(r)

Spec == Init /\ [][Next]_<<status, ran>>
====
