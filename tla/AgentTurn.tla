----------------------------- MODULE AgentTurn -----------------------------
(* A turn of a deployed agent: the gate in front of POST /chat                *)
(* (services/agent-runtime/main.py, quota.py), the guardrail, the model and   *)
(* the tools around it (orchestrator.py, guardrail.py), and the agent's       *)
(* spend for the month, which the runtime adds to and every registry update   *)
(* of the control plane puts back with the rest of the agent item.            *)
(*                                                                            *)
(* Two containers may run the agent.  Inside one, turns alternate only at the *)
(* awaits: record_llm_cost is synchronous, so no other turn of the container  *)
(* moves between its two updates.                                             *)
EXTENDS Integers, FiniteSets

CONSTANTS
    Turns,             \* the chat requests
    Runtimes,          \* the containers that may serve them
    LastMonth,         \* bound on the months that pass
    Budget             \* monthly_budget_usd, in calls of the model

ASSUME TurnsAssumption == IsFiniteSet(Turns) /\ "none" \notin Runtimes
ASSUME MonthsAssumption == LastMonth \in Nat \ {0}

VARIABLES
    spend,             \* the agent item's spend fields
    month,             \* the month it is
    incurred,          \* [month -> calls of the model paid for in it]
    registryCopy,      \* the spend fields a registry update has read and will put, or NoCopy
    costsLost,         \* has a cost been dropped, or the item put back or deleted?
    turn               \* [Turns -> where it is]

turnVars == <<spend, month, incurred, registryCopy, costsLost, turn>>

----------------------------------------------------------------------------

Months == 1 .. LastMonth

Spend == [kind : {"item", "stub", "absent"}, period : {0} \cup Months, usd : Nat]

Absent == [kind |-> "absent", period |-> 0, usd |-> 0]

NoCopy == [kind |-> "none"]

IdleTurn ==
    [at |-> "idle", runtime |-> "none", saw |-> NoCopy, period |-> 0, calls |-> 0]

TurnPlaces ==
    {"idle", "gate", "input", "model", "cost", "reset", "tools", "output", "done"}

TurnTypeOK ==
    /\ spend \in Spend
    /\ month \in Months
    /\ incurred \in [Months -> Nat]
    /\ registryCopy \in Spend \cup {NoCopy}
    /\ costsLost \in BOOLEAN
    /\ \A t \in Turns :
          /\ turn[t].at \in TurnPlaces
          /\ turn[t].runtime \in Runtimes \cup {"none"}
          /\ turn[t].period \in {0} \cup Months
          /\ turn[t].calls \in 0 .. 2

TurnInit ==
    /\ spend = [kind |-> "item", period |-> 0, usd |-> 0]
    /\ month = 1
    /\ incurred = [m \in Months |-> 0]
    /\ registryCopy = NoCopy
    /\ costsLost = FALSE
    /\ turn = [t \in Turns |-> IdleTurn]

----------------------------------------------------------------------------
(* The gate *)

\* No turn of the container is on its way from the model's answer through
\* the two updates of record_llm_cost.
Recording(t) == turn[t].at \in {"cost", "reset"}

LoopFree(c) == \A t \in Turns : turn[t].runtime = c => ~Recording(t)

Runs(t, place) == turn[t].at = place /\ (Recording(t) \/ LoopFree(turn[t].runtime))

TurnGoes(t, place) == turn' = [turn EXCEPT ![t].at = place]

\* An answer, a refusal, a request for approval or an error: the turn is over.
TurnEnds(t) ==
    turn' = [turn EXCEPT ![t] = [IdleTurn EXCEPT !.at = "done", !.runtime = turn[t].runtime]]

\* auth_middleware reads the agent item once: the credential, the tenant and
\* the budget are checked against what it read.
ReadRecord(t, c) ==
    /\ turn[t].at = "idle"
    /\ LoopFree(c)
    /\ turn' = [turn EXCEPT ![t] =
          IF spend.kind # "absent"
          THEN [IdleTurn EXCEPT !.at = "gate", !.runtime = c, !.saw = spend]
          ELSE [IdleTurn EXCEPT !.at = "done"]]
    /\ UNCHANGED <<spend, month, incurred, registryCopy, costsLost>>

\* The credential (401), the tenant (403) and the rate limits (429) refuse in
\* between; a stub has neither key nor issuer, so nothing authenticates.
OverBudget(t) == turn[t].saw.period = month /\ turn[t].saw.usd > Budget

PassGate(t) ==
    /\ Runs(t, "gate")
    /\ \/ TurnEnds(t)
       \/ /\ turn[t].saw.kind = "item"
          /\ ~OverBudget(t)
          /\ turn' = [turn EXCEPT ![t].at = "input", ![t].saw = NoCopy]
    /\ UNCHANGED <<spend, month, incurred, registryCopy, costsLost>>

----------------------------------------------------------------------------
(* The guardrail, on the message and on the answer *)

\* check lets a text pass, clean or sanitised, or blocks it, also when there is
\* no guardrail to ask or the call raises.  A blocked message ends the turn; a
\* blocked answer is replaced, and the memory of the turn saved all the same.
CheckInput(t) ==
    /\ Runs(t, "input")
    /\ TurnGoes(t, "model") \/ TurnEnds(t)
    /\ UNCHANGED <<spend, month, incurred, registryCopy, costsLost>>

\* _finalize.
CheckOutput(t) ==
    /\ Runs(t, "output")
    /\ TurnEnds(t)
    /\ UNCHANGED <<spend, month, incurred, registryCopy, costsLost>>

----------------------------------------------------------------------------
(* The model and its cost *)

\* Retrieval, memory or the model raise, or a trigger condition asks for a
\* human; else the model answers, at a cost that is known or not.
CallModel(t) ==
    /\ Runs(t, "model")
    /\ \/ TurnEnds(t) /\ UNCHANGED incurred
       \/ /\ turn' = [turn EXCEPT ![t].at = "tools", ![t].calls = @ + 1]
          /\ UNCHANGED incurred
       \/ /\ turn' = [turn EXCEPT ![t].at = "cost", ![t].calls = @ + 1,
                                   ![t].period = month]
          /\ incurred' = [incurred EXCEPT ![month] = @ + 1]
    /\ UNCHANGED <<spend, month, registryCopy, costsLost>>

Recorded(t) == turn' = [turn EXCEPT ![t].at = "tools", ![t].period = 0]

\* The ADD under the condition that the item's period is this month's; when it
\* fails, the SET that starts the period afresh.
AddCost(t) ==
    /\ Runs(t, "cost")
    /\ \/ /\ Recorded(t)                           \* raised and swallowed
          /\ costsLost' = TRUE
          /\ UNCHANGED spend
       \/ /\ spend.period = turn[t].period
          /\ spend' = [spend EXCEPT !.usd = @ + 1]
          /\ Recorded(t)
          /\ UNCHANGED costsLost
       \/ /\ spend.period # turn[t].period
          /\ TurnGoes(t, "reset")
          /\ UNCHANGED <<spend, costsLost>>
    /\ UNCHANGED <<month, incurred, registryCopy>>

\* Mutant of ResetCost: the new period goes on from the old total.
CarryCost(t) ==
    /\ Runs(t, "reset")
    /\ spend' = [kind |-> IF spend.kind = "absent" THEN "stub" ELSE spend.kind,
                 period |-> turn[t].period, usd |-> spend.usd + 1]
    /\ Recorded(t)
    /\ UNCHANGED <<month, incurred, registryCopy, costsLost>>

\* update_item without a condition: it also brings a deleted item back, as a stub.
ResetCost(t) ==
    /\ Runs(t, "reset")
    /\ \/ /\ spend' = [kind |-> IF spend.kind = "absent" THEN "stub" ELSE spend.kind,
                       period |-> turn[t].period, usd |-> 1]
          /\ UNCHANGED costsLost
       \/ costsLost' = TRUE /\ UNCHANGED spend       \* raised and swallowed
    /\ Recorded(t)
    /\ UNCHANGED <<month, incurred, registryCopy>>

\* Without tool calls the answer is final.  The tools are denied (403), need
\* an approval, raise, or bring a second call of the model.
RunTools(t) ==
    /\ Runs(t, "tools")
    /\ \/ TurnGoes(t, "output")
       \/ turn[t].calls = 1 /\ (TurnGoes(t, "model") \/ TurnEnds(t))
    /\ UNCHANGED <<spend, month, incurred, registryCopy, costsLost>>

----------------------------------------------------------------------------
(* The control plane and the clock *)

ReadForUpdate ==
    /\ registryCopy = NoCopy
    /\ spend.kind = "item"
    /\ registryCopy' = spend
    /\ UNCHANGED <<spend, month, incurred, costsLost, turn>>

PutBack ==
    /\ registryCopy # NoCopy
    /\ spend' = registryCopy
    /\ registryCopy' = NoCopy
    /\ costsLost' = TRUE
    /\ UNCHANGED <<month, incurred, turn>>

DeleteSpendItem ==
    /\ spend.kind = "item"
    /\ spend' = Absent
    /\ costsLost' = TRUE
    /\ UNCHANGED <<month, incurred, registryCopy, turn>>

MonthPasses ==
    /\ month < LastMonth
    /\ month' = month + 1
    /\ UNCHANGED <<spend, incurred, registryCopy, costsLost, turn>>

TurnStep(t) ==
    \/ \E c \in Runtimes : ReadRecord(t, c)
    \/ PassGate(t) \/ CheckInput(t) \/ CallModel(t) \/ AddCost(t) \/ ResetCost(t)
    \/ RunTools(t) \/ CheckOutput(t)

TurnNext ==
    \/ \E t \in Turns : TurnStep(t)
    \/ ReadForUpdate \/ PutBack \/ DeleteSpendItem \/ MonthPasses

TurnSpec == TurnInit /\ [][TurnNext]_turnVars

----------------------------------------------------------------------------
(* Properties *)

\* The only failure of the spend total is to count too little, never a false
\* block: what the item records for a period is at most what the model cost
\* in it, whatever containers race over the first cost of a month and whatever
\* stale copy a registry update puts back.
SpendNeverOvercounted ==
    spend.period # 0 => spend.usd <= incurred[spend.period]

\* Served by one container, and with no registry update of the agent and no
\* failed update, the total is exact: the two updates of record_llm_cost are
\* one step for the container's other turns, also across the end of a month.
ExactInOneContainer ==
    /\ ~costsLost
    /\ \A t, u \in Turns : turn[t].runtime \in {turn[u].runtime, "none"}
                            \/ turn[u].runtime = "none"
    /\ \A t \in Turns : ~Recording(t)
    /\ spend.period # 0
    => spend.usd = incurred[spend.period]

\* What record_llm_cost leaves in the agent's item: never too much, and exact where
\* nothing else writes the item.
SpendAccounted == SpendNeverOvercounted /\ ExactInOneContainer

=============================================================================
