-------------------------- MODULE GuardrailPolicy --------------------------
(* One guardrail policy of the library: its item                              *)
(* (app/modules/guardrails/store.py), the Bedrock guardrail behind it         *)
(* (provisioner.py), the credential it may name                               *)
(* (app/modules/bedrock_credentials), the requests of                         *)
(* app/api/v1/guardrail_policies.py and bedrock_credentials.py, the agent     *)
(* whose versions name it and the deployed container that looks it up once    *)
(* (services/agent-runtime/guardrail.py).                                     *)
(*                                                                            *)
(* Bedrock is external: a guardrail lives in the Runtime's own account or in  *)
(* that of the credential's role, and any call to it may fail.                *)
(*                                                                            *)
(* policyOverlap, chosen once, says whether requests overlap.                 *)
EXTENDS Integers, FiniteSets

CONSTANTS
    PolicyRequests,        \* the requests a behaviour serves, numbered as they arrive
    MaxOverlappingWrites,  \* bound on the requests served where they may overlap
    MaxGuardrails          \* bound on the guardrails Bedrock creates

ASSUME GuardrailsAssumption == MaxGuardrails \in Nat

VARIABLES
    policy,            \* the item, or NoPolicy
    credential,        \* does the Bedrock credential exist?
    guardrails,        \* the guardrails in Bedrock: [id, account]
    lastGuardrail,     \* how many Bedrock has created
    policyRequest,     \* [PolicyRequests -> PolicyHandler]
    agentNames,        \* [now |-> does the agent's current version name the policy?,
                       \*  before |-> did any version?, gone |-> was there no such policy
                       \*  when the current version was saved or restored?]
    lookup,            \* what the container has looked up
    leftBehind,        \* was a request cut short, the answer of a create_guardrail lost,
                       \* or a failed deprovisioning swallowed?
    policyOverlap      \* may requests overlap?  fixed by the initial state

policyVars == <<policy, credential, guardrails, lastGuardrail, policyRequest, agentNames,
                lookup, leftBehind, policyOverlap>>

----------------------------------------------------------------------------

Accounts == {"own", "assumed"}

GuardrailIds == 1 .. MaxGuardrails

NoPolicy == [guardrail |-> -1]

\* account: "assumed" when the policy names the credential.
PolicyItem ==
    [enabled : BOOLEAN, account : Accounts, guardrail : {0} \cup GuardrailIds]

IdlePolicyRequest ==
    [op |-> "none", at |-> "idle", copy |-> NoPolicy, writes |-> "fields", new |-> NoPolicy]

PolicyTypeOK ==
    /\ policy \in PolicyItem \cup {NoPolicy}
    /\ credential \in BOOLEAN
    /\ guardrails \subseteq [id : GuardrailIds, account : Accounts]
    /\ lastGuardrail \in 0 .. MaxGuardrails
    /\ \A r \in PolicyRequests :
          /\ policyRequest[r].op \in {"none", "create", "update", "delete", "dropCredential"}
          /\ policyRequest[r].at \in
                {"idle", "putNew", "read", "reread", "put", "provision", "undo", "refs",
                 "deprovision", "delete", "dropCredential", "done"}
          /\ policyRequest[r].copy \in PolicyItem \cup {NoPolicy}
          /\ policyRequest[r].new \in PolicyItem \cup {NoPolicy}
          /\ policyRequest[r].writes \in {"fields", "guardrail"}
    /\ agentNames \in [now : BOOLEAN, before : BOOLEAN, gone : BOOLEAN]
    /\ lookup \in [state : {"none", "pending", "resolved"}, guardrail : {0} \cup GuardrailIds]
    /\ leftBehind \in BOOLEAN
    /\ policyOverlap \in BOOLEAN

PolicyInit ==
    /\ policy = NoPolicy
    /\ credential \in BOOLEAN
    /\ guardrails = {}
    /\ lastGuardrail = 0
    /\ policyRequest = [r \in PolicyRequests |-> IdlePolicyRequest]
    /\ agentNames = [now |-> FALSE, before |-> FALSE, gone |-> FALSE]
    /\ lookup = [state |-> "none", guardrail |-> 0]
    /\ leftBehind = FALSE
    /\ policyOverlap \in BOOLEAN

----------------------------------------------------------------------------
(* Helpers *)

PolicyAt(r, ops, state) == policyRequest[r].op \in ops /\ policyRequest[r].at = state

PolicyBusy(r) == policyRequest[r].at \notin {"idle", "done"}

PolicyQuiescent == \A r \in PolicyRequests : ~PolicyBusy(r)

Proceeds(r, state) == policyRequest' = [policyRequest EXCEPT ![r].at = state]

Answers(r) ==
    policyRequest' = [policyRequest EXCEPT ![r] = [IdlePolicyRequest EXCEPT !.at = "done"]]

\* _provision_bedrock_guardrail does nothing for a policy without Bedrock.
AfterFields(r, item) ==
    IF item.enabled
    THEN policyRequest' = [policyRequest EXCEPT
            ![r].at = "provision", ![r].copy = item, ![r].writes = "guardrail"]
    ELSE Answers(r)

\* _resolve_client: the role of a credential that is gone cannot be assumed.
ClientFor(item) == item.account = "assumed" => credential

----------------------------------------------------------------------------
(* A request arrives.  new stands for the fields of its body. *)

ReceivePolicyRequest(r, op, new) ==
    /\ policyRequest[r].at = "idle"
    /\ \A q \in PolicyRequests : q < r => policyRequest[q].at # "idle"
    /\ IF policyOverlap THEN r <= MaxOverlappingWrites ELSE PolicyQuiescent
    /\ (op = "create") = (r = 1)
    /\ policyRequest' = [policyRequest EXCEPT
          ![r] = [IdlePolicyRequest EXCEPT !.op = op, !.new = new,
                     !.at = CASE op = "create" -> "putNew"
                              [] op = "dropCredential" -> "refs"
                              [] OTHER -> "read"]]
    /\ UNCHANGED <<policy, credential, guardrails, lastGuardrail, agentNames, lookup,
                   leftBehind, policyOverlap>>

PutNewPolicy(r) ==
    /\ PolicyAt(r, {"create"}, "putNew")
    /\ policy' = policyRequest[r].new
    /\ AfterFields(r, policyRequest[r].new)
    /\ UNCHANGED <<credential, guardrails, lastGuardrail, agentNames, lookup, leftBehind,
                   policyOverlap>>

\* The approval of a Build with AI session creates its policy with the store
\* alone: Bedrock is enabled in it and never provisioned.
PutApprovedPolicy(r) ==
    /\ PolicyAt(r, {"create"}, "putNew")
    /\ policy' = [enabled |-> TRUE, account |-> "own", guardrail |-> 0]
    /\ Answers(r)
    /\ UNCHANGED <<credential, guardrails, lastGuardrail, agentNames, lookup, leftBehind,
                   policyOverlap>>

\* The first get of an update or a delete: 404, or for an update 422 when the
\* thresholds do not fit together.
ReadPolicy(r) ==
    /\ PolicyAt(r, {"update", "delete"}, "read")
    /\ \/ (policy = NoPolicy \/ policyRequest[r].op = "update") /\ Answers(r)
       \/ /\ policy # NoPolicy
          /\ policyRequest' = [policyRequest EXCEPT
                ![r].copy = policy,
                ![r].at = IF policyRequest[r].op = "update" THEN "reread" ELSE "refs"]
    /\ UNCHANGED <<policy, credential, guardrails, lastGuardrail, agentNames, lookup,
                   leftBehind, policyOverlap>>

\* store.update: a get, which finds no policy when it was deleted meanwhile,
RereadPolicy(r) ==
    /\ PolicyAt(r, {"create", "update"}, "reread")
    /\ IF policy = NoPolicy THEN Answers(r)
       ELSE policyRequest' = [policyRequest EXCEPT
               ![r].at = "put",
               ![r].copy = IF policyRequest[r].writes = "guardrail"
                           THEN [policy EXCEPT !.guardrail = policyRequest[r].copy.guardrail]
                           ELSE [policyRequest[r].new EXCEPT !.guardrail = policy.guardrail]]
    /\ UNCHANGED <<policy, credential, guardrails, lastGuardrail, agentNames, lookup,
                   leftBehind, policyOverlap>>

\* and a put of the whole item, over whatever is there.
PutPolicy(r) ==
    /\ PolicyAt(r, {"create", "update"}, "put")
    /\ policy' = policyRequest[r].copy
    /\ IF policyRequest[r].writes = "fields" THEN AfterFields(r, policyRequest[r].copy)
       ELSE Answers(r)
    /\ UNCHANGED <<credential, guardrails, lastGuardrail, agentNames, lookup, leftBehind,
                   policyOverlap>>

----------------------------------------------------------------------------
(* Bedrock *)

\* Mutant of ProvisionGuardrail: an update creates a guardrail of its own.
CreateGuardrail(r) ==
    LET created == [id |-> lastGuardrail + 1, account |-> policyRequest[r].copy.account] IN
    /\ PolicyAt(r, {"create", "update"}, "provision")
    /\ ClientFor(policyRequest[r].copy)
    /\ lastGuardrail < MaxGuardrails
    /\ guardrails' = guardrails \cup {created}
    /\ lastGuardrail' = lastGuardrail + 1
    /\ policyRequest' = [policyRequest EXCEPT ![r].at = "reread", ![r].copy.guardrail = created.id]
    /\ UNCHANGED <<policy, credential, agentNames, lookup, leftBehind, policyOverlap>>

\* update_guardrail when the copy names a guardrail, and it is in the account;
\* create_guardrail when it names none.
ProvisionGuardrail(r) ==
    LET copy == policyRequest[r].copy
        own == [id |-> copy.guardrail, account |-> copy.account]
        created == [id |-> lastGuardrail + 1, account |-> copy.account]
    IN  /\ PolicyAt(r, {"create", "update"}, "provision")
        /\ ClientFor(copy)
        /\ \/ /\ own \in guardrails
              /\ Proceeds(r, "reread")
              /\ UNCHANGED <<guardrails, lastGuardrail>>
           \/ /\ copy.guardrail = 0
              /\ lastGuardrail < MaxGuardrails
              /\ guardrails' = guardrails \cup {created}
              /\ lastGuardrail' = lastGuardrail + 1
              /\ policyRequest' = [policyRequest EXCEPT
                    ![r].at = "reread", ![r].copy.guardrail = created.id]
        /\ UNCHANGED <<policy, credential, agentNames, lookup, leftBehind, policyOverlap>>

\* A call that raises: create takes its item back, update leaves the fields as
\* they are now and answers 502.
GivesUp(r) == IF policyRequest[r].op = "create" THEN Proceeds(r, "undo") ELSE Answers(r)

ProvisionFails(r) ==
    /\ PolicyAt(r, {"create", "update"}, "provision")
    /\ GivesUp(r)
    /\ UNCHANGED <<policy, credential, guardrails, lastGuardrail, agentNames, lookup,
                   leftBehind, policyOverlap>>

\* The same of a create_guardrail that takes effect: the id is in the lost answer.
ProvisionAnswerLost(r) ==
    LET copy == policyRequest[r].copy IN
    /\ PolicyAt(r, {"create", "update"}, "provision")
    /\ ClientFor(copy)
    /\ copy.guardrail = 0
    /\ lastGuardrail < MaxGuardrails
    /\ guardrails' = guardrails \cup {[id |-> lastGuardrail + 1, account |-> copy.account]}
    /\ lastGuardrail' = lastGuardrail + 1
    /\ leftBehind' = TRUE
    /\ GivesUp(r)
    /\ UNCHANGED <<policy, credential, agentNames, lookup, policyOverlap>>

\* The current version of every agent: 409 when one names the policy.
CheckPolicyReferences(r) ==
    /\ PolicyAt(r, {"delete"}, "refs")
    /\ IF agentNames.now THEN Answers(r) ELSE Proceeds(r, "deprovision")
    /\ UNCHANGED <<policy, credential, guardrails, lastGuardrail, agentNames, lookup,
                   leftBehind, policyOverlap>>

\* Best effort: when it fails, the guardrail stays and the delete goes on, as it
\* does when the guardrail is deleted and only the answer is lost.
DeprovisionGuardrail(r) ==
    LET copy == policyRequest[r].copy
        own == [id |-> copy.guardrail, account |-> copy.account]
    IN  /\ PolicyAt(r, {"delete"}, "deprovision")
        /\ \/ copy.guardrail = 0 /\ UNCHANGED <<guardrails, leftBehind>>
           \/ /\ own \in guardrails
              /\ ClientFor(copy)
              /\ guardrails' = guardrails \ {own}
              /\ UNCHANGED leftBehind
           \/ copy.guardrail # 0 /\ leftBehind' = TRUE /\ UNCHANGED guardrails
        /\ Proceeds(r, "delete")
        /\ UNCHANGED <<policy, credential, lastGuardrail, agentNames, lookup, policyOverlap>>

\* The end of a delete, or of a create that could not be provisioned.
DeletePolicyItem(r) ==
    /\ PolicyAt(r, {"delete"}, "delete") \/ PolicyAt(r, {"create"}, "undo")
    /\ policy' = NoPolicy
    /\ Answers(r)
    /\ UNCHANGED <<credential, guardrails, lastGuardrail, agentNames, lookup, leftBehind,
                   policyOverlap>>

----------------------------------------------------------------------------
(* DELETE of the credential *)

CheckCredentialReferences(r) ==
    /\ PolicyAt(r, {"dropCredential"}, "refs")
    /\ IF ~credential \/ (policy # NoPolicy /\ policy.account = "assumed") THEN Answers(r)
       ELSE Proceeds(r, "dropCredential")
    /\ UNCHANGED <<policy, credential, guardrails, lastGuardrail, agentNames, lookup,
                   leftBehind, policyOverlap>>

DeleteCredential(r) ==
    /\ PolicyAt(r, {"dropCredential"}, "dropCredential")
    /\ credential' = FALSE
    /\ Answers(r)
    /\ UNCHANGED <<policy, guardrails, lastGuardrail, agentNames, lookup, leftBehind,
                   policyOverlap>>

----------------------------------------------------------------------------
(* The process, the agent, the container *)

CutPolicyRequest(r) ==
    /\ PolicyBusy(r)
    /\ leftBehind' = TRUE
    /\ Answers(r)
    /\ UNCHANGED <<policy, credential, guardrails, lastGuardrail, agentNames, lookup,
                   policyOverlap>>

\* No save of a version looks the policy up: it may be gone, or not be there yet.
SaveAgent(names) ==
    /\ policyOverlap \/ PolicyQuiescent
    /\ agentNames' = [now |-> names, before |-> agentNames.before \/ names,
                      gone |-> names /\ policy = NoPolicy]
    /\ UNCHANGED <<policy, credential, guardrails, lastGuardrail, policyRequest, lookup,
                   leftBehind, policyOverlap>>

\* A rollback takes over the configuration of an old version as it is, without a
\* lookup either.
RestoreOldVersion ==
    /\ policyOverlap \/ PolicyQuiescent
    /\ agentNames.before
    /\ agentNames' = [agentNames EXCEPT !.now = TRUE, !.gone = (policy = NoPolicy)]
    /\ UNCHANGED <<policy, credential, guardrails, lastGuardrail, policyRequest, lookup,
                   leftBehind, policyOverlap>>

\* _resolve sets _resolved first and awaits the item then.
BeginLookup ==
    /\ lookup.state = "none"
    /\ agentNames.now
    /\ lookup' = [lookup EXCEPT !.state = "pending"]
    /\ UNCHANGED <<policy, credential, guardrails, lastGuardrail, policyRequest, agentNames,
                   leftBehind, policyOverlap>>

\* The item, no such item or guardrail, or an exception: the outcome stays for
\* the life of the container.
EndLookup ==
    /\ lookup.state = "pending"
    /\ \/ lookup' = [state |-> "resolved", guardrail |-> 0]
       \/ /\ policy # NoPolicy
          /\ lookup' = [state |-> "resolved", guardrail |-> policy.guardrail]
    /\ UNCHANGED <<policy, credential, guardrails, lastGuardrail, policyRequest, agentNames,
                   leftBehind, policyOverlap>>

PolicyStep(r) ==
    \/ PutNewPolicy(r) \/ PutApprovedPolicy(r) \/ ReadPolicy(r) \/ RereadPolicy(r) \/ PutPolicy(r)
    \/ ProvisionGuardrail(r) \/ ProvisionFails(r) \/ ProvisionAnswerLost(r)
    \/ CheckPolicyReferences(r) \/ DeprovisionGuardrail(r) \/ DeletePolicyItem(r)
    \/ CheckCredentialReferences(r) \/ DeleteCredential(r) \/ CutPolicyRequest(r)

PolicyNext ==
    \/ \E r \in PolicyRequests :
          \/ \E op \in {"create", "update"}, enabled \in BOOLEAN, account \in Accounts :
                ReceivePolicyRequest(r, op, [enabled |-> enabled, account |-> account,
                                             guardrail |-> 0])
          \/ \E op \in {"delete", "dropCredential"} : ReceivePolicyRequest(r, op, NoPolicy)
          \/ PolicyStep(r)
    \/ \E names \in BOOLEAN : SaveAgent(names)
    \/ RestoreOldVersion
    \/ BeginLookup
    \/ EndLookup

PolicySpec == PolicyInit /\ [][PolicyNext]_policyVars

----------------------------------------------------------------------------
(* Properties *)

\* Nothing is left behind in Bedrock and nothing is missing there: between requests
\* the guardrails are the one the item names, or none, however many calls Bedrock
\* refused.
BedrockHasPolicy ==
    PolicyQuiescent =>
        {g.id : g \in guardrails} =
            IF policy # NoPolicy THEN {policy.guardrail} \ {0} ELSE {}

\* A container, which fails closed, is not blocked for good by the control plane:
\* the guardrail it has looked up, once and for its whole life, exists as long as
\* the agent's current version names the policy, unless there was no such policy when
\* that version was saved or restored, which neither looks up.  Of a container
\* whose lookup failed, or found no guardrail yet, it says nothing.
AgentKeepsGuardrail ==
    agentNames.now /\ ~agentNames.gone /\ lookup.guardrail # 0 =>
        \E g \in guardrails : g.id = lookup.guardrail

\* Both hold for requests one at a time, none of them cut short, as long as no
\* create_guardrail took effect with its answer lost, and no deprovisioning, whose
\* failure is swallowed, has left a guardrail behind.
GuardrailsAccounted ==
    ~policyOverlap /\ ~leftBehind => BedrockHasPolicy /\ AgentKeepsGuardrail

=============================================================================
