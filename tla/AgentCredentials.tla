-------------------------- MODULE AgentCredentials --------------------------
(* The API keys of one agent of a prototype installation: the fields of its   *)
(* item in the agents table that the credential routes of                     *)
(* app/api/v1/agents.py change through app/modules/registry/store.py, the     *)
(* secrets behind them, and what an agent runtime accepts                     *)
(* (services/agent-runtime/auth.py).  A secret is never overwritten, so a key *)
(* stands for its secret and its ARN.  Every route reads the item and puts    *)
(* all of it back; so does every other update of the agent.                   *)
EXTENDS Integers, FiniteSets

CONSTANTS
    MaxKeys,             \* bound on the secrets a behaviour creates
    CredentialRequests,  \* the requests, numbered as they arrive
    RevealsPerHour       \* max_per_hour of check_reveal_rate_limit

ASSUME CredAssumption ==
    MaxKeys \in Nat /\ RevealsPerHour \in Nat /\ CredentialRequests \subseteq Nat

VARIABLES
    keyItem,      \* the agent item's credential fields
    created,         \* the secrets created so far: keys are numbered
    handed,          \* the keys a client was given in an answer
    replaced,        \* [ApiKeys -> rotations since the key was current, 2 for more]
    graceOver,       \* the replaced keys whose 24 hours are over
    reveals,         \* the counter of the hour
    credRequest,     \* [CredentialRequests -> where the request is]
    clobbered        \* has a put undone what was written after its read?

credVars ==
    <<keyItem, created, handed, replaced, graceOver, reveals, credRequest, clobbered>>

----------------------------------------------------------------------------

ApiKeys == 1 .. MaxKeys

NoKey == 0

CredentialFields ==
    [current : ApiKeys \cup {NoKey}, previous : ApiKeys \cup {NoKey}, revoked : BOOLEAN,
     jwt : BOOLEAN]

CredentialOps == {"create", "rotate", "revoke", "jwtConfig", "reveal", "otherUpdate"}

NoFields == [current |-> NoKey, previous |-> NoKey, revoked |-> FALSE, jwt |-> FALSE]

IdleCredential == [op |-> "none", key |-> NoKey, saw |-> NoFields, at |-> "idle"]

CredTypeOK ==
    /\ keyItem \in CredentialFields
    /\ created \in 0 .. MaxKeys
    /\ handed \subseteq 1 .. created
    /\ replaced \in [ApiKeys -> 0 .. 2]
    /\ graceOver \subseteq ApiKeys
    /\ reveals \in 0 .. RevealsPerHour + 1
    /\ credRequest \in [CredentialRequests ->
          [op : CredentialOps \cup {"none"}, key : ApiKeys \cup {NoKey}, saw : CredentialFields,
           at : {"idle", "secret", "read", "put", "count", "done"}]]
    /\ clobbered \in BOOLEAN

CredInit ==
    /\ keyItem = NoFields
    /\ created = 0
    /\ handed = {}
    /\ replaced = [k \in ApiKeys |-> 0]
    /\ graceOver = {}
    /\ reveals = 0
    /\ credRequest = [r \in CredentialRequests |-> IdleCredential]
    /\ clobbered = FALSE

----------------------------------------------------------------------------

CredBusy(r) == credRequest[r].at \notin {"idle", "done"}

CredEnds(r) == credRequest' = [credRequest EXCEPT ![r] = [IdleCredential EXCEPT !.at = "done"]]

\* The first request is the one that creates the agent, whose item is there by then.
CredentialArrives(r, op) ==
    /\ credRequest[r].at = "idle"
    /\ \A q \in CredentialRequests : q < r => credRequest[q].at # "idle"
    /\ (op = "create") = (\A q \in CredentialRequests : r <= q)
    /\ credRequest' = [credRequest EXCEPT
          ![r].op = op, ![r].at = IF op \in {"create", "rotate"} THEN "secret" ELSE "read"]
    /\ UNCHANGED <<keyItem, created, handed, replaced, graceOver, reveals, clobbered>>

\* create_agent and rotate_agent_api_key create the secret before they look at the agent.
CreateSecret(r) ==
    /\ credRequest[r].at = "secret"
    /\ created < MaxKeys
    /\ created' = created + 1
    /\ credRequest' = [credRequest EXCEPT ![r].key = created + 1, ![r].at = "read"]
    /\ UNCHANGED <<keyItem, handed, replaced, graceOver, reveals, clobbered>>

\* There is no key to rotate or to reveal: the request is refused, and the secret
\* of a rotation stays behind.
ReadCredential(r) ==
    /\ credRequest[r].at = "read"
    /\ IF credRequest[r].op \in {"rotate", "reveal"} /\ keyItem.current = NoKey
       THEN CredEnds(r)
       ELSE credRequest' = [credRequest EXCEPT
               ![r].saw = keyItem,
               ![r].at = IF credRequest[r].op = "reveal" THEN "count" ELSE "put"]
    /\ UNCHANGED <<keyItem, created, handed, replaced, graceOver, reveals, clobbered>>

KeyProvisioned(item, key) == [item EXCEPT !.current = key]
\* Mutant of Rotated: the key it replaces is dropped at once.
RotatedAtOnce(item, key) == [item EXCEPT !.current = key]
Rotated(item, key) == [item EXCEPT !.previous = item.current, !.current = key]
Revoked(item) == [item EXCEPT !.revoked = TRUE]
JwtConfigured(item) == {[item EXCEPT !.jwt = on] : on \in BOOLEAN}

\* What the request makes of its copy.
Puts(r) ==
    LET item == credRequest[r].saw
        key == credRequest[r].key
    IN  CASE credRequest[r].op = "create" -> {KeyProvisioned(item, key)}
          [] credRequest[r].op = "rotate" -> {Rotated(item, key)}
          [] credRequest[r].op = "revoke" -> {Revoked(item)}
          [] credRequest[r].op = "jwtConfig" -> JwtConfigured(item)
          [] credRequest[r].op = "otherUpdate" -> {item}

\* The put of the whole copy.  The answer that carries a new key may be lost.
PutCredential(r) ==
    /\ credRequest[r].at = "put"
    /\ keyItem' \in Puts(r)
    /\ IF credRequest[r].op \in {"create", "rotate"}
       THEN handed' \in {handed, handed \cup {credRequest[r].key}}
       ELSE UNCHANGED handed
    /\ replaced' = IF credRequest[r].op # "rotate" THEN replaced
                   ELSE [k \in ApiKeys |-> IF replaced[k] > 0 THEN 2
                                           ELSE IF k = keyItem.current THEN 1 ELSE 0]
    /\ clobbered' = (clobbered \/ keyItem # credRequest[r].saw)
    /\ CredEnds(r)
    /\ UNCHANGED <<created, graceOver, reveals>>

\* check_reveal_rate_limit counts, then compares; without Redis it lets the call
\* through.  The value revealed is of the key the request read.
RevealKey(r) ==
    /\ credRequest[r].at = "count"
    /\ \/ /\ reveals' = IF reveals > RevealsPerHour THEN reveals ELSE reveals + 1
          /\ handed' = IF reveals < RevealsPerHour THEN handed \cup {credRequest[r].saw.current}
                       ELSE handed
       \/ handed' = handed \cup {credRequest[r].saw.current} /\ UNCHANGED reveals
    /\ CredEnds(r)
    /\ UNCHANGED <<keyItem, created, replaced, graceOver, clobbered>>

RevealWindowEnds ==
    /\ reveals > 0
    /\ reveals' = 0
    /\ UNCHANGED <<keyItem, created, handed, replaced, graceOver, credRequest, clobbered>>

GraceEnds(k) ==
    /\ replaced[k] > 0
    /\ k \notin graceOver
    /\ graceOver' = graceOver \cup {k}
    /\ UNCHANGED <<keyItem, created, handed, replaced, reveals, credRequest, clobbered>>

\* The process dies, or a call raises, between two steps.
CredentialCutShort(r) ==
    /\ CredBusy(r)
    /\ CredEnds(r)
    /\ UNCHANGED <<keyItem, created, handed, replaced, graceOver, reveals, clobbered>>

CredNext ==
    \/ \E r \in CredentialRequests :
          \/ \E op \in CredentialOps : CredentialArrives(r, op)
          \/ CreateSecret(r) \/ ReadCredential(r) \/ PutCredential(r) \/ RevealKey(r)
          \/ CredentialCutShort(r)
    \/ RevealWindowEnds
    \/ \E k \in ApiKeys : GraceEnds(k)

CredSpec == CredInit /\ [][CredNext]_credVars

----------------------------------------------------------------------------
(* Properties *)

\* ApiKeyAuthProvider, on the item it reads for every request.
Accepts(k) ==
    /\ ~keyItem.revoked
    /\ keyItem.current # NoKey
    /\ k = keyItem.current \/ (k = keyItem.previous /\ k \notin graceOver)

\* A key that a client was given keeps working until the agent's keys are revoked,
\* the 24 hours after its rotation are over or a second rotation follows, however
\* requests overlap or are cut short: what can lose a key before is only a put of
\* an older copy, by a second rotation or by any other update of the agent.
HandedKeyAccepted ==
    ~clobbered /\ ~keyItem.revoked =>
        \A k \in handed :
            Accepts(k) \/ replaced[k] = 2 \/ (replaced[k] = 1 /\ k \in graceOver)

=============================================================================
