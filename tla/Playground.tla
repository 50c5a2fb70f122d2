----------------------------- MODULE Playground -----------------------------
(* Turns of the playground, in which a developer tries out an agent's draft   *)
(* (app/api/v1/playground.py): the session item they are appended to          *)
(* (app/modules/playground/store.py) and the guardrail layers of a turn       *)
(* (app/modules/guardrails/engine.py).  The policy a turn reads is a free     *)
(* choice, none included: anyone may have edited or deleted it since the turn *)
(* before.  The audit event of a turn, which may fail unnoticed, is left out. *)
EXTENDS Integers, FiniteSets, Sequences

CONSTANTS
    PlayTurns,        \* the turns requested, numbered as they arrive
    OverlappingPlays, \* bound on the turns served where they may overlap
    NoTurns           \* a session that has no item

VARIABLES
    sessions,         \* [PlaySessions -> the session's turns, or NoTurns]
    playTurn,         \* [PlayTurns -> where the turn is]
    playLost,         \* was a turn cut short, or refused by an error?
    playOverlap       \* may turns overlap?  fixed by the initial state

playVars == <<sessions, playTurn, playLost, playOverlap>>

----------------------------------------------------------------------------

\* The session the client names, 0, or one that the turn gets for its own.
PlaySessions == {0} \cup PlayTurns

\* bert: which of its sub-checks a policy enables; the three binary ones are alike.
Policies == [bert : SUBSET {"toxicity", "binary"}, bedrock : BOOLEAN]
Unguarded == [bert |-> {}, bedrock |-> FALSE]

Layers == {"pass", "block", "escalate"}

Texts == {"message", "reply", "blocked", "canned"}

PlayEntry == [id : Nat, role : {"user", "assistant"}, turn : PlayTurns, text : Texts]

ASSUME PlaygroundAssumption == NoTurns \notin Seq(PlayEntry)

IdlePlay ==
    [at |-> "idle", session |-> 0, had |-> 0, guarded |-> FALSE, policy |-> Unguarded,
     toxicity |-> "none", input |-> "none", output |-> "none", asked |-> FALSE,
     text |-> "blocked", copy |-> <<>>]

PlayTypeOK ==
    /\ \A s \in PlaySessions :
          sessions[s] # NoTurns =>
             \A i \in DOMAIN sessions[s] : sessions[s][i] \in PlayEntry
    /\ \A t \in PlayTurns :
          /\ playTurn[t].at \in
                {"idle", "get", "create", "policy", "toxicity", "binary", "bedrock", "model",
                 "output", "reread", "append", "done"}
          /\ playTurn[t].session \in PlaySessions
          /\ playTurn[t].had \in Nat
          /\ playTurn[t].policy \in Policies
          /\ playTurn[t].toxicity \in Layers \cup {"none"}
          /\ {playTurn[t].input, playTurn[t].output} \subseteq {"none", "passed", "intervened"}
          /\ playTurn[t].text \in Texts
    /\ playLost \in BOOLEAN
    /\ playOverlap \in BOOLEAN

PlayInit ==
    /\ sessions = [s \in PlaySessions |-> NoTurns]
    /\ playTurn = [t \in PlayTurns |-> IdlePlay]
    /\ playLost = FALSE
    /\ playOverlap \in BOOLEAN

----------------------------------------------------------------------------

PlayAt(t, state) == playTurn[t].at = state

PlayBusy(t) == playTurn[t].at \notin {"idle", "done"}

PlayGoes(t, state) == playTurn' = [playTurn EXCEPT ![t].at = state]

PlayEnds(t) ==
    playTurn' = [playTurn EXCEPT
       ![t] = [IdlePlay EXCEPT !.at = "done", !.session = playTurn[t].session]]

\* An exception ends the turn; nothing of it is in the session.
PlayRaises(t) == PlayEnds(t) /\ playLost' = TRUE

\* The overrides are for administrators: a developer's turn neither clears the
\* session nor does without the guardrails.  Who asks is part of the choice.
StartTurnOf(t) ==
    /\ PlayAt(t, "idle")
    /\ \A u \in PlayTurns : u < t => ~PlayAt(u, "idle")
    /\ IF playOverlap THEN t <= OverlappingPlays ELSE \A u \in PlayTurns : ~PlayBusy(u)
    /\ \E session \in {0, t} :
          playTurn' = [playTurn EXCEPT ![t].at = "get", ![t].session = session]
    /\ UNCHANGED <<sessions, playLost, playOverlap>>

\* mock: the turn calls no model and no guardrail.
AfterSession(mock) == IF mock THEN "reread" ELSE "policy"

GetSession(t) ==
    /\ PlayAt(t, "get")
    /\ LET item == sessions[playTurn[t].session] IN
       IF item = NoTurns THEN PlayGoes(t, "create")
       ELSE \E mock \in BOOLEAN :
               playTurn' = [playTurn EXCEPT
                  ![t].had = Len(item), ![t].at = AfterSession(mock),
                  ![t].text = IF mock THEN "canned" ELSE @]
    /\ UNCHANGED <<sessions, playLost, playOverlap>>

\* The put of an empty session is unconditional.
PutEmptySession(t) ==
    /\ PlayAt(t, "create")
    /\ sessions' = [sessions EXCEPT ![playTurn[t].session] = <<>>]
    /\ \E mock \in BOOLEAN :
          playTurn' = [playTurn EXCEPT
             ![t].at = AfterSession(mock), ![t].text = IF mock THEN "canned" ELSE @]
    /\ UNCHANGED <<playLost, playOverlap>>

\* The version names no policy, an administrator disabled it, or it is not there.
ReadPlayPolicy(t) ==
    /\ PlayAt(t, "policy")
    /\ \/ PlayGoes(t, "model")
       \/ \E policy \in Policies :
             playTurn' = [playTurn EXCEPT
                ![t].guarded = TRUE, ![t].policy = policy, ![t].at = "toxicity"]
    /\ UNCHANGED <<sessions, playLost, playOverlap>>

----------------------------------------------------------------------------
(* check_input and check_output of the guardrail engine *)

\* The local classifiers raise when the model is missing or inference fails.
CheckToxicity(t) ==
    /\ PlayAt(t, "toxicity")
    /\ \/ /\ "toxicity" \notin playTurn[t].policy.bert
          /\ PlayGoes(t, "binary")
          /\ UNCHANGED playLost
       \/ /\ "toxicity" \in playTurn[t].policy.bert
          /\ \E layer \in Layers :
                playTurn' = [playTurn EXCEPT
                   ![t].toxicity = layer,
                   ![t].at = IF layer = "block" THEN "reread" ELSE "binary"]
          /\ UNCHANGED playLost
       \/ "toxicity" \in playTurn[t].policy.bert /\ PlayRaises(t)
    /\ UNCHANGED <<sessions, playOverlap>>

\* Mutant of ConsultsBedrock: whatever toxicity said, unless it was unsure, is final.
ConsultsWhenUnsure(t) ==
    playTurn[t].toxicity = "escalate" /\ playTurn[t].policy.bedrock

\* Only a text that toxicity found safe does without Bedrock.
ConsultsBedrock(t) == playTurn[t].toxicity # "pass" /\ playTurn[t].policy.bedrock

CheckBinary(t) ==
    /\ PlayAt(t, "binary")
    /\ \/ PlayGoes(t, IF ConsultsBedrock(t) THEN "bedrock" ELSE "model") /\ UNCHANGED playLost
       \/ /\ "binary" \in playTurn[t].policy.bert
          /\ \/ PlayGoes(t, "reread") /\ UNCHANGED playLost
             \/ PlayRaises(t)
    /\ UNCHANGED <<sessions, playOverlap>>

\* It fails closed.
Judged(answer) == IF answer = "passed" THEN "pass" ELSE "block"

AskBedrock(t) ==
    /\ PlayAt(t, "bedrock")
    /\ \E answer \in {"passed", "intervened", "none"} :
          playTurn' = [playTurn EXCEPT
             ![t].input = answer,
             ![t].at = IF Judged(answer) = "block" THEN "reread" ELSE "model"]
    /\ UNCHANGED <<sessions, playLost, playOverlap>>

CallPlayModel(t) ==
    /\ PlayAt(t, "model")
    /\ \/ /\ playTurn' = [playTurn EXCEPT
                ![t].asked = TRUE, ![t].text = "reply",
                ![t].at = IF playTurn[t].guarded /\ playTurn[t].policy.bedrock THEN "output"
                          ELSE "reread"]
          /\ UNCHANGED playLost
       \/ PlayRaises(t)
    /\ UNCHANGED <<sessions, playOverlap>>

\* Without a Bedrock guardrail check_output lets everything pass.
CheckPlayOutput(t) ==
    /\ PlayAt(t, "output")
    /\ \E answer \in {"passed", "intervened", "none"} :
          playTurn' = [playTurn EXCEPT
             ![t].output = answer, ![t].at = "reread",
             ![t].text = IF Judged(answer) = "block" THEN "blocked" ELSE "reply"]
    /\ UNCHANGED <<sessions, playLost, playOverlap>>

----------------------------------------------------------------------------
(* append_turns reads the session again *)

RereadSession(t) ==
    /\ PlayAt(t, "reread")
    /\ playTurn' = [playTurn EXCEPT
          ![t].copy = sessions[playTurn[t].session], ![t].at = "append"]
    /\ UNCHANGED <<sessions, playLost, playOverlap>>

\* Numbered from the length that the turn's first read found.
NewTurns(t) ==
    LET had == playTurn[t].had IN
    << [id |-> had, role |-> "user", turn |-> t, text |-> "message"],
       [id |-> had + 1, role |-> "assistant", turn |-> t, text |-> playTurn[t].text] >>

AppendTurns(t) ==
    /\ PlayAt(t, "append")
    /\ sessions' = [sessions EXCEPT ![playTurn[t].session] = playTurn[t].copy \o NewTurns(t)]
    /\ PlayEnds(t)
    /\ UNCHANGED <<playLost, playOverlap>>

\* The process dies, or a call to DynamoDB raises.
PlayCutShort(t) ==
    /\ PlayBusy(t)
    /\ PlayRaises(t)
    /\ UNCHANGED <<sessions, playOverlap>>

PlayNext ==
    \E t \in PlayTurns :
       \/ StartTurnOf(t) \/ GetSession(t) \/ PutEmptySession(t) \/ ReadPlayPolicy(t)
       \/ CheckToxicity(t) \/ CheckBinary(t) \/ AskBedrock(t) \/ CallPlayModel(t)
       \/ CheckPlayOutput(t) \/ RereadSession(t) \/ AppendTurns(t) \/ PlayCutShort(t)

PlaySpec == PlayInit /\ [][PlayNext]_playVars

----------------------------------------------------------------------------
(* Properties *)

\* A guarded turn's message reaches the model, and the model's reply the session,
\* only past the layers of the policy it read: Bedrock, down or not asked, is never
\* taken for a yes, and only toxicity's own verdict stands in for it on the input.
OnlyVettedIsKept ==
    \A t \in PlayTurns :
       LET turn == playTurn[t]
       IN  turn.guarded /\ turn.policy.bedrock =>
              /\ turn.asked => turn.toxicity = "pass" \/ turn.input = "passed"
              /\ turn.at \in {"reread", "append"} /\ turn.text = "reply" =>
                    turn.output = "passed"

\* A session holds whole turns, the message before its answer, numbered without a
\* gap, and every turn that ended well is in its session, if turns come one at a time.
SessionIsWhole ==
    \A s \in PlaySessions :
       sessions[s] # NoTurns =>
          /\ \A i \in DOMAIN sessions[s] :
                /\ sessions[s][i].role = IF i % 2 = 1 THEN "user" ELSE "assistant"
                /\ i % 2 = 1 => /\ i < Len(sessions[s])
                                /\ sessions[s][i + 1].turn = sessions[s][i].turn
                /\ ~playOverlap => sessions[s][i].id = i - 1
          /\ ~playOverlap /\ ~playLost =>
                \A t \in PlayTurns :
                   PlayAt(t, "done") /\ playTurn[t].session = s =>
                      \E i \in DOMAIN sessions[s] : sessions[s][i].turn = t

PlaygroundKept == OnlyVettedIsKept /\ SessionIsWhole

=============================================================================
