------------------------- MODULE AgentRuntimeProofs -------------------------
(***************************************************************************)
(* Proofs about the components an agent runs in, for every value of their  *)
(* constants: AgentTurn (what a turn costs), AgentContainer (which         *)
(* definition a container serves) and AgentCredentials (which keys it      *)
(* accepts).                                                               *)
(***************************************************************************)
EXTENDS AgentTurn, AgentContainer, AgentCredentials, FiniteSetTheorems,
        TLAPS

-----------------------------------------------------------------------------
(***************************************************************************)
(* AgentTurn: the spend in the agent's item never exceeds what the model   *)
(* cost, and is exact where one container and nothing else writes it.      *)
(***************************************************************************)

\* The turns that have a cost of period p to record.
RecordingIn(p) == {t \in Turns : Recording(t) /\ turn[t].period = p}

Owed(p) == Cardinality(RecordingIn(p))

(***************************************************************************)
(* The inductive invariant. What a turn has yet to record is already in    *)
(* incurred, so the totals leave room for it: in the item, and in the copy *)
(* that a registry update may put back.                                    *)
(***************************************************************************)
TurnState ==
    [at : TurnPlaces, runtime : Runtimes \cup {"none"}, saw : Spend \cup {NoCopy},
     period : {0} \cup Months, calls : 0 .. 2]

SpendTypes ==
    /\ spend \in Spend
    /\ month \in Months
    /\ incurred \in [Months -> Nat]
    /\ registryCopy \in Spend \cup {NoCopy}
    /\ costsLost \in BOOLEAN

Places ==
    /\ turn \in [Turns -> TurnState]
    /\ \A t \in Turns :
          /\ turn[t].at = "idle" => turn[t].runtime = "none"
          /\ turn[t].at \notin {"idle", "done"} => turn[t].runtime \in Runtimes
          /\ turn[t].at \in {"idle", "gate", "input"} => turn[t].calls = 0
          /\ turn[t].at = "model" => turn[t].calls \in 0 .. 1
          /\ Recording(t) => turn[t].period # 0

\* Two turns of one container never record at the same time.
LoopHeld ==
    \A t, u \in Turns :
       Recording(t) /\ Recording(u) /\ turn[t].runtime = turn[u].runtime => t = u

RoomIn(s) == s.period # 0 => s.usd + Owed(s.period) <= incurred[s.period]

Room ==
    /\ \A p \in Months : Owed(p) <= incurred[p]
    /\ RoomIn(spend)
    /\ registryCopy # NoCopy => RoomIn(registryCopy)

\* Nothing belongs to a month that has not come.
UpToNow ==
    /\ spend.period <= month
    /\ registryCopy # NoCopy => registryCopy.period <= month
    /\ \A p \in Months : incurred[p] > 0 => p <= month
    /\ \A t \in Turns : Recording(t) => turn[t].period <= month

OneContainer ==
    \A t, u \in Turns : turn[t].runtime \in {turn[u].runtime, "none"}
                         \/ turn[u].runtime = "none"

\* No month after the item's has cost anything, and the item's total is what its
\* own month has cost.
Settled ==
    /\ \A p \in Months : incurred[p] > 0 => p <= spend.period
    /\ spend.period # 0 => spend.usd = incurred[spend.period]

\* While t records, the cost of one call is missing, which may be the first of
\* a month.
Missing(t) ==
    LET p == turn[t].period IN
    /\ spend.period <= p
    /\ \A q \in Months : incurred[q] > 0 => q <= p
    /\ spend.period = p => spend.usd + 1 = incurred[p] /\ turn[t].at = "cost"
    /\ spend.period # p => incurred[p] = 1

Exact ==
    ~costsLost /\ OneContainer =>
       /\ (\A t \in Turns : ~Recording(t)) => Settled
       /\ \A t \in Turns : Recording(t) => Missing(t)

TurnInv == SpendTypes /\ Places /\ LoopHeld /\ Room /\ UpToNow /\ Exact

-----------------------------------------------------------------------------
(* Counting the turns that record *)

LEMMA OwedType ==
  ASSUME NEW p
  PROVE  IsFiniteSet(RecordingIn(p)) /\ Owed(p) \in Nat
<1>1. RecordingIn(p) \subseteq Turns
  BY DEF RecordingIn
<1>2. IsFiniteSet(RecordingIn(p))
  BY <1>1, TurnsAssumption, FS_Subset
<1> QED BY <1>2, FS_CardinalityType DEF Owed

\* A turn that starts to record a cost of period p.
LEMMA OwedGrows ==
  ASSUME NEW t \in Turns, NEW p, turn[t].at \notin {"cost", "reset"},
         turn'[t].at \in {"cost", "reset"}, turn'[t].period = p,
         \A u \in Turns : u # t => turn'[u] = turn[u]
  PROVE  Owed(p)' = Owed(p) + 1 /\ \A q : q # p => Owed(q)' = Owed(q)
<1>1. RecordingIn(p)' = RecordingIn(p) \cup {t} /\ t \notin RecordingIn(p)
  BY DEF RecordingIn, Recording
<1>2. ASSUME NEW q, q # p PROVE RecordingIn(q)' = RecordingIn(q)
  BY <1>2 DEF RecordingIn, Recording
<1>3. Owed(p)' = Owed(p) + 1
  BY <1>1, OwedType, FS_AddElement DEF Owed
<1> QED BY <1>2, <1>3 DEF Owed

\* A turn that has recorded its cost.
LEMMA OwedShrinks ==
  ASSUME NEW t \in Turns, turn[t].at \in {"cost", "reset"},
         turn'[t].at \notin {"cost", "reset"},
         \A u \in Turns : u # t => turn'[u] = turn[u]
  PROVE  /\ Owed(turn[t].period)' \in Nat
         /\ Owed(turn[t].period) \in Nat \ {0}
         /\ \A p : p = turn[t].period => Owed(p)' = Owed(p) - 1
         /\ \A q : q # turn[t].period => Owed(q)' = Owed(q)
<1> DEFINE p == turn[t].period
<1>1. t \in RecordingIn(p)
  BY DEF RecordingIn, Recording
<1>2. \A r : r = p => RecordingIn(r)' = RecordingIn(r) \ {t}
  BY DEF RecordingIn, Recording
<1>3. ASSUME NEW q, q # p PROVE RecordingIn(q)' = RecordingIn(q)
  BY <1>3 DEF RecordingIn, Recording
<1>4. \A r : r = p => Owed(r)' = Owed(r) - 1
  BY <1>1, <1>2, OwedType, FS_RemoveElement DEF Owed
<1>5. Owed(p) # 0
  BY <1>1, OwedType, FS_EmptySet DEF Owed
<1> QED BY <1>3, <1>4, <1>5, OwedType DEF Owed

\* A step that neither starts nor ends a recording.
LEMMA OwedSame ==
  ASSUME \A u \in Turns : /\ Recording(u)' <=> Recording(u)
                          /\ Recording(u) => turn'[u].period = turn[u].period
  PROVE  \A p : Owed(p)' = Owed(p)
<1>1. ASSUME NEW p PROVE RecordingIn(p)' = RecordingIn(p)
  BY DEF RecordingIn
<1> QED BY <1>1 DEF Owed

-----------------------------------------------------------------------------
(* Initially, and at the steps of a turn that leave the spend alone *)

LEMMA TurnInitially == TurnInit => TurnInv
<1> SUFFICES ASSUME TurnInit PROVE TurnInv
  OBVIOUS
<1>1. 1 \in Months
  BY MonthsAssumption DEF Months
<1>2. SpendTypes
  BY <1>1 DEF TurnInit, SpendTypes, Spend, NoCopy
<1>3. Places
  BY DEF TurnInit, Places, TurnState, TurnPlaces, IdleTurn, Recording, NoCopy
<1>4. \A t \in Turns : ~Recording(t)
  BY DEF TurnInit, Recording, IdleTurn
<1>5. \A p : Owed(p) = 0
  <2>1. \A p : RecordingIn(p) = {}
    BY <1>4 DEF RecordingIn
  <2> QED BY <2>1, FS_EmptySet DEF Owed
<1>6. Room /\ UpToNow
  BY <1>4, <1>5 DEF TurnInit, Room, RoomIn, UpToNow, NoCopy, Months
<1>7. Exact /\ LoopHeld
  BY <1>4 DEF TurnInit, Exact, Settled, LoopHeld
<1> QED BY <1>2, <1>3, <1>6, <1>7 DEF TurnInv

\* What a new state of t must be for Places, when t does not record in it.
Fits(new) ==
    /\ new \in TurnState
    /\ new.at \notin {"idle", "cost", "reset"}
    /\ new.at # "done" => new.runtime \in Runtimes
    /\ new.at \in {"gate", "input"} => new.calls = 0
    /\ new.at = "model" => new.calls \in 0 .. 1

LEMMA PlacesKept ==
  ASSUME Places, NEW t \in Turns, NEW new, Fits(new), turn' = [turn EXCEPT ![t] = new]
  PROVE  /\ Places'
         /\ ~Recording(t)'
         /\ \A u \in Turns : u # t => turn'[u] = turn[u]
BY DEF Places, Fits, Recording, TurnState

\* Containers are only ever added: if one serves all turns after a step, one did.
LEMMA OneContainerBefore ==
  ASSUME Places, NEW t \in Turns, turn' \in [Turns -> TurnState],
         \A u \in Turns : u # t => turn'[u] = turn[u],
         turn'[t].runtime = turn[t].runtime \/ turn[t].runtime = "none",
         OneContainer'
  PROVE  OneContainer
BY TurnsAssumption DEF Places, OneContainer, TurnState

LEMMA QuietStep ==
  ASSUME TurnInv, NEW t \in Turns, ~Recording(t), NEW new, Fits(new),
         new.runtime = turn[t].runtime \/ turn[t].runtime = "none",
         turn' = [turn EXCEPT ![t] = new],
         UNCHANGED <<spend, month, incurred, registryCopy, costsLost>>
  PROVE  TurnInv'
<1>1. /\ Places'
      /\ ~Recording(t)'
      /\ \A u \in Turns : u # t => turn'[u] = turn[u]
  BY PlacesKept DEF TurnInv
<1>2. \A u \in Turns : Recording(u)' <=> Recording(u)
  BY <1>1 DEF Recording
<1>3. \A p : Owed(p)' = Owed(p)
  BY <1>1, <1>2, OwedSame
<1>4. SpendTypes'
  BY DEF TurnInv, SpendTypes
<1>5. LoopHeld'
  BY <1>1, <1>2 DEF TurnInv, LoopHeld
<1>6. Room'
  BY <1>3 DEF TurnInv, Room, RoomIn
<1>7. UpToNow'
  BY <1>1, <1>2 DEF TurnInv, UpToNow
<1>8. Exact'
  <2>1. OneContainer' => OneContainer
    BY <1>1, OneContainerBefore DEF TurnInv, Places, Fits
  <2>2. Settled <=> Settled'
    BY DEF Settled
  <2>3. \A u \in Turns : Recording(u) /\ Missing(u) => Missing(u)'
    BY <1>1, <1>2 DEF Missing
  <2> QED BY <1>1, <1>2, <2>1, <2>2, <2>3 DEF TurnInv, Exact
<1> QED BY <1>1, <1>4, <1>5, <1>6, <1>7, <1>8 DEF TurnInv

LEMMA TurnEndsKeeps ==
  ASSUME TurnInv, NEW t \in Turns, ~Recording(t), TurnEnds(t),
         UNCHANGED <<spend, month, incurred, registryCopy, costsLost>>
  PROVE  TurnInv'
<1> DEFINE new == [IdleTurn EXCEPT !.at = "done", !.runtime = turn[t].runtime]
<1>0. [IdleTurn EXCEPT !.at = "done"] \in TurnState
  BY DEF IdleTurn, TurnState, TurnPlaces
<1>1. Fits(new) /\ new.runtime = turn[t].runtime
  BY <1>0 DEF TurnInv, Places, Fits, TurnState, TurnPlaces
<1>2. turn' = [turn EXCEPT ![t] = new]
  BY DEF TurnEnds
<1> HIDE DEF new
<1> QED BY <1>1, <1>2, QuietStep

\* To a place where the turn still runs and does not record.
LEMMA TurnGoesKeeps ==
  ASSUME TurnInv, NEW t \in Turns, ~Recording(t), turn[t].at \notin {"idle", "done"},
         NEW place \in {"model", "tools", "output"},
         place = "model" => turn[t].calls \in 0 .. 1,
         TurnGoes(t, place), UNCHANGED <<spend, month, incurred, registryCopy, costsLost>>
  PROVE  TurnInv'
<1> DEFINE new == [turn[t] EXCEPT !.at = place]
<1>1. Fits(new) /\ new.runtime = turn[t].runtime
  BY DEF TurnInv, Places, Fits, TurnState, TurnPlaces
<1>2. turn' = [turn EXCEPT ![t] = new]
  BY DEF TurnGoes, TurnInv, Places
<1> HIDE DEF new
<1> QED BY <1>1, <1>2, QuietStep

LEMMA ReadRecordKeeps ==
  ASSUME TurnInv, NEW t \in Turns, NEW c \in Runtimes, ReadRecord(t, c)
  PROVE  TurnInv'
<1> USE DEF ReadRecord
<1>1. ~Recording(t) /\ turn[t].runtime = "none"
  BY DEF TurnInv, Places, Recording
<1>2. CASE spend.kind # "absent"
  <2> DEFINE new == [IdleTurn EXCEPT !.at = "gate", !.runtime = c, !.saw = spend]
  <2>0. IdleTurn \in TurnState /\ IdleTurn.calls = 0
    BY DEF IdleTurn, TurnState, TurnPlaces
  <2>1. Fits(new)
    BY <2>0 DEF TurnInv, SpendTypes, Fits, TurnState, TurnPlaces
  <2>2. turn' = [turn EXCEPT ![t] = new]
    BY <1>2
  <2> HIDE DEF new
  <2> QED BY <1>1, <2>1, <2>2, QuietStep
<1>3. CASE spend.kind = "absent"
  <2> DEFINE new == [IdleTurn EXCEPT !.at = "done"]
  <2>1. Fits(new)
    BY DEF Fits, TurnState, TurnPlaces, IdleTurn, NoCopy
  <2>2. turn' = [turn EXCEPT ![t] = new]
    BY <1>3
  <2> HIDE DEF new
  <2> QED BY <1>1, <2>1, <2>2, QuietStep
<1> QED BY <1>2, <1>3

LEMMA PassGateKeeps ==
  ASSUME TurnInv, NEW t \in Turns, PassGate(t)
  PROVE  TurnInv'
<1> USE DEF PassGate
<1>1. turn[t].at = "gate" /\ ~Recording(t)
  BY DEF Runs, Recording
<1>2. CASE TurnEnds(t)
  BY <1>1, <1>2, TurnEndsKeeps
<1>3. CASE turn' = [turn EXCEPT ![t].at = "input", ![t].saw = NoCopy]
  <2> DEFINE new == [turn[t] EXCEPT !.at = "input", !.saw = NoCopy]
  <2>1. Fits(new) /\ new.runtime = turn[t].runtime
    BY <1>1 DEF TurnInv, Places, Fits, TurnState, TurnPlaces, NoCopy
  <2>2. turn' = [turn EXCEPT ![t] = new]
    BY <1>3 DEF TurnInv, Places
  <2> HIDE DEF new
  <2> QED BY <1>1, <2>1, <2>2, QuietStep
<1> QED BY <1>2, <1>3

LEMMA CheckInputKeeps ==
  ASSUME TurnInv, NEW t \in Turns, CheckInput(t)
  PROVE  TurnInv'
<1>1. turn[t].at = "input" /\ ~Recording(t) /\ turn[t].calls = 0
  BY DEF CheckInput, Runs, Recording, TurnInv, Places
<1> QED BY <1>1, TurnEndsKeeps, TurnGoesKeeps DEF CheckInput

LEMMA CheckOutputKeeps ==
  ASSUME TurnInv, NEW t \in Turns, CheckOutput(t)
  PROVE  TurnInv'
<1>1. turn[t].at = "output" /\ ~Recording(t)
  BY DEF CheckOutput, Runs, Recording
<1> QED BY <1>1, TurnEndsKeeps DEF CheckOutput

LEMMA RunToolsKeeps ==
  ASSUME TurnInv, NEW t \in Turns, RunTools(t)
  PROVE  TurnInv'
<1>1. turn[t].at = "tools" /\ ~Recording(t)
  BY DEF RunTools, Runs, Recording
<1> QED BY <1>1, TurnEndsKeeps, TurnGoesKeeps DEF RunTools

-----------------------------------------------------------------------------
(* The model's answer, and the two updates that record its cost *)

\* record_llm_cost comes to its end, whether an update failed or not.
LEMMA RecordedPlaces ==
  ASSUME TurnInv, NEW t \in Turns, Recording(t), Recorded(t)
  PROVE  /\ Places' /\ LoopHeld'
         /\ ~Recording(t)'
         /\ \A u \in Turns : u # t => turn'[u] = turn[u] /\ (Recording(u)' <=> Recording(u))
         /\ OneContainer' => OneContainer
<1> DEFINE new == [turn[t] EXCEPT !.at = "tools", !.period = 0]
<1>1. turn' = [turn EXCEPT ![t] = new]
  BY DEF Recorded, TurnInv, Places
<1>2. Fits(new) /\ new.runtime = turn[t].runtime
  BY DEF TurnInv, Places, Fits, TurnState, TurnPlaces, Recording
<1>3. /\ Places' /\ ~Recording(t)'
      /\ \A u \in Turns : u # t => turn'[u] = turn[u]
  <2> HIDE DEF new
  <2> QED BY <1>1, <1>2, PlacesKept DEF TurnInv
<1>4. LoopHeld'
  BY <1>3 DEF TurnInv, LoopHeld, Recording
<1>5. OneContainer' => OneContainer
  <2>1. turn'[t].runtime = turn[t].runtime
    BY <1>1, <1>2 DEF TurnInv, Places
  <2> HIDE DEF new
  <2> QED BY <1>3, <2>1, OneContainerBefore DEF TurnInv, Places
<1> QED BY <1>3, <1>4, <1>5 DEF Recording

\* What is owed afterwards.
LEMMA OwedAfter ==
  ASSUME TurnInv, NEW t \in Turns, Recording(t), Recorded(t)
  PROVE  /\ \A q \in Months : Owed(q)' \in Nat /\ Owed(q) \in Nat /\ Owed(q)' <= Owed(q)
         /\ \A q \in Months : q = turn[t].period => Owed(q)' = Owed(q) - 1
<1>1. ~Recording(t)' /\ \A u \in Turns : u # t => turn'[u] = turn[u]
  BY RecordedPlaces
<1>2. /\ \A q : q = turn[t].period => Owed(q)' = Owed(q) - 1
      /\ \A q : q # turn[t].period => Owed(q)' = Owed(q)
      /\ Owed(turn[t].period) \in Nat \ {0}
  BY <1>1, OwedShrinks DEF Recording
<1>3. ASSUME NEW q \in Months PROVE Owed(q)' \in Nat /\ Owed(q) \in Nat /\ Owed(q)' <= Owed(q)
  <2>1. CASE q = turn[t].period
    BY <2>1, <1>2
  <2>2. CASE q # turn[t].period
    BY <2>2, <1>2, OwedType
  <2> QED BY <2>1, <2>2
<1> QED BY <1>2, <1>3

\* The room is kept by totals that stay.
LEMMA RoomKept ==
  ASSUME TurnInv, NEW t \in Turns, Recording(t), Recorded(t), UNCHANGED incurred,
         NEW s \in Spend, RoomIn(s)
  PROVE  /\ \A p \in Months : Owed(p)' <= incurred'[p]
         /\ s.period # 0 => s.usd + Owed(s.period)' <= incurred'[s.period]
<1>1. \A q \in Months : /\ Owed(q)' \in Nat /\ Owed(q) \in Nat /\ Owed(q)' <= Owed(q)
                        /\ incurred'[q] \in Nat /\ incurred'[q] = incurred[q]
  BY OwedAfter DEF TurnInv, SpendTypes
<1>2. \A p \in Months : Owed(p)' <= incurred'[p]
  BY <1>1 DEF TurnInv, Room
<1>3. s.usd \in Nat /\ s.period \in {0} \cup Months
  BY DEF Spend
<1>4. CASE s.period # 0
  <2>1. s.period \in Months /\ s.usd + Owed(s.period) <= incurred[s.period]
    BY <1>3, <1>4 DEF RoomIn
  <2> QED BY <1>1, <1>2, <1>3, <2>1
<1> QED BY <1>2, <1>4

\* The only turn that records, where one container serves them all.
LEMMA OnlyRecording ==
  ASSUME TurnInv, OneContainer, NEW t \in Turns, Recording(t)
  PROVE  \A u \in Turns : Recording(u) => u = t
<1>1. \A u \in Turns : Recording(u) => turn[u].runtime \in Runtimes
  BY DEF TurnInv, Places, Recording
<1> QED BY <1>1, TurnsAssumption DEF TurnInv, OneContainer, LoopHeld

\* An update that raised: what the item says stays, its owner is not exact.
LEMMA DroppedKeeps ==
  ASSUME TurnInv, NEW t \in Turns, Recording(t), Recorded(t), costsLost' = TRUE,
         UNCHANGED <<spend, month, incurred, registryCopy>>
  PROVE  TurnInv'
<1>1. /\ Places' /\ LoopHeld'
      /\ ~Recording(t)'
      /\ \A u \in Turns : u # t => turn'[u] = turn[u] /\ (Recording(u)' <=> Recording(u))
  BY RecordedPlaces
<1>3. SpendTypes' /\ Exact'
  BY DEF TurnInv, SpendTypes, Exact
<1>4. Room'
  <2>1. spend \in Spend /\ RoomIn(spend)
    BY DEF TurnInv, SpendTypes, Room
  <2>2. registryCopy # NoCopy => registryCopy \in Spend /\ RoomIn(registryCopy)
    BY DEF TurnInv, SpendTypes, Room
  <2>3. registryCopy # NoCopy => RoomIn(registryCopy)'
    BY <2>2, RoomKept DEF RoomIn
  <2> QED BY <2>1, <2>3, RoomKept DEF Room, RoomIn
<1>5. UpToNow'
  BY <1>1 DEF TurnInv, UpToNow
<1> QED BY <1>1, <1>3, <1>4, <1>5 DEF TurnInv

\* The ADD: the turn's cost moves from what is owed to the item.
LEMMA AddedKeeps ==
  ASSUME TurnInv, NEW t \in Turns, Recording(t), turn[t].at = "cost", Recorded(t),
         spend.period = turn[t].period, spend' = [spend EXCEPT !.usd = @ + 1],
         UNCHANGED <<month, incurred, registryCopy, costsLost>>
  PROVE  TurnInv'
<1>1. /\ Places' /\ LoopHeld'
      /\ ~Recording(t)'
      /\ \A u \in Turns : u # t => turn'[u] = turn[u] /\ (Recording(u)' <=> Recording(u))
      /\ OneContainer' => OneContainer
  BY RecordedPlaces
<1>2. /\ spend' \in Spend
      /\ spend'.period = spend.period
      /\ spend'.usd = spend.usd + 1
  BY DEF TurnInv, SpendTypes, Spend
<1>3. spend.period \in Months
  BY DEF TurnInv, Places, TurnState
<1>4. SpendTypes'
  BY <1>2 DEF TurnInv, SpendTypes
<1>5. Room'
  <2>1. spend \in Spend /\ RoomIn(spend)
    BY DEF TurnInv, SpendTypes, Room
  <2>2. registryCopy # NoCopy => registryCopy \in Spend /\ RoomIn(registryCopy)
    BY DEF TurnInv, SpendTypes, Room
  <2>3. registryCopy # NoCopy => RoomIn(registryCopy)'
    BY <2>2, RoomKept DEF RoomIn
  <2>4. /\ Owed(spend.period)' = Owed(spend.period) - 1
        /\ Owed(spend.period) \in Nat /\ incurred[spend.period] \in Nat /\ spend.usd \in Nat
    BY <1>3, <2>1, OwedAfter DEF TurnInv, SpendTypes, Spend
  <2>5. spend.usd + Owed(spend.period) <= incurred[spend.period]
    BY <1>3, <2>1, MonthsAssumption DEF RoomIn, Months
  <2>6. spend.usd + 1 + Owed(spend.period)' <= incurred[spend.period]
    BY <2>4, <2>5
  <2>7. RoomIn(spend)'
    BY <1>2, <2>6 DEF RoomIn
  <2> QED BY <2>1, <2>3, <2>7, RoomKept DEF Room
<1>6. UpToNow'
  BY <1>1, <1>2 DEF TurnInv, UpToNow
<1>7. Exact'
  <2> SUFFICES ASSUME ~costsLost, OneContainer PROVE Settled' /\ \A u \in Turns : ~Recording(u)'
    BY <1>1 DEF Exact
  <2>1. \A u \in Turns : ~Recording(u)'
    BY <1>1, OnlyRecording
  <2>2. Missing(t)
    BY DEF TurnInv, Exact
  <2>3. Settled'
    BY <1>2, <2>2 DEF Settled, Missing, TurnInv, SpendTypes, Spend
  <2> QED BY <2>1, <2>3
<1> QED BY <1>1, <1>4, <1>5, <1>6, <1>7 DEF TurnInv

\* The SET: the period of the item becomes the turn's, with this cost alone.
LEMMA ResetKeeps ==
  ASSUME TurnInv, NEW t \in Turns, Recording(t), turn[t].at = "reset", Recorded(t),
         NEW kind \in {"item", "stub"},
         spend' = [kind |-> kind, period |-> turn[t].period, usd |-> 1],
         UNCHANGED <<month, incurred, registryCopy, costsLost>>
  PROVE  TurnInv'
<1>2. PICK p \in Months : p = turn[t].period
  BY DEF TurnInv, Places, TurnState
<1>1. /\ Places' /\ LoopHeld'
      /\ ~Recording(t)'
      /\ \A u \in Turns : u # t => turn'[u] = turn[u] /\ (Recording(u)' <=> Recording(u))
      /\ OneContainer' => OneContainer
  BY RecordedPlaces
<1>3. spend' \in Spend /\ spend'.period = p /\ spend'.usd = 1
  BY <1>2 DEF Spend
<1>5. SpendTypes'
  BY <1>3 DEF TurnInv, SpendTypes
<1>6. Room'
  <2>1. spend \in Spend /\ RoomIn(spend)
    BY DEF TurnInv, SpendTypes, Room
  <2>2. registryCopy # NoCopy => registryCopy \in Spend /\ RoomIn(registryCopy)
    BY DEF TurnInv, SpendTypes, Room
  <2>3. registryCopy # NoCopy => RoomIn(registryCopy)'
    BY <2>2, RoomKept DEF RoomIn
  <2>4. Owed(p)' = Owed(p) - 1 /\ Owed(p) \in Nat /\ incurred[p] \in Nat
    BY <1>2, OwedAfter DEF TurnInv, SpendTypes
  <2>5. Owed(p) <= incurred[p]
    BY <1>2 DEF TurnInv, Room
  <2>6. 1 + Owed(p)' <= incurred[p]
    BY <2>4, <2>5
  <2>8. RoomIn(spend)'
    BY <1>3, <2>6 DEF RoomIn
  <2> QED BY <2>1, <2>3, <2>8, RoomKept DEF Room
<1>7. UpToNow'
  BY <1>1, <1>2, <1>3 DEF TurnInv, UpToNow
<1>8. Exact'
  <2> SUFFICES ASSUME ~costsLost, OneContainer PROVE Settled' /\ \A u \in Turns : ~Recording(u)'
    BY <1>1 DEF Exact
  <2>1. \A u \in Turns : ~Recording(u)'
    BY <1>1, OnlyRecording
  <2>2. Missing(t)
    BY DEF TurnInv, Exact
  <2>3. Settled'
    BY <1>2, <1>3, <2>2 DEF Settled, Missing
  <2> QED BY <2>1, <2>3
<1> QED BY <1>1, <1>5, <1>6, <1>7, <1>8 DEF TurnInv

LEMMA ToResetKeeps ==
  ASSUME TurnInv, NEW t \in Turns, turn[t].at = "cost", spend.period # turn[t].period,
         TurnGoes(t, "reset"), UNCHANGED <<spend, month, incurred, registryCopy, costsLost>>
  PROVE  TurnInv'
<1>1. turn' = [turn EXCEPT ![t] = [turn[t] EXCEPT !.at = "reset"]]
  BY DEF TurnGoes, TurnInv, Places
<1>2. /\ turn' \in [Turns -> TurnState] /\ turn'[t].at = "reset"
      /\ turn'[t].runtime = turn[t].runtime /\ turn'[t].period = turn[t].period
      /\ \A u \in Turns : u # t => turn'[u] = turn[u]
  BY <1>1 DEF TurnInv, Places, TurnState, TurnPlaces
<1>3. \A u \in Turns : Recording(u)' <=> Recording(u)
  BY <1>2 DEF Recording
<1>4. \A p : Owed(p)' = Owed(p)
  BY <1>2, <1>3, OwedSame
<1>5. Places'
  BY <1>2, <1>3 DEF TurnInv, Places, Recording
<1>6. SpendTypes' /\ LoopHeld'
  BY <1>2, <1>3 DEF TurnInv, SpendTypes, LoopHeld
<1>7. Room' /\ UpToNow'
  BY <1>2, <1>3, <1>4 DEF TurnInv, Room, RoomIn, UpToNow
<1>8. Exact'
  <2>1. OneContainer' => OneContainer
    BY <1>2, OneContainerBefore DEF TurnInv
  <2>2. Settled <=> Settled'
    BY DEF Settled
  <2>3. \A u \in Turns : Recording(u) /\ Missing(u) => Missing(u)'
    BY <1>2 DEF Missing
  <2> QED BY <1>3, <2>1, <2>2, <2>3 DEF TurnInv, Exact
<1> QED BY <1>5, <1>6, <1>7, <1>8 DEF TurnInv

LEMMA AddCostKeeps ==
  ASSUME TurnInv, NEW t \in Turns, AddCost(t)
  PROVE  TurnInv'
<1>1. turn[t].at = "cost" /\ Recording(t)
  BY DEF AddCost, Runs, Recording
<1> QED BY <1>1, DroppedKeeps, AddedKeeps, ToResetKeeps DEF AddCost

LEMMA ResetCostKeeps ==
  ASSUME TurnInv, NEW t \in Turns, ResetCost(t)
  PROVE  TurnInv'
<1>1. turn[t].at = "reset" /\ Recording(t)
  BY DEF ResetCost, Runs, Recording
<1>2. (IF spend.kind = "absent" THEN "stub" ELSE spend.kind) \in {"item", "stub"}
  BY DEF TurnInv, SpendTypes, Spend
<1> QED BY <1>1, <1>2, DroppedKeeps, ResetKeeps DEF ResetCost

\* An answer whose cost is known: it is owed from now on.
LEMMA OwesKeeps ==
  ASSUME TurnInv, NEW t \in Turns, Runs(t, "model"),
         turn' = [turn EXCEPT ![t].at = "cost", ![t].calls = @ + 1, ![t].period = month],
         incurred' = [incurred EXCEPT ![month] = @ + 1],
         UNCHANGED <<spend, month, registryCopy, costsLost>>
  PROVE  TurnInv'
<1>0. turn[t].at = "model" /\ ~Recording(t) /\ turn[t].calls \in 0 .. 1
        /\ turn[t].runtime \in Runtimes
  BY DEF Runs, Recording, TurnInv, Places
<1>1. month \in Months /\ month \in Nat \ {0} /\ Months \subseteq Nat
  BY MonthsAssumption DEF TurnInv, SpendTypes, Months
<1>2. /\ turn' \in [Turns -> TurnState]
      /\ turn'[t].at = "cost" /\ turn'[t].period = month
      /\ turn'[t].runtime = turn[t].runtime
      /\ \A u \in Turns : u # t => turn'[u] = turn[u]
  <2> DEFINE new == [turn[t] EXCEPT !.at = "cost", !.calls = turn[t].calls + 1,
                                    !.period = month]
  <2>1. turn' = [turn EXCEPT ![t] = new]
    BY DEF TurnInv, Places
  <2>2. turn[t] \in TurnState /\ turn[t].calls + 1 \in 0 .. 2
    BY <1>0 DEF TurnInv, Places
  <2>3. /\ new \in TurnState /\ new.at = "cost" /\ new.period = month
        /\ new.runtime = turn[t].runtime
    BY <1>1, <2>2 DEF TurnState, TurnPlaces
  <2> HIDE DEF new
  <2> QED BY <2>1, <2>3 DEF TurnInv, Places
<1>3. \A u \in Turns : u # t => (Recording(u)' <=> Recording(u))
  BY <1>2 DEF Recording
<1>4. SpendTypes'
  BY DEF TurnInv, SpendTypes
<1>5. Places'
  BY <1>0, <1>1, <1>2, <1>3 DEF TurnInv, Places, Recording
<1>6. LoopHeld'
  <2>1. \A u \in Turns : turn[u].runtime = turn[t].runtime => ~Recording(u)
    BY <1>0 DEF Runs, LoopFree
  <2> QED BY <1>2, <1>3, <2>1 DEF TurnInv, LoopHeld
<1>7. Room'
  <2>0. PICK now \in Months : now = month
    BY <1>1
  <2>1. /\ Owed(now)' = Owed(now) + 1
        /\ \A q : q # now => Owed(q)' = Owed(q)
    BY <1>0, <1>2, <2>0, OwedGrows DEF Recording
  <2>2. \A q \in Months : /\ Owed(q) \in Nat /\ incurred[q] \in Nat
                          /\ Owed(q)' = IF q = now THEN Owed(q) + 1 ELSE Owed(q)
                          /\ incurred'[q] = IF q = now THEN incurred[q] + 1 ELSE incurred[q]
    BY <2>0, <2>1, OwedType DEF TurnInv, SpendTypes
  <2>3. \A p \in Months : Owed(p)' <= incurred'[p]
    BY <2>2 DEF TurnInv, Room
  <2>4. ASSUME NEW s \in Spend, RoomIn(s), s.period # 0
        PROVE  s.usd + Owed(s.period)' <= incurred'[s.period]
    <3>1. s.period \in Months /\ s.usd \in Nat
      BY <2>4 DEF Spend
    <3>2. s.usd + Owed(s.period) <= incurred[s.period]
      BY <2>4 DEF RoomIn
    <3> QED BY <2>2, <3>1, <3>2
  <2>5. RoomIn(spend)'
    <3>1. spend \in Spend /\ RoomIn(spend)
      BY DEF TurnInv, SpendTypes, Room
    <3>2. PICK s \in Spend : s = spend
      BY <3>1
    <3> QED BY <2>4, <3>1, <3>2 DEF RoomIn
  <2>6. registryCopy # NoCopy => RoomIn(registryCopy)'
    <3>1. registryCopy # NoCopy => registryCopy \in Spend /\ RoomIn(registryCopy)
      BY DEF TurnInv, SpendTypes, Room
    <3>2. ASSUME registryCopy # NoCopy PROVE RoomIn(registryCopy)'
      <4>1. PICK s \in Spend : s = registryCopy
        BY <3>1, <3>2
      <4> QED BY <2>4, <3>1, <3>2, <4>1 DEF RoomIn
    <3> QED BY <3>2
  <2> QED BY <2>3, <2>5, <2>6 DEF Room
<1>8. UpToNow'
  BY <1>1, <1>2, <1>3 DEF TurnInv, SpendTypes, UpToNow
<1>9. Exact'
  <2>1. OneContainer' => OneContainer
    BY <1>2, OneContainerBefore DEF TurnInv
  <2> SUFFICES ASSUME ~costsLost, OneContainer PROVE Exact'
    BY <2>1 DEF Exact
  <2>2. \A u \in Turns : ~Recording(u)
    <3>1. \A u \in Turns : Recording(u) => turn[u].runtime \in Runtimes
      BY DEF TurnInv, Places, Recording
    <3> QED BY <1>0, <3>1, TurnsAssumption DEF Runs, LoopFree, OneContainer
  <2>3. Settled
    BY <2>2 DEF TurnInv, Exact
  <2>4. Missing(t)'
    <3>1. /\ spend.period \in Nat /\ spend.period <= month /\ spend.usd \in Nat
          /\ \A q \in Months : incurred[q] \in Nat /\ q \in Nat
      BY <1>1 DEF TurnInv, SpendTypes, Spend, UpToNow
    <3>2. \A q \in Months : incurred[q] > 0 => q <= month
      BY DEF TurnInv, UpToNow
    <3>3. \A q \in Months : incurred'[q] = IF q = month THEN incurred[q] + 1 ELSE incurred[q]
      BY <1>1 DEF TurnInv, SpendTypes
    <3>4. \A q \in Months : incurred'[q] > 0 => q <= month
      BY <1>1, <3>1, <3>2, <3>3
    <3>5. spend.period = month => spend.usd + 1 = incurred'[month]
      BY <1>1, <2>3, <3>3 DEF Settled
    <3>6. spend.period # month => incurred'[month] = 1
      BY <1>1, <2>3, <3>1, <3>3 DEF Settled
    <3> QED BY <1>2, <3>1, <3>4, <3>5, <3>6 DEF Missing
  <2>5. Recording(t)' /\ \A u \in Turns : Recording(u)' => u = t
    BY <1>2, <1>3, <2>2 DEF Recording
  <2> QED BY <2>4, <2>5 DEF Exact
<1> QED BY <1>4, <1>5, <1>6, <1>7, <1>8, <1>9 DEF TurnInv

LEMMA CallModelKeeps ==
  ASSUME TurnInv, NEW t \in Turns, CallModel(t)
  PROVE  TurnInv'
<1> USE DEF CallModel
<1>1. turn[t].at = "model" /\ ~Recording(t) /\ turn[t].calls \in 0 .. 1
  BY DEF Runs, Recording, TurnInv, Places
<1>2. CASE TurnEnds(t) /\ UNCHANGED incurred
  BY <1>1, <1>2, TurnEndsKeeps
<1>3. CASE /\ turn' = [turn EXCEPT ![t].at = "tools", ![t].calls = @ + 1]
           /\ UNCHANGED incurred
  <2> DEFINE new == [turn[t] EXCEPT !.at = "tools", !.calls = turn[t].calls + 1]
  <2>0. turn[t] \in TurnState /\ turn[t].calls + 1 \in 0 .. 2 /\ turn[t].runtime \in Runtimes
    BY <1>1 DEF TurnInv, Places
  <2>1. Fits(new) /\ new.runtime = turn[t].runtime
    BY <2>0 DEF Fits, TurnState, TurnPlaces
  <2>2. turn' = [turn EXCEPT ![t] = new]
    BY <1>3 DEF TurnInv, Places
  <2> HIDE DEF new
  <2> QED BY <1>1, <1>3, <2>1, <2>2, QuietStep
<1>4. CASE /\ turn' = [turn EXCEPT ![t].at = "cost", ![t].calls = @ + 1, ![t].period = month]
           /\ incurred' = [incurred EXCEPT ![month] = @ + 1]
  BY <1>4, OwesKeeps
<1> QED BY <1>2, <1>3, <1>4

-----------------------------------------------------------------------------
(* The control plane and the clock *)

\* A step that moves no turn and adds no cost.
LEMMA TurnsStill ==
  ASSUME TurnInv, UNCHANGED <<turn, incurred>>
  PROVE  /\ Places' /\ LoopHeld'
         /\ \A p : Owed(p)' = Owed(p)
         /\ \A u \in Turns : Recording(u)' <=> Recording(u)
         /\ OneContainer' <=> OneContainer
<1>1. \A u \in Turns : Recording(u)' <=> Recording(u)
  BY DEF Recording
<1>2. \A p : Owed(p)' = Owed(p)
  BY <1>1, OwedSame
<1>3. Places' /\ LoopHeld'
  BY <1>1 DEF TurnInv, Places, LoopHeld
<1> QED BY <1>1, <1>2, <1>3 DEF OneContainer

LEMMA ReadForUpdateKeeps ==
  ASSUME TurnInv, ReadForUpdate
  PROVE  TurnInv'
<1> USE DEF ReadForUpdate
<1>1. SpendTypes' /\ Room' /\ UpToNow'
  BY TurnsStill DEF TurnInv, SpendTypes, Room, RoomIn, UpToNow
<1>2. Exact'
  BY TurnsStill DEF TurnInv, Exact, Settled, Missing
<1> QED BY <1>1, <1>2, TurnsStill DEF TurnInv

LEMMA PutBackKeeps ==
  ASSUME TurnInv, PutBack
  PROVE  TurnInv'
<1> USE DEF PutBack
<1>1. SpendTypes' /\ Room' /\ UpToNow' /\ Exact'
  BY TurnsStill DEF TurnInv, SpendTypes, Room, RoomIn, UpToNow, Exact
<1> QED BY <1>1, TurnsStill DEF TurnInv

LEMMA DeleteSpendItemKeeps ==
  ASSUME TurnInv, DeleteSpendItem
  PROVE  TurnInv'
<1> USE DEF DeleteSpendItem
<1>1. Absent \in Spend /\ Absent.period = 0
  BY DEF Absent, Spend
<1>2. month \in Nat
  BY MonthsAssumption DEF TurnInv, SpendTypes, Months
<1>3. SpendTypes' /\ Room' /\ UpToNow' /\ Exact'
  BY <1>1, <1>2, TurnsStill DEF TurnInv, SpendTypes, Room, RoomIn, UpToNow, Exact
<1> QED BY <1>3, TurnsStill DEF TurnInv

LEMMA MonthPassesKeeps ==
  ASSUME TurnInv, MonthPasses
  PROVE  TurnInv'
<1> USE DEF MonthPasses
<1>1. month \in Nat /\ month' = month + 1 /\ month' \in Months /\ Months \subseteq Nat
  BY MonthsAssumption DEF TurnInv, SpendTypes, Months
<1>2. SpendTypes' /\ Room'
  BY <1>1, TurnsStill DEF TurnInv, SpendTypes, Room, RoomIn
<1>3. UpToNow'
  <2>0. /\ \A t \in Turns : turn[t].period \in {0} \cup Months
        /\ spend.period \in {0} \cup Months
        /\ registryCopy # NoCopy => registryCopy.period \in {0} \cup Months
    BY DEF TurnInv, Places, TurnState, SpendTypes, Spend
  <2>1. \A t \in Turns : turn[t].period \in Nat
    BY <1>1, <2>0
  <2>2. spend.period \in Nat /\ (registryCopy # NoCopy => registryCopy.period \in Nat)
    <3>1. \A p \in {0} \cup Months : p \in Nat
      BY <1>1
    <3> HIDE DEF MonthPasses
    <3> QED BY <2>0, <3>1
  <2> QED BY <1>1, <2>1, <2>2, TurnsStill DEF TurnInv, UpToNow
<1>4. Exact'
  BY TurnsStill DEF TurnInv, Exact, Settled, Missing
<1> QED BY <1>2, <1>3, <1>4, TurnsStill DEF TurnInv

LEMMA TurnNextKeeps == TurnInv /\ [TurnNext]_turnVars => TurnInv'
<1> SUFFICES ASSUME TurnInv, [TurnNext]_turnVars PROVE TurnInv'
  OBVIOUS
<1>1. ASSUME NEW t \in Turns, TurnStep(t) PROVE TurnInv'
  BY <1>1, ReadRecordKeeps, PassGateKeeps, CheckInputKeeps, CallModelKeeps, AddCostKeeps,
     ResetCostKeeps, RunToolsKeeps, CheckOutputKeeps DEF TurnStep
<1>2. CASE ReadForUpdate \/ PutBack \/ DeleteSpendItem \/ MonthPasses
  BY <1>2, ReadForUpdateKeeps, PutBackKeeps, DeleteSpendItemKeeps, MonthPassesKeeps
<1>3. CASE UNCHANGED turnVars
  <2> USE <1>3 DEF turnVars
  <2>1. SpendTypes' /\ Room' /\ UpToNow' /\ Exact'
    BY TurnsStill DEF TurnInv, SpendTypes, Room, RoomIn, UpToNow, Exact, Settled, Missing
  <2> QED BY <2>1, TurnsStill DEF TurnInv
<1> QED BY <1>1, <1>2, <1>3 DEF TurnNext

LEMMA RoomForSpend == TurnInv => SpendAccounted
<1> SUFFICES ASSUME TurnInv PROVE SpendAccounted
  OBVIOUS
<1>1. SpendNeverOvercounted
  <2> SUFFICES ASSUME spend.period # 0 PROVE spend.usd <= incurred[spend.period]
    BY DEF SpendNeverOvercounted
  <2>1. /\ spend.usd \in Nat /\ Owed(spend.period) \in Nat
        /\ incurred[spend.period] \in Nat
    BY OwedType DEF TurnInv, SpendTypes, Spend
  <2>2. spend.usd + Owed(spend.period) <= incurred[spend.period]
    BY DEF TurnInv, Room, RoomIn
  <2> QED BY <2>1, <2>2
<1>2. ExactInOneContainer
  BY DEF TurnInv, Exact, Settled, OneContainer, ExactInOneContainer
<1> QED BY <1>1, <1>2 DEF SpendAccounted

\* Whatever containers race, months pass and registry updates put back a stale
\* copy, the spend total of the agent never exceeds the calls of the model; and
\* one container that nothing disturbs keeps it exact.
THEOREM SpendIsAccounted == TurnSpec => []SpendAccounted
BY TurnInitially, TurnNextKeeps, RoomForSpend, PTL DEF TurnSpec

\* The item, the copy and the turns keep their types: no turn calls the model
\* more than twice.
THEOREM TurnTypeCorrect == TurnSpec => []TurnTypeOK
<1>1. TurnInv => TurnTypeOK
  BY DEF TurnInv, SpendTypes, Places, TurnState, TurnTypeOK
<1> QED BY <1>1, TurnInitially, TurnNextKeeps, PTL DEF TurnSpec

-----------------------------------------------------------------------------
(***************************************************************************)
(* AgentContainer: after a rollout that ended active, the container        *)
(* restarts on the definition that is live, and its hash matches. The      *)
(* invariant says what the one rollout under way has applied.              *)
(***************************************************************************)

\* Versions are numbered as they are saved.
SavedInOrder == \E n \in 1 .. MaxSaved : Saved = 1 .. n

\* With deployments one at a time, one is under way at most, and what it has
\* applied is the definition; the version live after an active one is that definition.
OneRollout ==
    ~deploysOverlap =>
        /\ \A v, w \in DOMAIN rollout : v = w
        /\ \A v \in DOMAIN rollout : rollout[v] # "approved" => definition = v
        /\ lastActive /\ (\A v \in DOMAIN rollout : rollout[v] = "approved")
           => live = definition /\ live # 0

ContainerInv == ContainerTypeOK /\ SavedInOrder /\ OneRollout

LEMMA SavedCount ==
  ASSUME SavedInOrder
  PROVE  CurrentVersion \in 1 .. MaxSaved /\ Saved = 1 .. CurrentVersion
<1>1. PICK n \in 1 .. MaxSaved : Saved = 1 .. n
  BY DEF SavedInOrder
<1>2. MaxSaved \in Int
  BY ContainerAssumption
<1>3. Cardinality(1 .. n) = n
  BY <1>1, <1>2, FS_Interval
<1> QED BY <1>1, <1>3 DEF CurrentVersion

LEMMA ContainerInitially == ContainerInit => ContainerInv
<1> SUFFICES ASSUME ContainerInit PROVE ContainerInv
  OBVIOUS
<1>1. Saved = {1} /\ saved[1] \in Configurations
  BY DEF ContainerInit, Saved
<1>2. 1 \in 1 .. MaxSaved /\ {1} = 1 .. 1
  BY ContainerAssumption
<1>3. SavedInOrder
  BY <1>1, <1>2 DEF SavedInOrder
<1>4. ContainerTypeOK
  BY <1>1, <1>2 DEF ContainerTypeOK, ContainerInit, Stopped
<1> QED BY <1>3, <1>4 DEF ContainerInv, OneRollout, ContainerInit

LEMMA SaveVersionKeeps ==
  ASSUME ContainerInv, SaveVersion
  PROVE  ContainerInv'
<1> DEFINE n == CurrentVersion
<1>1. n \in 1 .. MaxSaved /\ Saved = 1 .. n
  BY SavedCount DEF ContainerInv
<1>2. n + 1 \in 1 .. MaxSaved /\ MaxSaved \in Int
  BY <1>1, ContainerAssumption DEF SaveVersion
<1>3. PICK configuration \in Configurations :
         saved' = [v \in Saved \cup {n + 1} |->
                      IF v \in Saved THEN saved[v] ELSE configuration]
  BY DEF SaveVersion
<1>4. Saved' = Saved \cup {n + 1}
  BY <1>3 DEF Saved
<1> HIDE DEF n
<1>5. Saved' = 1 .. (n + 1)
  BY <1>1, <1>2, <1>4
<1>6. SavedInOrder'
  BY <1>2, <1>5 DEF SavedInOrder
<1>7. \A v \in Saved' : saved'[v] \in Configurations
  BY <1>3, <1>4 DEF ContainerInv, ContainerTypeOK
<1>8. ContainerTypeOK'
  BY <1>1, <1>2, <1>4, <1>5, <1>7 DEF ContainerInv, ContainerTypeOK, SaveVersion
<1> QED BY <1>6, <1>8 DEF ContainerInv, OneRollout, SaveVersion

\* A step of a rollout leaves the versions table alone.
LEMMA RolloutTypes ==
  ASSUME ContainerTypeOK, UNCHANGED <<saved, container, deploysOverlap>>,
         live' \in {0} \cup Saved, definition' \in {0} \cup Saved, lastActive' \in BOOLEAN,
         DOMAIN rollout' \subseteq Saved, \A v \in DOMAIN rollout' : rollout'[v] \in Stages
  PROVE  ContainerTypeOK'
BY DEF ContainerTypeOK, Saved

LEMMA StartRolloutKeeps ==
  ASSUME ContainerInv, StartRollout
  PROVE  ContainerTypeOK' /\ OneRollout'
<1>1. PICK v \in Saved \ DOMAIN rollout :
         rollout' = [w \in DOMAIN rollout \cup {v} |->
                        IF w = v THEN "approved" ELSE rollout[w]]
  BY DEF StartRollout
<1>2. ContainerTypeOK'
  BY <1>1, RolloutTypes DEF StartRollout, ContainerInv, ContainerTypeOK, Stages
<1>3. OneRollout'
  <2> SUFFICES ASSUME ~deploysOverlap PROVE OneRollout'
    BY DEF OneRollout, StartRollout
  <2>1. DOMAIN rollout = {} /\ DOMAIN rollout' = {v} /\ rollout'[v] = "approved"
    BY <1>1 DEF StartRollout
  <2> QED BY <2>1 DEF OneRollout, StartRollout, ContainerInv
<1> QED BY <1>2, <1>3

LEMMA ApplyKeeps ==
  ASSUME ContainerInv, NEW v \in Saved, Apply(v)
  PROVE  ContainerTypeOK' /\ OneRollout'
<1>1. DOMAIN rollout' = DOMAIN rollout /\ rollout'[v] = "applied"
  BY DEF Apply
<1>2. ContainerTypeOK'
  BY <1>1, RolloutTypes DEF Apply, ContainerInv, ContainerTypeOK, Stages
<1> QED BY <1>1, <1>2 DEF OneRollout, Apply, ContainerInv

LEMMA PassHealthCheckKeeps ==
  ASSUME ContainerInv, NEW v \in Saved, PassHealthCheck(v)
  PROVE  ContainerTypeOK' /\ OneRollout'
<1>1. DOMAIN rollout' = DOMAIN rollout /\ rollout'[v] = "healthy"
  BY DEF PassHealthCheck
<1>2. ContainerTypeOK'
  BY <1>1, RolloutTypes DEF PassHealthCheck, ContainerInv, ContainerTypeOK, Stages
<1> QED BY <1>1, <1>2 DEF OneRollout, PassHealthCheck, ContainerInv

LEMMA MarkLiveKeeps ==
  ASSUME ContainerInv, NEW v \in Saved, MarkLive(v)
  PROVE  ContainerTypeOK' /\ OneRollout'
<1>1. /\ DOMAIN rollout' = DOMAIN rollout \ {v}
      /\ \A w \in DOMAIN rollout' : rollout'[w] = rollout[w]
  BY DEF MarkLive, Without
<1>2. ContainerTypeOK'
  BY <1>1, RolloutTypes DEF MarkLive, ContainerInv, ContainerTypeOK
<1>3. v # 0
  BY ContainerAssumption DEF ContainerInv, ContainerTypeOK
<1> QED BY <1>1, <1>2, <1>3 DEF OneRollout, MarkLive, ContainerInv

LEMMA FailRolloutKeeps ==
  ASSUME ContainerInv, NEW v \in Saved, FailRollout(v)
  PROVE  ContainerTypeOK' /\ OneRollout'
<1>1. /\ DOMAIN rollout' = DOMAIN rollout \ {v}
      /\ \A w \in DOMAIN rollout' : rollout'[w] = rollout[w]
  BY DEF FailRollout, Without
<1>2. ContainerTypeOK'
  BY <1>1, RolloutTypes DEF FailRollout, ContainerInv, ContainerTypeOK
<1> QED BY <1>1, <1>2 DEF OneRollout, FailRollout, ContainerInv

LEMMA ContainerStepKeeps ==
  ASSUME ContainerInv, NEW c \in Containers, StartContainer(c) \/ StopContainer(c)
  PROVE  ContainerTypeOK' /\ OneRollout'
<1> DEFINE Task == [state : {"stopped", "serving", "refused"},
                    pinned : {0} \cup Saved, version : {0} \cup Saved]
<1>1. UNCHANGED <<saved, live, definition, rollout, lastActive, deploysOverlap>>
  BY DEF StartContainer, StopContainer
<1>2. \A d \in Containers : container[d] \in Task
  BY DEF ContainerInv, ContainerTypeOK
<1>3. VersionToLoad \in {0} \cup Saved
  <2>1. CurrentVersion \in Saved
    BY SavedCount, ContainerAssumption DEF ContainerInv
  <2> QED BY <2>1 DEF VersionToLoad, ContainerInv, ContainerTypeOK
<1>4. PICK task \in Task : container' = [container EXCEPT ![c] = task]
  <2>1. CASE StartContainer(c)
    <3>1. [state |-> IF HashMatches(VersionToLoad, definition) THEN "serving" ELSE "refused",
           pinned |-> definition, version |-> VersionToLoad] \in Task
      BY <1>3 DEF ContainerInv, ContainerTypeOK
    <3> QED BY <2>1, <3>1 DEF StartContainer
  <2>2. CASE StopContainer(c)
    BY <2>2 DEF StopContainer, Stopped
  <2> QED BY <2>1, <2>2
<1>5. \A d \in Containers : container'[d] \in Task
  BY <1>2, <1>4
<1>6. ContainerTypeOK'
  BY <1>1, <1>5 DEF ContainerInv, ContainerTypeOK, Saved
<1> QED BY <1>1, <1>6 DEF ContainerInv, OneRollout

LEMMA ContainerNextKeeps == ContainerInv /\ [ContainerNext]_containerVars => ContainerInv'
<1> SUFFICES ASSUME ContainerInv, [ContainerNext]_containerVars PROVE ContainerInv'
  OBVIOUS
<1>1. CASE SaveVersion
  BY <1>1, SaveVersionKeeps
<1>2. CASE StartRollout
  BY <1>2, StartRolloutKeeps DEF ContainerInv, SavedInOrder, Saved, StartRollout
<1>3. ASSUME NEW v \in Saved, Apply(v) \/ PassHealthCheck(v) \/ MarkLive(v) \/ FailRollout(v)
      PROVE  ContainerInv'
  <2>1. UNCHANGED saved
    BY <1>3 DEF Apply, PassHealthCheck, MarkLive, FailRollout
  <2> QED BY <1>3, <2>1, ApplyKeeps, PassHealthCheckKeeps, MarkLiveKeeps, FailRolloutKeeps
          DEF ContainerInv, SavedInOrder, Saved
<1>4. ASSUME NEW c \in Containers, StartContainer(c) \/ StopContainer(c)
      PROVE  ContainerInv'
  <2>1. UNCHANGED saved
    BY <1>4 DEF StartContainer, StopContainer
  <2> QED BY <1>4, <2>1, ContainerStepKeeps DEF ContainerInv, SavedInOrder, Saved
<1>5. CASE UNCHANGED containerVars
  BY <1>5 DEF containerVars, ContainerInv, ContainerTypeOK, SavedInOrder, OneRollout, Saved
<1> QED BY <1>1, <1>2, <1>3, <1>4, <1>5 DEF ContainerNext

\* A container that the service starts after a deployment became active does not
\* refuse the version it loads (config_loader.py): for any configurations and any
\* number of versions, with deployments one at a time and until the next is applied.
THEOREM RestartAfterActive == ContainerSpec => []ActiveCanRestart
<1>1. ContainerInv => ActiveCanRestart
  BY DEF ContainerInv, OneRollout, ActiveCanRestart, VersionToLoad, HashMatches
<1> QED BY <1>1, ContainerInitially, ContainerNextKeeps, PTL DEF ContainerSpec

\* Containers serve, and the service applies, only versions that were saved.
THEOREM ContainerTypeCorrect == ContainerSpec => []ContainerTypeOK
<1>1. ContainerInv => ContainerTypeOK
  BY DEF ContainerInv
<1> QED BY <1>1, ContainerInitially, ContainerNextKeeps, PTL DEF ContainerSpec

-----------------------------------------------------------------------------
(***************************************************************************)
(* AgentCredentials: a key that a client was given is accepted. The        *)
(* invariant follows a key from the request that makes it up, which alone  *)
(* knows it, to the item, where it is the current or the previous one      *)
(* until revocation, grace or a second rotation.                           *)
(***************************************************************************)

\* A key is seen when it is current, a client has it or a request has read it.
Seen(k) ==
    \/ k \in handed \/ k = keyItem.current
    \/ \E r \in CredentialRequests : k = credRequest[r].saw.current

First(r) == \A q \in CredentialRequests : r <= q

Provisions == {"create", "rotate"}

Provisioning(x) == x.op \in Provisions /\ x.at \in {"read", "put"}

\* k belongs to the request and no one has seen it.
OwnKey(r, k) ==
    /\ k # NoKey /\ ~Seen(k) /\ replaced[k] = 0
    /\ \A q \in CredentialRequests \ {r} : credRequest[q].key # k

\* A request that is past its secret holds a key of its own.
FreshKeys ==
    \A r \in CredentialRequests : \A k :
        Provisioning(credRequest[r]) /\ credRequest[r].key = k => OwnKey(r, k)

KeysAreCreated ==
    /\ \A k : Seen(k) => k \in 0 .. created
    /\ \A r \in CredentialRequests : credRequest[r].key \in 0 .. created
    /\ \A k \in ApiKeys : replaced[k] # 0 => k \in 0 .. created

\* Until the first request has created the agent it has no key.
CreatedFirst ==
    \A r \in CredentialRequests :
        First(r) /\ credRequest[r].at # "done" => \A k : Seen(k) => k = NoKey

WithCurrent(item) == item.current = NoKey => item.previous = NoKey

\* What a request does at each place.
Placed(x) ==
    /\ WithCurrent(x.saw)
    /\ x.at = "put" => x.op \in {"create", "rotate", "revoke", "jwtConfig", "otherUpdate"}
    /\ x.op = "rotate" /\ x.at = "put" => x.saw.current # NoKey
    /\ x.at = "count" => x.saw.current # NoKey
    /\ x.at = "secret" => x.op \in Provisions
    /\ x.at \notin {"idle", "done"} => x.op # "none"

RequestsPlaced ==
    \A r \in CredentialRequests :
        Placed(credRequest[r]) /\ (credRequest[r].op = "create" => First(r))

\* Where no put has undone another, what was replaced once is the previous key
\* and a seen key never replaced is the current one.
KeysInOrder ==
    ~clobbered =>
        /\ \A k \in ApiKeys : replaced[k] = 1 => k = keyItem.previous
        /\ \A k \in ApiKeys : Seen(k) /\ replaced[k] = 0 => k = keyItem.current

KeysInv ==
    /\ FreshKeys /\ KeysAreCreated /\ CreatedFirst /\ KeysInOrder
    /\ WithCurrent(keyItem) /\ RequestsPlaced

CredInv == CredTypeOK /\ KeysInv

CredentialRequest ==
    [op : CredentialOps \cup {"none"}, key : ApiKeys \cup {NoKey}, saw : CredentialFields,
     at : {"idle", "secret", "read", "put", "count", "done"}]

\* A step of a request replaces its record by x.
Becomes(r, x) == x \in CredentialRequest /\ credRequest' = [credRequest EXCEPT ![r] = x]

Over == [IdleCredential EXCEPT !.at = "done"]

-----------------------------------------------------------------------------

LEMMA CredentialItems ==
  /\ NoFields \in CredentialFields
  /\ IdleCredential \in CredentialRequest
  /\ Over \in CredentialRequest
  /\ Over.op = "none" /\ Over.key = NoKey /\ Over.saw = NoFields /\ Over.at = "done"
  /\ Placed(Over) /\ Placed(IdleCredential)
BY DEF NoFields, CredentialFields, IdleCredential, CredentialRequest, Over, Placed, WithCurrent

LEMMA CredInitially == CredInit => CredInv
<1> SUFFICES ASSUME CredInit PROVE CredInv
  OBVIOUS
<1>1. CredTypeOK
  <2>1. /\ created \in 0 .. MaxKeys /\ reveals \in 0 .. RevealsPerHour + 1
        /\ replaced \in [ApiKeys -> 0 .. 2]
    BY CredAssumption DEF CredInit
  <2>2. credRequest \in [CredentialRequests -> CredentialRequest]
    BY CredentialItems DEF CredInit
  <2> QED BY <2>1, <2>2, CredentialItems DEF CredInit, CredTypeOK, CredentialRequest
<1>2. /\ keyItem = NoFields /\ created = 0 /\ handed = {} /\ ~clobbered
      /\ \A k \in ApiKeys : replaced[k] = 0
      /\ \A r \in CredentialRequests : credRequest[r] = IdleCredential
  BY DEF CredInit
<1>3. NoFields.current = NoKey /\ WithCurrent(NoFields)
  BY DEF NoFields, WithCurrent
<1>4. /\ IdleCredential.saw = NoFields /\ IdleCredential.key = NoKey
      /\ IdleCredential.op = "none" /\ IdleCredential.at = "idle"
  BY DEF IdleCredential
<1>5. \A k : Seen(k) => k = NoKey
  BY <1>2, <1>3, <1>4 DEF Seen
<1>6. FreshKeys
  BY <1>2, <1>4 DEF FreshKeys, Provisioning
<1>7. KeysAreCreated
  BY <1>2, <1>4, <1>5 DEF KeysAreCreated, NoKey
<1>8. KeysInOrder
  BY <1>2, <1>5 DEF KeysInOrder, ApiKeys, NoKey
<1>9. RequestsPlaced
  BY <1>2, <1>4, CredentialItems DEF RequestsPlaced
<1> QED BY <1>1, <1>2, <1>3, <1>5, <1>6, <1>7, <1>8, <1>9 DEF CredInv, KeysInv, CreatedFirst

\* A step that changes no key: one request goes on, with what it had or the item
\* it reads, and the client may get the key it has read.
LEMMA CredQuietStep ==
  ASSUME CredInv, NEW r \in CredentialRequests, NEW x, Becomes(r, x),
         UNCHANGED <<keyItem, created, replaced, clobbered>>,
         \A k \in handed' : k \in handed \/ (k = credRequest[r].saw.current /\ k # NoKey),
         x.saw.current \in {credRequest[r].saw.current, keyItem.current, NoKey},
         x.key \in {credRequest[r].key, NoKey},
         Provisioning(x) => Provisioning(credRequest[r]) /\ x.key = credRequest[r].key,
         x.op = "create" => First(r),
         x.at # "done" => credRequest[r].at # "done",
         Placed(x)
  PROVE  KeysInv'
<1>1. /\ credRequest'[r] = x
      /\ \A q \in CredentialRequests \ {r} : credRequest'[q] = credRequest[q]
  BY DEF Becomes, CredInv, CredTypeOK
<1>2. \A k : Seen(k)' => Seen(k) \/ k = NoKey
  BY <1>1 DEF Seen
<1>3. FreshKeys'
  <2> SUFFICES ASSUME NEW p \in CredentialRequests, Provisioning(credRequest'[p]),
                      NEW k, credRequest'[p].key = k
               PROVE  OwnKey(p, k)'
    BY DEF FreshKeys, Provisioning
  <2>1. Provisioning(credRequest[p]) /\ credRequest[p].key = k
    BY <1>1
  <2>2. OwnKey(p, k)
    BY <2>1 DEF CredInv, KeysInv, FreshKeys
  <2>3. ~Seen(k)'
    BY <1>2, <2>2 DEF OwnKey
  <2>4. \A q \in CredentialRequests \ {p} : credRequest'[q].key # k
    BY <1>1, <2>2 DEF OwnKey
  <2> QED BY <2>2, <2>3, <2>4 DEF OwnKey
<1>4. KeysAreCreated'
  <2>1. created \in Nat
    BY CredAssumption DEF CredInv, CredTypeOK
  <2>2. \A k : Seen(k)' => k \in 0 .. created'
    BY <1>2, <2>1 DEF CredInv, KeysInv, KeysAreCreated, NoKey
  <2>3. \A q \in CredentialRequests : credRequest'[q].key \in 0 .. created'
    BY <1>1, <2>1 DEF CredInv, KeysInv, KeysAreCreated, NoKey
  <2> QED BY <2>2, <2>3 DEF KeysAreCreated, CredInv, KeysInv
<1>5. CreatedFirst'
  <2> SUFFICES ASSUME NEW q \in CredentialRequests, First(q), credRequest'[q].at # "done",
                      NEW k, Seen(k)'
               PROVE  k = NoKey
    BY DEF CreatedFirst, First
  <2>1. credRequest[q].at # "done"
    BY <1>1
  <2> QED BY <1>2, <2>1 DEF CredInv, KeysInv, CreatedFirst
<1>6. KeysInOrder'
  BY <1>2 DEF CredInv, KeysInv, KeysInOrder, ApiKeys, NoKey
<1>7. RequestsPlaced'
  <2> SUFFICES ASSUME NEW q \in CredentialRequests
               PROVE  Placed(credRequest'[q]) /\ (credRequest'[q].op = "create" => First(q))
    BY DEF RequestsPlaced, Placed, First, WithCurrent
  <2> QED BY <1>1 DEF CredInv, KeysInv, RequestsPlaced
<1> QED BY <1>3, <1>4, <1>5, <1>6, <1>7 DEF CredInv, KeysInv, WithCurrent

-----------------------------------------------------------------------------
(* The steps of a request *)

LEMMA CredentialEnds ==
  ASSUME CredInv, NEW r \in CredentialRequests, CredEnds(r),
         UNCHANGED <<keyItem, created, replaced, clobbered>>,
         \A k \in handed' : k \in handed \/ (k = credRequest[r].saw.current /\ k # NoKey)
  PROVE  KeysInv' /\ Becomes(r, Over)
<1>1. Becomes(r, Over)
  BY CredentialItems DEF Becomes, CredEnds, Over
<1>2. Over.saw.current = NoKey /\ ~Provisioning(Over) /\ Over.op # "create"
  BY CredentialItems DEF NoFields, Provisioning, Provisions
<1> HIDE DEF Over
<1> QED BY <1>1, <1>2, CredQuietStep, CredentialItems

\* Types of what a step of a request leaves to its record.
LEMMA RequestTyped ==
  ASSUME CredTypeOK, NEW r \in CredentialRequests, NEW x, Becomes(r, x)
  PROVE  credRequest' \in [CredentialRequests -> CredentialRequest]
BY DEF CredTypeOK, Becomes, CredentialRequest

LEMMA ArrivesKeeps ==
  ASSUME CredInv, NEW r \in CredentialRequests, NEW op \in CredentialOps,
         CredentialArrives(r, op)
  PROVE  CredInv'
<1> DEFINE at == IF op \in Provisions THEN "secret" ELSE "read"
           x == [credRequest[r] EXCEPT !.op = op, !.at = at]
<1>1. credRequest[r] \in CredentialRequest
  BY DEF CredInv, CredTypeOK, CredentialRequest
<1>2. /\ x \in CredentialRequest /\ x.op = op /\ x.at = at
      /\ x.key = credRequest[r].key /\ x.saw = credRequest[r].saw
  BY <1>1 DEF CredentialRequest
<1>3. Becomes(r, x)
  BY <1>2 DEF Becomes, CredentialArrives, Provisions, CredInv, CredTypeOK
<1>4. ~Provisioning(x) /\ Placed(x) /\ x.at \notin {"done", "idle"}
  BY <1>2 DEF Provisioning, Placed, CredInv, KeysInv, RequestsPlaced, CredentialOps
<1>5. x.op = "create" => First(r)
  BY <1>2 DEF CredentialArrives, First
<1> HIDE DEF x
<1>6. KeysInv'
  BY <1>2, <1>3, <1>4, <1>5, CredQuietStep DEF CredentialArrives
<1> QED BY <1>3, <1>6, RequestTyped
        DEF CredInv, CredTypeOK, CredentialArrives, CredentialRequest

LEMMA ReadKeeps ==
  ASSUME CredInv, NEW r \in CredentialRequests, ReadCredential(r)
  PROVE  CredInv'
<1> DEFINE at == IF credRequest[r].op = "reveal" THEN "count" ELSE "put"
           x == [credRequest[r] EXCEPT !.saw = keyItem, !.at = at]
<1>1. CASE CredEnds(r)
  BY <1>1, CredentialEnds, RequestTyped
  DEF CredInv, CredTypeOK, ReadCredential, CredentialRequest
<1>2. CASE ~(credRequest[r].op \in {"rotate", "reveal"} /\ keyItem.current = NoKey)
  <2>1. credRequest[r] \in CredentialRequest /\ credRequest[r].at = "read"
    BY DEF CredInv, CredTypeOK, CredentialRequest, ReadCredential
  <2>2. /\ x \in CredentialRequest /\ x.op = credRequest[r].op /\ x.at = at
        /\ x.key = credRequest[r].key /\ x.saw = keyItem
    BY <2>1 DEF CredentialRequest, CredInv, CredTypeOK
  <2>3. Becomes(r, x)
    BY <1>2, <2>2 DEF Becomes, ReadCredential, CredInv, CredTypeOK
  <2>4. Provisioning(x) => Provisioning(credRequest[r])
    BY <2>1, <2>2 DEF Provisioning
  <2>5. Placed(x)
    BY <1>2, <2>1, <2>2
    DEF Placed, CredInv, KeysInv, RequestsPlaced, CredentialRequest, CredentialOps
  <2>6. x.op = "create" => First(r)
    BY <2>2 DEF CredInv, KeysInv, RequestsPlaced
  <2> HIDE DEF x
  <2>7. KeysInv'
    BY <2>1, <2>2, <2>3, <2>4, <2>5, <2>6, CredQuietStep DEF ReadCredential
  <2> QED BY <2>3, <2>7, RequestTyped
          DEF CredInv, CredTypeOK, ReadCredential, CredentialRequest
<1> QED BY <1>1, <1>2 DEF ReadCredential

LEMMA RevealKeeps ==
  ASSUME CredInv, NEW r \in CredentialRequests, RevealKey(r)
  PROVE  CredInv'
<1>1. PICK k : k = credRequest[r].saw.current
  OBVIOUS
<1>2. k # NoKey
  BY <1>1 DEF RevealKey, CredInv, KeysInv, RequestsPlaced, Placed
<1>3. k \in 1 .. created
  <2>1. Seen(k)
    BY <1>1 DEF Seen
  <2> QED BY <1>2, <2>1, CredAssumption DEF CredInv, KeysInv, KeysAreCreated, NoKey, CredTypeOK
<1>4. handed' = handed \/ handed' = handed \cup {k}
  BY <1>1 DEF RevealKey
<1>5. KeysInv' /\ Becomes(r, Over)
  BY <1>1, <1>2, <1>4, CredentialEnds DEF RevealKey
<1>6. reveals' \in 0 .. RevealsPerHour + 1
  BY CredAssumption DEF RevealKey, CredInv, CredTypeOK
<1>7. handed' \subseteq 1 .. created
  BY <1>3, <1>4 DEF CredInv, CredTypeOK
<1>8. credRequest' \in [CredentialRequests -> CredentialRequest]
  BY <1>5, RequestTyped DEF CredInv
<1> QED BY <1>5, <1>6, <1>7, <1>8 DEF CredInv, CredTypeOK, RevealKey, CredentialRequest

LEMMA CutShortKeeps ==
  ASSUME CredInv, NEW r \in CredentialRequests, CredentialCutShort(r)
  PROVE  CredInv'
BY CredentialEnds, RequestTyped
DEF CredInv, CredTypeOK, CredentialCutShort, CredentialRequest

LEMMA CreateSecretKeeps ==
  ASSUME CredInv, NEW r \in CredentialRequests, CreateSecret(r)
  PROVE  CredInv'
<1> DEFINE new == created + 1
           x == [credRequest[r] EXCEPT !.key = new, !.at = "read"]
<1>1. credRequest[r] \in CredentialRequest /\ credRequest[r].at = "secret"
  BY DEF CredInv, CredTypeOK, CredentialRequest, CreateSecret
<1>2. created \in Nat /\ new \in 1 .. MaxKeys
  BY CredAssumption DEF CredInv, CredTypeOK, CreateSecret
<1>3. /\ x \in CredentialRequest /\ x.op = credRequest[r].op /\ x.at = "read"
      /\ x.key = new /\ x.saw = credRequest[r].saw
  BY <1>1, <1>2 DEF CredentialRequest, ApiKeys
<1>4. Becomes(r, x)
  BY <1>3 DEF Becomes, CreateSecret, CredInv, CredTypeOK
<1>5. /\ credRequest'[r] = x
      /\ \A q \in CredentialRequests \ {r} : credRequest'[q] = credRequest[q]
  BY <1>4 DEF Becomes, CredInv, CredTypeOK
<1>6. Placed(x)
  BY <1>1, <1>3 DEF Placed, CredInv, KeysInv, RequestsPlaced
<1> HIDE DEF x
<1>7. \A k : Seen(k)' <=> Seen(k)
  BY <1>3, <1>5 DEF Seen, CreateSecret
<1>8. created' = new /\ UNCHANGED <<keyItem, handed, replaced, graceOver, reveals, clobbered>>
  BY DEF CreateSecret
<1>9. FreshKeys'
  <2> SUFFICES ASSUME NEW p \in CredentialRequests, Provisioning(credRequest'[p]),
                      NEW k, credRequest'[p].key = k
               PROVE  OwnKey(p, k)'
    BY DEF FreshKeys, Provisioning
  <2>1. CASE p = r
    <3>1. k = new
      BY <1>3, <1>5, <2>1
    <3>2. ~Seen(k) /\ \A q \in CredentialRequests : credRequest[q].key # k
      BY <1>2, <3>1 DEF CredInv, KeysInv, KeysAreCreated
    <3>3. replaced[k] = 0
      BY <1>2, <3>1 DEF CredInv, KeysInv, KeysAreCreated, CredTypeOK, ApiKeys
    <3> QED BY <1>2, <1>5, <1>7, <1>8, <2>1, <3>1, <3>2, <3>3 DEF OwnKey, NoKey
  <2>2. CASE p # r
    <3>1. OwnKey(p, k)
      BY <1>5, <2>2 DEF CredInv, KeysInv, FreshKeys
    <3>2. k # new
      BY <1>2, <1>5, <2>2 DEF CredInv, KeysInv, KeysAreCreated
    <3> QED BY <1>3, <1>5, <1>7, <1>8, <3>1, <3>2 DEF OwnKey
  <2> QED BY <2>1, <2>2
<1>10. KeysAreCreated'
  <2>1. \A k : Seen(k)' => k \in 0 .. created'
    BY <1>2, <1>7, <1>8 DEF CredInv, KeysInv, KeysAreCreated
  <2>2. \A q \in CredentialRequests : credRequest'[q].key \in 0 .. created'
    BY <1>2, <1>3, <1>5, <1>8 DEF CredInv, KeysInv, KeysAreCreated
  <2>3. \A k \in ApiKeys : replaced'[k] # 0 => k \in 0 .. created'
    BY <1>2, <1>8 DEF CredInv, KeysInv, KeysAreCreated
  <2> QED BY <2>1, <2>2, <2>3 DEF KeysAreCreated
<1>11. CreatedFirst'
  <2> SUFFICES ASSUME NEW q \in CredentialRequests, First(q), credRequest'[q].at # "done",
                      NEW k, Seen(k)'
               PROVE  k = NoKey
    BY DEF CreatedFirst, First
  <2>1. credRequest[q].at # "done"
    BY <1>1, <1>5
  <2> QED BY <1>7, <2>1 DEF CredInv, KeysInv, CreatedFirst
<1>12. KeysInOrder'
  BY <1>7, <1>8 DEF CredInv, KeysInv, KeysInOrder
<1>13. RequestsPlaced'
  <2> SUFFICES ASSUME NEW q \in CredentialRequests
               PROVE  Placed(credRequest'[q]) /\ (credRequest'[q].op = "create" => First(q))
    BY DEF RequestsPlaced, Placed, First, WithCurrent
  <2> QED BY <1>3, <1>5, <1>6 DEF CredInv, KeysInv, RequestsPlaced
<1>14. CredTypeOK'
  <2>1. credRequest' \in [CredentialRequests -> CredentialRequest]
    BY <1>4, RequestTyped DEF CredInv
  <2>2. handed' \subseteq 1 .. created' /\ created' \in 0 .. MaxKeys
    BY <1>2, <1>8, CredAssumption DEF CredInv, CredTypeOK
  <2> QED BY <1>8, <2>1, <2>2 DEF CredInv, CredTypeOK, CredentialRequest
<1> QED BY <1>8, <1>9, <1>10, <1>11, <1>12, <1>13, <1>14 DEF CredInv, KeysInv, WithCurrent

-----------------------------------------------------------------------------
(* The put of an item *)

\* What a put leaves: a provisioned key is current, any other put keeps a key
\* that was seen.
LEMMA PutItem ==
  ASSUME CredInv, NEW r \in CredentialRequests, PutCredential(r)
  PROVE  /\ keyItem' \in CredentialFields
         /\ WithCurrent(keyItem')
         /\ keyItem'.current = IF credRequest[r].op \in Provisions THEN credRequest[r].key
                               ELSE credRequest[r].saw.current
         /\ keyItem'.previous = IF credRequest[r].op = "rotate" THEN credRequest[r].saw.current
                                ELSE credRequest[r].saw.previous
<1> DEFINE item == credRequest[r].saw
           key == credRequest[r].key
           op == credRequest[r].op
<1>1. item \in CredentialFields /\ key \in ApiKeys \cup {NoKey}
  BY DEF CredInv, CredTypeOK
<1>2. op \in {"create", "rotate", "revoke", "jwtConfig", "otherUpdate"} /\ WithCurrent(item)
  BY DEF PutCredential, CredInv, KeysInv, RequestsPlaced, Placed
<1>3. op \in Provisions => key # NoKey
  BY DEF PutCredential, CredInv, KeysInv, FreshKeys, Provisioning, OwnKey
<1>4. keyItem' \in Puts(r)
  BY DEF PutCredential
<1>5. CASE op = "create"
  <2>1. keyItem' = [item EXCEPT !.current = key]
    BY <1>4, <1>5 DEF Puts, KeyProvisioned
  <2> HIDE DEF item, key
  <2>2. keyItem' \in CredentialFields /\ keyItem'.current = key
        /\ keyItem'.previous = item.previous
    BY <1>1, <2>1 DEF CredentialFields
  <2> QED BY <1>3, <1>5, <2>2 DEF Provisions, item, key, WithCurrent
<1>6. CASE op = "rotate"
  <2>1. keyItem' = [item EXCEPT !.previous = item.current, !.current = key]
    BY <1>4, <1>6 DEF Puts, Rotated
  <2> HIDE DEF item, key
  <2>2. keyItem' \in CredentialFields /\ keyItem'.current = key
        /\ keyItem'.previous = item.current
    BY <1>1, <2>1 DEF CredentialFields
  <2> QED BY <1>3, <1>6, <2>2 DEF Provisions, item, key, WithCurrent
<1>7. CASE op \in {"revoke", "jwtConfig", "otherUpdate"}
  <2>1. \/ keyItem' = [item EXCEPT !.revoked = TRUE]
        \/ \E on \in BOOLEAN : keyItem' = [item EXCEPT !.jwt = on]
        \/ keyItem' = item
    BY <1>4, <1>7 DEF Puts, Revoked, JwtConfigured
  <2> HIDE DEF item
  <2>2. keyItem' \in CredentialFields /\ keyItem'.current = item.current
        /\ keyItem'.previous = item.previous
    BY <1>1, <2>1 DEF CredentialFields
  <2> QED BY <1>2, <1>7, <2>2 DEF Provisions, item, WithCurrent
<1> QED BY <1>2, <1>5, <1>6, <1>7

LEMMA PutKeeps ==
  ASSUME CredInv, NEW r \in CredentialRequests, PutCredential(r)
  PROVE  CredInv'
<1> DEFINE provides == credRequest[r].op \in Provisions
           key == credRequest[r].key
<1>1. PICK saw : saw = credRequest[r].saw
  OBVIOUS
<1>2. Seen(saw.current)
  BY <1>1 DEF Seen
<1>3. provides => OwnKey(r, key) /\ Provisioning(credRequest[r])
  BY DEF PutCredential, CredInv, KeysInv, FreshKeys, Provisioning
<1>4. Becomes(r, Over)
  BY CredentialItems DEF Becomes, CredEnds, Over, PutCredential
<1>5. /\ credRequest'[r] = Over
      /\ \A q \in CredentialRequests \ {r} : credRequest'[q] = credRequest[q]
  BY <1>4 DEF Becomes, CredInv, CredTypeOK
<1>6. Over.saw.current = NoKey /\ ~Provisioning(Over) /\ Over.op # "create" /\ Over.key = NoKey
  BY CredentialItems DEF NoFields, Provisioning, Provisions
<1> HIDE DEF Over
<1>7. /\ keyItem' \in CredentialFields /\ WithCurrent(keyItem')
      /\ provides => keyItem'.current = key
      /\ ~provides => keyItem'.current = saw.current
      /\ keyItem'.previous = IF credRequest[r].op = "rotate" THEN saw.current
                             ELSE saw.previous
  BY <1>1, PutItem
<1>8. (provides /\ handed' \subseteq handed \cup {key}) \/ handed' = handed
  BY DEF PutCredential, Provisions
<1>9. \A k : Seen(k)' => Seen(k) \/ k = NoKey \/ (provides /\ k = key)
  BY <1>2, <1>5, <1>6, <1>7, <1>8 DEF Seen
<1>10. \A k \in ApiKeys : replaced'[k] = 0 => replaced[k] = 0
  BY DEF PutCredential, CredInv, CredTypeOK
<1>11. \A k \in ApiKeys : replaced[k] = 0 /\ ~Seen(k) => replaced'[k] = 0
  BY DEF PutCredential, CredInv, CredTypeOK, Seen
<1>12. UNCHANGED <<created, graceOver, reveals>>
  BY DEF PutCredential
<1> HIDE DEF provides, key
<1>13. key \in 0 .. created /\ created \in Nat
  BY CredAssumption DEF CredInv, CredTypeOK, KeysInv, KeysAreCreated, key
<1>14. FreshKeys'
  <2> SUFFICES ASSUME NEW p \in CredentialRequests, Provisioning(credRequest'[p]),
                      NEW k, credRequest'[p].key = k
               PROVE  OwnKey(p, k)'
    BY DEF FreshKeys, Provisioning
  <2>1. p # r
    BY <1>5, <1>6
  <2>2. OwnKey(p, k) /\ credRequest[p].key = k
    BY <1>5, <2>1 DEF CredInv, KeysInv, FreshKeys
  <2>3. provides => key # k
    BY <2>1, <2>2 DEF OwnKey, key
  <2>4. ~Seen(k)' /\ k # NoKey
    BY <1>9, <2>2, <2>3 DEF OwnKey
  <2>5. k \in ApiKeys
    <3>1. k \in ApiKeys \cup {NoKey}
      BY <2>2 DEF CredInv, CredTypeOK
    <3> QED BY <2>4, <3>1
  <2>6. replaced'[k] = 0
    BY <1>11, <2>2, <2>5 DEF OwnKey
  <2>7. \A q \in CredentialRequests \ {p} : credRequest'[q].key # k
    BY <1>5, <1>6, <2>2, <2>4 DEF OwnKey
  <2> QED BY <2>4, <2>6, <2>7 DEF OwnKey
<1>15. KeysAreCreated'
  <2>1. \A k : Seen(k)' => k \in 0 .. created'
    BY <1>9, <1>12, <1>13 DEF CredInv, KeysInv, KeysAreCreated, NoKey
  <2>2. \A q \in CredentialRequests : credRequest'[q].key \in 0 .. created'
    BY <1>5, <1>6, <1>12, <1>13 DEF CredInv, KeysInv, KeysAreCreated, NoKey
  <2>3. ASSUME NEW k \in ApiKeys, replaced'[k] # 0 PROVE k \in 0 .. created'
    <3>1. replaced[k] # 0 \/ Seen(k)
      BY <1>11, <2>3
    <3> QED BY <1>12, <3>1 DEF CredInv, KeysInv, KeysAreCreated
  <2> QED BY <2>1, <2>2, <2>3 DEF KeysAreCreated
<1>16. CreatedFirst'
  <2> SUFFICES ASSUME NEW q \in CredentialRequests, First(q), credRequest'[q].at # "done",
                      NEW k, Seen(k)'
               PROVE  k = NoKey
    BY DEF CreatedFirst, First
  <2>1. q # r
    BY <1>5, CredentialItems
  <2>2. \A j : Seen(j) => j = NoKey
    BY <1>5, <2>1 DEF CredInv, KeysInv, CreatedFirst
  <2>3. ~provides
    <3>1. CASE credRequest[r].op = "create"
      <4>1. First(r)
        BY <3>1 DEF CredInv, KeysInv, RequestsPlaced
      <4> QED BY <2>1, <4>1, CredAssumption DEF First
    <3>2. CASE credRequest[r].op = "rotate"
      <4>1. saw.current # NoKey
        BY <1>1, <3>2 DEF PutCredential, CredInv, KeysInv, RequestsPlaced, Placed
      <4> QED BY <1>2, <2>2, <4>1
    <3> QED BY <3>1, <3>2 DEF provides, Provisions
  <2> QED BY <1>9, <2>2, <2>3
<1>17. KeysInOrder'
  <2> SUFFICES ASSUME ~clobbered'
               PROVE  /\ \A k \in ApiKeys : replaced'[k] = 1 => k = keyItem'.previous
                      /\ \A k \in ApiKeys : Seen(k)' /\ replaced'[k] = 0 => k = keyItem'.current
    BY DEF KeysInOrder
  <2>1. ~clobbered /\ keyItem = saw
    BY <1>1 DEF PutCredential, CredInv, CredTypeOK
  <2>2. /\ \A k \in ApiKeys : replaced[k] = 1 => k = keyItem.previous
        /\ \A k \in ApiKeys : Seen(k) /\ replaced[k] = 0 => k = keyItem.current
    BY <2>1 DEF CredInv, KeysInv, KeysInOrder
  <2>3. CASE credRequest[r].op = "rotate"
    <3>1. \A k \in ApiKeys : replaced'[k] = IF replaced[k] > 0 THEN 2
                                            ELSE IF k = keyItem.current THEN 1 ELSE 0
      BY <2>3 DEF PutCredential
    <3>2. ASSUME NEW k \in ApiKeys, replaced'[k] = 1 PROVE k = keyItem'.previous
      BY <1>7, <2>1, <2>3, <3>1, <3>2
    <3>3. ASSUME NEW k \in ApiKeys, Seen(k)', replaced'[k] = 0 PROVE k = keyItem'.current
      <4>1. replaced[k] = 0 /\ k # keyItem.current /\ k # NoKey
        BY <1>10, <3>1, <3>3 DEF ApiKeys, NoKey
      <4> QED BY <1>7, <1>9, <2>2, <3>3, <4>1
    <3> QED BY <3>2, <3>3
  <2>4. CASE credRequest[r].op = "create"
    <3>1. \A k : Seen(k) => k = NoKey
      BY <2>4 DEF PutCredential, CredInv, KeysInv, RequestsPlaced, CreatedFirst
    <3>2. replaced' = replaced /\ keyItem'.previous = keyItem.previous /\ provides
      BY <1>7, <2>1, <2>4 DEF PutCredential, provides, Provisions
    <3> QED BY <1>7, <1>9, <2>2, <3>1, <3>2 DEF ApiKeys, NoKey
  <2>5. CASE credRequest[r].op \notin Provisions
    <3>1. replaced' = replaced /\ keyItem'.previous = keyItem.previous /\ ~provides
      BY <1>7, <2>1, <2>5 DEF PutCredential, provides, Provisions
    <3> QED BY <1>7, <1>9, <2>1, <2>2, <3>1 DEF ApiKeys, NoKey
  <2> QED BY <2>3, <2>4, <2>5 DEF Provisions
<1>18. RequestsPlaced'
  <2> SUFFICES ASSUME NEW q \in CredentialRequests
               PROVE  Placed(credRequest'[q]) /\ (credRequest'[q].op = "create" => First(q))
    BY DEF RequestsPlaced, Placed, First, WithCurrent
  <2> QED BY <1>5, <1>6, CredentialItems DEF CredInv, KeysInv, RequestsPlaced
<1>19. CredTypeOK'
  <2>1. credRequest' \in [CredentialRequests -> CredentialRequest]
    BY <1>4, RequestTyped DEF CredInv
  <2>2. handed' \subseteq 1 .. created'
    <3>1. provides => key \in 1 .. created
      BY <1>3, <1>13 DEF OwnKey, NoKey
    <3>2. handed \subseteq 1 .. created
      BY DEF CredInv, CredTypeOK
    <3> QED BY <1>8, <1>12, <3>1, <3>2
  <2>3. replaced' \in [ApiKeys -> 0 .. 2]
    BY DEF PutCredential, CredInv, CredTypeOK
  <2>4. clobbered' \in BOOLEAN
    BY DEF PutCredential, CredInv, CredTypeOK
  <2> QED BY <1>7, <1>12, <2>1, <2>2, <2>3, <2>4 DEF CredInv, CredTypeOK, CredentialRequest
<1>20. WithCurrent(keyItem)'
  BY <1>7 DEF WithCurrent
<1> QED BY <1>14, <1>15, <1>16, <1>17, <1>18, <1>19, <1>20 DEF CredInv, KeysInv

-----------------------------------------------------------------------------

\* Time passes, or nothing happens.
LEMMA HourPasses ==
  ASSUME CredInv, UNCHANGED <<keyItem, created, handed, replaced, credRequest, clobbered>>,
         graceOver' \subseteq ApiKeys, reveals' \in 0 .. RevealsPerHour + 1
  PROVE  CredInv'
BY DEF CredInv, CredTypeOK, KeysInv, FreshKeys, OwnKey, Seen, KeysAreCreated, CreatedFirst,
       First, KeysInOrder, WithCurrent, RequestsPlaced, Placed, Provisioning

LEMMA CredNextKeeps == CredInv /\ [CredNext]_credVars => CredInv'
<1> SUFFICES ASSUME CredInv, [CredNext]_credVars PROVE CredInv'
  OBVIOUS
<1>1. ASSUME NEW r \in CredentialRequests, NEW op \in CredentialOps, CredentialArrives(r, op)
      PROVE  CredInv'
  BY <1>1, ArrivesKeeps
<1>2. ASSUME NEW r \in CredentialRequests,
             CreateSecret(r) \/ ReadCredential(r) \/ PutCredential(r) \/ RevealKey(r)
                \/ CredentialCutShort(r)
      PROVE  CredInv'
  BY <1>2, CreateSecretKeeps, ReadKeeps, PutKeeps, RevealKeeps, CutShortKeeps
<1>3. CASE RevealWindowEnds \/ (\E k \in ApiKeys : GraceEnds(k)) \/ UNCHANGED credVars
  <2>1. UNCHANGED <<keyItem, created, handed, replaced, credRequest, clobbered>>
    BY <1>3 DEF RevealWindowEnds, GraceEnds, credVars
  <2>2. graceOver' \subseteq ApiKeys
    BY <1>3 DEF RevealWindowEnds, GraceEnds, credVars, CredInv, CredTypeOK
  <2>3. reveals' \in 0 .. RevealsPerHour + 1
    BY <1>3, CredAssumption DEF RevealWindowEnds, GraceEnds, credVars, CredInv, CredTypeOK
  <2> QED BY <2>1, <2>2, <2>3, HourPasses
<1> QED BY <1>1, <1>2, <1>3 DEF CredNext

\* rotate_agent_api_key and ApiKeyAuthProvider: however requests to the credential
\* routes overlap and are cut short, and whatever answers are lost, a key that a
\* client was given is accepted until its keys are revoked, its grace is over or a
\* second rotation follows, as long as no put undoes what was written after its read.
THEOREM KeysAreAccepted == CredSpec => []HandedKeyAccepted
<1>1. CredInv => HandedKeyAccepted
  <2> SUFFICES ASSUME CredInv, ~clobbered, NEW k \in handed, ~keyItem.revoked
               PROVE  \/ Accepts(k) \/ replaced[k] = 2
                      \/ replaced[k] = 1 /\ k \in graceOver
    BY DEF HandedKeyAccepted
  <2>1. Seen(k)
    BY DEF Seen
  <2>2. k \in ApiKeys /\ k # NoKey
    BY CredAssumption DEF CredInv, CredTypeOK, ApiKeys, NoKey
  <2>3. replaced[k] \in 0 .. 2
    BY <2>2 DEF CredInv, CredTypeOK
  <2>4. CASE replaced[k] = 0
    <3>1. k = keyItem.current
      BY <2>1, <2>2, <2>4 DEF CredInv, KeysInv, KeysInOrder
    <3> QED BY <2>2, <3>1 DEF Accepts
  <2>5. CASE replaced[k] = 1
    <3>1. k = keyItem.previous
      BY <2>2, <2>5 DEF CredInv, KeysInv, KeysInOrder
    <3>2. keyItem.current # NoKey
      BY <2>2, <3>1 DEF CredInv, KeysInv, WithCurrent
    <3> QED BY <2>5, <3>1, <3>2 DEF Accepts
  <2> QED BY <2>3, <2>4, <2>5
<1> QED BY <1>1, CredInitially, CredNextKeeps, PTL DEF CredSpec

\* The credential item, its requests and the reveals of an hour keep their types.
THEOREM CredTypeCorrect == CredSpec => []CredTypeOK
<1>1. CredInv => CredTypeOK
  BY DEF CredInv
<1> QED BY <1>1, CredInitially, CredNextKeeps, PTL DEF CredSpec

=============================================================================
