------------------------- MODULE LowerEngineProofs -------------------------
(***************************************************************************)
(* What LowerEngine promises for every panel, every budget and every       *)
(* failure: a white frame is never left as the last one handed over, the   *)
(* quality history is the last target, and, wherever the markers start and *)
(* even as they wrap around, a target waits for its own white.             *)
(***************************************************************************)
EXTENDS LowerEngine, TLAPS

USE DEF initVars, callVars

----------------------------------------------------------------------------
(* The last image                                                          *)

\* The states and places in which the last image handed over may be a white one.
\* A backend that is not initialised has no Submit under way, and once poisoned
\* or spent it is never initialised again.
WhiteInv ==
  /\ stage # "none" => state \in {"stopped", "resolved"}
  /\ state \in {"stopped", "resolved"} => pc = "idle" /\ engine.last.part # "white"
  /\ pc # "idle" => state = "initialized"
  /\ state = "initialized" /\ engine.last.part = "white"
       => paired /\ pc \in {"map", "gap", "whiteGuard", "target"}
  /\ paired => pc \in {"map", "gap", "whiteGuard", "target", "targetGuard", "finish"}
  /\ pc \in {"gap", "whiteGuard", "targetGuard"} => paired

\* An engine record, as the actions build it.
EngineOK == engine = [submitted |-> engine.submitted, displaying |-> engine.displaying,
                      last |-> engine.last, shown |-> engine.shown]

LEMMA EngineOKKept ==
  EngineOK /\ [Next]_vars => EngineOK'
<1> SUFFICES ASSUME EngineOK, [Next]_vars
             PROVE  EngineOK'
  OBVIOUS
<1> USE DEF EngineOK
<1>1. CASE InitializeForOneShot
  <2>1. CASE BeginInitialize
    BY <2>1 DEF BeginInitialize, RestOfInit, MayInitialize
  <2>2. CASE Preflight
    BY <2>2 DEF Preflight, Poison, RestOfInit
  <2>3. CASE LoadEngine
    BY <2>3 DEF LoadEngine, Poison, RestOfInit
  <2>4. CASE LoadColorRuntime
    BY <2>4 DEF LoadColorRuntime, Poison, RestOfInit
  <2>5. CASE InstallCompatibility
    BY <2>5 DEF InstallCompatibility, Poison, RestOfInit
  <2>6. CASE CallInitializer
    BY <2>6 DEF CallInitializer, Poison, RestOfInit
  <2>7. CASE InitializeColor
    BY <2>7 DEF InitializeColor, Poison, RestOfInit
  <2> QED
    BY <1>1, <2>1, <2>2, <2>3, <2>4, <2>5, <2>6, <2>7 DEF InitializeForOneShot
<1>2. CASE SubmitStep
  <2>1. CASE SubmitRejectPlanes
    BY <2>1 DEF SubmitRejectPlanes, Return
  <2>2. CASE SubmitPrepare
    BY <2>2 DEF SubmitPrepare, Goto
  <2>3. CASE SubmitPairTooLong
    BY <2>3 DEF SubmitPairTooLong, Return
  <2>4. CASE SubmitWhiteFails
    BY <2>4 DEF SubmitWhiteFails, ReturnPoisoned, Return
  <2>5. CASE SubmitWhite
    BY <2>5 DEF SubmitWhite, Update
  <2>6. CASE SubmitMapTarget
    BY <2>6 DEF SubmitMapTarget, Goto, MappingFailed, ReturnPoisoned, Return
  <2>7. CASE SubmitGap
    BY <2>7 DEF SubmitGap, Goto
  <2>8. CASE SubmitGuardPassed
    BY <2>8 DEF SubmitGuardPassed, Goto
  <2>9. CASE SubmitGuardStops
    BY <2>9 DEF SubmitGuardStops, ReturnPoisoned, Return
  <2>10. CASE SubmitTargetDrifted
    BY <2>10 DEF SubmitTargetDrifted, ReturnPoisoned, Return
  <2>11. CASE SubmitTarget
    BY <2>11 DEF SubmitTarget, Update, ReturnPoisoned, Return
  <2>12. CASE SubmitFinish
    BY <2>12 DEF SubmitFinish, Return
  <2> QED
    BY <1>2, <2>1, <2>2, <2>3, <2>4, <2>5, <2>6, <2>7, <2>8, <2>9, <2>10, <2>11, <2>12 DEF SubmitStep
<1>3. CASE SubmitBudgetSpent
  BY <1>3 DEF SubmitBudgetSpent
<1>4. ASSUME NEW f \in Frames, submissions < MaxSubmissions, SubmitBegin(f)
      PROVE  EngineOK'
  BY <1>4 DEF SubmitBegin
<1>5. CASE ObserveCompletionTimeout
  BY <1>5 DEF ObserveCompletionTimeout
<1>6. CASE SetSetting
  BY <1>6 DEF SetSetting
<1>7. CASE SetProperties
  BY <1>7 DEF SetProperties
<1>8. CASE EngineStart
  BY <1>8 DEF EngineStart
<1>9. CASE EngineReset
  BY <1>9 DEF EngineReset
<1>10. CASE Tick
  BY <1>10 DEF Tick
<1>11. CASE UNCHANGED vars
  BY <1>11 DEF vars
<1> QED
  BY <1>1, <1>2, <1>3, <1>4, <1>5, <1>6, <1>7, <1>8, <1>9, <1>10, <1>11 DEF Next, Submit

LEMMA WhiteInvKept ==
  WhiteInv /\ EngineOK /\ [Next]_vars => WhiteInv'
<1> SUFFICES ASSUME WhiteInv /\ EngineOK, [Next]_vars
             PROVE  WhiteInv'
  OBVIOUS
<1> USE DEF WhiteInv, EngineOK
<1>1. CASE InitializeForOneShot
  <2>1. CASE BeginInitialize
    BY <2>1 DEF BeginInitialize, RestOfInit, MayInitialize
  <2>2. CASE Preflight
    BY <2>2 DEF Preflight, Poison, RestOfInit
  <2>3. CASE LoadEngine
    BY <2>3 DEF LoadEngine, Poison, RestOfInit
  <2>4. CASE LoadColorRuntime
    BY <2>4 DEF LoadColorRuntime, Poison, RestOfInit
  <2>5. CASE InstallCompatibility
    BY <2>5 DEF InstallCompatibility, Poison, RestOfInit
  <2>6. CASE CallInitializer
    BY <2>6 DEF CallInitializer, Poison, RestOfInit
  <2>7. CASE InitializeColor
    BY <2>7 DEF InitializeColor, Poison, RestOfInit
  <2> QED
    BY <1>1, <2>1, <2>2, <2>3, <2>4, <2>5, <2>6, <2>7 DEF InitializeForOneShot
<1>2. CASE SubmitStep
  <2>1. CASE SubmitRejectPlanes
    BY <2>1 DEF SubmitRejectPlanes, Return
  <2>2. CASE SubmitPrepare
    BY <2>2 DEF SubmitPrepare, Goto
  <2>3. CASE SubmitPairTooLong
    BY <2>3 DEF SubmitPairTooLong, Return
  <2>4. CASE SubmitWhiteFails
    BY <2>4 DEF SubmitWhiteFails, ReturnPoisoned, Return
  <2>5. CASE SubmitWhite
    BY <2>5 DEF SubmitWhite, Update
  <2>6. CASE SubmitMapTarget
    BY <2>6 DEF SubmitMapTarget, Goto, MappingFailed, ReturnPoisoned, Return
  <2>7. CASE SubmitGap
    BY <2>7 DEF SubmitGap, Goto
  <2>8. CASE SubmitGuardPassed
    BY <2>8 DEF SubmitGuardPassed, Goto
  <2>9. CASE SubmitGuardStops
    BY <2>9 DEF SubmitGuardStops, ReturnPoisoned, Return
  <2>10. CASE SubmitTargetDrifted
    BY <2>10 DEF SubmitTargetDrifted, ReturnPoisoned, Return
  <2>11. CASE SubmitTarget
    BY <2>11 DEF SubmitTarget, Update, ReturnPoisoned, Return
  <2>12. CASE SubmitFinish
    BY <2>12 DEF SubmitFinish, Return
  <2> QED
    BY <1>2, <2>1, <2>2, <2>3, <2>4, <2>5, <2>6, <2>7, <2>8, <2>9, <2>10, <2>11, <2>12 DEF SubmitStep
<1>3. CASE SubmitBudgetSpent
  BY <1>3 DEF SubmitBudgetSpent
<1>4. ASSUME NEW f \in Frames, submissions < MaxSubmissions, SubmitBegin(f)
      PROVE  WhiteInv'
  BY <1>4 DEF SubmitBegin
<1>5. CASE ObserveCompletionTimeout
  BY <1>5 DEF ObserveCompletionTimeout
<1>6. CASE SetSetting
  BY <1>6 DEF SetSetting
<1>7. CASE SetProperties
  BY <1>7 DEF SetProperties
<1>8. CASE EngineStart
  BY <1>8 DEF EngineStart
<1>9. CASE EngineReset
  BY <1>9 DEF EngineReset
<1>10. CASE Tick
  BY <1>10 DEF Tick
<1>11. CASE UNCHANGED vars
  BY <1>11 DEF vars
<1> QED
  BY <1>1, <1>2, <1>3, <1>4, <1>5, <1>6, <1>7, <1>8, <1>9, <1>10, <1>11 DEF Next, Submit

LEMMA WhiteInvAlways == Spec => [](WhiteInv /\ EngineOK)
<1>1. Init => WhiteInv /\ EngineOK
  BY DEF Init, WhiteInv, EngineOK, Blank
<1> QED
  BY <1>1, EngineOKKept, WhiteInvKept, PTL DEF Spec

\* Between two Submits of a live engine the last image handed over is never a
\* white, whatever fails in between: mapping, update call, guard or limit.
THEOREM NoWhiteLeftBehind == Spec => []NoLoneWhite
<1>1. WhiteInv => NoLoneWhite
  BY DEF WhiteInv, NoLoneWhite, Settled
<1> QED
  BY <1>1, WhiteInvAlways, PTL

----------------------------------------------------------------------------
(* The quality history                                                     *)

\* Until Submit hands over an image the history describes the last one; from the
\* target on, the last image is the frame's.
HistoryInv ==
  /\ state = "initialized" /\ history # NoHistory
     /\ (pc \in {"idle", "planes", "white"} \/ (pc \in {"map", "target"} /\ ~paired))
       => history.image = engine.last.image /\ history.under = words
  /\ pc = "finish" => engine.last.image = frame.image
  /\ pc = "targetGuard" => engine.last.image = frame.image
  /\ state \in {"stopped", "resolved"} \/ ~ColorPanel => history = NoHistory

LEMMA HistoryInvKept ==
  HistoryInv /\ WhiteInv /\ EngineOK /\ [Next]_vars => HistoryInv'
<1> SUFFICES ASSUME HistoryInv /\ WhiteInv /\ EngineOK, [Next]_vars
             PROVE  HistoryInv'
  OBVIOUS
<1> USE DEF HistoryInv, WhiteInv, EngineOK
<1>1. CASE InitializeForOneShot
  <2>1. CASE BeginInitialize
    BY <2>1 DEF BeginInitialize, RestOfInit, MayInitialize
  <2>2. CASE Preflight
    BY <2>2 DEF Preflight, Poison, RestOfInit
  <2>3. CASE LoadEngine
    BY <2>3 DEF LoadEngine, Poison, RestOfInit
  <2>4. CASE LoadColorRuntime
    BY <2>4 DEF LoadColorRuntime, Poison, RestOfInit
  <2>5. CASE InstallCompatibility
    BY <2>5 DEF InstallCompatibility, Poison, RestOfInit
  <2>6. CASE CallInitializer
    BY <2>6 DEF CallInitializer, Poison, RestOfInit
  <2>7. CASE InitializeColor
    BY <2>7 DEF InitializeColor, Poison, RestOfInit
  <2> QED
    BY <1>1, <2>1, <2>2, <2>3, <2>4, <2>5, <2>6, <2>7 DEF InitializeForOneShot
<1>2. CASE SubmitStep
  <2>1. CASE SubmitRejectPlanes
    BY <2>1 DEF SubmitRejectPlanes, Return
  <2>2. CASE SubmitPrepare
    BY <2>2 DEF SubmitPrepare, Goto
  <2>3. CASE SubmitPairTooLong
    BY <2>3 DEF SubmitPairTooLong, Return
  <2>4. CASE SubmitWhiteFails
    BY <2>4 DEF SubmitWhiteFails, ReturnPoisoned, Return
  <2>5. CASE SubmitWhite
    BY <2>5 DEF SubmitWhite, Update
  <2>6. CASE SubmitMapTarget
    BY <2>6 DEF SubmitMapTarget, Goto, MappingFailed, ReturnPoisoned, Return
  <2>7. CASE SubmitGap
    BY <2>7 DEF SubmitGap, Goto
  <2>8. CASE SubmitGuardPassed
    BY <2>8 DEF SubmitGuardPassed, Goto
  <2>9. CASE SubmitGuardStops
    BY <2>9 DEF SubmitGuardStops, ReturnPoisoned, Return
  <2>10. CASE SubmitTargetDrifted
    BY <2>10 DEF SubmitTargetDrifted, ReturnPoisoned, Return
  <2>11. CASE SubmitTarget
    BY <2>11 DEF SubmitTarget, Update, ReturnPoisoned, Return
  <2>12. CASE SubmitFinish
    BY <2>12 DEF SubmitFinish, Return, Remembered, NoHistory
  <2> QED
    BY <1>2, <2>1, <2>2, <2>3, <2>4, <2>5, <2>6, <2>7, <2>8, <2>9, <2>10, <2>11, <2>12 DEF SubmitStep
<1>3. CASE SubmitBudgetSpent
  BY <1>3 DEF SubmitBudgetSpent
<1>4. ASSUME NEW f \in Frames, submissions < MaxSubmissions, SubmitBegin(f)
      PROVE  HistoryInv'
  BY <1>4 DEF SubmitBegin, Stale
<1>5. CASE ObserveCompletionTimeout
  BY <1>5 DEF ObserveCompletionTimeout
<1>6. CASE SetSetting
  BY <1>6 DEF SetSetting
<1>7. CASE SetProperties
  BY <1>7 DEF SetProperties
<1>8. CASE EngineStart
  BY <1>8 DEF EngineStart
<1>9. CASE EngineReset
  BY <1>9 DEF EngineReset
<1>10. CASE Tick
  BY <1>10 DEF Tick
<1>11. CASE UNCHANGED vars
  BY <1>11 DEF vars
<1> QED
  BY <1>1, <1>2, <1>3, <1>4, <1>5, <1>6, <1>7, <1>8, <1>9, <1>10, <1>11 DEF Next, Submit

\* Between two Submits the quality history is the last image the engine accepted,
\* prepared under the settings Submit last saw.
THEOREM HistoryIsAccepted == Spec => []HistoryIsLastTarget
<1>1. Init => HistoryInv
  BY DEF Init, HistoryInv
<1>2. Spec => []HistoryInv
  BY <1>1, HistoryInvKept, WhiteInvAlways, PTL DEF Spec
<1>3. HistoryInv => HistoryIsLastTarget
  BY DEF HistoryInv, HistoryIsLastTarget, Settled
<1> QED
  BY <1>2, <1>3, PTL

----------------------------------------------------------------------------
(* A target waits for its white                                            *)

\* There are no more update calls than markers: the engine never falls so far
\* behind that its marker is that of an image handed over a whole turn earlier.
MarkersSuffice == MaxSubmissions <= MarkerMax

\* By how many images the engine is behind, counted across a wrap of the markers:
\* no more than there were update calls.
Behind == IF engine.displaying <= engine.submitted
          THEN engine.submitted - engine.displaying
          ELSE engine.submitted + MarkerMax + 1 - engine.displaying

\* The submissions bound what the engine is behind, and a Submit under way is
\* below its own bound.
MarkerInv ==
  /\ engine.submitted \in 0..MarkerMax /\ engine.displaying \in 0..MarkerMax
  /\ submissions \in Nat /\ before \in Nat
  /\ Behind <= submissions
  /\ pc \in {"planes", "white"} => submissions < MaxSubmissions

LEMMA NextIsSuccessor ==
  ASSUME NEW m \in 0..MarkerMax
  PROVE  NextMarker(m) = IF m = MarkerMax THEN 0 ELSE m + 1
<1>1. MarkerMax \in Nat
  BY BudgetAssumption
<1>2. CASE m = MarkerMax
  <2>1. \A n \in Nat : (n + 1) % (n + 1) = 0
    OBVIOUS
  <2> QED
    BY <1>1, <1>2, <2>1 DEF NextMarker
<1>3. CASE m # MarkerMax
  <2>1. (m + 1) \in 0..MarkerMax
    BY <1>1, <1>3
  <2> QED
    BY <1>1, <1>3, <2>1, SMTT(30) DEF NextMarker
<1> QED
  BY <1>2, <1>3

\* One update call puts the engine one image further behind, or, a whole turn
\* behind, level again.
LEMMA OneFurtherBehind ==
  ASSUME MarkerInv, NEW part,
         EngineOK, engine' = Update(part), submissions' = submissions + 1
  PROVE  /\ engine'.submitted \in 0..MarkerMax /\ engine'.displaying \in 0..MarkerMax
         /\ submissions' \in Nat
         /\ Behind' <= submissions'
<1>1. engine'.displaying = engine.displaying
      /\ engine'.submitted = NextMarker(engine.submitted)
  BY DEF Update, EngineOK
<1>2. NextMarker(engine.submitted)
        = IF engine.submitted = MarkerMax THEN 0 ELSE engine.submitted + 1
  BY NextIsSuccessor DEF MarkerInv
<1> QED
  BY <1>1, <1>2, BudgetAssumption DEF MarkerInv, Behind

LEMMA MarkerInvKept ==
  MarkerInv /\ EngineOK /\ [Next]_vars => MarkerInv'
<1> SUFFICES ASSUME MarkerInv /\ EngineOK, [Next]_vars
             PROVE  MarkerInv'
  OBVIOUS
<1> USE BudgetAssumption DEF MarkerInv, EngineOK, Behind
<1>1. CASE InitializeForOneShot
  <2>1. CASE BeginInitialize
    BY <2>1 DEF BeginInitialize, RestOfInit, MayInitialize
  <2>2. CASE Preflight
    BY <2>2 DEF Preflight, Poison, RestOfInit
  <2>3. CASE LoadEngine
    BY <2>3 DEF LoadEngine, Poison, RestOfInit
  <2>4. CASE LoadColorRuntime
    BY <2>4 DEF LoadColorRuntime, Poison, RestOfInit
  <2>5. CASE InstallCompatibility
    BY <2>5 DEF InstallCompatibility, Poison, RestOfInit
  <2>6. CASE CallInitializer
    BY <2>6 DEF CallInitializer, Poison, RestOfInit
  <2>7. CASE InitializeColor
    BY <2>7 DEF InitializeColor, Poison, RestOfInit
  <2> QED
    BY <1>1, <2>1, <2>2, <2>3, <2>4, <2>5, <2>6, <2>7 DEF InitializeForOneShot
<1>2. CASE SubmitStep
  <2>1. CASE SubmitRejectPlanes
    BY <2>1 DEF SubmitRejectPlanes, Return
  <2>2. CASE SubmitPrepare
    <3>1. pc' \in {"target", "white", "map"} /\ UNCHANGED <<paired, before, engine, submissions>>
      BY <2>2 DEF SubmitPrepare, Goto
    <3> QED
      BY <2>2, <3>1 DEF SubmitPrepare
  <2>3. CASE SubmitPairTooLong
    BY <2>3 DEF SubmitPairTooLong, Return
  <2>4. CASE SubmitWhiteFails
    BY <2>4 DEF SubmitWhiteFails, ReturnPoisoned, Return
  <2>5. CASE SubmitWhite
    <3>1. engine' = Update("white") /\ submissions' = submissions + 1
          /\ before' = engine.submitted /\ pc' \in {"map", "idle"}
      BY <2>5 DEF SubmitWhite
    <3> QED
      BY <3>1, OneFurtherBehind
  <2>6. CASE SubmitMapTarget
    BY <2>6 DEF SubmitMapTarget, Goto, MappingFailed, ReturnPoisoned, Return
  <2>7. CASE SubmitGap
    BY <2>7 DEF SubmitGap, Goto
  <2>8. CASE SubmitGuardPassed
    BY <2>8 DEF SubmitGuardPassed, Goto
  <2>9. CASE SubmitGuardStops
    BY <2>9 DEF SubmitGuardStops, ReturnPoisoned, Return
  <2>10. CASE SubmitTargetDrifted
    BY <2>10 DEF SubmitTargetDrifted, ReturnPoisoned, Return
  <2>11. CASE SubmitTarget
    <3>1. /\ engine' = Update(IF paired THEN "target" ELSE "single")
          /\ submissions' = submissions + 1
          /\ before' \in {before, engine.submitted}
          /\ pc' \in {"targetGuard", "finish", "idle"}
      BY <2>11 DEF SubmitTarget, ReturnPoisoned, Return
    <3> QED
      BY <3>1, OneFurtherBehind
  <2>12. CASE SubmitFinish
    BY <2>12 DEF SubmitFinish, Return
  <2> QED
    BY <1>2, <2>1, <2>2, <2>3, <2>4, <2>5, <2>6, <2>7, <2>8, <2>9, <2>10, <2>11, <2>12 DEF SubmitStep
<1>3. CASE SubmitBudgetSpent
  BY <1>3 DEF SubmitBudgetSpent
<1>4. ASSUME NEW f \in Frames, submissions < MaxSubmissions, SubmitBegin(f)
      PROVE  MarkerInv'
  BY <1>4 DEF SubmitBegin
<1>5. CASE ObserveCompletionTimeout
  BY <1>5 DEF ObserveCompletionTimeout
<1>6. CASE SetSetting
  BY <1>6 DEF SetSetting
<1>7. CASE SetProperties
  BY <1>7 DEF SetProperties
<1>8. CASE EngineStart
  BY <1>8 DEF EngineStart
<1>9. CASE EngineReset
  BY <1>9 DEF EngineReset
<1>10. CASE Tick
  BY <1>10 DEF Tick
<1>11. CASE UNCHANGED vars
  BY <1>11 DEF vars
<1> QED
  BY <1>1, <1>2, <1>3, <1>4, <1>5, <1>6, <1>7, <1>8, <1>9, <1>10, <1>11 DEF Next, Submit

\* From the white's update call on it is the last image, and the marker the guard
\* waits for is the one that starts it; the target is handed over on its panel.
PairInv ==
  /\ paired /\ pc \in {"map", "gap", "whiteGuard", "target"}
       => /\ engine.last = [image |-> frame.image, part |-> "white"]
          /\ engine.submitted = before + 1 /\ engine.displaying = engine.submitted
               => engine.shown = engine.last
  /\ paired /\ pc = "target" => engine.shown = engine.last
  /\ WhiteShownBeforeTarget

LEMMA PairInvKept ==
  ASSUME MarkersSuffice
  PROVE  PairInv /\ MarkerInv /\ WhiteInv /\ EngineOK /\ [Next]_vars => PairInv'
<1> SUFFICES ASSUME PairInv /\ MarkerInv /\ WhiteInv /\ EngineOK, [Next]_vars
             PROVE  PairInv'
  OBVIOUS
<1> USE DEF PairInv, WhiteShownBeforeTarget, WhiteInv, EngineOK
<1>1. CASE InitializeForOneShot
  <2>1. CASE BeginInitialize
    BY <2>1 DEF BeginInitialize, RestOfInit, MayInitialize
  <2>2. CASE Preflight
    BY <2>2 DEF Preflight, Poison, RestOfInit
  <2>3. CASE LoadEngine
    BY <2>3 DEF LoadEngine, Poison, RestOfInit
  <2>4. CASE LoadColorRuntime
    BY <2>4 DEF LoadColorRuntime, Poison, RestOfInit
  <2>5. CASE InstallCompatibility
    BY <2>5 DEF InstallCompatibility, Poison, RestOfInit
  <2>6. CASE CallInitializer
    BY <2>6 DEF CallInitializer, Poison, RestOfInit
  <2>7. CASE InitializeColor
    BY <2>7 DEF InitializeColor, Poison, RestOfInit
  <2> QED
    BY <1>1, <2>1, <2>2, <2>3, <2>4, <2>5, <2>6, <2>7 DEF InitializeForOneShot
<1>2. CASE SubmitStep
  <2>1. CASE SubmitRejectPlanes
    BY <2>1 DEF SubmitRejectPlanes, Return
  <2>2. CASE SubmitPrepare
    BY <2>2 DEF SubmitPrepare, Goto
  <2>3. CASE SubmitPairTooLong
    BY <2>3 DEF SubmitPairTooLong, Return
  <2>4. CASE SubmitWhiteFails
    BY <2>4 DEF SubmitWhiteFails, ReturnPoisoned, Return
  <2>5. CASE SubmitWhite
    <3>1. NextMarker(engine.submitted) = engine.submitted + 1
      BY <2>5, NextIsSuccessor, BudgetAssumption
         DEF SubmitWhite, CanTrackNextEngineMarker, MarkerInv
    <3>2. submissions < MaxSubmissions
      BY <2>5 DEF SubmitWhite, MarkerInv
    <3>3. engine.displaying # engine.submitted + 1
      BY <3>2, BudgetAssumption DEF MarkersSuffice, MarkerInv, Behind
    <3> QED
      BY <2>5, <3>1, <3>3 DEF SubmitWhite, Update, MarkerInv
  <2>6. CASE SubmitMapTarget
    BY <2>6 DEF SubmitMapTarget, Goto, MappingFailed, ReturnPoisoned, Return
  <2>7. CASE SubmitGap
    BY <2>7 DEF SubmitGap, Goto
  <2>8. CASE SubmitGuardPassed
    BY <2>8 DEF SubmitGuardPassed, Goto, WhiteMayBeFollowed, CheckEngineMarkerStart
  <2>9. CASE SubmitGuardStops
    BY <2>9 DEF SubmitGuardStops, ReturnPoisoned, Return
  <2>10. CASE SubmitTargetDrifted
    BY <2>10 DEF SubmitTargetDrifted, ReturnPoisoned, Return
  <2>11. CASE SubmitTarget
    BY <2>11 DEF SubmitTarget, Update, ReturnPoisoned, Return
  <2>12. CASE SubmitFinish
    BY <2>12 DEF SubmitFinish, Return
  <2> QED
    BY <1>2, <2>1, <2>2, <2>3, <2>4, <2>5, <2>6, <2>7, <2>8, <2>9, <2>10, <2>11, <2>12 DEF SubmitStep
<1>3. CASE SubmitBudgetSpent
  BY <1>3 DEF SubmitBudgetSpent
<1>4. ASSUME NEW f \in Frames, submissions < MaxSubmissions, SubmitBegin(f)
      PROVE  PairInv'
  BY <1>4 DEF SubmitBegin
<1>5. CASE ObserveCompletionTimeout
  BY <1>5 DEF ObserveCompletionTimeout
<1>6. CASE SetSetting
  BY <1>6 DEF SetSetting
<1>7. CASE SetProperties
  BY <1>7 DEF SetProperties
<1>8. CASE EngineStart
  BY <1>8 DEF EngineStart
<1>9. CASE EngineReset
  BY <1>9 DEF EngineReset, MarkerInv
<1>10. CASE Tick
  BY <1>10 DEF Tick
<1>11. CASE UNCHANGED vars
  BY <1>11 DEF vars
<1> QED
  BY <1>1, <1>2, <1>3, <1>4, <1>5, <1>6, <1>7, <1>8, <1>9, <1>10, <1>11 DEF Next, Submit

\* A target the engine has not started finds its own white on the panel.
THEOREM TargetFollowsItsWhite ==
  ASSUME MarkersSuffice
  PROVE  Spec => []WhiteShownBeforeTarget
<1>1. Init => MarkerInv /\ PairInv
  BY BudgetAssumption DEF Init, MarkerInv, PairInv, WhiteShownBeforeTarget, Behind, Blank
<1>2. PairInv => WhiteShownBeforeTarget
  BY DEF PairInv
<1> QED
  BY <1>1, <1>2, MarkerInvKept, PairInvKept, WhiteInvAlways, PTL DEF Spec

=============================================================================
