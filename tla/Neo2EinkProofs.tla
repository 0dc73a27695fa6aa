--------------------------- MODULE Neo2EinkProofs ---------------------------
(***************************************************************************)
(* What Neo2Eink promises for every value of its constants: the pipeline   *)
(* ends up with the catalog the session accepted last, and the engine's    *)
(* own clock never overtakes the adapter's.                                *)
(***************************************************************************)
EXTENDS Neo2Eink, TLAPS

----------------------------------------------------------------------------
(* The catalog: kept by the session, replayed to the pipeline              *)

Lives == {"waiting", "replay", "running", "failed"}

\* Wherever the newest catalog is, it is the newest that anybody has: with the
\* session until the pipeline exists, with one of the two while it is replayed,
\* and with the pipeline from then on.
CatalogInv ==
  /\ life \in Lives
  /\ session_epoch \in Nat /\ waiting.epoch \in Nat /\ catalog.epoch \in Nat
  /\ life = "waiting" => catalog.epoch = 0 /\ waiting.epoch = session_epoch
  /\ life = "replay" =>
       /\ waiting.epoch <= session_epoch
       /\ catalog.epoch <= session_epoch
       /\ session_epoch \in {waiting.epoch, catalog.epoch}
  /\ life = "running" => catalog.epoch = session_epoch

catalogVars == <<life, session_epoch, waiting, catalog>>

\* Three actions write what the invariant is about.
LEMMA CatalogSteps ==
  ASSUME [Next]_vars
  PROVE  \/ MaybeStartM3 \/ ReplayAndStart
         \/ \E e \in 1..MaxEpoch, m \in Modes : PublishSleepImageCatalog(e, m)
         \/ UNCHANGED catalogVars
<1> USE DEF catalogVars, sleepVars, sessionVars
<1>1. CASE Binder
  BY <1>1 DEF Binder, PresentSleepImage, DisarmSleepCycle
<1>2. CASE Compose \/ Repaint \/ SwitchSource
  BY <1>2 DEF Compose, Repaint, SwitchSource, Composed, Incident
<1>3. CASE Capture
  BY <1>3 DEF Capture, CaptureDisarmed, CaptureArmed, SkipRetained, Defer, Attempt,
              AcquireSlot, CopyFails, OnCapturedComposition
<1>4. CASE Convert
  BY <1>4 DEF Convert, ConversionTake, ConversionFails, ConversionSuperseded,
              ConversionCurrent, Evaluate, AssembleFrame, EnqueueConverted, ConversionFinish
<1>5. CASE Submit
  BY <1>5 DEF Submit, SubmitTake, EngineRefuses, EngineUpdates, UpdateReturns,
              SubmitReturns, OnEngineSubmission
<1>6. CASE PassTime \/ WriteProperty
  BY <1>6 DEF PassTime, WriteProperty
<1>7. CASE UNCHANGED vars
  BY <1>7 DEF vars
<1> QED
  BY <1>1, <1>2, <1>3, <1>4, <1>5, <1>6, <1>7 DEF Next

\* A catalog published before, during or after the replay of an older one is the
\* pipeline's catalog once it runs (ReplayAndStart, PublishSleepImageCatalog).
THEOREM ReplayLosesNoCatalog == Spec => []CatalogsAgree
<1>1. Init => CatalogInv
  BY DEF Init, CatalogInv, Lives, NoCatalog
<1>2. CatalogInv /\ [Next]_vars => CatalogInv'
  <2> SUFFICES ASSUME CatalogInv, [Next]_vars
               PROVE  CatalogInv'
    OBVIOUS
  <2> USE DEF CatalogInv, Lives, sessionVars
  <2>1. CASE MaybeStartM3
    BY <2>1 DEF MaybeStartM3, sleepVars
  <2>2. CASE ReplayAndStart
    BY <2>2 DEF ReplayAndStart, Replayed, NoCatalog
  <2>3. ASSUME NEW e \in 1..MaxEpoch, NEW m \in Modes, PublishSleepImageCatalog(e, m)
        PROVE  CatalogInv'
    BY <2>3, Neo2Assumption DEF PublishSleepImageCatalog
  <2>4. CASE UNCHANGED catalogVars
    BY <2>4 DEF catalogVars
  <2> QED
    BY <2>1, <2>2, <2>3, <2>4, CatalogSteps
<1>3. CatalogInv => CatalogsAgree
  BY DEF CatalogInv, CatalogsAgree
<1> QED
  BY <1>1, <1>2, <1>3, PTL DEF Spec

----------------------------------------------------------------------------
(* Two clocks for one interval                                             *)

LEMMA MaxIntervalIsNat == MaxInterval \in Nat /\ \A i \in Intervals : i <= MaxInterval
<1>1. \E i \in Intervals : \A j \in Intervals : j <= i
  BY Neo2Assumption
<1>2. MaxInterval \in Intervals /\ \A j \in Intervals : j <= MaxInterval
  BY <1>1 DEF MaxInterval
<1> QED
  BY <1>2, Neo2Assumption

\* While a Submit is past its acceptance the engine's clock already runs again
\* and the adapter's does not.
Straddling == call.stage = "updating" \/ (call.stage = "returned" /\ call.accepted)

\* The adapter's window is never ahead of the engine's spacing once there is a
\* submission to be spaced from, and a frame that was due stays due.
PaceInv ==
  /\ interval \in Intervals
  /\ window \in 0..MaxInterval /\ spacing \in 0..MaxInterval
  /\ submissions \in Nat
  /\ call = [stage |-> call.stage, frame |-> call.frame, accepted |-> call.accepted,
             interval |-> call.interval]
  /\ call.interval \in Nat
  /\ engine \in {"stopped", "initialized", "poisoned"}
  /\ life = "waiting" => engine = "stopped"
  /\ engine = "stopped" => submissions = 0 /\ call.stage # "updating"
  /\ call.stage = "taken" => call.interval <= window
  /\ engine = "initialized" /\ submissions # 0 /\ ~Straddling => window <= spacing

paceVars == <<interval, life, window, spacing, submissions, call, engine>>

LEMMA PaceSteps ==
  ASSUME [Next]_vars
  PROVE  \/ MaybeStartM3 \/ ReplayAndStart \/ Submit \/ PassTime \/ WriteProperty
         \/ UNCHANGED paceVars
<1> USE DEF paceVars, propertyVars, sessionVars, adapterVars, engineVars
<1>1. CASE Binder
  BY <1>1 DEF Binder, PublishSleepImageCatalog, PresentSleepImage, DisarmSleepCycle
<1>2. CASE Compose \/ Repaint \/ SwitchSource
  BY <1>2 DEF Compose, Repaint, SwitchSource, Composed, Incident
<1>3. CASE Capture
  BY <1>3 DEF Capture, CaptureDisarmed, CaptureArmed, SkipRetained, Defer, Attempt,
              AcquireSlot, CopyFails, OnCapturedComposition
<1>4. CASE Convert
  BY <1>4 DEF Convert, ConversionTake, ConversionFails, ConversionSuperseded,
              ConversionCurrent, Evaluate, AssembleFrame, EnqueueConverted, ConversionFinish
<1>5. CASE UNCHANGED vars
  BY <1>5 DEF vars
<1> QED
  BY <1>1, <1>2, <1>3, <1>4, <1>5 DEF Next

LEMMA PaceInitially == Init => PaceInv
<1> SUFFICES ASSUME Init PROVE PaceInv
  OBVIOUS
<1> QED
  BY MaxIntervalIsNat DEF Init, PaceInv, Straddling, NoCall

LEMMA PaceKept == PaceInv /\ [Next]_vars => PaceInv'
<1> SUFFICES ASSUME PaceInv, [Next]_vars
             PROVE  PaceInv'
  OBVIOUS
<1> USE DEF PaceInv, Straddling
<1> USE MaxIntervalIsNat
<1>1. CASE MaybeStartM3
  BY <1>1 DEF MaybeStartM3, InitializeForOneShot, propertyVars, adapterVars
<1>2. CASE ReplayAndStart
  BY <1>2 DEF ReplayAndStart, propertyVars, adapterVars, engineVars
<1>3. CASE Submit
  <2> USE DEF propertyVars, sessionVars
  <2>1. CASE SubmitTake
    BY <2>1, Neo2Assumption DEF SubmitTake, Eligible, engineVars
  <2>2. CASE EngineRefuses
    BY <2>2 DEF EngineRefuses, engineVars
  <2>3. CASE EngineUpdates
    BY <2>3 DEF EngineUpdates
  <2>4. CASE UpdateReturns
    <3>1. submissions' \in Nat /\ engine # "stopped" /\ engine' \in {engine, "poisoned"}
      BY <2>4 DEF UpdateReturns, Counted
    <3>2. engine' = "initialized" => call'.accepted = TRUE
      BY <2>4 DEF UpdateReturns
    <3>3. /\ call'.stage = "returned"
          /\ call' = [stage |-> call'.stage, frame |-> call'.frame,
                      accepted |-> call'.accepted, interval |-> call'.interval]
          /\ call'.interval = call.interval
      BY <2>4 DEF UpdateReturns
    <3>4. UNCHANGED <<interval, window, spacing, life>>
      BY <2>4 DEF UpdateReturns
    <3> QED
      BY <3>1, <3>2, <3>3, <3>4
  <2>5. CASE SubmitReturns
    BY <2>5 DEF SubmitReturns, engineVars
  <2>6. CASE OnEngineSubmission
    BY <2>6 DEF OnEngineSubmission, engineVars, NoCall
  <2> QED
    BY <1>3, <2>1, <2>2, <2>3, <2>4, <2>5, <2>6 DEF Submit
<1>4. CASE PassTime
  BY <1>4 DEF PassTime, Later, propertyVars, sessionVars
<1>5. CASE WriteProperty
  BY <1>5 DEF WriteProperty, sessionVars, adapterVars, engineVars
<1>6. CASE UNCHANGED paceVars
  BY <1>6 DEF paceVars
<1> QED
  BY <1>1, <1>2, <1>3, <1>4, <1>5, <1>6, PaceSteps

\* The engine's own spacing check (LowerEngineDirectBackend::Submit) never turns
\* away a frame the adapter found due under the interval that still stands.
THEOREM EngineFollowsAdapter == Spec => EngineKeepsPace
<1>1. PaceInv /\ [Next]_vars
        => [ /\ call.stage = "taken" /\ call'.stage = "returned"
             /\ engine = "initialized" /\ armed /\ ~Spent
             => interval > call.interval ]_vars
  <2> SUFFICES ASSUME PaceInv, [Next]_vars,
                      call.stage = "taken", call'.stage = "returned",
                      engine = "initialized", armed, ~Spent
               PROVE  interval > call.interval
    OBVIOUS
  <2>1. CASE EngineRefuses
    <3>1. submissions # 0 /\ spacing < interval
      BY <2>1 DEF EngineRefuses, TooSoon
    <3>2. call.interval <= window /\ window <= spacing
      BY <3>1 DEF PaceInv, Straddling
    <3> QED
      BY <3>1, <3>2, MaxIntervalIsNat, Neo2Assumption DEF PaceInv
  <2>2. CASE Submit /\ ~EngineRefuses
    BY <2>2 DEF Submit, SubmitTake, EngineUpdates, UpdateReturns, SubmitReturns,
                OnEngineSubmission, PaceInv
  <2>3. CASE MaybeStartM3 \/ ReplayAndStart \/ PassTime \/ WriteProperty \/ UNCHANGED paceVars
    BY <2>3 DEF MaybeStartM3, ReplayAndStart, PassTime, WriteProperty, adapterVars, paceVars
  <2> QED
    BY <2>1, <2>2, <2>3, PaceSteps
<1> QED
  BY <1>1, PaceInitially, PaceKept, PTL DEF Spec, EngineKeepsPace
=============================================================================
