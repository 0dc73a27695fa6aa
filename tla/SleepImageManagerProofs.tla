------------------------ MODULE SleepImageManagerProofs ------------------------
(***************************************************************************)
(* What SleepImageManager promises for every mode, every store and any     *)
(* number of screen-offs, losses and deaths, as long as the system server  *)
(* itself has not restarted: a cycle that holds the panel is one the       *)
(* manager will disarm, and what it shows is the retained catalog.         *)
(***************************************************************************)
EXTENDS SleepImageManager, TLAPS

USE DEF catalogVars, latchVars, setupVars, sessionVars, powerVars, screenVars, modeVars,
        requestVars, linkVars, refreshVars, providerVars, historyVars, managerVars

\* What the invariants below speak of.
owedVars == <<active_epoch, setup, mScreenOff, mSleepPresentationRequested, mEpoch, restarts>>
catalogsVars == <<mEpoch, catalog_epoch, pending, replay, pipe_epoch, pipe_catalog,
                  mRetainedCatalog, mSleepImageMode, restarts>>

----------------------------------------------------------------------------
(* Who disarms                                                             *)

\* Only a running pipeline is presented anything, so that disarming it works.
OwedInv ==
  /\ active_epoch # 0 => setup = "running"
  /\ ActiveIsOwed

\* Ending the screen-off state ends the cycle.
LEMMA WithdrawEndsCycle ==
  ASSUME OwedInv, Unbroken, Withdraw
  PROVE  active_epoch' = 0
BY DEF OwedInv, ActiveIsOwed, Withdraw, Withdraws, DisarmSleepCycle, DisarmAccepted,
       HasPipeline

LEMMA CancelKeepsOwed ==
  ASSUME OwedInv, Cancel, UNCHANGED <<setup, restarts>>
  PROVE  OwedInv'
<1>1. CASE mScreenOff
  <2>1. Withdraw
    BY <1>1 DEF Cancel
  <2>2. active_epoch' = 0 \/ ~Unbroken
    BY <2>1, WithdrawEndsCycle
  <2>3. active_epoch' \in {0, active_epoch}
    BY <2>1 DEF Withdraw, DisarmSleepCycle
  <2> QED
    BY <2>2, <2>3 DEF OwedInv, ActiveIsOwed, Unbroken
<1>2. CASE ~mScreenOff
  BY <1>2 DEF Cancel, OwedInv, ActiveIsOwed, Unbroken
<1> QED
  BY <1>1, <1>2

LEMMA OwedKept == OwedInv /\ [Next]_vars => OwedInv'
<1> SUFFICES ASSUME OwedInv, [Next]_vars
             PROVE  OwedInv'
  OBVIOUS
<1>0. CASE UNCHANGED owedVars
  BY <1>0 DEF owedVars, OwedInv, ActiveIsOwed, Unbroken
<1>1. CASE Power
  <2>1. CASE RequestOff \/ RetryOff \/ GuardElapses \/ TurnOn
    <3>1. UNCHANGED owedVars
      BY <2>1 DEF RequestOff, RetryOff, PowerOff, GuardElapses, TurnOn, PowerRest, owedVars
    <3> QED
      BY <3>1, <1>0
  <2>2. CASE RequestOn
    <3>1. CASE powerOffPending
      BY <2>2, <3>1, CancelKeepsOwed DEF RequestOn, PowerRest
    <3>2. CASE ~powerOffPending
      BY <2>2, <3>2, <1>0 DEF RequestOn, PowerRest, owedVars
    <3> QED
      BY <3>1, <3>2
  <2>3. CASE AbandonOff
    BY <2>3, CancelKeepsOwed DEF AbandonOff, PowerRest
  <2>4. CASE TurnOff
    <3>1. CASE mScreenOff
      BY <2>4, <3>1, <1>0 DEF TurnOff, PowerRest, owedVars
    <3>2. CASE ~mScreenOff
      BY <2>4, <3>2 DEF TurnOff, PowerRest, Begin, PresentSleepImage, PresentAccepted,
                        DisarmSleepCycle, OwedInv, ActiveIsOwed, Unbroken
    <3> QED
      BY <3>1, <3>2
  <2> QED
    BY <1>1, <2>1, <2>2, <2>3, <2>4 DEF Power
<1>2. CASE Handler
  <2>1. CASE ObserveOff
    BY <2>1 DEF ObserveOff, HandlerRest, OwedInv, ActiveIsOwed, Unbroken
  <2>2. CASE ObserveOn
    <3>1. CASE mScreenOff
      <4>1. Withdraw /\ UNCHANGED <<setup, mEpoch, restarts>>
        BY <2>2, <3>1 DEF ObserveOn
      <4>2. active_epoch' = 0 \/ ~Unbroken
        BY <4>1, WithdrawEndsCycle
      <4>3. active_epoch' \in {0, active_epoch}
        BY <4>1 DEF Withdraw, DisarmSleepCycle
      <4> QED
        BY <4>1, <4>2, <4>3 DEF OwedInv, ActiveIsOwed, Unbroken
    <3>2. CASE ~mScreenOff
      BY <2>2, <3>2, <1>0 DEF ObserveOn, owedVars
    <3> QED
      BY <3>1, <3>2
  <2>3. CASE ProviderCallback
    <3>1. mScreenOff => mEpoch' = mEpoch
      BY <2>3 DEF ProviderCallback, Drop
    <3> QED
      BY <2>3, <3>1 DEF ProviderCallback, OwedInv, ActiveIsOwed, Unbroken
  <2>4. CASE UNCHANGED owedVars
    BY <2>4, <1>0
  <2> QED
    BY <1>2, <2>1, <2>2, <2>3, <2>4
       DEF Handler, WorkerRequest, UserUnlocked, ServiceConnected, ServiceDisconnected,
           RefreshSleepImageMode, RequestTimeout, HandlerRest, AskingRest, owedVars
<1>3. CASE Outside
  <2>1. CASE SystemServerRestarts
    BY <2>1 DEF SystemServerRestarts, OwedInv, ActiveIsOwed, Unbroken
  <2>2. CASE SurfaceFlinger
    BY <2>2 DEF SurfaceFlinger, Composition, SetupFails, PublishPipeline, ReplayAndStart,
                Capture, OwedInv, ActiveIsOwed, Unbroken
  <2>3. CASE UNCHANGED owedVars
    BY <2>3, <1>0
  <2> QED
    BY <1>3, <2>1, <2>2, <2>3
       DEF Outside, ProviderStarts, ProviderDies, ProviderAnswers, CommitAndRefresh, SetMode,
           PropertyChanges, SetProperty, OutsideRest, owedVars
<1>4. CASE UNCHANGED vars
  BY <1>4, <1>0 DEF vars, owedVars
<1> QED
  BY <1>1, <1>2, <1>3, <1>4 DEF Next

\* A cycle that is active in SurfaceFlinger, which then shows no page, is one the
\* manager knows it presented and will disarm.
THEOREM CyclesAreOwed == Spec => []ActiveIsOwed
<1>1. Init => OwedInv
  BY DEF Init, SessionInit, OwedInv, ActiveIsOwed
<1>2. OwedInv => ActiveIsOwed
  BY DEF OwedInv
<1> QED
  BY <1>1, <1>2, OwedKept, PTL DEF Spec

----------------------------------------------------------------------------
(* What is shown                                                           *)

\* Wherever a catalog of the newest epoch is, it is the retained one.
CatalogsInv ==
  Unbroken =>
    /\ mEpoch \in Nat
    /\ pending.epoch \in 0..mEpoch /\ replay.epoch \in 0..mEpoch /\ pipe_epoch \in 0..mEpoch
    /\ mRetainedCatalog # NoCatalog /\ mSleepImageMode # "keep" =>
         /\ pending.epoch = mEpoch /\ mEpoch # 0 => pending.catalog.images = mRetainedCatalog
         /\ replay.epoch = mEpoch /\ mEpoch # 0 => replay.catalog.images = mRetainedCatalog
         /\ pipe_epoch = mEpoch /\ mEpoch # 0 => pipe_catalog.images = mRetainedCatalog

\* Publishing under the next epoch leaves the older catalogs with older ones.
LEMMA RepublishKeepsCatalogs ==
  ASSUME CatalogsInv, NEW retained, Republish(retained), mRetainedCatalog' = retained,
         UNCHANGED <<replay, mSleepImageMode, restarts>>
  PROVE  CatalogsInv'
BY DEF Republish, NextEpoch, PublishSleepImageCatalog, PipelineTakes, SessionKeeps,
       CatalogsInv, Unbroken

LEMMA CancelKeepsCatalogs ==
  ASSUME CatalogsInv, Cancel, UNCHANGED <<replay, mRetainedCatalog, mSleepImageMode, restarts>>
  PROVE  CatalogsInv'
<1>1. CASE mScreenOff /\ mSleepPresentationRequested /\ mRetainedCatalog # NoCatalog
  BY <1>1, RepublishKeepsCatalogs DEF Cancel
<1>2. CASE ~(mScreenOff /\ mSleepPresentationRequested /\ mRetainedCatalog # NoCatalog)
  BY <1>2 DEF Cancel, CatalogsInv, Unbroken
<1> QED
  BY <1>1, <1>2

LEMMA CatalogsKept == CatalogsInv /\ [Next]_vars => CatalogsInv'
<1> SUFFICES ASSUME CatalogsInv, [Next]_vars
             PROVE  CatalogsInv'
  OBVIOUS
<1>0. CASE UNCHANGED catalogsVars
  BY <1>0 DEF catalogsVars, CatalogsInv, Unbroken
<1>1. CASE Power
  <2>1. CASE RequestOff \/ RetryOff \/ GuardElapses \/ TurnOn \/ TurnOff
    <3>1. UNCHANGED catalogsVars
      BY <2>1 DEF RequestOff, RetryOff, PowerOff, GuardElapses, TurnOn, TurnOff, PowerRest,
                  catalogsVars
    <3> QED
      BY <3>1, <1>0
  <2>2. CASE RequestOn
    <3>1. CASE powerOffPending
      BY <2>2, <3>1, CancelKeepsCatalogs DEF RequestOn, PowerRest
    <3>2. CASE ~powerOffPending
      BY <2>2, <3>2, <1>0 DEF RequestOn, PowerRest, catalogsVars
    <3> QED
      BY <3>1, <3>2
  <2>3. CASE AbandonOff
    BY <2>3, CancelKeepsCatalogs DEF AbandonOff, PowerRest
  <2> QED
    BY <1>1, <2>1, <2>2, <2>3 DEF Power
<1>2. CASE Handler
  <2>1. CASE ProviderCallback
    <3>1. UNCHANGED <<replay, mSleepImageMode, restarts>>
      BY <2>1 DEF ProviderCallback
    <3>2. CASE Drop
      BY <3>1, <3>2, <1>0 DEF Drop, catalogsVars
    <3>3. CASE Retain(Head(answers).catalog)
      <4>1. CASE ShowsImage
        BY <3>1, <3>3, <4>1, RepublishKeepsCatalogs DEF Retain
      <4>2. CASE ~ShowsImage
        BY <3>1, <3>3, <4>2 DEF Retain, ShowsImage, CatalogsInv, Unbroken
      <4> QED
        BY <4>1, <4>2
    <3> QED
      BY <2>1, <3>2, <3>3 DEF ProviderCallback
  <2>2. CASE RefreshSleepImageMode
    BY <2>2 DEF RefreshSleepImageMode, AskingRest, CatalogsInv, Unbroken
  <2>3. CASE UNCHANGED catalogsVars
    BY <2>3, <1>0
  <2> QED
    BY <1>2, <2>1, <2>2, <2>3
       DEF Handler, ObserveOff, ObserveOn, WorkerRequest, UserUnlocked, ServiceConnected,
           ServiceDisconnected, RequestTimeout, HandlerRest, AskingRest, catalogsVars
<1>3. CASE Outside
  <2>1. CASE SystemServerRestarts
    BY <2>1 DEF SystemServerRestarts, CatalogsInv, Unbroken
  <2>2. CASE SurfaceFlinger
    BY <2>2 DEF SurfaceFlinger, Composition, SetupFails, PublishPipeline, ReplayAndStart,
                Capture, Newer, Nothing, CatalogsInv, Unbroken
  <2>3. CASE UNCHANGED catalogsVars
    BY <2>3, <1>0
  <2> QED
    BY <1>3, <2>1, <2>2, <2>3
       DEF Outside, ProviderStarts, ProviderDies, ProviderAnswers, CommitAndRefresh, SetMode,
           PropertyChanges, SetProperty, OutsideRest, catalogsVars
<1>4. CASE UNCHANGED vars
  BY <1>4, <1>0 DEF vars, catalogsVars
<1> QED
  BY <1>1, <1>2, <1>3, <1>4 DEF Next

\* A cycle begins only when the screen turns off, with the pipeline's catalog of
\* the manager's epoch.
LEMMA CyclesBegin ==
  ASSUME [Next]_vars, active_epoch = 0, active_epoch' # 0
  PROVE  /\ PresentAccepted(mEpoch) /\ panel' = pipe_catalog
         /\ mSleepImageMode # "keep"
<1>1. TurnOff /\ ~mScreenOff
  BY DEF Next, vars, Power, RequestOff, RetryOff, PowerOff, GuardElapses, TurnOn, TurnOff,
         AbandonOff, RequestOn, Cancel, Withdraw, PowerRest,
         Handler, ObserveOff, ObserveOn, WorkerRequest, UserUnlocked, ServiceConnected,
         ServiceDisconnected, RefreshSleepImageMode, RequestTimeout, ProviderCallback,
         HandlerRest, AskingRest, DisarmSleepCycle,
         Outside, ProviderStarts, ProviderDies, ProviderAnswers, CommitAndRefresh, SetMode,
         SystemServerRestarts, SurfaceFlinger, Composition, SetupFails, PublishPipeline,
         ReplayAndStart, Capture, PropertyChanges, SetProperty, OutsideRest
<1> QED
  BY <1>1 DEF TurnOff, Begin, ShowsImage, PresentSleepImage, DisarmSleepCycle

\* What a sleep cycle shows is the catalog the manager retains, never one the
\* application has replaced since.
THEOREM RetainedIsShown == Spec => ShownIsRetained
<1>1. Init => CatalogsInv
  BY DEF Init, SessionInit, CatalogsInv, Nothing
<1>2. CatalogsInv /\ [Next]_vars =>
        [active_epoch = 0 /\ active_epoch' # 0 /\ Unbroken /\ mRetainedCatalog # NoCatalog
           => panel'.images = mRetainedCatalog]_vars
  BY CyclesBegin DEF PresentAccepted, CatalogsInv
<1> QED
  BY <1>1, <1>2, CatalogsKept, PTL DEF Spec, ShownIsRetained

=============================================================================
