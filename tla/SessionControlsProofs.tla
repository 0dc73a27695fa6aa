------------------------ MODULE SessionControlsProofs ------------------------
(***************************************************************************)
(* What SessionControls promises for any number of sessions, catalogs and  *)
(* refreshes: no Binder call is inside a session that has begun to stop,   *)
(* and the pipeline shows the catalog its session answers for.             *)
(***************************************************************************)
EXTENDS SessionControls, TLAPS

USE DEF sessionVars, callVars, mainVars, catalogVars, refreshVars, frameVars, historyVars

----------------------------------------------------------------------------
(* The destructor and the Binder services                                  *)

\* A global names a session only until its destructor has taken the mutex.
RegisteredInv ==
  /\ registered = [control |-> registered.control, sleep |-> registered.sleep]
  /\ registered.control => life = "live"
  /\ registered.sleep => life \in {"live", "leaving"}
  /\ CallsUseLiveSession

LEMMA RegisteredKept == RegisteredInv /\ [Next]_vars => RegisteredInv'
<1> SUFFICES ASSUME RegisteredInv, [Next]_vars
             PROVE  RegisteredInv'
  OBVIOUS
<1> USE DEF RegisteredInv, CallsUseLiveSession
<1>1. CASE ControlCalls
  <2>1. CASE CallRefused
    BY <2>1 DEF CallRefused
  <2>2. CASE CallAdmitted
    BY <2>2 DEF CallAdmitted, NoCall
  <2>3. CASE CallQueued
    BY <2>3 DEF CallQueued
  <2>4. CASE CallCancelled
    BY <2>4 DEF CallCancelled
  <2> QED
    BY <1>1, <2>1, <2>2, <2>3, <2>4 DEF ControlCalls
<1>2. CASE SleepCalls
  <2>1. CASE PresentRefused
    BY <2>1 DEF PresentRefused, SleepReturns
  <2>2. ASSUME NEW epoch \in 1..MaxEpoch, PublishCatalog(epoch)
         PROVE  RegisteredInv'
    BY <2>2 DEF PublishCatalog, SleepReturns
  <2>3. ASSUME NEW epoch \in 1..MaxEpoch, PresentSleepImage(epoch)
         PROVE  RegisteredInv'
    BY <2>3 DEF PresentSleepImage, SleepReturns
  <2>4. ASSUME NEW epoch \in 1..MaxEpoch, DisarmSleepCycle(epoch)
         PROVE  RegisteredInv'
    BY <2>4 DEF DisarmSleepCycle, SleepReturns
  <2> QED
    BY <1>2, <2>1, <2>2, <2>3, <2>4 DEF SleepCalls
<1>3. CASE Worker
  <2>1. CASE WorkerTake
    BY <2>1 DEF WorkerTake
  <2>2. CASE WorkerFails
    BY <2>2 DEF WorkerFails
  <2>3. CASE WorkerChecks
    BY <2>3 DEF WorkerChecks
  <2>4. CASE WorkerRoutes
    BY <2>4 DEF WorkerRoutes
  <2>5. CASE WorkerEnqueue
    BY <2>5 DEF WorkerEnqueue
  <2> QED
    BY <1>3, <2>1, <2>2, <2>3, <2>4, <2>5 DEF Worker
<1>4. CASE Adapter
  <2>1. CASE SubmitBegin
    BY <2>1 DEF SubmitBegin
  <2>2. ASSUME NEW accepted \in BOOLEAN, SubmitEnd(accepted)
         PROVE  RegisteredInv'
    BY <2>2 DEF SubmitEnd
  <2>3. CASE AdapterStops
    BY <2>3 DEF AdapterStops
  <2> QED
    BY <1>4, <2>1, <2>2, <2>3 DEF Adapter
<1>5. CASE Main
  <2>1. CASE PublishPipeline
    BY <2>1 DEF PublishPipeline
  <2>2. CASE Replay
    BY <2>2 DEF Replay
  <2>3. CASE BeginPipeline
    BY <2>3 DEF BeginPipeline
  <2>4. CASE CaptureDisarmed
    BY <2>4 DEF CaptureDisarmed
  <2>5. CASE CaptureSwitched
    BY <2>5 DEF CaptureSwitched
  <2>6. CASE CaptureSkipped
    BY <2>6 DEF CaptureSkipped
  <2>7. CASE CaptureM3
    BY <2>7 DEF CaptureM3
  <2>8. CASE UnregisterSleep
    BY <2>8 DEF UnregisterSleep
  <2>9. CASE StopTake
    BY <2>9 DEF StopTake
  <2>10. CASE StopJoin
    BY <2>10 DEF StopJoin
  <2>11. ASSUME NEW failed \in BOOLEAN, SetupRefused(failed)
         PROVE  RegisteredInv'
    BY <2>11 DEF SetupRefused
  <2> QED
    BY <1>5, <2>1, <2>2, <2>3, <2>4, <2>5, <2>6, <2>7, <2>8, <2>9, <2>10, <2>11 DEF Main
<1>6. CASE Environment
  <2>1. CASE Construct
    BY <2>1 DEF Construct
  <2>2. CASE StartMetadataOnly
    BY <2>2 DEF StartMetadataOnly
  <2>3. CASE UnregisterControl
    BY <2>3 DEF UnregisterControl, ControlUnregistrable
  <2>4. ASSUME NEW exact \in BOOLEAN, Capture(exact)
         PROVE  RegisteredInv'
    BY <2>4 DEF Capture
  <2>5. CASE ConfigureChanged
    BY <2>5 DEF ConfigureChanged, CallEnters
  <2>6. CASE RefreshCall
    BY <2>6 DEF RefreshCall, CallEnters
  <2>7. CASE SleepEnter
    BY <2>7 DEF SleepEnter
  <2> QED
    BY <1>6, <2>1, <2>2, <2>3, <2>4, <2>5, <2>6, <2>7 DEF Environment
<1>7. CASE UNCHANGED vars
  BY <1>7 DEF vars
<1> QED
  BY <1>1, <1>2, <1>3, <1>4, <1>5, <1>6, <1>7 DEF Next

\* No control and no sleep call is inside a session whose destructor has begun to
\* take it apart.
THEOREM NoCallInDyingSession == Spec => []CallsUseLiveSession
<1>1. Init => RegisteredInv
  BY DEF Init, RegisteredInv, CallsUseLiveSession
<1>2. RegisteredInv => CallsUseLiveSession
  BY DEF RegisteredInv
<1> QED
  BY <1>1, <1>2, RegisteredKept, PTL DEF Spec

----------------------------------------------------------------------------
(* The catalog, published while the pipeline comes into being              *)

\* Before the pipeline exists the session keeps the catalog for it; between its
\* publication and the replay, the carried catalog is the session's or an older one.
CatalogInv ==
  /\ carried \in Nat /\ catalog \in Nat /\ pending \in Nat /\ pipe_catalog \in Nat
  /\ main # "idle" => life = "live"
  /\ main = "setup" => pipeline = "none"
  /\ main \in {"replay", "begin"} <=> pipeline = "published"
  /\ pipeline = "none" => pipe_catalog = 0 /\ pending = catalog
  /\ pipeline # "none" => pending = 0 \/ pipeline = "stopping"
  /\ main = "replay" => \/ pipe_catalog = 0 /\ catalog = carried
                        \/ pipe_catalog = catalog /\ catalog >= carried
  /\ main = "begin" => pipe_catalog = catalog
  /\ CatalogAgrees

LEMMA CatalogKept == CatalogInv /\ [Next]_vars => CatalogInv'
<1> SUFFICES ASSUME CatalogInv, [Next]_vars
             PROVE  CatalogInv'
  OBVIOUS
<1> USE DEF CatalogInv, CatalogAgrees, Running
<1>1. CASE ControlCalls
  <2>1. CASE CallRefused
    BY <2>1 DEF CallRefused
  <2>2. CASE CallAdmitted
    BY <2>2 DEF CallAdmitted, NoCall
  <2>3. CASE CallQueued
    BY <2>3 DEF CallQueued
  <2>4. CASE CallCancelled
    BY <2>4 DEF CallCancelled
  <2> QED
    BY <1>1, <2>1, <2>2, <2>3, <2>4 DEF ControlCalls
<1>2. CASE SleepCalls
  <2>1. CASE PresentRefused
    BY <2>1 DEF PresentRefused, SleepReturns
  <2>2. ASSUME NEW epoch \in 1..MaxEpoch, PublishCatalog(epoch)
         PROVE  CatalogInv'
    BY <2>2 DEF PublishCatalog, SleepReturns, PipelineAccepts
  <2>3. ASSUME NEW epoch \in 1..MaxEpoch, PresentSleepImage(epoch)
         PROVE  CatalogInv'
    BY <2>3 DEF PresentSleepImage, SleepReturns
  <2>4. ASSUME NEW epoch \in 1..MaxEpoch, DisarmSleepCycle(epoch)
         PROVE  CatalogInv'
    BY <2>4 DEF DisarmSleepCycle, SleepReturns
  <2> QED
    BY <1>2, <2>1, <2>2, <2>3, <2>4 DEF SleepCalls
<1>3. CASE Worker
  <2>1. CASE WorkerTake
    BY <2>1 DEF WorkerTake
  <2>2. CASE WorkerFails
    BY <2>2 DEF WorkerFails
  <2>3. CASE WorkerChecks
    BY <2>3 DEF WorkerChecks
  <2>4. CASE WorkerRoutes
    BY <2>4 DEF WorkerRoutes
  <2>5. CASE WorkerEnqueue
    BY <2>5 DEF WorkerEnqueue
  <2> QED
    BY <1>3, <2>1, <2>2, <2>3, <2>4, <2>5 DEF Worker
<1>4. CASE Adapter
  <2>1. CASE SubmitBegin
    BY <2>1 DEF SubmitBegin
  <2>2. ASSUME NEW accepted \in BOOLEAN, SubmitEnd(accepted)
         PROVE  CatalogInv'
    BY <2>2 DEF SubmitEnd
  <2>3. CASE AdapterStops
    BY <2>3 DEF AdapterStops
  <2> QED
    BY <1>4, <2>1, <2>2, <2>3 DEF Adapter
<1>5. CASE Main
  <2>1. CASE PublishPipeline
    BY <2>1 DEF PublishPipeline
  <2>2. CASE Replay
    BY <2>2 DEF Replay, PipelineAccepts
  <2>3. CASE BeginPipeline
    BY <2>3 DEF BeginPipeline
  <2>4. CASE CaptureDisarmed
    BY <2>4 DEF CaptureDisarmed
  <2>5. CASE CaptureSwitched
    BY <2>5 DEF CaptureSwitched
  <2>6. CASE CaptureSkipped
    BY <2>6 DEF CaptureSkipped
  <2>7. CASE CaptureM3
    BY <2>7 DEF CaptureM3
  <2>8. CASE UnregisterSleep
    BY <2>8 DEF UnregisterSleep
  <2>9. CASE StopTake
    BY <2>9 DEF StopTake
  <2>10. CASE StopJoin
    BY <2>10 DEF StopJoin, Fresh
  <2>11. ASSUME NEW failed \in BOOLEAN, SetupRefused(failed)
         PROVE  CatalogInv'
    BY <2>11 DEF SetupRefused
  <2> QED
    BY <1>5, <2>1, <2>2, <2>3, <2>4, <2>5, <2>6, <2>7, <2>8, <2>9, <2>10, <2>11 DEF Main
<1>6. CASE Environment
  <2>1. CASE Construct
    BY <2>1 DEF Construct, Fresh
  <2>2. CASE StartMetadataOnly
    BY <2>2 DEF StartMetadataOnly
  <2>3. CASE UnregisterControl
    BY <2>3 DEF UnregisterControl, ControlUnregistrable
  <2>4. ASSUME NEW exact \in BOOLEAN, Capture(exact)
         PROVE  CatalogInv'
    BY <2>4 DEF Capture
  <2>5. CASE ConfigureChanged
    BY <2>5 DEF ConfigureChanged, CallEnters
  <2>6. CASE RefreshCall
    BY <2>6 DEF RefreshCall, CallEnters
  <2>7. CASE SleepEnter
    BY <2>7 DEF SleepEnter
  <2> QED
    BY <1>6, <2>1, <2>2, <2>3, <2>4, <2>5, <2>6, <2>7 DEF Environment
<1>7. CASE UNCHANGED vars
  BY <1>7 DEF vars
<1> QED
  BY <1>1, <1>2, <1>3, <1>4, <1>5, <1>6, <1>7 DEF Next

\* However publications race with the creation of the pipeline, a running pipeline
\* has the catalog its session answers for.
THEOREM PipelineHasTheCatalog == Spec => []CatalogAgrees
<1>1. Init => CatalogInv
  BY DEF Init, CatalogInv, CatalogAgrees, Running
<1>2. CatalogInv => CatalogAgrees
  BY DEF CatalogInv
<1> QED
  BY <1>1, <1>2, CatalogKept, PTL DEF Spec

=============================================================================
