----------------------------- MODULE SleepSession -----------------------------
(***************************************************************************)
(* SurfaceFlinger's side of the sleep image: the "neo2_sleep_image" binder *)
(* and the capture session behind it.  The binder thread publishes a       *)
(* catalog under an epoch, presents its selected image and disarms the     *)
(* cycle; the composition thread creates the pipeline at the first capture *)
(* the presentation property permits.                                      *)
(*                                                                         *)
(* A catalog accepted before there is a pipeline is kept by the session    *)
(* and replayed to the pipeline once that exists; the session's mutex is   *)
(* released in between.  Of the pipeline only what the binder calls meet   *)
(* is here (module EinkPipeline has the rest): its own catalog, the latch, *)
(* whether it runs and is enabled, and whether it retains a background.    *)
(* ArmSleepCycle is not reached by the binder and is left out.             *)
(*                                                                         *)
(* This module has no specification of its own: the binder's only client,  *)
(* module SleepImageManager, extends it.                                   *)
(***************************************************************************)
EXTENDS Naturals

CONSTANTS NoCatalog, \* no catalog
          Page       \* on the panel: an ordinary page

VARIABLES
  setup,          \* the pipeline: none, published, running, failed
  armed,          \* debug.neo2.eink.enabled, read at every capture
  catalog_epoch,  \* sleep_image_catalog_epoch of the session
  pending,        \* pending_sleep_image_catalog, [epoch, catalog]
  replay,         \* what MaybeStartM3 took out of pending and has to replay
  pipe_epoch, pipe_catalog, \* the pipeline's own epoch and catalog
  enabled,        \* the pipeline's presentation state
  background,     \* SleepImageBackground::available
  last_armed_epoch, active_epoch, \* SleepImageLatch
  panel           \* history: what was submitted last, Page or a catalog

catalogVars == <<catalog_epoch, pending, pipe_epoch, pipe_catalog>>
latchVars == <<last_armed_epoch, active_epoch, background, panel>>
setupVars == <<setup, replay, enabled>>
sessionVars == <<catalogVars, latchVars, setupVars, armed>>

Nothing == [epoch |-> 0, catalog |-> NoCatalog]

SessionInit ==
  /\ setup = "none" /\ armed = FALSE
  /\ catalog_epoch = 0 /\ pending = Nothing /\ replay = Nothing
  /\ pipe_epoch = 0 /\ pipe_catalog = NoCatalog
  /\ enabled = FALSE /\ background = FALSE
  /\ last_armed_epoch = 0 /\ active_epoch = 0
  /\ panel = Page

\* The session's pipeline pointer, seen under its mutex.
HasPipeline == setup \in {"published", "running"}

(* Mistakes the code could make, never part of the specification. *)
KeepsImages(e, catalog) ==
  /\ catalog_epoch' = e /\ pipe_epoch' = e
  /\ pipe_catalog' = IF pipe_catalog = NoCatalog THEN catalog ELSE pipe_catalog
  /\ UNCHANGED pending

----------------------------------------------------------------------------
(* Binder thread: g_session_mutex serialises these three. *)

Newer(e) == e > pipe_epoch

PublishAccepted(e) == e > catalog_epoch

PipelineTakes(e, catalog) ==
  /\ catalog_epoch' = e
  /\ pipe_epoch' = e /\ pipe_catalog' = catalog
  /\ UNCHANGED pending

SessionKeeps(e, catalog) ==
  /\ catalog_epoch' = e
  /\ pending' = [epoch |-> e, catalog |-> catalog]
  /\ UNCHANGED <<pipe_epoch, pipe_catalog>>

\* A refusal changes nothing, also when it is the pipeline that refuses what the session would accept.
PublishSleepImageCatalog(e, catalog) ==
  IF PublishAccepted(e) /\ (HasPipeline => Newer(e))
  THEN IF HasPipeline THEN PipelineTakes(e, catalog) ELSE SessionKeeps(e, catalog)
  ELSE UNCHANGED catalogVars

\* The latch takes an epoch once, in order, and only when no cycle is active.
LatchFree(e) == e > last_armed_epoch /\ active_epoch = 0

PresentAccepted(e) ==
  /\ e # 0 /\ e = catalog_epoch
  /\ setup = "running" /\ enabled
  /\ e = pipe_epoch
  /\ pipe_catalog.mode = "overlay" => background
  /\ LatchFree(e)

\* From here on captures are held back, until the cycle is disarmed.
PresentSleepImage(e) ==
  IF PresentAccepted(e)
  THEN /\ last_armed_epoch' = e /\ active_epoch' = e
       /\ panel' = pipe_catalog
       /\ UNCHANGED background
  ELSE UNCHANGED latchVars

DisarmAccepted(e) == HasPipeline /\ e # 0 /\ active_epoch = e

DisarmSleepCycle(e) ==
  IF DisarmAccepted(e)
  THEN active_epoch' = 0 /\ background' = FALSE /\ UNCHANGED <<last_armed_epoch, panel>>
  ELSE UNCHANGED latchVars

----------------------------------------------------------------------------
(* Composition thread *)

\* MaybeStartM3: while the property is off nothing is touched; the engine and
\* the pool are set up once, and their failure is terminal.
SetupFails ==
  /\ armed /\ setup = "none"
  /\ setup' = "failed"
  /\ UNCHANGED <<catalogVars, latchVars, replay, enabled, armed>>

PublishPipeline ==
  /\ armed /\ setup = "none"
  /\ setup' = "published"
  /\ replay' = pending /\ pending' = Nothing
  /\ UNCHANGED <<catalog_epoch, pipe_epoch, pipe_catalog, latchVars, enabled, armed>>

\* After the mutex is released: a newer catalog may have reached the pipeline
\* in the meantime, and then the pipeline refuses this one.  Until here the
\* pipeline takes a catalog, but is not started and presents nothing.
ReplayAndStart ==
  /\ setup = "published"
  /\ setup' = "running" /\ enabled' = TRUE
  /\ IF replay # Nothing /\ Newer(replay.epoch)
     THEN pipe_epoch' = replay.epoch /\ pipe_catalog' = replay.catalog
     ELSE UNCHANGED <<pipe_epoch, pipe_catalog>>
  /\ replay' = Nothing
  /\ UNCHANGED <<catalog_epoch, pending, latchVars, armed>>

Held == active_epoch # 0

\* CaptureM3 with a frame that reaches the panel: the page becomes the
\* background of a later overlay.  While a cycle is active, or the property is
\* off, the frame only carries the property's value to the pipeline.
Capture ==
  /\ setup = "running"
  /\ enabled' = armed
  /\ IF armed /\ ~Held
     THEN panel' = Page /\ background' = TRUE
     ELSE UNCHANGED <<panel, background>>
  /\ UNCHANGED <<catalogVars, last_armed_epoch, active_epoch, setup, replay, armed>>

\* Whoever operates the device writes the property.
SetProperty ==
  /\ armed' = ~armed
  /\ UNCHANGED <<catalogVars, latchVars, setupVars>>

Composition == SetupFails \/ PublishPipeline \/ ReplayAndStart \/ Capture
=============================================================================
