-------------------------- MODULE SessionControls --------------------------
(***************************************************************************)
(* The control side of one RenderSurfaceCaptureSession: the two Binder     *)
(* services and the debug commands that reach it through process globals,  *)
(* the composition thread that starts the pipeline on the first verified   *)
(* capture and later destroys the session, and the pipeline's worker.      *)
(*                                                                         *)
(* g_fresh_snapshot_session_mutex is held for the whole of a control call:  *)
(* `call` is that call.  g_session_mutex of the sleep-image service is held *)
(* for the whole of `sleepCall`.  What is done under the session's own      *)
(* sleep_image_mutex or the pipeline's mutex is one step here; the waits    *)
(* they do allow are in SessionDiagnostics.                                 *)
(*                                                                         *)
(* The three refresh settings are one version number here (LowerEngine     *)
(* tells them apart).  Of a frame in the adapter or the engine only the     *)
(* refresh it carries is kept, so a frame without one does not appear       *)
(* there.  Why admission or the pool turns a capture away is the subject of *)
(* CaptureSession: here a capture may come to nothing at any time.          *)
(***************************************************************************)
EXTENDS Naturals

CONSTANTS MaxSessions, MaxEpoch, MaxVersion, MaxRefresh

ASSUME BoundsAssumption ==
  {MaxSessions, MaxEpoch, MaxVersion, MaxRefresh} \subseteq Nat \ {0}

VARIABLES
  life, constructed,          \* the session object, and how many there were
  registered,                 \* g_fresh_snapshot_session, g_session are set
  call, sleepCall,            \* the holders of the two global mutexes
  main, carried,              \* the composition thread, its local copy
  started, gate, setup_failed,
  pipeline,                   \* M3State::pipeline and how far it has started
  catalog, pending,           \* sleep_image_catalog_epoch, pending_...catalog
  pipe_catalog, active,       \* the pipeline's catalog and sleep cycle
  last_armed,
  refresh_id, refresh_busy, requested,
  enabled,                    \* what the session last told the pipeline
  due, captured,              \* a composition asked for; a capture waiting
  work,                       \* the pipeline's conversion worker
  queued, engine,             \* the refresh in the adapter's slot; in Submit
  version,                    \* the newest setting
  receipt, wanted             \* history: what became of every refresh of this
                              \* pipeline, and the setting it is to show

sessionVars == <<life, constructed, registered, started, gate, setup_failed>>
callVars == <<call, sleepCall>>
mainVars == <<main, carried, pipeline>>
catalogVars == <<catalog, pending, pipe_catalog, active, last_armed>>
refreshVars == <<refresh_id, refresh_busy, requested, enabled>>
frameVars == <<captured, work, queued, engine>>
historyVars == <<receipt, wanted>>
vars == <<sessionVars, callVars, mainVars, catalogVars, refreshVars, due, frameVars, version,
          historyVars>>

Ids == 1..MaxRefresh
NoCall == [at |-> "none", id |-> 0]
Resting == [at |-> "idle", current |-> FALSE, request |-> 0]
NoSubmit == [request |-> 0, painted |-> 0]

\* The members of a new M3State and of the pipeline it will create.
Fresh ==
  /\ started' = FALSE /\ gate' = "unverified" /\ setup_failed' = FALSE
  /\ pipeline' = "none" /\ carried' = 0
  /\ catalog' = 0 /\ pending' = 0 /\ pipe_catalog' = 0 /\ active' = 0 /\ last_armed' = 0
  /\ refresh_id' = 0 /\ refresh_busy' = FALSE /\ requested' = 0
  /\ enabled' = FALSE
  /\ captured' = FALSE /\ work' = Resting /\ queued' = 0 /\ engine' = NoSubmit
  /\ receipt' = [i \in Ids |-> "none"]
  /\ wanted' = [i \in Ids |-> 0]

Init ==
  /\ life = "absent" /\ constructed = 0 /\ registered = [control |-> FALSE, sleep |-> FALSE]
  /\ call = NoCall /\ sleepCall = FALSE /\ main = "idle" /\ carried = 0
  /\ started = FALSE /\ gate = "unverified" /\ setup_failed = FALSE
  /\ pipeline = "none" /\ catalog = 0 /\ pending = 0 /\ pipe_catalog = 0 /\ active = 0 /\ last_armed = 0
  /\ refresh_id = 0 /\ refresh_busy = FALSE /\ requested = 0
  /\ enabled = FALSE
  /\ captured = FALSE /\ work = Resting /\ queued = 0 /\ engine = NoSubmit
  /\ due = FALSE /\ version = 1
  /\ receipt = [i \in Ids |-> "none"]
  /\ wanted = [i \in Ids |-> 0]

-----------------------------------------------------------------------------
(* Construction and destruction, on the composition thread *)

Construct ==
  /\ life = "absent" /\ constructed < MaxSessions
  /\ call = NoCall /\ ~sleepCall
  /\ life' = "live" /\ constructed' = constructed + 1
  /\ registered' = [control |-> TRUE, sleep |-> TRUE]
  /\ Fresh
  /\ UNCHANGED <<call, sleepCall, main, due, version>>

StartMetadataOnly ==
  /\ life = "live" /\ ~started
  /\ started' = TRUE
  /\ UNCHANGED <<life, constructed, registered, gate, setup_failed, callVars, mainVars,
                 catalogVars, refreshVars, due, frameVars, version, historyVars>>

\* Mistaken: the destructor does not wait for the control mutex.
UnregistersAtOnce == TRUE

ControlUnregistrable == call = NoCall

\* ~RenderSurfaceCaptureSession: leave the control surface, then the sleep
\* service, then Stop.
UnregisterControl ==
  /\ life = "live" /\ main = "idle"
  /\ ControlUnregistrable
  /\ registered' = [registered EXCEPT !.control = FALSE]
  /\ life' = "leaving"
  /\ UNCHANGED <<constructed, started, gate, setup_failed, callVars, mainVars, catalogVars,
                 refreshVars, due, frameVars, version, historyVars>>

UnregisterSleep ==
  /\ life = "leaving"
  /\ ~sleepCall
  /\ registered' = [registered EXCEPT !.sleep = FALSE]
  /\ life' = "stopping"
  /\ UNCHANGED <<constructed, started, gate, setup_failed, callVars, mainVars, catalogVars,
                 refreshVars, due, frameVars, version, historyVars>>

\* Stop: the pipeline is moved out under the mutex and joined outside it.
StopTake ==
  /\ life = "stopping"
  /\ pipeline' = "stopping" /\ enabled' = FALSE
  /\ captured' = FALSE
  /\ life' = "joining"
  /\ UNCHANGED <<constructed, registered, started, gate, setup_failed, callVars, main, carried,
                 catalogVars, refresh_id, refresh_busy, requested, due, work, queued, engine,
                 version, historyVars>>

StopJoin ==
  /\ life = "joining" /\ work.at = "idle" /\ queued = 0 /\ engine = NoSubmit
  /\ life' = "absent"
  /\ Fresh
  /\ UNCHANGED <<constructed, registered, callVars, main, due, version>>

-----------------------------------------------------------------------------
(* Creation of the pipeline, on the composition thread *)

\* EinkPanelGeometryGate::Observe: a mismatch is sticky.
Observe(exact) == IF ~exact THEN "rejected" ELSE IF gate = "unverified" THEN "verified" ELSE gate

\* A composition reaches the session: because the screen changed, or because
\* one was asked for.
Capture(exact) ==
  /\ life = "live" /\ main = "idle" /\ started
  /\ gate' = Observe(exact)
  /\ due' = FALSE
  /\ main' = IF gate' # "verified" \/ setup_failed THEN "idle"
             ELSE IF pipeline = "none" THEN "setup" ELSE "capture"
  /\ UNCHANGED <<life, constructed, registered, started, setup_failed, callVars, carried,
                 pipeline, catalogVars, refreshVars, frameVars, version, historyVars>>

\* MaybeStartM3 before it has a pipeline: disarmed, or the engine or the pool
\* cannot be set up.
SetupRefused(failed) ==
  /\ main = "setup"
  /\ setup_failed' = failed
  /\ main' = "idle"
  /\ UNCHANGED <<life, constructed, registered, started, gate, callVars, carried, pipeline,
                 catalogVars, refreshVars, due, frameVars, version, historyVars>>

PublishPipeline ==
  /\ main = "setup"
  /\ pipeline' = "published"
  /\ carried' = pending /\ pending' = 0
  /\ main' = "replay"
  /\ UNCHANGED <<sessionVars, callVars, catalog, pipe_catalog, active, last_armed, refreshVars,
                 due, frameVars, version, historyVars>>

\* Mistaken: the pipeline takes whatever catalog comes last.
AcceptsAnyCatalog(epoch) == epoch # 0

\* AndroidEinkPipeline::PublishSleepImageCatalog refuses an older epoch.
PipelineAccepts(epoch) == epoch > pipe_catalog

\* The catalog retained before the first capture is replayed outside the
\* mutex: the sleep service may already have published a newer one.
Replay ==
  /\ main = "replay"
  /\ pipe_catalog' = IF carried # 0 /\ PipelineAccepts(carried) THEN carried ELSE pipe_catalog
  /\ carried' = 0
  /\ main' = "begin"
  /\ UNCHANGED <<sessionVars, callVars, pipeline, catalog, pending, active, last_armed,
                 refreshVars, due, frameVars, version, historyVars>>

\* pipeline->Start() and SetEnabled(true); no control is admitted before both.
BeginPipeline ==
  /\ main = "begin"
  /\ pipeline' = "running" /\ enabled' = TRUE
  /\ main' = "capture"
  /\ UNCHANGED <<sessionVars, callVars, carried, catalogVars, refresh_id, refresh_busy,
                 requested, due, frameVars, version, historyVars>>

-----------------------------------------------------------------------------
(* CaptureM3, on the composition thread *)

Running == pipeline = "running"

\* A capture that will take the pending refresh, or may yet come to.
Carrier == \/ due \/ main # "idle" \/ captured
           \/ work.at = "convert" /\ work.current
           \/ work.at = "checked"
           \/ work.at = "routed" /\ work.request = refresh_id

\* The composition asked for has been used up without a frame for the refresh: it
\* stays pending, and goes with whatever is captured next.
PassedOver ==
  receipt' = [i \in Ids |-> IF i = refresh_id /\ receipt[i] = "queued" /\ ~Carrier'
                            THEN "passed over" ELSE receipt[i]]

Resumed == receipt' = [i \in Ids |-> IF i = refresh_id /\ receipt[i] = "passed over"
                                     THEN "queued" ELSE receipt[i]]

Dropped(ids) == [i \in Ids |-> IF i \in ids \ {0} THEN "dropped" ELSE receipt[i]]

\* The presentation property is off: SetEnabled(false) withdraws the refresh,
\* whether it waits for a frame or in the adapter.
CaptureDisarmed ==
  /\ main = "capture"
  /\ main' = "idle"
  /\ enabled' = FALSE
  /\ IF enabled
     THEN /\ refresh_id' = 0 /\ refresh_busy' = FALSE /\ queued' = 0
          /\ receipt' = Dropped({refresh_id, queued})
     ELSE UNCHANGED <<refresh_id, refresh_busy, queued, receipt>>
  /\ UNCHANGED <<sessionVars, callVars, carried, pipeline, catalogVars, requested, due, captured,
                 work, engine, version, wanted>>

\* The property is on.  The source mode has changed: ResetForSourceChange discards
\* what is captured or being converted, and this capture with it.
CaptureSwitched ==
  /\ main = "capture"
  /\ main' = "idle"
  /\ enabled' = TRUE
  /\ captured' = FALSE
  /\ work' = [work EXCEPT !.current = FALSE]
  /\ UNCHANGED <<sessionVars, callVars, carried, pipeline, catalogVars, refresh_id, refresh_busy,
                 requested, due, queued, engine, version, wanted>>
  /\ PassedOver

\* No copy is made: the submission budget is used up, admission waits for the
\* output slot with a candidate already retained, every snapshot is busy, or a
\* copy fails.
CaptureSkipped ==
  /\ main = "capture"
  /\ main' = "idle"
  /\ enabled' = TRUE
  /\ UNCHANGED <<sessionVars, callVars, carried, pipeline, catalogVars, refresh_id, refresh_busy,
                 requested, due, frameVars, version, wanted>>
  /\ PassedOver

\* A copy is made; OnCapturedComposition holds it back while a sleep image is shown.
CaptureM3 ==
  /\ main = "capture"
  /\ main' = "idle"
  /\ enabled' = TRUE
  /\ captured' = (captured \/ active = 0)
  /\ UNCHANGED <<sessionVars, callVars, carried, pipeline, catalogVars, refresh_id, refresh_busy,
                 requested, due, work, queued, engine, version, wanted>>
  /\ IF active = 0 THEN Resumed ELSE PassedOver

-----------------------------------------------------------------------------
(* The pipeline's conversion worker: each action is one hold of its mutex. *)

WorkerTake ==
  /\ Running /\ captured /\ work.at = "idle"
  /\ captured' = FALSE
  /\ work' = [Resting EXCEPT !.at = "convert", !.current = TRUE]
  /\ UNCHANGED <<sessionVars, callVars, mainVars, catalogVars, refreshVars, due, queued, engine,
                 version, historyVars>>

\* A failed conversion fails the refresh that was waiting for a frame.
WorkerFails ==
  /\ work.at = "convert"
  /\ work' = Resting
  /\ refresh_id' = 0 /\ refresh_busy' = (refresh_busy /\ refresh_id = 0)
  /\ receipt' = Dropped({refresh_id})
  /\ UNCHANGED <<sessionVars, callVars, mainVars, catalogVars, requested, enabled, due, captured,
                 queued, engine, version, wanted>>

\* A sleep image presented meanwhile, or a change of the source, has made it stale.
WorkerChecks ==
  /\ work.at = "convert"
  /\ work' = IF work.current THEN [Resting EXCEPT !.at = "checked"] ELSE Resting
  /\ UNCHANGED <<sessionVars, callVars, mainVars, catalogVars, refreshVars, due, captured, queued,
                 engine, version, historyVars>>

\* Without a refresh, an unchanged page ends here; so does, for this module, the
\* frame of a changed one.
WorkerRoutes ==
  /\ work.at = "checked"
  /\ LET request == IF enabled /\ active = 0 THEN refresh_id ELSE 0
     IN  work' = IF request = 0 THEN Resting
                 ELSE [work EXCEPT !.at = "routed", !.request = request]
  /\ UNCHANGED <<sessionVars, callVars, mainVars, catalogVars, refreshVars, due, captured, queued,
                 engine, version, wanted>>
  /\ IF active # 0 THEN PassedOver ELSE UNCHANGED receipt

\* The refresh is checked again under the lock that enqueues its frame.
WorkerEnqueue ==
  /\ work.at = "routed"
  /\ work' = Resting
  /\ IF work.request # 0 /\ refresh_id = work.request /\ enabled /\ active = 0
     THEN refresh_id' = 0 /\ queued' = work.request
     ELSE UNCHANGED <<refresh_id, queued>>
  /\ UNCHANGED <<sessionVars, callVars, mainVars, catalogVars, refresh_busy, requested, enabled,
                 due, captured, engine, version, wanted>>
  /\ IF active # 0 THEN PassedOver ELSE UNCHANGED receipt

-----------------------------------------------------------------------------
(* The adapter's worker and the engine *)

\* LowerEngineDirectBackend::Submit reads the settings under its mutex.
SubmitBegin ==
  /\ queued # 0 /\ engine = NoSubmit
  /\ engine' = [request |-> queued, painted |-> version]
  /\ queued' = 0
  /\ UNCHANGED <<sessionVars, callVars, mainVars, catalogVars, refreshVars, due, captured, work,
                 version, historyVars>>

\* OnSubmission: a refresh stops being pending when its frame was submitted,
\* or refused.
SubmitEnd(accepted) ==
  /\ engine # NoSubmit
  /\ engine' = NoSubmit
  /\ refresh_busy' = (refresh_busy /\ engine.request # requested)
  /\ IF accepted
     THEN receipt' = [receipt EXCEPT ![engine.request] =
                        IF engine.painted >= wanted[engine.request] THEN "redrawn" ELSE @]
     ELSE receipt' = Dropped({engine.request})
  /\ UNCHANGED <<sessionVars, callVars, mainVars, catalogVars, refresh_id, requested, enabled,
                 due, captured, work, queued, version, wanted>>

\* The adapter is stopped after the conversion worker, with its frame unsubmitted.
AdapterStops ==
  /\ pipeline = "stopping" /\ work.at = "idle" /\ queued # 0
  /\ queued' = 0
  /\ UNCHANGED <<sessionVars, callVars, mainVars, catalogVars, refreshVars, due, captured, work,
                 engine, version, historyVars>>

-----------------------------------------------------------------------------
(* Control calls: g_fresh_snapshot_session_mutex is held from entry to return *)

CallEnters == call = NoCall /\ call' = [at |-> "ask", id |-> 0]

\* ConfigureNeo2EinkGrayPreference and ...VividColor: a change of the setting
\* comes before the redraw that shows it.  With no session it stays selected.
ConfigureChanged ==
  /\ version < MaxVersion
  /\ version' = version + 1
  /\ IF registered.control THEN CallEnters
     ELSE call = NoCall /\ UNCHANGED call
  /\ UNCHANGED <<sessionVars, sleepCall, mainVars, catalogVars, refreshVars, due, frameVars,
                 historyVars>>

\* RequestNeo2EinkColorCleanup, ...FullRefresh, ...FullWaveformRefresh,
\* ...DiagnosticRefresh.
RefreshCall ==
  /\ registered.control
  /\ CallEnters
  /\ UNCHANGED <<sessionVars, sleepCall, mainVars, catalogVars, refreshVars, due, frameVars,
                 version, historyVars>>

\* Mistaken: a refresh that is still pending does not refuse the next.
RefusedOnlyAsleep == ~Running \/ ~enabled \/ active # 0

\* RequestDiagnosticRefresh without an admissible pipeline, or refused by it.
RequestRefused == ~Running \/ ~enabled \/ active # 0 \/ refresh_busy

CallRefused ==
  /\ call.at = "ask" /\ RequestRefused
  /\ call' = NoCall
  /\ UNCHANGED <<sessionVars, sleepCall, mainVars, catalogVars, refreshVars, due, frameVars,
                 version, historyVars>>

CallAdmitted ==
  /\ call.at = "ask" /\ ~RequestRefused
  /\ requested < MaxRefresh
  /\ requested' = requested + 1
  /\ refresh_id' = requested + 1 /\ refresh_busy' = TRUE
  /\ wanted' = [wanted EXCEPT ![requested + 1] = version]
  /\ receipt' = [receipt EXCEPT ![requested + 1] = "admitted"]
  /\ call' = [call EXCEPT !.at = "compose", !.id = requested + 1]
  /\ UNCHANGED <<sessionVars, sleepCall, mainVars, catalogVars, enabled, due, frameVars, version>>

\* request_composite accepted: "refresh queued", unless it has been withdrawn
\* or has failed meanwhile.
CallQueued ==
  /\ call.at = "compose"
  /\ due' = TRUE
  /\ receipt' = [receipt EXCEPT ![call.id] = IF @ = "admitted" THEN "queued" ELSE @]
  /\ call' = NoCall
  /\ UNCHANGED <<sessionVars, sleepCall, mainVars, catalogVars, refreshVars, frameVars, version,
                 wanted>>

Withdrawn(id) == IF refresh_id = id THEN 0 ELSE refresh_id

\* request_composite failed: CancelDiagnosticRefresh withdraws what no frame
\* has taken yet.
CallCancelled ==
  /\ call.at = "compose"
  /\ refresh_id' = Withdrawn(call.id)
  /\ refresh_busy' = (refresh_busy /\ refresh_id # call.id)
  /\ receipt' = Dropped({call.id})
  /\ call' = NoCall
  /\ UNCHANGED <<sessionVars, sleepCall, mainVars, catalogVars, requested, enabled, due,
                 frameVars, version, wanted>>

-----------------------------------------------------------------------------
(* The sleep-image service: g_session_mutex is held for the whole call, and *)
(* what is called, with which epoch, matters when the session is reached.   *)

SleepEnter ==
  /\ registered.sleep /\ ~sleepCall
  /\ sleepCall' = TRUE
  /\ UNCHANGED <<sessionVars, call, mainVars, catalogVars, refreshVars, due, frameVars, version,
                 historyVars>>

SleepReturns == sleepCall /\ sleepCall' = FALSE

\* PublishSleepImageCatalog: into the pipeline, or kept for its creation.
PublishCatalog(epoch) ==
  /\ SleepReturns
  /\ LET into == pipeline # "none"
         accepted == epoch > catalog /\ (into => PipelineAccepts(epoch))
     IN /\ catalog' = IF accepted THEN epoch ELSE catalog
        /\ pending' = IF accepted /\ ~into THEN epoch ELSE pending
        /\ pipe_catalog' = IF accepted /\ into THEN epoch ELSE pipe_catalog
  /\ UNCHANGED <<sessionVars, call, mainVars, active, last_armed, refreshVars, due, frameVars,
                 version, historyVars>>

Presentable(epoch) ==
  /\ Running /\ enabled
  /\ epoch = catalog /\ epoch = pipe_catalog
  /\ epoch > last_armed /\ active = 0

\* PresentSleepImage discards the capture that waits and makes a conversion stale.
\* Its frame takes the adapter's slot: the refresh of the frame it displaces is
\* lost, and one that has no frame yet stays pending.
PresentSleepImage(epoch) ==
  /\ SleepReturns /\ Presentable(epoch)
  /\ active' = epoch /\ last_armed' = epoch
  /\ captured' = FALSE
  /\ work' = [work EXCEPT !.current = FALSE]
  /\ queued' = 0
  /\ UNCHANGED <<sessionVars, call, mainVars, catalog, pending, pipe_catalog, refreshVars, due,
                 engine, version, wanted>>
  /\ IF queued # 0 THEN receipt' = Dropped({queued}) ELSE PassedOver

\* For any of these reasons, or because the image cannot be laid over a background.
PresentRefused ==
  /\ SleepReturns
  /\ UNCHANGED <<sessionVars, call, mainVars, catalogVars, refreshVars, due, frameVars, version,
                 historyVars>>

DisarmSleepCycle(epoch) ==
  /\ SleepReturns
  /\ active' = IF epoch = active THEN 0 ELSE active
  /\ UNCHANGED <<sessionVars, call, mainVars, catalog, pending, pipe_catalog, last_armed,
                 refreshVars, due, frameVars, version, historyVars>>

-----------------------------------------------------------------------------
ControlCalls == CallRefused \/ CallAdmitted \/ CallQueued \/ CallCancelled
SleepCalls == \/ PresentRefused
              \/ \E epoch \in 1..MaxEpoch :
                   PublishCatalog(epoch) \/ PresentSleepImage(epoch) \/ DisarmSleepCycle(epoch)
Worker == WorkerTake \/ WorkerFails \/ WorkerChecks \/ WorkerRoutes \/ WorkerEnqueue
Adapter == SubmitBegin \/ AdapterStops \/ \E accepted \in BOOLEAN : SubmitEnd(accepted)
Main == \/ PublishPipeline \/ Replay \/ BeginPipeline
        \/ CaptureDisarmed \/ CaptureSwitched \/ CaptureSkipped \/ CaptureM3
        \/ UnregisterSleep \/ StopTake \/ StopJoin
        \/ \E failed \in BOOLEAN : SetupRefused(failed)
Environment ==
  \/ Construct \/ StartMetadataOnly \/ UnregisterControl
  \/ \E exact \in BOOLEAN : Capture(exact)
  \/ ConfigureChanged \/ RefreshCall \/ SleepEnter

Next == ControlCalls \/ SleepCalls \/ Worker \/ Adapter \/ Main \/ Environment

\* The session's threads run on, and a composition that was asked for comes.  No call,
\* no answer to one, no capture of a changed screen and no destruction has to happen.
Fairness ==
  /\ WF_vars(Main) /\ WF_vars(Worker) /\ WF_vars(Adapter)
  /\ WF_vars(due /\ Capture(TRUE))

Spec == Init /\ [][Next]_vars /\ Fairness

-----------------------------------------------------------------------------
(* Properties *)

\* Every variable keeps to its type, between any two steps of the threads
\* that share the session, and a pending refresh refuses the next.
TypeOK ==
  /\ life \in {"absent", "live", "leaving", "stopping", "joining"}
  /\ constructed \in 0..MaxSessions
  /\ registered \in [control : BOOLEAN, sleep : BOOLEAN]
  /\ call \in [at : {"none", "ask", "compose"}, id : 0..MaxRefresh]
  /\ sleepCall \in BOOLEAN
  /\ main \in {"idle", "setup", "replay", "begin", "capture"}
  /\ {carried, catalog, pending, pipe_catalog, active, last_armed} \subseteq 0..MaxEpoch
  /\ gate \in {"unverified", "verified", "rejected"}
  /\ pipeline \in {"none", "published", "running", "stopping"}
  /\ requested \in 0..MaxRefresh /\ refresh_id \in {0, requested}
  /\ refresh_id # 0 => refresh_busy
  /\ {started, setup_failed, refresh_busy, enabled, due, captured} \subseteq BOOLEAN
  /\ work \in [at : {"idle", "convert", "checked", "routed"}, current : BOOLEAN,
               request : 0..MaxRefresh]
  /\ queued \in 0..MaxRefresh
  /\ engine \in [request : 0..MaxRefresh, painted : 0..MaxVersion]
  /\ version \in 1..MaxVersion
  /\ receipt \in [Ids -> {"none", "admitted", "queued", "passed over", "redrawn", "dropped"}]
  /\ wanted \in [Ids -> 0..MaxVersion]

\* A control or a sleep call is only ever inside a session that has not begun
\* to stop: the destructor leaves the globals, waiting for their mutexes, before
\* it takes the pipeline apart.
CallsUseLiveSession ==
  /\ call # NoCall => life = "live"
  /\ sleepCall => life \in {"live", "leaving"}

\* However a publication races with the creation of the pipeline, once the
\* pipeline runs the catalog it would show is the one the session answers for:
\* a replay of the retained catalog never replaces a newer one.
CatalogAgrees == Running => pipe_catalog = catalog /\ pending = 0

\* A redraw answered "queued" is made, with the setting that asked for it or a
\* newer one, unless the engine or the converter refuses it, the property is
\* switched off, a sleep image takes its place, a capture of another geometry has
\* closed the gate or the session ends; a redraw whose composition gave no copy is
\* made as soon as a later one does.
QueuedIsRedrawn ==
  \A i \in Ids :
    receipt[i] = "queued" ~> receipt[i] # "queued" \/ gate = "rejected" \/ life # "live"
=============================================================================
