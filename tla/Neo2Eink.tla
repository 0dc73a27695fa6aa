------------------------------- MODULE Neo2Eink -------------------------------
(***************************************************************************)
(* The Neo 2 build of the system (android/neo2-eink), from end to end:     *)
(* the capture session sets the lower engine up and copies compositions    *)
(* into a pool of snapshots, the pipeline's worker converts the newest and *)
(* asks the demand gate, the adapter paces its one pending frame, and the  *)
(* lower engine paces, budgets and answers for itself.  Sleep images come  *)
(* in by Binder.  This tree has neither diagnostic refreshes nor a colour  *)
(* panel, so a snapshot's lease goes back as soon as it is converted.      *)
(*                                                                         *)
(* CaptureSession, EinkPipeline and PresentationAdapter look inside one    *)
(* capture, one conversion and one submission of the device tree; here a   *)
(* capture decides in one step, a returned lease reaches the resample      *)
(* policy in the same step, and the question is what the parts do together.*)
(* Compositions are numbered; the number stands for what is on the screen. *)
(***************************************************************************)
EXTENDS Naturals, FiniteSets

CONSTANTS
  Capacity,         \* kM3SnapshotSlots
  Dark,             \* the compositions a consumed sleep cycle suppresses
  Intervals,        \* values of the interval property, in ticks of the clock
  LateWindow,       \* the late-sample window, in ticks
  Budget,           \* active submission limit; 0 in continuous mode
  Modes,            \* catalog presentation modes
  Upsets,           \* what may go wrong, of AllUpsets
  MaxCompositions, MaxEpoch, MaxIncidents    \* bounds on what others do

\* A copy, a conversion, the composition request, the set-up or an update
\* fails, or the source property switches.
AllUpsets == {"copy", "conversion", "request", "setup", "update", "switch"}

ASSUME Neo2Assumption ==
  /\ {Capacity, LateWindow, Budget, MaxCompositions, MaxEpoch, MaxIncidents} \subseteq Nat
  /\ Intervals \subseteq Nat /\ \E i \in Intervals : \A j \in Intervals : j <= i
  /\ Modes \subseteq {"opaque", "overlay"} /\ Upsets \subseteq AllUpsets

VARIABLES
  armed, interval, incidents,    \* the debug properties; the bound's use
  life,                          \* the session's set-up
  session_epoch, waiting,        \* its newest catalog; one kept for the pipeline
  screen, repaint, composer,     \* composition thread
  busy, obligation, late_sampled,  \* snapshot slots, resample and admission policies
  enabled, pending, worker, baseline, reset,         \* the pipeline
  catalog, active_epoch, last_armed_epoch, background,  \* its sleep cycle
  slot, call, window,            \* the adapter: window is time since its last acceptance
  engine, submissions, spacing,  \* the lower engine: spacing is its own clock
  panel, newest, lost            \* history

propertyVars == <<armed, interval, incidents>>
sessionVars == <<life, session_epoch, waiting>>
screenVars == <<screen, repaint>>
poolVars == <<busy, obligation>>
gateVars == <<baseline, reset>>
sleepVars == <<catalog, active_epoch, last_armed_epoch, background>>
adapterVars == <<slot, call, window>>
engineVars == <<engine, submissions, spacing>>
historyVars == <<panel, newest, lost>>
vars == <<propertyVars, sessionVars, screenVars, composer, poolVars, late_sampled, enabled,
          pending, worker, gateVars, sleepVars, adapterVars, engineVars, historyVars>>

Slots == 1..Capacity
MaxInterval == CHOOSE i \in Intervals : \A j \in Intervals : j <= i
NoCatalog == [epoch |-> 0, mode |-> "opaque"]
NoCopy == [page |-> 0, slot |-> 0]          \* slot 0: no lease
NoFrame == [page |-> 0, epoch |-> 0]
Away == [stage |-> "idle", page |-> 0, copy |-> NoCopy]
Resting == [stage |-> "idle", copy |-> NoCopy, stale |-> FALSE]
NoCall == [stage |-> "idle", frame |-> NoFrame, accepted |-> FALSE, interval |-> 0]

Init ==
  /\ armed \in BOOLEAN /\ interval \in Intervals /\ incidents = 0
  /\ life = "waiting" /\ session_epoch = 0 /\ waiting = NoCatalog
  /\ screen = 0 /\ repaint = FALSE /\ composer = Away
  /\ busy = {} /\ obligation = "none" /\ late_sampled = 0
  /\ enabled = FALSE /\ pending = NoCopy /\ worker = Resting
  /\ baseline = 0 /\ reset = FALSE
  /\ catalog = NoCatalog /\ active_epoch = 0 /\ last_armed_epoch = 0 /\ background = 0
  /\ slot = NoFrame /\ call = NoCall /\ window = MaxInterval
  /\ engine = "stopped" /\ submissions = 0 /\ spacing = MaxInterval
  /\ panel = 0 /\ newest = 0 /\ lost = FALSE

\* What an operator, another application or a failing part may do has one bound.
Incident == incidents < MaxIncidents /\ incidents' = incidents + 1

(* Variants of definitions below, each a mistake the code could make. *)
IgnoresInterval == TRUE
WakesWithBaseline == reset
ReplaysUnchecked(c) == IF c.epoch # 0 THEN c ELSE catalog

----------------------------------------------------------------------------
(* Leases and the enable state *)

Lease(copy) == {copy.slot} \ {0}

\* A lease's destructor: its slot is free, and an outstanding full-pool
\* obligation asks SurfaceFlinger for one more composition.
Return(leases) ==
  LET notified == leases # {} /\ obligation = "outstanding"
  IN  /\ busy' = busy \ leases
      /\ \E granted \in BOOLEAN :
           /\ granted \/ "request" \in Upsets
           /\ repaint' = (repaint \/ (notified /\ granted))
           /\ obligation' = IF ~notified THEN obligation
                            ELSE IF granted THEN "awaiting" ELSE "none"

\* What was converted while disabled is not taken for the panel's content.
SetEnabled(b) ==
  /\ enabled' = b
  /\ reset' = (reset \/ enabled # b)

----------------------------------------------------------------------------
(* Set-up, on the first armed capture of the right size *)

\* Preflight, loading and initialising the engine: any failure is final.
InitializeForOneShot == {"initialized"} \cup IF "setup" \in Upsets THEN {"poisoned"} ELSE {}

MaybeStartM3 ==
  /\ life = "waiting"
  /\ armed
  /\ engine' \in InitializeForOneShot
  /\ \E allocated \in BOOLEAN :
       /\ allocated \/ "setup" \in Upsets
       /\ life' = IF engine' = "initialized" /\ allocated THEN "replay" ELSE "failed"
  /\ UNCHANGED <<propertyVars, session_epoch, waiting, screenVars, composer, poolVars,
                 late_sampled, enabled, pending, worker, gateVars, sleepVars, adapterVars,
                 submissions, spacing, historyVars>>

\* The catalog kept for it, unless a newer one has already been published to it.
Replayed(c) == IF c.epoch > catalog.epoch THEN c ELSE catalog

\* The pipeline can be seen before it has been given what was kept for it.
ReplayAndStart ==
  /\ life = "replay"
  /\ catalog' = Replayed(waiting)
  /\ waiting' = NoCatalog
  /\ life' = "running"
  /\ enabled' = TRUE
  /\ UNCHANGED <<propertyVars, session_epoch, screenVars, composer, poolVars, late_sampled,
                 pending, worker, gateVars, active_epoch, last_armed_epoch, background,
                 adapterVars, engineVars, historyVars>>

----------------------------------------------------------------------------
(* Binder: the catalog and the sleep cycle *)

PublishSleepImageCatalog(e, m) ==
  /\ e > session_epoch
  /\ session_epoch' = e
  /\ IF life \in {"replay", "running"}
       THEN catalog' = [epoch |-> e, mode |-> m] /\ UNCHANGED waiting
       ELSE waiting' = [epoch |-> e, mode |-> m] /\ UNCHANGED catalog
  /\ UNCHANGED <<propertyVars, life, screenVars, composer, poolVars, late_sampled, enabled,
                 pending, worker, gateVars, active_epoch, last_armed_epoch, background,
                 adapterVars, engineVars, historyVars>>

\* An epoch is armed once, in order, and never while another is active.
LatchAccepts(e) == e > last_armed_epoch /\ active_epoch = 0

\* The image supersedes every capture that has not reached the adapter.
PresentSleepImage ==
  /\ life = "running" /\ enabled
  /\ session_epoch # 0 /\ session_epoch = catalog.epoch
  /\ catalog.mode = "overlay" => background # 0
  /\ LatchAccepts(catalog.epoch)
  /\ active_epoch' = catalog.epoch /\ last_armed_epoch' = catalog.epoch
  /\ pending' = NoCopy
  /\ Return(Lease(pending))
  /\ worker' = [worker EXCEPT !.stale = worker.stage # "idle"]
  /\ slot' = [page |-> 0, epoch |-> catalog.epoch]
  /\ newest' = 0
  /\ UNCHANGED <<propertyVars, sessionVars, screen, composer, late_sampled, enabled, gateVars,
                 catalog, background, call, window, engineVars, panel, lost>>

\* The panel shows the sleep image, so the next page counts as changed.
AfterWake == TRUE

\* The screen that comes back on may be drawn again as it was.
DisarmSleepCycle ==
  /\ active_epoch # 0
  /\ active_epoch' = 0
  /\ slot' = IF slot.epoch = active_epoch THEN NoFrame ELSE slot
  /\ background' = 0
  /\ reset' = AfterWake
  /\ repaint' \in {repaint, TRUE}
  /\ UNCHANGED <<propertyVars, sessionVars, screen, composer, poolVars, late_sampled,
                 enabled, pending, worker, baseline, catalog, last_armed_epoch, call, window,
                 engineVars, historyVars>>

----------------------------------------------------------------------------
(* The composition thread *)

Composed(page) ==
  /\ life = "running" /\ composer = Away
  /\ composer' = [Away EXCEPT !.stage = "entered", !.page = page]
  /\ UNCHANGED <<armed, interval, sessionVars, poolVars, late_sampled, enabled, pending,
                 worker, gateVars, sleepVars, adapterVars, engineVars, historyVars>>

Compose ==
  /\ screen < MaxCompositions
  /\ screen' = screen + 1
  /\ repaint' = FALSE
  /\ UNCHANGED incidents
  /\ Composed(screen + 1)

\* The screen is composed again as it was, because somebody asked for it or
\* because something invisible changed.
Repaint ==
  /\ screen > 0
  /\ IF repaint THEN UNCHANGED incidents ELSE Incident
  /\ repaint' = FALSE
  /\ UNCHANGED screen
  /\ Composed(screen)

CaptureDisarmed ==
  /\ composer.stage = "entered" /\ ~armed
  /\ SetEnabled(FALSE)
  /\ composer' = Away
  /\ UNCHANGED <<propertyVars, sessionVars, screenVars, poolVars, late_sampled, pending, worker,
                 baseline, sleepVars, adapterVars, engineVars, historyVars>>

Spent == Budget # 0 /\ submissions >= Budget

CaptureArmed ==
  /\ composer.stage = "entered" /\ armed
  /\ SetEnabled(TRUE)
  /\ composer' = IF Spent THEN Away ELSE [composer EXCEPT !.stage = "armed"]
  /\ UNCHANGED <<propertyVars, sessionVars, screenVars, poolVars, late_sampled, pending, worker,
                 baseline, sleepVars, adapterVars, engineVars, historyVars>>

\* The capture that sees the source switch is itself thrown away.
SwitchSource ==
  /\ composer.stage = "armed" /\ "switch" \in Upsets /\ Incident
  /\ pending' = NoCopy
  /\ Return(Lease(pending))
  /\ worker' = [worker EXCEPT !.stale = worker.stage # "idle"]
  /\ reset' = TRUE
  /\ background' = 0
  /\ newest' = 0
  /\ composer' = Away
  /\ UNCHANGED <<armed, interval, sessionVars, screen, late_sampled, enabled, baseline, catalog,
                 active_epoch, last_armed_epoch, adapterVars, engineVars, panel, lost>>

Submitting == call.stage \in {"taken", "updating", "returned"}
AdapterRetained == slot # NoFrame \/ Submitting
RetainedCandidate == pending # NoCopy \/ worker.stage # "idle" \/ AdapterRetained
Resampling == obligation = "awaiting"

\* Between two output slots a retained candidate is replaced once, shortly
\* before the next one opens.
SlotOpen == ~RetainedCandidate \/ window >= interval
LateSample == interval - window <= LateWindow /\ late_sampled # interval
ClosedSlot == ~SlotOpen /\ ~LateSample
Sampled == IF SlotOpen \/ Resampling THEN late_sampled ELSE interval

SkipRetained ==
  /\ composer.stage = "armed"
  /\ ~Resampling /\ ClosedSlot
  /\ composer' = Away
  /\ UNCHANGED <<propertyVars, sessionVars, screenVars, poolVars, late_sampled, enabled,
                 pending, worker, gateVars, sleepVars, adapterVars, engineVars, historyVars>>

FullPool == /\ busy = Slots
            /\ worker.stage # "idle" /\ pending # NoCopy
            /\ ~AdapterRetained

Defer ==
  /\ composer.stage = "armed"
  /\ ~Resampling /\ ~ClosedSlot /\ FullPool
  /\ obligation' = "outstanding"
  /\ late_sampled' = Sampled
  /\ composer' = Away
  /\ UNCHANGED <<propertyVars, sessionVars, screenVars, busy, enabled, pending, worker,
                 gateVars, sleepVars, adapterVars, engineVars, historyVars>>

Attempt ==
  /\ composer.stage = "armed"
  /\ Resampling \/ (~ClosedSlot /\ ~FullPool)
  /\ obligation' = IF Resampling THEN "none" ELSE obligation
  /\ late_sampled' = Sampled
  /\ composer' = [composer EXCEPT !.stage = "attempt"]
  /\ UNCHANGED <<propertyVars, sessionVars, screenVars, busy, enabled, pending, worker,
                 gateVars, sleepVars, adapterVars, engineVars, historyVars>>

\* TryCopy takes the first free slot and never waits for one.
AcquireSlot ==
  /\ composer.stage = "attempt"
  /\ \E s \in Slots \ busy :
       /\ \A r \in Slots \ busy : s <= r
       /\ busy' = busy \cup {s}
       /\ composer' = [composer EXCEPT !.stage = "copying",
                                       !.copy = [page |-> composer.page, slot |-> s]]
  /\ UNCHANGED <<propertyVars, sessionVars, screenVars, obligation, late_sampled, enabled,
                 pending, worker, gateVars, sleepVars, adapterVars, engineVars, historyVars>>

\* An unusable source or a full pool before the slot is taken, or a draw that
\* fails after it.
CopyFails ==
  /\ \/ composer.stage = "attempt" /\ busy = Slots /\ UNCHANGED incidents
     \/ composer.stage \in {"attempt", "copying"} /\ "copy" \in Upsets /\ Incident
  /\ busy' = busy \ Lease(composer.copy)
  /\ composer' = Away
  /\ UNCHANGED <<armed, interval, sessionVars, screenVars, obligation, late_sampled, enabled,
                 pending, worker, gateVars, sleepVars, adapterVars, engineVars, historyVars>>

\* A disabled pipeline and a sleep cycle drop the copy; else it displaces the
\* one that waits, whose lease goes with it.
OnCapturedComposition ==
  /\ composer.stage = "copying"
  /\ IF enabled /\ active_epoch = 0
       THEN /\ pending' = composer.copy
            /\ newest' = composer.page
            /\ Return(Lease(pending))
       ELSE /\ UNCHANGED <<pending, newest>>
            /\ Return(Lease(composer.copy))
  /\ composer' = Away
  /\ UNCHANGED <<propertyVars, sessionVars, screen, late_sampled, enabled, worker, gateVars,
                 sleepVars, adapterVars, engineVars, panel, lost>>

----------------------------------------------------------------------------
(* The conversion worker *)

ConversionTake ==
  /\ worker.stage = "idle" /\ pending # NoCopy
  /\ worker' = [stage |-> "converting", copy |-> pending, stale |-> FALSE]
  /\ pending' = NoCopy
  /\ baseline' = IF reset THEN 0 ELSE baseline
  /\ reset' = FALSE
  /\ UNCHANGED <<propertyVars, sessionVars, screenVars, composer, poolVars, late_sampled,
                 enabled, sleepVars, adapterVars, engineVars, historyVars>>

\* The lease a conversion that ends early gives back.
GivenBack(copy) == Lease(copy)

ConversionFails ==
  /\ worker.stage = "converting" /\ "conversion" \in Upsets /\ Incident
  /\ worker' = Resting
  /\ Return(GivenBack(worker.copy))
  /\ newest' = IF pending = NoCopy THEN 0 ELSE newest
  /\ UNCHANGED <<armed, interval, sessionVars, screen, composer, late_sampled, enabled, pending,
                 gateVars, sleepVars, adapterVars, engineVars, panel, lost>>

ConversionSuperseded ==
  /\ worker.stage = "converting" /\ worker.stale
  /\ worker' = Resting
  /\ Return(GivenBack(worker.copy))
  /\ UNCHANGED <<propertyVars, sessionVars, screen, composer, late_sampled, enabled, pending,
                 gateVars, sleepVars, adapterVars, engineVars, historyVars>>

ConversionCurrent ==
  /\ worker.stage = "converting" /\ ~worker.stale
  /\ worker' = [worker EXCEPT !.stage = "checked"]
  /\ UNCHANGED <<propertyVars, sessionVars, screenVars, composer, poolVars, late_sampled,
                 enabled, pending, gateVars, sleepVars, adapterVars, engineVars, historyVars>>

\* A dark page is held back while a presented cycle is active.
Suppressed == worker.copy.page \in Dark /\ active_epoch # 0

\* The gate adopts the page whatever becomes of it.
Evaluate ==
  /\ worker.stage = "checked"
  /\ baseline' = worker.copy.page
  /\ IF Suppressed \/ worker.copy.page = baseline
       THEN worker' = Resting /\ Return(GivenBack(worker.copy))
       ELSE worker' = [worker EXCEPT !.stage = "evaluated"] /\ UNCHANGED <<poolVars, repaint>>
  /\ newest' = IF Suppressed /\ pending = NoCopy THEN 0 ELSE newest
  /\ UNCHANGED <<propertyVars, sessionVars, screen, composer, late_sampled, enabled, pending,
                 reset, sleepVars, adapterVars, engineVars, panel, lost>>

\* The frame owns its gray bytes; the snapshot is not needed any more.
AssembleFrame ==
  /\ worker.stage = "evaluated"
  /\ worker' = [worker EXCEPT !.stage = "assembled", !.copy.slot = 0]
  /\ Return(Lease(worker.copy))
  /\ UNCHANGED <<propertyVars, sessionVars, screen, composer, late_sampled, enabled, pending,
                 gateVars, sleepVars, adapterVars, engineVars, historyVars>>

EnqueueConverted ==
  /\ worker.stage = "assembled"
  /\ slot' = [page |-> worker.copy.page, epoch |-> 0]
  /\ worker' = [worker EXCEPT !.stage = "enqueued"]
  /\ UNCHANGED <<propertyVars, sessionVars, screenVars, composer, poolVars, late_sampled,
                 enabled, pending, gateVars, sleepVars, call, window, engineVars, historyVars>>

ConversionFinish ==
  /\ worker.stage = "enqueued"
  /\ worker' = Resting
  /\ UNCHANGED <<propertyVars, sessionVars, screenVars, composer, poolVars, late_sampled,
                 enabled, pending, gateVars, sleepVars, adapterVars, engineVars, historyVars>>

----------------------------------------------------------------------------
(* The adapter's worker, the engine and the clock *)

\* The adapter reads the interval afresh whenever it looks at its frame.
Eligible == window >= interval

SubmitTake ==
  /\ call.stage = "idle" /\ slot # NoFrame
  /\ Eligible
  /\ call' = [stage |-> "taken", frame |-> slot, accepted |-> FALSE, interval |-> interval]
  /\ slot' = NoFrame
  /\ UNCHANGED <<propertyVars, sessionVars, screenVars, composer, poolVars, late_sampled,
                 enabled, pending, worker, gateVars, sleepVars, window, engineVars, historyVars>>

TooSoon == submissions # 0 /\ spacing < interval

\* The engine rereads every property; what it refuses is not offered again.
EngineRefuses ==
  /\ call.stage = "taken"
  /\ engine # "initialized" \/ ~armed \/ Spent \/ TooSoon
  /\ call' = [call EXCEPT !.stage = "returned"]
  /\ lost' = TRUE
  /\ UNCHANGED <<propertyVars, sessionVars, screenVars, composer, poolVars, late_sampled,
                 enabled, pending, worker, gateVars, sleepVars, slot, window, engineVars,
                 panel, newest>>

\* The engine's clock starts before the update, the adapter's after it.
EngineUpdates ==
  /\ call.stage = "taken"
  /\ engine = "initialized" /\ armed /\ ~Spent /\ ~TooSoon
  /\ call' = [call EXCEPT !.stage = "updating"]
  /\ spacing' = 0
  /\ UNCHANGED <<propertyVars, sessionVars, screenVars, composer, poolVars, late_sampled,
                 enabled, pending, worker, gateVars, sleepVars, slot, window, engine,
                 submissions, historyVars>>

\* Submissions are counted as far as somebody compares them.
Counted == IF Budget = 0 THEN 1 ELSE submissions + 1

UpdateReturns ==
  /\ call.stage = "updating"
  /\ submissions' = Counted
  /\ \/ /\ call' = [call EXCEPT !.stage = "returned", !.accepted = TRUE]
        /\ panel' = call.frame.page /\ lost' = FALSE
        /\ UNCHANGED <<engine, incidents>>
     \/ /\ "update" \in Upsets /\ Incident
        /\ call' = [call EXCEPT !.stage = "returned"]
        /\ engine' = "poisoned"
        /\ lost' = TRUE
        /\ UNCHANGED panel
  /\ UNCHANGED <<armed, interval, sessionVars, screenVars, composer, poolVars, late_sampled,
                 enabled, pending, worker, gateVars, sleepVars, slot, window, spacing, newest>>

\* A new output slot opens with an acceptance only.
SubmitReturns ==
  /\ call.stage = "returned"
  /\ window' = IF call.accepted THEN 0 ELSE window
  /\ late_sampled' = IF call.accepted THEN 0 ELSE late_sampled
  /\ call' = [call EXCEPT !.stage = "observed"]
  /\ UNCHANGED <<propertyVars, sessionVars, screenVars, composer, poolVars, enabled, pending,
                 worker, gateVars, sleepVars, slot, engineVars, historyVars>>

OnEngineSubmission ==
  /\ call.stage = "observed"
  /\ background' = IF call.accepted /\ call.frame.epoch = 0 THEN call.frame.page
                   ELSE background
  /\ call' = NoCall
  /\ UNCHANGED <<propertyVars, sessionVars, screenVars, composer, poolVars, late_sampled,
                 enabled, pending, worker, gateVars, catalog, active_epoch, last_armed_epoch,
                 slot, window, engineVars, historyVars>>

Later(clock) == IF clock < MaxInterval THEN clock + 1 ELSE clock

PassTime ==
  /\ window < MaxInterval \/ spacing < MaxInterval
  /\ window' = Later(window) /\ spacing' = Later(spacing)
  /\ UNCHANGED <<propertyVars, sessionVars, screenVars, composer, poolVars, late_sampled,
                 enabled, pending, worker, gateVars, sleepVars, slot, call, engine,
                 submissions, historyVars>>

\* Whoever operates the device writes a debug property.
WriteProperty ==
  /\ Incident
  /\ \/ armed' = ~armed /\ UNCHANGED interval
     \/ interval' \in Intervals \ {interval} /\ UNCHANGED armed
  /\ UNCHANGED <<sessionVars, screenVars, composer, poolVars, late_sampled, enabled, pending,
                 worker, gateVars, sleepVars, adapterVars, engineVars, historyVars>>

----------------------------------------------------------------------------

Binder == \/ \E e \in 1..MaxEpoch, m \in Modes : PublishSleepImageCatalog(e, m)
          \/ PresentSleepImage \/ DisarmSleepCycle
Capture == \/ MaybeStartM3 \/ ReplayAndStart
           \/ CaptureDisarmed \/ CaptureArmed \/ SkipRetained \/ Defer \/ Attempt
           \/ AcquireSlot \/ CopyFails \/ OnCapturedComposition
Convert == \/ ConversionTake \/ ConversionFails \/ ConversionSuperseded \/ ConversionCurrent
           \/ Evaluate \/ AssembleFrame \/ EnqueueConverted \/ ConversionFinish
Submit == \/ SubmitTake \/ EngineRefuses \/ EngineUpdates \/ UpdateReturns
          \/ SubmitReturns \/ OnEngineSubmission

Next == \/ Binder \/ Compose \/ Repaint \/ SwitchSource
        \/ Capture \/ Convert \/ Submit
        \/ PassTime \/ WriteProperty

Spec == Init /\ [][Next]_vars

\* The two worker threads run and time passes; nobody is obliged to compose, to
\* sleep or to write a property.
FairSpec == Spec /\ WF_vars(Convert) /\ WF_vars(Submit) /\ WF_vars(PassTime)

----------------------------------------------------------------------------
(* Properties *)

\* Once pages are copied the newest of them comes to the panel, unless a sleep
\* image, a source switch or a failed conversion supersedes it or the engine
\* refuses it: the threads do not wait for one another, nor for a next page.
NewestReachesPanel ==
  newest # 0 ~> newest = 0 \/ lost \/ panel = newest

\* Adapter and engine keep two clocks for one interval.  The engine never turns
\* a paced frame away as too early, unless the interval was raised after the
\* adapter had found the frame due.
EngineKeepsPace ==
  [][ /\ call.stage = "taken" /\ call'.stage = "returned"
      /\ engine = "initialized" /\ armed /\ ~Spent
      => interval > call.interval ]_vars

\* Once the pipeline runs it has the catalog the session last accepted, also if
\* that arrived while an older one was being replayed.
CatalogsAgree == life = "running" => catalog.epoch = session_epoch
=============================================================================
