--------------------------- MODULE CaptureSession ---------------------------
(***************************************************************************)
(* The capture side of the system: RenderSurfaceCaptureSession::CaptureM3  *)
(* on the composition thread, the pool of snapshot slots it copies into,   *)
(* the leases by which conversion worker and adapter return them, and the  *)
(* full-pool obligation that asks for one more composition when a slot     *)
(* comes back.  The pipeline and the adapter are reduced to where a copy   *)
(* is; PresentationAdapter and EinkPipeline have the rest of them.         *)
(* Compositions are numbered; the number stands for what is on the screen. *)
(***************************************************************************)
EXTENDS Naturals, FiniteSets

CONSTANTS Capacity,         \* kM3SnapshotSlots
          MaxCompositions,  \* bound on the screen contents
          ColorPanel,       \* has_color_cfa: a frame keeps its lease until Submit returns
          Upsets            \* what may go wrong, of AllUpsets

\* A copy, a conversion or the direct source fails, the composition request is
\* refused, the source property switches, and the composition thread is held up
\* for a whole conversion between two of its instructions.
AllUpsets == {"copy", "conversion", "direct", "request", "switch", "stall"}

ASSUME CaptureAssumption ==
  /\ Capacity \in Nat \ {0}
  /\ MaxCompositions \in Nat
  /\ ColorPanel \in BOOLEAN
  /\ Upsets \subseteq AllUpsets

VARIABLES
  slots,             \* the pool: state and generation of each slot
  screen,            \* the newest composition
  repaint,           \* a requested composition that has not been drawn yet
  composer,          \* CaptureM3's local state
  pending,           \* the pipeline's copy that waits for conversion
  worker,            \* the conversion worker and the demand gate's baseline
  retained, engine,  \* the adapter's pending frame and the one in Submit
  panel,             \* the last page accepted by the engine
  window,            \* the adapter's next output slot against the clock
  late_sampled,      \* this output slot has had its late sample
  outstanding, awaiting_capture,   \* the resample policy
  release,           \* what each thread is doing for a lease it destroys
  accounting,        \* CapturePressureAccounting
  obligations        \* the resample policy's counters

poolVars == <<slots, release>>
screenVars == <<screen, repaint>>
adapterVars == <<retained, engine, panel, window>>
policyVars == <<outstanding, awaiting_capture, obligations>>
vars == <<poolVars, screenVars, composer, pending, worker, adapterVars, late_sampled,
          policyVars, accounting>>

Slots == 1..Capacity
Threads == {"composer", "worker", "submitter"}
Pages == 0..MaxCompositions

\* A page and the lease on the slot that holds it; slot 0 for no lease.
Copies == [page : Pages, slot : {0} \cup Slots, generation : Nat]
NoCopy == [page |-> 0, slot |-> 0, generation |-> 0]
NoRelease == [stage |-> "none", copy |-> NoCopy, locked |-> FALSE]

NoState == [conversion |-> FALSE, capture |-> FALSE, adapter |-> FALSE, window |-> "none"]
Resting == [stage |-> "idle", page |-> 0, resample |-> FALSE, full |-> FALSE,
            state |-> NoState, copy |-> NoCopy]

One(b) == IF b THEN 1 ELSE 0

Init ==
  /\ slots = [s \in Slots |-> [state |-> "free", generation |-> 0]]
  /\ screen = 0 /\ repaint = FALSE
  /\ composer = Resting
  /\ pending = NoCopy
  /\ worker = [stage |-> "waiting", copy |-> NoCopy, stale |-> FALSE, reset |-> FALSE,
               baseline |-> 0]
  /\ retained = NoCopy /\ engine = NoCopy /\ panel = 0
  /\ window = "none" /\ late_sampled = FALSE
  /\ outstanding = FALSE /\ awaiting_capture = FALSE
  /\ release = [t \in Threads |-> NoRelease]
  /\ accounting = [opportunities |-> 0, closed_slot_skip |-> 0, full_pool_deferred |-> 0,
                   attempts |-> 0, resample_attempts |-> 0, outcomes |-> 0, no_output |-> 0]
  /\ obligations = [created |-> 0, fulfilled |-> 0, copy_failures |-> 0, cancelled |-> 0,
                    no_output |-> 0]

(* Variants of the definitions below, each a mistake the code could make. *)
KeepsSlotOnFailure == "copying"
CountsResampleTwice == 1
IgnoresRelease == FALSE

----------------------------------------------------------------------------
(* Leases *)

Free == {s \in Slots : slots[s].state = "free"}

\* The lease of a copy is destroyed by thread t; locked: in a hold of the
\* pipeline mutex, which the worker takes together with the adapter's.
Releasing(t, copy, locked) ==
  [release EXCEPT ![t] = IF copy.slot = 0 THEN NoRelease
                         ELSE [stage |-> "pool", copy |-> copy, locked |-> locked]]

Busy(t) == release[t].stage # "none"
PipelineLocked == \E t \in Threads : Busy(t) /\ release[t].locked
AdapterLocked == Busy("worker") /\ release["worker"].locked

\* What the composition thread reads before it makes an obligation outlasts
\* those few instructions, unless it is held up.
Prompt == "stall" \in Upsets \/ composer.stage \notin {"opportunity", "count", "observe"}

Matches(copy) == /\ slots[copy.slot].state = "converting"
                 /\ slots[copy.slot].generation = copy.generation

Dispatches == outstanding

ReleaseSlot(t) ==
  /\ release[t].stage = "pool"
  /\ Prompt
  /\ IF Matches(release[t].copy)
     THEN /\ slots' = [slots EXCEPT ![release[t].copy.slot].state = "free"]
          /\ release' = [release EXCEPT ![t].stage = "bridge", ![t].copy = NoCopy]
     ELSE /\ release' = [release EXCEPT ![t] = NoRelease]
          /\ UNCHANGED slots
  /\ UNCHANGED <<screenVars, composer, pending, worker, adapterVars, late_sampled,
                 policyVars, accounting>>

OnResourceReleased(t) ==
  /\ release[t].stage = "bridge"
  /\ outstanding' = (outstanding /\ ~Dispatches)
  /\ awaiting_capture' = (awaiting_capture \/ Dispatches)
  /\ release' = [release EXCEPT ![t] = IF Dispatches THEN [@ EXCEPT !.stage = "request"]
                                                     ELSE NoRelease]
  /\ UNCHANGED <<slots, screenVars, composer, pending, worker, adapterVars, late_sampled,
                 obligations, accounting>>

RequestComposite(t) ==
  /\ release[t].stage = "request"
  /\ repaint' = TRUE
  /\ release' = [release EXCEPT ![t] = NoRelease]
  /\ UNCHANGED <<slots, screen, composer, pending, worker, adapterVars, late_sampled,
                 policyVars, accounting>>

RequestRefused(t) ==
  /\ release[t].stage = "request" /\ "request" \in Upsets
  /\ release' = [release EXCEPT ![t].stage = "cancel"]
  /\ UNCHANGED <<slots, screenVars, composer, pending, worker, adapterVars, late_sampled,
                 policyVars, accounting>>

Cancel(t) ==
  /\ release[t].stage = "cancel"
  /\ obligations' = [obligations EXCEPT !.cancelled = @ + One(outstanding \/ awaiting_capture)]
  /\ outstanding' = FALSE /\ awaiting_capture' = FALSE
  /\ release' = [release EXCEPT ![t] = NoRelease]
  /\ UNCHANGED <<slots, screenVars, composer, pending, worker, adapterVars, late_sampled,
                 accounting>>

----------------------------------------------------------------------------
(* The composition thread *)

Composed(page) ==
  /\ composer = Resting /\ ~Busy("composer")
  /\ composer' = [Resting EXCEPT !.stage = "entered", !.page = page]
  /\ UNCHANGED <<poolVars, pending, worker, adapterVars, late_sampled, policyVars,
                 accounting>>

\* A composition in its own right may or may not serve a request as well.
Compose ==
  /\ screen < MaxCompositions
  /\ screen' = screen + 1
  /\ repaint' \in {FALSE, repaint}
  /\ Composed(screen + 1)

Repaint ==
  /\ repaint
  /\ repaint' = FALSE
  /\ UNCHANGED screen
  /\ Composed(screen)

\* The capture that sees the property change is itself thrown away.
SwitchSource ==
  /\ composer.stage = "entered" /\ "switch" \in Upsets
  /\ ~PipelineLocked
  /\ pending' = NoCopy
  /\ worker' = [worker EXCEPT !.stale = worker.stage # "waiting", !.reset = TRUE]
  /\ release' = Releasing("composer", pending, TRUE)
  /\ composer' = Resting
  /\ UNCHANGED <<slots, screenVars, adapterVars, late_sampled, policyVars, accounting>>

ReadState ==
  /\ composer.stage = "entered"
  /\ ~PipelineLocked /\ ~AdapterLocked
  /\ composer' = [composer EXCEPT
       !.stage = "opportunity",
       !.state = [conversion |-> worker.stage # "waiting",
                  capture |-> pending # NoCopy,
                  adapter |-> retained # NoCopy \/ engine # NoCopy,
                  window |-> window]]
  /\ UNCHANGED <<poolVars, screenVars, pending, worker, adapterVars, late_sampled,
                 policyVars, accounting>>

TakeResample ==
  /\ composer.stage = "opportunity"
  /\ awaiting_capture
  /\ awaiting_capture' = FALSE
  /\ composer' = [composer EXCEPT !.stage = "count", !.resample = TRUE]
  /\ UNCHANGED <<poolVars, screenVars, pending, worker, adapterVars, late_sampled,
                 outstanding, obligations, accounting>>

RetainedCandidate ==
  composer.state.conversion \/ composer.state.capture \/ composer.state.adapter

ClosedSlot == /\ RetainedCandidate
              /\ \/ composer.state.window = "closed"
                 \/ composer.state.window = "late" /\ late_sampled

Skip ==
  /\ composer.stage = "opportunity"
  /\ ~awaiting_capture
  /\ ClosedSlot
  /\ accounting' = [accounting EXCEPT !.opportunities = @ + 1, !.closed_slot_skip = @ + 1]
  /\ composer' = Resting
  /\ UNCHANGED <<poolVars, screenVars, pending, worker, adapterVars, late_sampled,
                 policyVars>>

Admit ==
  /\ composer.stage = "opportunity"
  /\ ~awaiting_capture
  /\ ~ClosedSlot
  /\ late_sampled' = (late_sampled \/ (RetainedCandidate /\ composer.state.window = "late"))
  /\ accounting' = [accounting EXCEPT !.opportunities = @ + 1]
  /\ composer' = [composer EXCEPT !.stage = "count"]
  /\ UNCHANGED <<poolVars, screenVars, pending, worker, adapterVars, policyVars>>

\* A resample attempt is no admission of its own.
ResampleAttempt == 0

CountBusy ==
  /\ composer.stage = "count"
  /\ composer' = [composer EXCEPT !.stage = IF composer.resample THEN "attempt" ELSE "observe",
                                  !.full = Free = {}]
  /\ accounting' = IF composer.resample
                   THEN [accounting EXCEPT !.resample_attempts = @ + 1,
                                           !.attempts = @ + ResampleAttempt]
                   ELSE accounting
  /\ UNCHANGED <<poolVars, screenVars, pending, worker, adapterVars, late_sampled,
                 policyVars>>

Qualifies == /\ composer.full
             /\ composer.state.conversion
             /\ composer.state.capture
             /\ ~composer.state.adapter

Coalesces == outstanding \/ awaiting_capture

Defer ==
  /\ composer.stage = "observe"
  /\ Qualifies
  /\ outstanding' = (outstanding \/ ~Coalesces)
  /\ obligations' = [obligations EXCEPT !.created = @ + One(~Coalesces)]
  /\ accounting' = [accounting EXCEPT !.full_pool_deferred = @ + 1]
  /\ composer' = Resting
  /\ UNCHANGED <<poolVars, screenVars, pending, worker, adapterVars, late_sampled,
                 awaiting_capture>>

Proceed ==
  /\ composer.stage = "observe"
  /\ ~Qualifies
  /\ accounting' = [accounting EXCEPT !.attempts = @ + 1]
  /\ composer' = [composer EXCEPT !.stage = "attempt"]
  /\ UNCHANGED <<poolVars, screenVars, pending, worker, adapterVars, late_sampled,
                 policyVars>>

\* The session counts these itself (r1_source_direct_no_output); neither the
\* pressure accounting nor the resample policy hears of them, so obligations'
\* no_output is history.
DirectNoOutput ==
  /\ composer.stage = "attempt" /\ "direct" \in Upsets
  /\ accounting' = [accounting EXCEPT !.no_output = @ + 1]
  /\ obligations' = [obligations EXCEPT !.no_output = @ + One(composer.resample)]
  /\ composer' = Resting
  /\ UNCHANGED <<poolVars, screenVars, pending, worker, adapterVars, late_sampled,
                 outstanding, awaiting_capture>>

\* TryCopy takes the first free slot and never waits for one.
Acquire ==
  /\ composer.stage = "attempt"
  /\ \E s \in Free :
       /\ \A r \in Free : s <= r
       /\ slots' = [slots EXCEPT ![s] = [state |-> "copying", generation |-> @.generation + 1]]
       /\ composer' = [composer EXCEPT !.stage = "copying",
                         !.copy = [page |-> composer.page, slot |-> s,
                                   generation |-> slots[s].generation + 1]]
  /\ UNCHANGED <<release, screenVars, pending, worker, adapterVars, late_sampled,
                 policyVars, accounting>>

\* A protected or empty source is refused before a slot is looked for.
SourceRefused ==
  /\ composer.stage = "attempt" /\ "copy" \in Upsets
  /\ composer' = [composer EXCEPT !.stage = "failed"]
  /\ UNCHANGED <<poolVars, screenVars, pending, worker, adapterVars, late_sampled,
                 policyVars, accounting>>

PoolDrop ==
  /\ composer.stage = "attempt"
  /\ Free = {}
  /\ composer' = [composer EXCEPT !.stage = "failed"]
  /\ UNCHANGED <<poolVars, screenVars, pending, worker, adapterVars, late_sampled,
                 policyVars, accounting>>

FailedSlot == "free"

CopyFails ==
  /\ composer.stage = "copying" /\ "copy" \in Upsets
  /\ slots' = [slots EXCEPT ![composer.copy.slot].state = FailedSlot]
  /\ composer' = [composer EXCEPT !.stage = "failed", !.copy = NoCopy]
  /\ UNCHANGED <<release, screenVars, pending, worker, adapterVars, late_sampled,
                 policyVars, accounting>>

RecordFailure ==
  /\ composer.stage = "failed"
  /\ obligations' = [obligations EXCEPT !.copy_failures = @ + One(composer.resample)]
  /\ accounting' = [accounting EXCEPT !.outcomes = @ + 1]
  /\ composer' = Resting
  /\ UNCHANGED <<poolVars, screenVars, pending, worker, adapterVars, late_sampled,
                 outstanding, awaiting_capture>>

HandOff ==
  /\ composer.stage = "copying"
  /\ slots' = [slots EXCEPT ![composer.copy.slot].state = "converting"]
  /\ composer' = [composer EXCEPT !.stage = "copied"]
  /\ UNCHANGED <<release, screenVars, pending, worker, adapterVars, late_sampled,
                 policyVars, accounting>>

RecordCopy ==
  /\ composer.stage = "copied"
  /\ obligations' = [obligations EXCEPT !.fulfilled = @ + One(composer.resample)]
  /\ composer' = [composer EXCEPT !.stage = "deliver"]
  /\ UNCHANGED <<poolVars, screenVars, pending, worker, adapterVars, late_sampled,
                 outstanding, awaiting_capture, accounting>>

\* The newer copy displaces the one that waits, whose lease goes with it.
Displacing(copy) == copy

OnCapturedComposition ==
  /\ composer.stage = "deliver"
  /\ ~PipelineLocked
  /\ pending' = Displacing(composer.copy)
  /\ release' = Releasing("composer", IF pending' = pending THEN composer.copy ELSE pending, TRUE)
  /\ accounting' = [accounting EXCEPT !.outcomes = @ + 1]
  /\ composer' = Resting
  /\ UNCHANGED <<slots, screenVars, worker, adapterVars, late_sampled, policyVars>>

----------------------------------------------------------------------------
(* The conversion worker *)

ConversionTake ==
  /\ worker.stage = "waiting" /\ ~Busy("worker")
  /\ pending # NoCopy /\ ~PipelineLocked
  /\ worker' = [stage |-> "converting", copy |-> pending, stale |-> FALSE, reset |-> FALSE,
                baseline |-> IF worker.reset THEN 0 ELSE worker.baseline]
  /\ pending' = NoCopy
  /\ UNCHANGED <<poolVars, screenVars, composer, adapterVars, late_sampled, policyVars,
                 accounting>>

\* The worker gives up a capture; its lease goes after the mutex is released.
ConversionEnds ==
  /\ ~PipelineLocked
  /\ worker' = [worker EXCEPT !.stage = "waiting", !.copy = NoCopy, !.stale = FALSE]
  /\ release' = Releasing("worker", worker.copy, FALSE)
  /\ UNCHANGED <<slots, screenVars, composer, pending, adapterVars, late_sampled,
                 policyVars, accounting>>

ConversionDiscard ==
  /\ worker.stage = "converting"
  /\ worker.stale \/ "conversion" \in Upsets
  /\ ConversionEnds

ConversionCheck ==
  /\ worker.stage = "converting" /\ ~PipelineLocked
  /\ ~worker.stale
  /\ worker' = [worker EXCEPT !.stage = "checked"]
  /\ UNCHANGED <<poolVars, screenVars, composer, pending, adapterVars, late_sampled,
                 policyVars, accounting>>

\* A page that was the last one already is not shown again.
ConversionUnchanged ==
  /\ worker.stage = "checked"
  /\ worker.copy.page = worker.baseline
  /\ ConversionEnds

\* Only the color panel's engine still needs the snapshot.
ConversionAssemble ==
  /\ worker.stage = "checked"
  /\ worker.copy.page # worker.baseline
  /\ release' = IF ColorPanel THEN release ELSE Releasing("worker", worker.copy, FALSE)
  /\ worker' = [worker EXCEPT !.stage = "assembled", !.baseline = worker.copy.page,
                  !.copy = IF ColorPanel THEN @ ELSE [@ EXCEPT !.slot = 0, !.generation = 0]]
  /\ UNCHANGED <<slots, screenVars, composer, pending, adapterVars, late_sampled,
                 policyVars, accounting>>

ConversionEnqueue ==
  /\ worker.stage = "assembled" /\ ~Busy("worker")
  /\ ~PipelineLocked
  /\ retained' = worker.copy
  /\ release' = Releasing("worker", retained, TRUE)
  /\ worker' = [worker EXCEPT !.stage = "enqueued", !.copy = NoCopy]
  /\ UNCHANGED <<slots, screenVars, composer, pending, engine, panel, window, late_sampled,
                 policyVars, accounting>>

ConversionFinish ==
  /\ worker.stage = "enqueued" /\ ~Busy("worker")
  /\ ~PipelineLocked
  /\ worker' = [worker EXCEPT !.stage = "waiting", !.stale = FALSE]
  /\ UNCHANGED <<poolVars, screenVars, composer, pending, adapterVars, late_sampled,
                 policyVars, accounting>>

----------------------------------------------------------------------------
(* The adapter's worker and the clock *)

SubmitTake ==
  /\ engine = NoCopy /\ ~Busy("submitter") /\ ~AdapterLocked
  /\ retained # NoCopy
  /\ window \in {"none", "elapsed"}
  /\ engine' = retained
  /\ retained' = NoCopy
  /\ UNCHANGED <<poolVars, screenVars, composer, pending, worker, panel, window,
                 late_sampled, policyVars, accounting>>

\* A new output slot opens with the acceptance.
SubmitAccept ==
  /\ engine # NoCopy /\ ~AdapterLocked
  /\ panel' = engine.page
  /\ engine' = NoCopy
  /\ release' = Releasing("submitter", engine, FALSE)
  /\ window' = "closed"
  /\ late_sampled' = FALSE
  /\ UNCHANGED <<slots, screenVars, composer, pending, worker, retained, policyVars,
                 accounting>>

PassTime ==
  /\ \/ window = "closed" /\ window' = "late"
     \/ window = "late" /\ window' = "elapsed"
  /\ UNCHANGED <<poolVars, screenVars, composer, pending, worker, retained, engine, panel,
                 late_sampled, policyVars, accounting>>

Capture == \/ ReadState \/ TakeResample \/ Skip \/ Admit \/ CountBusy \/ Defer \/ Proceed
           \/ DirectNoOutput \/ Acquire \/ SourceRefused \/ PoolDrop \/ CopyFails
           \/ RecordFailure \/ HandOff \/ RecordCopy \/ OnCapturedComposition
Convert == \/ ConversionTake \/ ConversionDiscard \/ ConversionCheck
           \/ ConversionUnchanged \/ ConversionAssemble
           \/ ConversionEnqueue \/ ConversionFinish
Submit == SubmitTake \/ SubmitAccept
Release(t) == \/ ReleaseSlot(t) \/ OnResourceReleased(t) \/ RequestComposite(t)
              \/ RequestRefused(t) \/ Cancel(t)

Next == \/ Compose \/ Repaint \/ SwitchSource
        \/ Capture
        \/ Convert
        \/ Submit
        \/ \E t \in Threads : Release(t)
        \/ PassTime

Spec == Init /\ [][Next]_vars

\* Threads run, SurfaceFlinger draws what it was asked to, and time passes;
\* nobody owes the session another composition.
FairSpec == /\ Spec
            /\ WF_vars(Repaint) /\ WF_vars(Capture) /\ WF_vars(Convert)
            /\ WF_vars(Submit) /\ WF_vars(PassTime)
            /\ \A t \in Threads : WF_vars(Release(t))

----------------------------------------------------------------------------
(* Properties *)

\* The type invariant.
TypeOK ==
  /\ slots \in [Slots -> [state : {"free", "copying", "converting"}, generation : Nat]]
  /\ screen \in Pages /\ panel \in Pages /\ repaint \in BOOLEAN
  /\ pending \in Copies /\ retained \in Copies /\ engine \in Copies
  /\ composer.copy \in Copies /\ worker.copy \in Copies
  /\ worker.stage \in {"waiting", "converting", "checked", "assembled", "enqueued"}
  /\ worker.baseline \in Pages
  /\ window \in {"none", "closed", "late", "elapsed"} /\ late_sampled \in BOOLEAN
  /\ ~(outstanding /\ awaiting_capture)
  /\ ~ColorPanel => retained.slot = 0 /\ engine.slot = 0

\* Where a lease may be: a place keeps a copy, or a thread is about to return it.
Places == {"capture", "pending", "conversion", "retained", "engine"} \cup Threads

Held(p) == CASE p = "capture" -> composer.copy
             [] p = "pending" -> pending
             [] p = "conversion" -> worker.copy
             [] p = "retained" -> retained
             [] p = "engine" -> engine
             [] OTHER -> release[p].copy

Holders(s) == {p \in Places : Held(p).slot = s}

\* Every slot that is not free is on lease to exactly one place, in the slot's
\* own generation, and a free slot to none: no path of success or failure leaks
\* a slot, returns it twice or returns it while another copy is in it.
OneLeasePerSlot ==
  \A s \in Slots :
    /\ Cardinality(Holders(s)) = One(slots[s].state # "free")
    /\ \A p \in Holders(s) : Held(p).generation = slots[s].generation
    /\ slots[s].state = "copying" <=>
         composer.stage = "copying" /\ composer.copy.slot = s

\* Between captures the accounting reconciles as HasReconciledAccounting demands:
\* every opportunity was skipped, deferred or attempted, and every attempt, an
\* ordinary one or a resample, has one outcome, except that a direct source
\* without output ends its attempt uncounted.
ReconciledAccounting ==
  composer.stage = "idle" =>
    /\ accounting.opportunities = accounting.attempts + accounting.closed_slot_skip
                                    + accounting.full_pool_deferred
    /\ accounting.attempts + accounting.resample_attempts
         = accounting.outcomes + accounting.no_output

\* Each full-pool obligation ends once: fulfilled, failed or cancelled, or it is
\* still owed to a release, to a capture, or to the capture under way.  Again a
\* direct source without output ends one uncounted.
ObligationsSettled ==
  obligations.created = obligations.fulfilled + obligations.copy_failures
                          + obligations.cancelled + obligations.no_output
                          + One(outstanding) + One(awaiting_capture)
                          + One(composer.resample /\ composer.stage # "deliver")

\* The accounts of the captures and of the obligations settle.
AccountsSettle == ReconciledAccounting /\ ObligationsSettled

\* A release is still to come that will look at the obligation.  (When both
\* leases come back between the reading of the pool and the making of the
\* obligation, none is: then only a later copy's lease will.  A slot whose copy
\* fails is freed without one.)
ReleaseAhead == \/ \E s \in Slots : slots[s].state # "copying" /\ Holders(s) # {}
                \/ \E t \in Threads : release[t].stage = "bridge"

\* A composition deferred for a full pool is not forgotten as long as a lease is
\* still to come back: a release asks for another composition, or finds that the
\* obligation was cancelled.  (That composition is thrown away when it is the one
\* that sees a source switch; the next one is then the resample.)
DeferredIsRetried == outstanding /\ ReleaseAhead ~> ~outstanding
=============================================================================
