------------------------- MODULE PresentationAdapter -------------------------
(***************************************************************************)
(* The depth-one presentation scheduler of eink_presentation_adapter.cpp:  *)
(* callers put frames in a single pending slot under a mutex, a worker     *)
(* thread hands them one at a time to the engine, spaced by an interval    *)
(* that is re-read from a system property, and Stop closes and joins.      *)
(* Every action is one hold of the mutex, or one call made outside it.     *)
(* Time is a clock of ticks; the condition variable is modelled with its   *)
(* wake-ups, which callers send after they have released the mutex.        *)
(***************************************************************************)
EXTENDS Naturals

CONSTANTS Callers,         \* threads that enqueue and cancel
          Intervals,       \* values the submission interval may take, in ticks
          Epochs,          \* nonzero sleep-image epochs
          Requests,        \* nonzero diagnostic request numbers
          MaxFrames,       \* bound on frames enqueued
          MaxTime,         \* bound on the clock
          EngineMayReject  \* whether the engine may refuse for reasons of its own

ASSUME BoundsAssumption ==
  /\ Intervals \subseteq Nat /\ Intervals # {}
  /\ Epochs \subseteq Nat \ {0}
  /\ Requests \subseteq Nat \ {0}
  /\ MaxFrames \in Nat
  /\ MaxTime \in Nat
  /\ EngineMayReject \in BOOLEAN

VARIABLES
  pending,                   \* the frame in the slot, or NoFrame
  pending_is_trailing,       \* the pending frame has been deferred
  started, stopping,
  last_accepted_submission,  \* adapter's time of the last acceptance, 0: never
  diagnostics,               \* the counters of Diagnostics
  worker,                    \* where the worker thread is
  submission,                \* the worker's local frame, trailing mark and answer
  eligible_at,               \* until when the worker waits in wait_until
  woken,                     \* a notification has reached the blocked worker
  notifying,                 \* callers between the mutex and notify_one
  stopper,                   \* where the thread that called Stop is
  now, interval,             \* the clock and the interval property
  last_submission,           \* the engine's own time of its last acceptance
  handed, withdrawn          \* history: last frame handed over, last cancelled

adapterVars == <<pending, pending_is_trailing, started, stopping,
                 last_accepted_submission, diagnostics>>
workerVars == <<worker, submission, eligible_at, woken>>
callerVars == <<notifying, stopper>>
clockVars == <<now, interval>>
historyVars == <<handed, withdrawn>>
vars == <<adapterVars, workerVars, callerVars, last_submission, clockVars, historyVars>>

\* Frames are numbered in the order Enqueue accepts them.
Frames == [id : 1..MaxFrames, epoch : Epochs \cup {0}, request : Requests \cup {0}]
NoFrame == [id |-> 0, epoch |-> 0, request |-> 0]
NoSubmission == [frame |-> NoFrame, trailing |-> FALSE, accepted |-> FALSE]

Blocked == {"waiting", "deferred"}
InEngine == {"submit", "driving"}
\* The engine owns the frame, or has answered and not been observed yet.
Submitting == InEngine \cup {"returned", "recorded"}

Counters == [enqueues_accepted : Nat, pending_replaced : Nat,
             pending_sleep_images_cancelled : Nat, trailing_deferred : Nat,
             trailing_submitted : Nat, submit_calls : Nat, submit_rejected : Nat]

One(b) == IF b THEN 1 ELSE 0

(* Variants of the definitions below, each a mistake the code could make: *)
(* they are never part of the specification.                              *)
SignalIsDropped == FALSE
DetachWorker == TRUE
CountsEveryEnqueue == 1
KeepsOlderFrame(frame) == IF pending # NoFrame THEN pending ELSE frame
NeverInherits(frame) == frame
SleepInherits(frame) ==
  IF pending # NoFrame /\ frame.request = 0
  THEN [frame EXCEPT !.request = pending.request]
  ELSE frame

Init ==
  /\ pending = NoFrame /\ pending_is_trailing = FALSE
  /\ started = FALSE /\ stopping = FALSE
  /\ last_accepted_submission = 0
  /\ diagnostics = [enqueues_accepted |-> 0, pending_replaced |-> 0,
                    pending_sleep_images_cancelled |-> 0, trailing_deferred |-> 0,
                    trailing_submitted |-> 0, submit_calls |-> 0, submit_rejected |-> 0]
  /\ worker = "none" /\ submission = NoSubmission /\ eligible_at = 0 /\ woken = FALSE
  /\ notifying = {} /\ stopper = "none"
  /\ now = 1 /\ interval \in Intervals
  /\ last_submission = 0
  /\ handed = 0 /\ withdrawn = 0

----------------------------------------------------------------------------
(* Callers *)

\* notify_one reaches the worker only if it is blocked at that moment.
SignalReaches == worker \in Blocked

\* thread::join returns once the worker has left WorkerMain.
Joinable == worker = "exited"

Replaced == One(pending # NoFrame)

Start ==
  /\ ~started /\ ~stopping
  /\ started' = TRUE
  /\ worker' = "ready"
  /\ UNCHANGED <<pending, pending_is_trailing, stopping, last_accepted_submission,
                 diagnostics, submission, eligible_at, woken, callerVars, last_submission,
                 clockVars, historyVars>>

\* What a frame carries once it replaces the pending one.
Inheriting(frame) ==
  IF pending # NoFrame /\ frame.epoch = 0 /\ frame.request = 0
  THEN [frame EXCEPT !.request = pending.request]
  ELSE frame

\* The pipeline never asks for a diagnostic refresh of a sleep image.
Enqueue(c, epoch, request) ==
  /\ c \notin notifying
  /\ started /\ ~stopping
  /\ diagnostics.enqueues_accepted < MaxFrames
  /\ pending' = Inheriting([id |-> diagnostics.enqueues_accepted + 1,
                            epoch |-> epoch, request |-> request])
  /\ diagnostics' = [diagnostics EXCEPT
                       !.enqueues_accepted = @ + 1,
                       !.pending_replaced = @ + Replaced]
  /\ notifying' = notifying \cup {c}
  /\ UNCHANGED <<pending_is_trailing, started, stopping, last_accepted_submission,
                 workerVars, stopper, last_submission, clockVars, historyVars>>

Notify(c) ==
  /\ c \in notifying
  /\ notifying' = notifying \ {c}
  /\ woken' = SignalReaches
  /\ UNCHANGED <<adapterVars, worker, submission, eligible_at, stopper, last_submission,
                 clockVars, historyVars>>

CancelPendingSleepImage(epoch) ==
  /\ pending # NoFrame
  /\ pending.epoch = epoch
  /\ withdrawn' = pending.id
  /\ pending' = NoFrame
  /\ pending_is_trailing' = FALSE
  /\ diagnostics' = [diagnostics EXCEPT !.pending_sleep_images_cancelled = @ + 1]
  /\ UNCHANGED <<started, stopping, last_accepted_submission, workerVars, callerVars,
                 last_submission, clockVars, handed>>

CancelPendingDiagnosticRefresh ==
  /\ pending # NoFrame
  /\ pending.request # 0
  /\ pending' = [pending EXCEPT !.request = 0]
  /\ UNCHANGED <<pending_is_trailing, started, stopping, last_accepted_submission,
                 diagnostics, workerVars, callerVars, last_submission, clockVars, historyVars>>

StopBegin ==
  /\ started /\ ~stopping
  /\ stopping' = TRUE
  /\ pending' = NoFrame
  /\ stopper' = "notify"
  /\ UNCHANGED <<pending_is_trailing, started, last_accepted_submission, diagnostics,
                 workerVars, notifying, last_submission, clockVars, historyVars>>

StopNotify ==
  /\ stopper = "notify"
  /\ stopper' = "join"
  /\ woken' = SignalReaches
  /\ UNCHANGED <<adapterVars, worker, submission, eligible_at, notifying, last_submission,
                 clockVars, historyVars>>

StopJoin ==
  /\ stopper = "join"
  /\ Joinable
  /\ stopper' = "stopped"
  /\ UNCHANGED <<adapterVars, workerVars, notifying, last_submission, clockVars, historyVars>>

----------------------------------------------------------------------------
(* The worker thread; "ready" is the top of its inner loop, mutex held. *)

TooEarly ==
  /\ last_accepted_submission # 0
  /\ interval > 0
  /\ now < last_accepted_submission + interval

\* A frame deferred again, or replaced while deferred, counts once.
FirstDeferral == One(~pending_is_trailing)

WorkerExit ==
  /\ worker = "ready" /\ stopping
  /\ worker' = "exited"
  /\ UNCHANGED <<adapterVars, submission, eligible_at, woken, callerVars, last_submission,
                 clockVars, historyVars>>

WorkerWait ==
  /\ worker = "ready" /\ ~stopping
  /\ pending = NoFrame
  /\ worker' = "waiting"
  /\ woken' = FALSE
  /\ UNCHANGED <<adapterVars, submission, eligible_at, callerVars, last_submission,
                 clockVars, historyVars>>

\* wait_until releases the mutex; its predicate is stopping alone.
WorkerDefer ==
  /\ worker = "ready" /\ ~stopping
  /\ pending # NoFrame
  /\ TooEarly
  /\ pending_is_trailing' = TRUE
  /\ diagnostics' = [diagnostics EXCEPT !.trailing_deferred = @ + FirstDeferral]
  /\ worker' = "deferred"
  /\ eligible_at' = last_accepted_submission + interval
  /\ woken' = FALSE
  /\ UNCHANGED <<pending, started, stopping, last_accepted_submission, submission,
                 callerVars, last_submission, clockVars, historyVars>>

WorkerTake ==
  /\ worker = "ready" /\ ~stopping
  /\ pending # NoFrame
  /\ ~TooEarly
  /\ submission' = [frame |-> pending, trailing |-> pending_is_trailing, accepted |-> FALSE]
  /\ handed' = pending.id
  /\ pending' = NoFrame
  /\ pending_is_trailing' = FALSE
  /\ worker' = "submit"
  /\ UNCHANGED <<started, stopping, last_accepted_submission, diagnostics, eligible_at,
                 woken, callerVars, last_submission, clockVars, withdrawn>>

WorkerWake ==
  /\ \/ worker = "waiting" /\ woken
     \/ worker = "deferred" /\ now >= eligible_at
     \/ worker = "deferred" /\ woken /\ stopping
  /\ worker' = "ready"
  /\ woken' = FALSE
  /\ UNCHANGED <<adapterVars, submission, eligible_at, callerVars, last_submission,
                 clockVars, historyVars>>

WorkerRecord ==
  /\ worker = "returned"
  /\ diagnostics' = [diagnostics EXCEPT
                       !.submit_calls = @ + 1,
                       !.submit_rejected = @ + One(~submission.accepted),
                       !.trailing_submitted = @ + One(submission.accepted /\ submission.trailing)]
  /\ last_accepted_submission' = IF submission.accepted THEN now ELSE last_accepted_submission
  /\ worker' = "recorded"
  /\ UNCHANGED <<pending, pending_is_trailing, started, stopping, submission, eligible_at,
                 woken, callerVars, last_submission, clockVars, historyVars>>

\* The observer runs without the adapter's mutex.
WorkerObserve ==
  /\ worker = "recorded"
  /\ worker' = "ready"
  /\ submission' = NoSubmission
  /\ UNCHANGED <<adapterVars, eligible_at, woken, callerVars, last_submission, clockVars,
                 historyVars>>

----------------------------------------------------------------------------
(* The engine, as LowerEngineDirectBackend::Submit bounds its own rate. *)

EngineTooEarly == last_submission # 0 /\ now < last_submission + interval

EngineRefuse ==
  /\ worker = "submit"
  /\ EngineTooEarly \/ EngineMayReject
  /\ worker' = "returned"
  /\ submission' = [submission EXCEPT !.accepted = FALSE]
  /\ UNCHANGED <<adapterVars, eligible_at, woken, callerVars, last_submission, clockVars,
                 historyVars>>

EngineAdmit ==
  /\ worker = "submit"
  /\ ~EngineTooEarly
  /\ worker' = "driving"
  /\ UNCHANGED <<adapterVars, submission, eligible_at, woken, callerVars, last_submission,
                 clockVars, historyVars>>

EngineAccept ==
  /\ worker = "driving"
  /\ worker' = "returned"
  /\ submission' = [submission EXCEPT !.accepted = TRUE]
  /\ last_submission' = now
  /\ UNCHANGED <<adapterVars, eligible_at, woken, callerVars, clockVars,
                 historyVars>>

----------------------------------------------------------------------------
(* The clock and the interval property *)

\* The clock may pass its bound only to end a wait_until.
Tick ==
  /\ \/ now < MaxTime
     \/ worker = "deferred" /\ now < eligible_at
  /\ now' = now + 1
  /\ UNCHANGED <<adapterVars, workerVars, callerVars, last_submission, interval, historyVars>>

SetInterval(i) ==
  /\ interval' = i
  /\ i # interval
  /\ UNCHANGED <<adapterVars, workerVars, callerVars, last_submission, now, historyVars>>

Worker == \/ WorkerExit \/ WorkerWait \/ WorkerDefer \/ WorkerTake
          \/ WorkerWake \/ WorkerRecord \/ WorkerObserve
Engine == EngineRefuse \/ EngineAdmit \/ EngineAccept

Next ==
  \/ Start
  \/ \E c \in Callers, r \in Requests \cup {0} : Enqueue(c, 0, r)
  \/ \E c \in Callers, e \in Epochs : Enqueue(c, e, 0)
  \/ \E c \in Callers : Notify(c)
  \/ \E e \in Epochs : CancelPendingSleepImage(e)
  \/ CancelPendingDiagnosticRefresh
  \/ StopBegin \/ StopNotify \/ StopJoin
  \/ Worker
  \/ Engine
  \/ Tick
  \/ \E i \in Intervals : SetInterval(i)

Spec == Init /\ [][Next]_vars

\* The worker, the engine call, a caller past its mutex and the clock keep
\* running; nobody is obliged to enqueue, to cancel or to stop.
FairSpec ==
  /\ Spec
  /\ WF_vars(Worker)
  /\ WF_vars(Engine)
  /\ WF_vars(Tick)
  /\ \A c \in Callers : WF_vars(Notify(c))
  /\ WF_vars(StopNotify) /\ WF_vars(StopJoin)

----------------------------------------------------------------------------
(* Properties *)

\* The shape of the adapter's, the worker's and the others' state.  The worker
\* holds a frame exactly while a submission is under way, and a wake-up is kept
\* only for a worker that is blocked.
AdapterOK ==
  /\ pending \in Frames \cup {NoFrame}
  /\ pending_is_trailing \in BOOLEAN /\ started \in BOOLEAN /\ stopping \in BOOLEAN
  /\ last_accepted_submission \in Nat
  /\ diagnostics \in Counters

WorkerOK ==
  /\ worker \in {"none", "ready", "exited"} \cup Blocked \cup Submitting
  /\ submission \in [frame : Frames \cup {NoFrame}, trailing : BOOLEAN, accepted : BOOLEAN]
  /\ submission.frame # NoFrame <=> worker \in Submitting
  /\ eligible_at \in Nat
  /\ woken \in BOOLEAN
  /\ woken => worker \in Blocked

OthersOK ==
  /\ notifying \subseteq Callers
  /\ stopper \in {"none", "notify", "join", "stopped"}
  /\ now \in Nat \ {0} /\ interval \in Intervals
  /\ last_submission \in Nat
  /\ handed \in 0..MaxFrames /\ withdrawn \in 0..MaxFrames

\* The type invariant.
TypeOK == AdapterOK /\ WorkerOK /\ OthersOK

\* The counters account for every accepted frame: it was replaced, cancelled or
\* submitted, or it is in the slot or in the engine's hands; Stop discards at
\* most the one frame it finds pending.
SlotAccounting ==
  LET settled == diagnostics.pending_replaced
                   + diagnostics.pending_sleep_images_cancelled
                   + diagnostics.submit_calls
                   + One(pending # NoFrame)
                   + One(worker \in InEngine \cup {"returned"})
  IN  /\ settled <= diagnostics.enqueues_accepted
      /\ diagnostics.enqueues_accepted <= settled + One(stopping)

\* A deferral is counted once for each stay in the slot, however often the frame
\* is replaced or the wait repeated, and is recorded as submitted at most once.
TrailingAccounting ==
  /\ diagnostics.trailing_submitted + One(pending_is_trailing) + One(submission.trailing)
       <= diagnostics.trailing_deferred + One(submission.trailing /\ worker = "recorded")
  /\ diagnostics.trailing_deferred
       <= diagnostics.submit_calls + diagnostics.pending_sleep_images_cancelled
            + One(worker \in InEngine \cup {"returned"})
            + One(pending # NoFrame \/ stopping)
  /\ pending_is_trailing => pending # NoFrame \/ stopping

\* The counters add up, whatever was replaced, withdrawn, deferred or stopped.
Accounting == SlotAccounting /\ TrailingAccounting

\* The pending frame is the newest one accepted and has never been handed over:
\* frames reach the engine in the order Enqueue accepted them, none twice.
NewestCandidate ==
  /\ pending # NoFrame => /\ pending.id = diagnostics.enqueues_accepted
                          /\ pending.id > handed
  /\ submission.frame # NoFrame => submission.frame.id = handed

\* A sleep image never inherits the diagnostic refresh it displaces: its cover
\* is not flashed.
SleepImageNeverFlashed ==
  \A f \in {pending, submission.frame} : f.epoch # 0 => f.request = 0

\* Once Stop has returned, no thread runs, nothing is pending, and nothing is in
\* the engine's hands.
QuietAfterStop ==
  stopper = "stopped" => /\ worker = "exited"
                         /\ pending = NoFrame
                         /\ submission = NoSubmission

\* A candidate leaves the slot for the engine at the next eligible time even if
\* nothing else is ever enqueued, unless it is withdrawn or Stop discards it; a
\* frame that displaces it inherits the promise.
CandidateReachesEngine ==
  \A i \in 1..MaxFrames :
    pending.id = i ~> handed >= i \/ withdrawn >= i \/ stopping

\* Stop returns, whatever the worker was waiting for when it was called.
StopCompletes == stopping ~> stopper = "stopped"

\* No wake-up is lost, neither a candidate's nor Stop's.
NoWakeUpLost == CandidateReachesEngine /\ StopCompletes

\* What FrameSlot sees of the threads.
SlotState == IF stopping THEN "closed" ELSE IF started THEN "open" ELSE "fresh"
SlotCall ==
  IF worker \in Submitting
  THEN [stage |-> IF worker \in InEngine THEN "submit" ELSE "answered",
        frame |-> submission.frame,
        accepted |-> submission.accepted]
  ELSE [stage |-> "idle", frame |-> NoFrame, accepted |-> FALSE]

Slot == INSTANCE FrameSlot WITH state <- SlotState, slot <- pending, call <- SlotCall

\* The adapter implements FrameSlot: coalescing, withdrawals and the one
\* submission in flight behave as if there were no threads and no wake-ups.
SlotSpec == Slot!Spec
=============================================================================
