------------------------- MODULE SessionDiagnostics -------------------------
(***************************************************************************)
(* The diagnostics of a capture session and the two mutexes they wait for. *)
(* The composition thread ends each capture with MaybeLogM3Diagnostics:    *)
(* it copies the session's counters under sleep_image_mutex, decides by    *)
(* the five-second interval and the dirty flag whether to publish, then    *)
(* reads the engine's counters under the engine's mutex.  A privileged     *)
(* caller may take a fresh snapshot, which reads the engine's counters     *)
(* with sleep_image_mutex still held.  The sleep service counts catalogs   *)
(* under sleep_image_mutex; the engine holds its own mutex for a Submit.   *)
(* The counters stand for one, the accepted catalogs; what the lines print *)
(* is left out.                                                            *)
(***************************************************************************)
EXTENDS Naturals

CONSTANTS MaxCatalogs, MaxSubmissions

VARIABLES
  main,          \* the composition thread: between captures, or in the log
  fresh,         \* a FreshDiagnosticsSnapshot call, and what it copied
  counted,       \* sleep_image_catalog_accepted
  dirty,         \* sleep_image_diagnostics_dirty
  elapsed,       \* five seconds have passed since last_diagnostics
  copied,        \* the local copy of the counters
  submitting,    \* the engine is inside Submit
  submissions,   \* pending_submission_id
  snapshot,      \* g_snapshot: the counters and submissions it shows
  answer         \* the last fresh snapshot

vars == <<main, fresh, counted, dirty, elapsed, copied, submitting, submissions, snapshot,
          answer>>

EmptyLine == [counted |-> 0, submissions |-> 0]

Init ==
  /\ main = "idle" /\ fresh = "none" /\ counted = 0 /\ dirty = FALSE /\ elapsed = FALSE
  /\ copied = 0 /\ submitting = FALSE /\ submissions = 0 /\ snapshot = EmptyLine /\ answer = EmptyLine

StateMutexFree == fresh # "engine"
EngineMutexFree == ~submitting

CaptureEnds ==
  /\ main = "idle"
  /\ main' = "copy"
  /\ UNCHANGED <<fresh, counted, dirty, elapsed, copied, submitting, submissions, snapshot,
                 answer>>

CopyCounters ==
  /\ main = "copy" /\ StateMutexFree
  /\ copied' = counted
  /\ main' = "decide"
  /\ UNCHANGED <<fresh, counted, dirty, elapsed, submitting, submissions, snapshot, answer>>

\* The interval is tested first; the flag is cleared either way.
LogDue == elapsed \/ dirty

Decide ==
  /\ main = "decide"
  /\ main' = IF LogDue THEN "engine" ELSE "idle"
  /\ dirty' = FALSE
  /\ elapsed' = (elapsed /\ ~LogDue)
  /\ UNCHANGED <<fresh, counted, copied, submitting, submissions, snapshot, answer>>

\* ObserveCompletionTimeout and diagnostics of the engine, then PublishSnapshot.
Publish ==
  /\ main = "engine" /\ EngineMutexFree
  /\ snapshot' = [counted |-> copied, submissions |-> submissions]
  /\ main' = "idle"
  /\ UNCHANGED <<fresh, counted, dirty, elapsed, copied, submitting, submissions, answer>>

IntervalElapses ==
  /\ ~elapsed
  /\ elapsed' = TRUE
  /\ UNCHANGED <<main, fresh, counted, dirty, copied, submitting, submissions, snapshot, answer>>

-----------------------------------------------------------------------------
CountCatalog ==
  /\ StateMutexFree /\ counted < MaxCatalogs
  /\ counted' = counted + 1
  /\ dirty' = TRUE
  /\ UNCHANGED <<main, fresh, elapsed, copied, submitting, submissions, snapshot, answer>>

FreshCall ==
  /\ fresh = "none"
  /\ fresh' = "state"
  /\ UNCHANGED <<main, counted, dirty, elapsed, copied, submitting, submissions, snapshot,
                 answer>>

FreshLocks ==
  /\ fresh = "state"
  /\ fresh' = "engine"
  /\ UNCHANGED <<main, counted, dirty, elapsed, copied, submitting, submissions, snapshot,
                 answer>>

FreshReturns ==
  /\ fresh = "engine" /\ EngineMutexFree
  /\ answer' = [counted |-> counted, submissions |-> submissions]
  /\ fresh' = "none"
  /\ UNCHANGED <<main, counted, dirty, elapsed, copied, submitting, submissions, snapshot>>

-----------------------------------------------------------------------------
SubmitBegin ==
  /\ ~submitting /\ submissions < MaxSubmissions
  /\ submitting' = TRUE
  /\ UNCHANGED <<main, fresh, counted, dirty, elapsed, copied, submissions, snapshot, answer>>

\* Mistaken: the engine reports into the session, under the session's mutex,
\* before it lets go of its own.
SubmitEndReporting ==
  /\ submitting /\ StateMutexFree
  /\ submitting' = FALSE
  /\ submissions' = submissions + 1
  /\ UNCHANGED <<main, fresh, counted, dirty, elapsed, copied, snapshot, answer>>

SubmitEnd ==
  /\ submitting
  /\ submitting' = FALSE
  /\ submissions' = submissions + 1
  /\ UNCHANGED <<main, fresh, counted, dirty, elapsed, copied, snapshot, answer>>

-----------------------------------------------------------------------------
Logging == CopyCounters \/ Decide \/ Publish
Asking == FreshLocks \/ FreshReturns
Next ==
  \/ CaptureEnds \/ Logging \/ IntervalElapses \/ CountCatalog
  \/ FreshCall \/ Asking \/ SubmitBegin \/ SubmitEnd

-----------------------------------------------------------------------------
(* Properties *)

\* The composition thread is never held for ever by a diagnostics call, nor the
\* call by a submission: the two mutexes are taken in one order.
NobodyWaitsForEver ==
  /\ main # "idle" ~> main = "idle"
  /\ fresh # "none" ~> fresh = "none"

\* While captures keep coming, the cached line catches up with the catalogs
\* accepted, also when one was accepted between the copy of the counters and
\* the reset of the dirty flag, which loses the flag.
SnapshotCatchesUp ==
  []<><<CopyCounters>>_vars =>
    \A n \in 1..MaxCatalogs : [](counted = n ~> snapshot.counted = n \/ counted # n)

=============================================================================
