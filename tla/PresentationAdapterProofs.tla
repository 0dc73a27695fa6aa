---------------------- MODULE PresentationAdapterProofs ----------------------
(***************************************************************************)
(* Proofs about PresentationAdapter for every number of callers and frames *)
(* and every set of intervals: the order of the frames, what a Stop leaves *)
(* behind, the counters, and that it implements FrameSlot.                 *)
(***************************************************************************)
EXTENDS PresentationAdapter, TLAPS

\* Where the threads can be: the worker runs exactly once Start has been called,
\* exits only for a Stop, and Stop returns only after it has.
ThreadInv ==
  /\ worker = "none" <=> ~started
  /\ stopping => started
  /\ stopping <=> stopper # "none"
  /\ worker = "exited" => stopping
  /\ stopper = "stopped" => worker = "exited"

\* A worker outside a submission has forgotten the last one, the engine has not
\* accepted what it is still working on, and Stop leaves nothing pending.
SubmissionInv ==
  /\ worker \notin Submitting => submission = NoSubmission
  /\ worker \in InEngine => submission.accepted = FALSE
  /\ stopping => pending = NoFrame

\* What ordering rests on: no frame is handed over before it is accepted.
OrderInv ==
  /\ NewestCandidate
  /\ handed <= diagnostics.enqueues_accepted
  /\ diagnostics.enqueues_accepted <= MaxFrames

IInv == TypeOK /\ ThreadInv /\ SubmissionInv /\ OrderInv /\ SleepImageNeverFlashed

USE BoundsAssumption
USE DEF adapterVars, workerVars, callerVars, clockVars, historyVars,
        Blocked, InEngine, Submitting, Worker, Engine

\* A slot or submission that holds a frame holds one of Frames.
LEMMA FrameShape ==
  /\ NoFrame \notin Frames
  /\ \A f \in Frames : f.id \in 1..MaxFrames /\ f.epoch \in Nat /\ f.request \in Nat
  /\ \A f \in Frames, r \in Requests \cup {0} :
       /\ [f EXCEPT !.request = r] \in Frames
       /\ [f EXCEPT !.request = r].id = f.id
       /\ [f EXCEPT !.request = r].epoch = f.epoch
       /\ [f EXCEPT !.request = r].request = r
BY DEF Frames, NoFrame

\* Coalescing changes nothing of a new frame but its diagnostic request, and
\* that only in an ordinary frame.
LEMMA InheritingShape ==
  ASSUME pending \in Frames \cup {NoFrame}, NEW f \in Frames
  PROVE  /\ Inheriting(f) \in Frames
         /\ Inheriting(f).id = f.id
         /\ Inheriting(f).epoch = f.epoch
         /\ f.epoch # 0 => Inheriting(f).request = f.request
<1>1. CASE pending = NoFrame
  BY <1>1 DEF Inheriting
<1>2. CASE pending \in Frames
  <2>1. pending.request \in Requests \cup {0}
    BY <1>2 DEF Frames
  <2> QED BY <2>1, FrameShape DEF Inheriting
<1> QED BY <1>1, <1>2

\* The frame a caller brings to the mutex.
LEMMA NewFrame ==
  ASSUME AdapterOK, NEW e \in Epochs \cup {0}, NEW r \in Requests \cup {0},
         diagnostics.enqueues_accepted < MaxFrames
  PROVE  LET f == [id |-> diagnostics.enqueues_accepted + 1, epoch |-> e, request |-> r]
         IN  f \in Frames /\ f.id = diagnostics.enqueues_accepted + 1
             /\ f.epoch = e /\ f.request = r
BY DEF AdapterOK, Counters, Frames

\* The counters stay counters, whichever of them a step sets.
LEMMA CounterSet ==
  \A d \in Counters, n \in Nat :
    /\ [d EXCEPT !.enqueues_accepted = n] \in Counters
    /\ [d EXCEPT !.pending_replaced = n] \in Counters
    /\ [d EXCEPT !.submit_calls = n] \in Counters
    /\ [d EXCEPT !.submit_rejected = n] \in Counters
    /\ [d EXCEPT !.trailing_submitted = n] \in Counters
BY DEF Counters

\* A newly constructed adapter, before Start, has its shape.
LEMMA InitTypeOK == Init => TypeOK
<1> SUFFICES ASSUME Init PROVE TypeOK
  OBVIOUS
<1>1. AdapterOK
  BY DEF Init, AdapterOK, Counters
<1>2. WorkerOK
  BY DEF Init, WorkerOK, NoSubmission
<1>3. OthersOK
  BY DEF Init, OthersOK
<1> QED BY <1>1, <1>2, <1>3 DEF TypeOK

\* No hold of the adapter's mutex, by a caller or by the worker, spoils the state
\* that it guards: slot, sequence numbers and counters.
LEMMA StepAdapterOK == TypeOK /\ ThreadInv /\ OrderInv /\ [Next]_vars => AdapterOK'
<1> SUFFICES ASSUME TypeOK, ThreadInv, OrderInv, [Next]_vars PROVE AdapterOK'
  OBVIOUS
<1>1. CASE Start
  BY <1>1 DEF Start, TypeOK, AdapterOK
<1>2. ASSUME NEW c \in Callers, NEW e \in Epochs \cup {0}, NEW r \in Requests \cup {0},
            Enqueue(c, e, r)
     PROVE  AdapterOK'
  <2>2. pending' \in Frames
    BY <1>2, NewFrame, InheritingShape DEF Enqueue, TypeOK, AdapterOK
  <2>3. Replaced \in Nat
    BY DEF Replaced, One
  <2>4. diagnostics' \in Counters
    <3> DEFINE a == diagnostics.enqueues_accepted + 1
               b == diagnostics.pending_replaced + Replaced
    <3>1. diagnostics \in Counters /\ a \in Nat /\ b \in Nat
      BY <2>3 DEF TypeOK, AdapterOK, Counters
    <3>2. [[diagnostics EXCEPT !.enqueues_accepted = a] EXCEPT !.pending_replaced = b] \in Counters
      BY <3>1, CounterSet
    <3>3. diagnostics' = [diagnostics EXCEPT !.enqueues_accepted = a, !.pending_replaced = b]
      BY <1>2 DEF Enqueue
    <3> QED BY <3>2, <3>3
  <2>5. UNCHANGED <<pending_is_trailing, started, stopping, last_accepted_submission>>
    BY <1>2 DEF Enqueue
  <2> QED BY <2>2, <2>4, <2>5 DEF TypeOK, AdapterOK
<1>3. ASSUME NEW c \in Callers, Notify(c) PROVE AdapterOK'
  BY <1>3 DEF Notify, TypeOK, AdapterOK
<1>4. ASSUME NEW e \in Epochs, CancelPendingSleepImage(e) PROVE AdapterOK'
  <2>1. diagnostics' \in Counters
    BY <1>4 DEF CancelPendingSleepImage, TypeOK, AdapterOK, Counters
  <2> QED BY <1>4, <2>1 DEF CancelPendingSleepImage, TypeOK, AdapterOK
<1>5. CASE CancelPendingDiagnosticRefresh
  BY <1>5, FrameShape DEF CancelPendingDiagnosticRefresh, TypeOK, AdapterOK
<1>6. CASE StopBegin
  BY <1>6 DEF StopBegin, TypeOK, AdapterOK
<1>7. CASE StopNotify
  BY <1>7 DEF StopNotify, TypeOK, AdapterOK
<1>8. CASE StopJoin
  BY <1>8 DEF StopJoin, TypeOK, AdapterOK
<1>9. CASE WorkerExit
  BY <1>9 DEF WorkerExit, TypeOK, AdapterOK
<1>10. CASE WorkerWait
  BY <1>10 DEF WorkerWait, TypeOK, AdapterOK
<1>11. CASE WorkerDefer
  <2>1. FirstDeferral \in Nat
    BY DEF FirstDeferral, One
  <2>2. diagnostics' \in Counters
    BY <1>11, <2>1 DEF WorkerDefer, TypeOK, AdapterOK, Counters
  <2>3. /\ UNCHANGED <<pending, started, stopping, last_accepted_submission>>
        /\ pending_is_trailing' = TRUE
    BY <1>11 DEF WorkerDefer
  <2> QED BY <2>2, <2>3 DEF TypeOK, AdapterOK
<1>12. CASE WorkerTake
  BY <1>12 DEF WorkerTake, TypeOK, AdapterOK
<1>13. CASE WorkerWake
  BY <1>13 DEF WorkerWake, TypeOK, AdapterOK
<1>14. CASE WorkerRecord
  <2>1. One(~submission.accepted) \in Nat /\ One(submission.accepted /\ submission.trailing) \in Nat
    BY DEF One
  <2>2. diagnostics' \in Counters
    <3> DEFINE a == diagnostics.submit_calls + 1
               b == diagnostics.submit_rejected + One(~submission.accepted)
               d == diagnostics.trailing_submitted
                      + One(submission.accepted /\ submission.trailing)
    <3>1. diagnostics \in Counters /\ a \in Nat /\ b \in Nat /\ d \in Nat
      BY <2>1 DEF TypeOK, AdapterOK, Counters
    <3> HIDE DEF a, b, d
    <3>2. [[[diagnostics EXCEPT !.submit_calls = a] EXCEPT !.submit_rejected = b]
             EXCEPT !.trailing_submitted = d] \in Counters
      BY <3>1, CounterSet
    <3>3. diagnostics' = [diagnostics EXCEPT !.submit_calls = a, !.submit_rejected = b,
                                             !.trailing_submitted = d]
      BY <1>14 DEF WorkerRecord, a, b, d
    <3> QED BY <3>2, <3>3
  <2>3. last_accepted_submission' \in Nat
    BY <1>14 DEF WorkerRecord, TypeOK, AdapterOK, OthersOK
  <2> QED BY <1>14, <2>2, <2>3 DEF WorkerRecord, TypeOK, AdapterOK
<1>15. CASE WorkerObserve
  BY <1>15 DEF WorkerObserve, TypeOK, AdapterOK
<1>16. CASE EngineRefuse
  BY <1>16 DEF EngineRefuse, TypeOK, AdapterOK
<1>17. CASE EngineAdmit
  BY <1>17 DEF EngineAdmit, TypeOK, AdapterOK
<1>18. CASE EngineAccept
  BY <1>18 DEF EngineAccept, TypeOK, AdapterOK
<1>19. CASE Tick
  BY <1>19 DEF Tick, TypeOK, AdapterOK
<1>20. ASSUME NEW i \in Intervals, SetInterval(i) PROVE AdapterOK'
  BY <1>20 DEF SetInterval, TypeOK, AdapterOK
<1>21. CASE UNCHANGED vars
  BY <1>21 DEF vars, TypeOK, AdapterOK
<1> QED
  BY <1>1, <1>2, <1>3, <1>4, <1>5, <1>6, <1>7, <1>8, <1>9, <1>10, <1>11,
     <1>12, <1>13, <1>14, <1>15, <1>16, <1>17, <1>18, <1>19, <1>20, <1>21 DEF Next

\* Nor what WorkerMain keeps in its own variables: it has a frame exactly from
\* the take to the end of the submission.
LEMMA StepWorkerOK == TypeOK /\ ThreadInv /\ OrderInv /\ [Next]_vars => WorkerOK'
<1> SUFFICES ASSUME TypeOK, ThreadInv, OrderInv, [Next]_vars PROVE WorkerOK'
  OBVIOUS
<1>1. CASE Start
  BY <1>1 DEF Start, ThreadInv, TypeOK, WorkerOK
<1>2. ASSUME NEW c \in Callers, NEW e \in Epochs \cup {0}, NEW r \in Requests \cup {0},
            Enqueue(c, e, r)
     PROVE  WorkerOK'
  BY <1>2 DEF Enqueue, TypeOK, WorkerOK
<1>3. ASSUME NEW c \in Callers, Notify(c) PROVE WorkerOK'
  BY <1>3 DEF Notify, SignalReaches, TypeOK, WorkerOK
<1>4. ASSUME NEW e \in Epochs, CancelPendingSleepImage(e) PROVE WorkerOK'
  BY <1>4 DEF CancelPendingSleepImage, TypeOK, WorkerOK
<1>5. CASE CancelPendingDiagnosticRefresh
  BY <1>5 DEF CancelPendingDiagnosticRefresh, TypeOK, WorkerOK
<1>6. CASE StopBegin
  BY <1>6 DEF StopBegin, TypeOK, WorkerOK
<1>7. CASE StopNotify
  BY <1>7 DEF StopNotify, SignalReaches, TypeOK, WorkerOK
<1>8. CASE StopJoin
  BY <1>8 DEF StopJoin, TypeOK, WorkerOK
<1>9. CASE WorkerExit
  BY <1>9 DEF WorkerExit, TypeOK, WorkerOK
<1>10. CASE WorkerWait
  BY <1>10 DEF WorkerWait, TypeOK, WorkerOK
<1>11. CASE WorkerDefer
  <2>1. last_accepted_submission + interval \in Nat
    BY DEF TypeOK, AdapterOK, OthersOK
  <2>2. worker = "ready" /\ worker' = "deferred" /\ eligible_at' \in Nat /\ woken' = FALSE
    BY <1>11, <2>1 DEF WorkerDefer
  <2> QED BY <1>11, <2>2 DEF WorkerDefer, TypeOK, WorkerOK
<1>12. CASE WorkerTake
  BY <1>12 DEF WorkerTake, TypeOK, AdapterOK, WorkerOK
<1>13. CASE WorkerWake
  BY <1>13 DEF WorkerWake, TypeOK, WorkerOK
<1>14. CASE WorkerRecord
  BY <1>14 DEF WorkerRecord, TypeOK, WorkerOK
<1>15. CASE WorkerObserve
  BY <1>15, FrameShape DEF WorkerObserve, NoSubmission, TypeOK, WorkerOK
<1>16. CASE EngineRefuse
  BY <1>16 DEF EngineRefuse, TypeOK, WorkerOK
<1>17. CASE EngineAdmit
  BY <1>17 DEF EngineAdmit, TypeOK, WorkerOK
<1>18. CASE EngineAccept
  BY <1>18 DEF EngineAccept, TypeOK, WorkerOK
<1>19. CASE Tick
  BY <1>19 DEF Tick, TypeOK, WorkerOK
<1>20. ASSUME NEW i \in Intervals, SetInterval(i) PROVE WorkerOK'
  BY <1>20 DEF SetInterval, TypeOK, WorkerOK
<1>21. CASE UNCHANGED vars
  BY <1>21 DEF vars, TypeOK, WorkerOK
<1> QED
  BY <1>1, <1>2, <1>3, <1>4, <1>5, <1>6, <1>7, <1>8, <1>9, <1>10, <1>11,
     <1>12, <1>13, <1>14, <1>15, <1>16, <1>17, <1>18, <1>19, <1>20, <1>21 DEF Next

\* Nor what the callers, the engine and the clock keep.
LEMMA StepOthersOK == TypeOK /\ ThreadInv /\ OrderInv /\ [Next]_vars => OthersOK'
<1> SUFFICES ASSUME TypeOK, ThreadInv, OrderInv, [Next]_vars PROVE OthersOK'
  OBVIOUS
<1>1. CASE Start
  BY <1>1 DEF Start, TypeOK, OthersOK
<1>2. ASSUME NEW c \in Callers, NEW e \in Epochs \cup {0}, NEW r \in Requests \cup {0},
            Enqueue(c, e, r)
     PROVE  OthersOK'
  BY <1>2 DEF Enqueue, TypeOK, OthersOK
<1>3. ASSUME NEW c \in Callers, Notify(c) PROVE OthersOK'
  BY <1>3 DEF Notify, TypeOK, OthersOK
<1>4. ASSUME NEW e \in Epochs, CancelPendingSleepImage(e) PROVE OthersOK'
  BY <1>4, FrameShape DEF CancelPendingSleepImage, TypeOK, AdapterOK, OthersOK
<1>5. CASE CancelPendingDiagnosticRefresh
  BY <1>5 DEF CancelPendingDiagnosticRefresh, TypeOK, OthersOK
<1>6. CASE StopBegin
  BY <1>6 DEF StopBegin, TypeOK, OthersOK
<1>7. CASE StopNotify
  BY <1>7 DEF StopNotify, TypeOK, OthersOK
<1>8. CASE StopJoin
  BY <1>8 DEF StopJoin, TypeOK, OthersOK
<1>9. CASE WorkerExit
  BY <1>9 DEF WorkerExit, TypeOK, OthersOK
<1>10. CASE WorkerWait
  BY <1>10 DEF WorkerWait, TypeOK, OthersOK
<1>11. CASE WorkerDefer
  BY <1>11 DEF WorkerDefer, TypeOK, OthersOK
<1>12. CASE WorkerTake
  BY <1>12, FrameShape DEF WorkerTake, TypeOK, AdapterOK, OthersOK
<1>13. CASE WorkerWake
  BY <1>13 DEF WorkerWake, TypeOK, OthersOK
<1>14. CASE WorkerRecord
  BY <1>14 DEF WorkerRecord, TypeOK, OthersOK
<1>15. CASE WorkerObserve
  BY <1>15 DEF WorkerObserve, TypeOK, OthersOK
<1>16. CASE EngineRefuse
  BY <1>16 DEF EngineRefuse, One, TypeOK, OthersOK
<1>17. CASE EngineAdmit
  BY <1>17 DEF EngineAdmit, TypeOK, OthersOK
<1>18. CASE EngineAccept
  BY <1>18 DEF EngineAccept, TypeOK, OthersOK
<1>19. CASE Tick
  BY <1>19 DEF Tick, TypeOK, OthersOK
<1>20. ASSUME NEW i \in Intervals, SetInterval(i) PROVE OthersOK'
  BY <1>20 DEF SetInterval, TypeOK, OthersOK
<1>21. CASE UNCHANGED vars
  BY <1>21 DEF vars, TypeOK, OthersOK
<1> QED
  BY <1>1, <1>2, <1>3, <1>4, <1>5, <1>6, <1>7, <1>8, <1>9, <1>10, <1>11,
     <1>12, <1>13, <1>14, <1>15, <1>16, <1>17, <1>18, <1>19, <1>20, <1>21 DEF Next

\* The worker leaves its loop for Stop alone, and Stop gets past its join only
\* when the worker has left.
LEMMA StepThreadInv == TypeOK /\ ThreadInv /\ [Next]_vars => ThreadInv'
<1> SUFFICES ASSUME TypeOK, ThreadInv, [Next]_vars PROVE ThreadInv'
  OBVIOUS
<1>1. CASE Start
  BY <1>1 DEF Start, ThreadInv, TypeOK, WorkerOK
<1>2. ASSUME NEW c \in Callers, NEW e \in Epochs \cup {0}, NEW r \in Requests \cup {0},
            e = 0 \/ r = 0, Enqueue(c, e, r)
     PROVE  ThreadInv'
  BY <1>2 DEF Enqueue, ThreadInv
<1>3. ASSUME NEW c \in Callers, Notify(c) PROVE ThreadInv'
  BY <1>3 DEF Notify, ThreadInv
<1>4. ASSUME NEW e \in Epochs, CancelPendingSleepImage(e) PROVE ThreadInv'
  BY <1>4 DEF CancelPendingSleepImage, ThreadInv
<1>5. CASE CancelPendingDiagnosticRefresh
  BY <1>5 DEF CancelPendingDiagnosticRefresh, ThreadInv
<1>6. CASE StopBegin
  BY <1>6 DEF StopBegin, ThreadInv
<1>7. CASE StopNotify
  BY <1>7 DEF StopNotify, ThreadInv
<1>8. CASE StopJoin
  BY <1>8 DEF StopJoin, Joinable, ThreadInv
<1>9. CASE WorkerExit
  BY <1>9 DEF WorkerExit, ThreadInv
<1>10. CASE WorkerWait
  BY <1>10 DEF WorkerWait, ThreadInv
<1>11. CASE WorkerDefer
  BY <1>11 DEF WorkerDefer, ThreadInv
<1>12. CASE WorkerTake
  BY <1>12 DEF WorkerTake, ThreadInv
<1>13. CASE WorkerWake
  BY <1>13 DEF WorkerWake, ThreadInv
<1>14. CASE WorkerRecord
  BY <1>14 DEF WorkerRecord, ThreadInv
<1>15. CASE WorkerObserve
  BY <1>15 DEF WorkerObserve, ThreadInv
<1>16. CASE EngineRefuse
  BY <1>16 DEF EngineRefuse, ThreadInv
<1>17. CASE EngineAdmit
  BY <1>17 DEF EngineAdmit, ThreadInv
<1>18. CASE EngineAccept
  BY <1>18 DEF EngineAccept, ThreadInv
<1>19. CASE Tick
  BY <1>19 DEF Tick, ThreadInv
<1>20. ASSUME NEW i \in Intervals, SetInterval(i) PROVE ThreadInv'
  BY <1>20 DEF SetInterval, ThreadInv
<1>21. CASE UNCHANGED vars
  BY <1>21 DEF vars, ThreadInv
<1> QED
  BY <1>1, <1>2, <1>3, <1>4, <1>5, <1>6, <1>7, <1>8, <1>9, <1>10, <1>11,
     <1>12, <1>13, <1>14, <1>15, <1>16, <1>17, <1>18, <1>19, <1>20, <1>21 DEF Next

\* The worker forgets a submission when it observes it, and what Stop clears
\* stays clear: Enqueue refuses once stopping is set.
LEMMA StepSubmissionInv == TypeOK /\ ThreadInv /\ SubmissionInv /\ [Next]_vars => SubmissionInv'
<1> SUFFICES ASSUME TypeOK, ThreadInv, SubmissionInv, [Next]_vars PROVE SubmissionInv'
  OBVIOUS
<1>1. CASE Start
  BY <1>1 DEF Start, ThreadInv, SubmissionInv
<1>2. ASSUME NEW c \in Callers, NEW e \in Epochs \cup {0}, NEW r \in Requests \cup {0},
            e = 0 \/ r = 0, Enqueue(c, e, r)
     PROVE  SubmissionInv'
  BY <1>2 DEF Enqueue, SubmissionInv
<1>3. ASSUME NEW c \in Callers, Notify(c) PROVE SubmissionInv'
  BY <1>3 DEF Notify, SubmissionInv
<1>4. ASSUME NEW e \in Epochs, CancelPendingSleepImage(e) PROVE SubmissionInv'
  BY <1>4 DEF CancelPendingSleepImage, SubmissionInv
<1>5. CASE CancelPendingDiagnosticRefresh
  BY <1>5 DEF CancelPendingDiagnosticRefresh, SubmissionInv
<1>6. CASE StopBegin
  BY <1>6 DEF StopBegin, SubmissionInv
<1>7. CASE StopNotify
  BY <1>7 DEF StopNotify, SubmissionInv
<1>8. CASE StopJoin
  BY <1>8 DEF StopJoin, SubmissionInv
<1>9. CASE WorkerExit
  BY <1>9 DEF WorkerExit, SubmissionInv
<1>10. CASE WorkerWait
  BY <1>10 DEF WorkerWait, SubmissionInv
<1>11. CASE WorkerDefer
  BY <1>11 DEF WorkerDefer, SubmissionInv
<1>12. CASE WorkerTake
  BY <1>12 DEF WorkerTake, SubmissionInv
<1>13. CASE WorkerWake
  BY <1>13 DEF WorkerWake, SubmissionInv
<1>14. CASE WorkerRecord
  BY <1>14 DEF WorkerRecord, SubmissionInv
<1>15. CASE WorkerObserve
  BY <1>15 DEF WorkerObserve, SubmissionInv
<1>16. CASE EngineRefuse
  BY <1>16 DEF EngineRefuse, SubmissionInv
<1>17. CASE EngineAdmit
  BY <1>17 DEF EngineAdmit, SubmissionInv
<1>18. CASE EngineAccept
  BY <1>18 DEF EngineAccept, SubmissionInv
<1>19. CASE Tick
  BY <1>19 DEF Tick, SubmissionInv
<1>20. ASSUME NEW i \in Intervals, SetInterval(i) PROVE SubmissionInv'
  BY <1>20 DEF SetInterval, SubmissionInv
<1>21. CASE UNCHANGED vars
  BY <1>21 DEF vars, SubmissionInv
<1> QED
  BY <1>1, <1>2, <1>3, <1>4, <1>5, <1>6, <1>7, <1>8, <1>9, <1>10, <1>11,
     <1>12, <1>13, <1>14, <1>15, <1>16, <1>17, <1>18, <1>19, <1>20, <1>21 DEF Next

\* Coalescing and taking keep frames in the order of acceptance: the slot's frame
\* is the newest, and it is newer than every frame handed to the engine.
LEMMA StepOrderInv == TypeOK /\ SubmissionInv /\ OrderInv /\ [Next]_vars => OrderInv'
<1> SUFFICES ASSUME TypeOK, SubmissionInv, OrderInv, [Next]_vars PROVE OrderInv'
  OBVIOUS
<1>1. CASE Start
  BY <1>1 DEF Start, OrderInv, NewestCandidate, TypeOK, WorkerOK
<1>2. ASSUME NEW c \in Callers, NEW e \in Epochs \cup {0}, NEW r \in Requests \cup {0},
            e = 0 \/ r = 0, Enqueue(c, e, r)
     PROVE  OrderInv'
  <2> DEFINE n == diagnostics.enqueues_accepted
  <2>1. n \in Nat /\ handed \in Nat /\ handed <= n /\ n < MaxFrames
    BY <1>2 DEF Enqueue, TypeOK, AdapterOK, OthersOK, Counters, OrderInv
  <2>2. pending' # NoFrame /\ pending'.id = n + 1
    BY <1>2, NewFrame, InheritingShape, FrameShape DEF Enqueue, TypeOK, AdapterOK
  <2>3. diagnostics'.enqueues_accepted = n + 1
    BY <1>2 DEF Enqueue, TypeOK, AdapterOK, Counters
  <2>4. UNCHANGED <<submission, handed>>
    BY <1>2 DEF Enqueue
  <2> QED BY <2>1, <2>2, <2>3, <2>4 DEF OrderInv, NewestCandidate
<1>3. ASSUME NEW c \in Callers, Notify(c) PROVE OrderInv'
  BY <1>3 DEF Notify, OrderInv, NewestCandidate, TypeOK, WorkerOK
<1>4. ASSUME NEW e \in Epochs, CancelPendingSleepImage(e) PROVE OrderInv'
  BY <1>4 DEF CancelPendingSleepImage, OrderInv, NewestCandidate, TypeOK, WorkerOK
<1>5. CASE CancelPendingDiagnosticRefresh
  BY <1>5 DEF CancelPendingDiagnosticRefresh, OrderInv, NewestCandidate, TypeOK, WorkerOK
<1>6. CASE StopBegin
  BY <1>6 DEF StopBegin, OrderInv, NewestCandidate, TypeOK, WorkerOK
<1>7. CASE StopNotify
  BY <1>7 DEF StopNotify, OrderInv, NewestCandidate, TypeOK, WorkerOK
<1>8. CASE StopJoin
  BY <1>8 DEF StopJoin, OrderInv, NewestCandidate, TypeOK, WorkerOK
<1>9. CASE WorkerExit
  BY <1>9 DEF WorkerExit, OrderInv, NewestCandidate, TypeOK, WorkerOK
<1>10. CASE WorkerWait
  BY <1>10 DEF WorkerWait, OrderInv, NewestCandidate, TypeOK, WorkerOK
<1>11. CASE WorkerDefer
  BY <1>11 DEF WorkerDefer, OrderInv, NewestCandidate, TypeOK, WorkerOK
<1>12. CASE WorkerTake
  BY <1>12 DEF WorkerTake, OrderInv, NewestCandidate, TypeOK, AdapterOK, Counters
<1>13. CASE WorkerWake
  BY <1>13 DEF WorkerWake, OrderInv, NewestCandidate, TypeOK, WorkerOK
<1>14. CASE WorkerRecord
  BY <1>14 DEF WorkerRecord, OrderInv, NewestCandidate, TypeOK, WorkerOK
<1>15. CASE WorkerObserve
  BY <1>15 DEF WorkerObserve, NoSubmission, OrderInv, NewestCandidate
<1>16. CASE EngineRefuse
  BY <1>16 DEF EngineRefuse, OrderInv, NewestCandidate, TypeOK, WorkerOK
<1>17. CASE EngineAdmit
  BY <1>17 DEF EngineAdmit, OrderInv, NewestCandidate, TypeOK, WorkerOK
<1>18. CASE EngineAccept
  BY <1>18 DEF EngineAccept, OrderInv, NewestCandidate, TypeOK, WorkerOK
<1>19. CASE Tick
  BY <1>19 DEF Tick, OrderInv, NewestCandidate, TypeOK, WorkerOK
<1>20. ASSUME NEW i \in Intervals, SetInterval(i) PROVE OrderInv'
  BY <1>20 DEF SetInterval, OrderInv, NewestCandidate, TypeOK, WorkerOK
<1>21. CASE UNCHANGED vars
  BY <1>21 DEF vars, OrderInv, NewestCandidate, TypeOK, WorkerOK
<1> QED
  BY <1>1, <1>2, <1>3, <1>4, <1>5, <1>6, <1>7, <1>8, <1>9, <1>10, <1>11,
     <1>12, <1>13, <1>14, <1>15, <1>16, <1>17, <1>18, <1>19, <1>20, <1>21 DEF Next

\* Coalescing passes a diagnostic request to ordinary frames only.
LEMMA StepNeverFlashed == TypeOK /\ SleepImageNeverFlashed /\ [Next]_vars => SleepImageNeverFlashed'
<1> SUFFICES ASSUME TypeOK, SleepImageNeverFlashed, [Next]_vars PROVE SleepImageNeverFlashed'
  OBVIOUS
<1>1. CASE Start
  BY <1>1 DEF Start, SleepImageNeverFlashed
<1>2. ASSUME NEW c \in Callers, NEW e \in Epochs \cup {0}, NEW r \in Requests \cup {0},
            e = 0 \/ r = 0, Enqueue(c, e, r)
     PROVE  SleepImageNeverFlashed'
  <2>1. pending'.epoch # 0 => pending'.request = 0
    BY <1>2, NewFrame, InheritingShape DEF Enqueue, TypeOK, AdapterOK
  <2>2. UNCHANGED submission
    BY <1>2 DEF Enqueue
  <2> QED BY <2>1, <2>2 DEF SleepImageNeverFlashed
<1>3. ASSUME NEW c \in Callers, Notify(c) PROVE SleepImageNeverFlashed'
  BY <1>3 DEF Notify, SleepImageNeverFlashed
<1>4. ASSUME NEW e \in Epochs, CancelPendingSleepImage(e) PROVE SleepImageNeverFlashed'
  BY <1>4 DEF CancelPendingSleepImage, NoFrame, SleepImageNeverFlashed
<1>5. CASE CancelPendingDiagnosticRefresh
  <2>1. pending \in Frames
    BY <1>5 DEF CancelPendingDiagnosticRefresh, TypeOK, AdapterOK
  <2>2. pending'.request = 0
    BY <1>5, <2>1, FrameShape DEF CancelPendingDiagnosticRefresh
  <2>3. UNCHANGED submission
    BY <1>5 DEF CancelPendingDiagnosticRefresh
  <2> QED BY <2>2, <2>3 DEF SleepImageNeverFlashed
<1>6. CASE StopBegin
  BY <1>6 DEF StopBegin, NoFrame, SleepImageNeverFlashed
<1>7. CASE StopNotify
  BY <1>7 DEF StopNotify, SleepImageNeverFlashed
<1>8. CASE StopJoin
  BY <1>8 DEF StopJoin, SleepImageNeverFlashed
<1>9. CASE WorkerExit
  BY <1>9 DEF WorkerExit, SleepImageNeverFlashed
<1>10. CASE WorkerWait
  BY <1>10 DEF WorkerWait, SleepImageNeverFlashed
<1>11. CASE WorkerDefer
  BY <1>11 DEF WorkerDefer, SleepImageNeverFlashed
<1>12. CASE WorkerTake
  BY <1>12 DEF WorkerTake, NoFrame, SleepImageNeverFlashed
<1>13. CASE WorkerWake
  BY <1>13 DEF WorkerWake, SleepImageNeverFlashed
<1>14. CASE WorkerRecord
  BY <1>14 DEF WorkerRecord, SleepImageNeverFlashed
<1>15. CASE WorkerObserve
  BY <1>15 DEF WorkerObserve, NoSubmission, NoFrame, SleepImageNeverFlashed
<1>16. CASE EngineRefuse
  BY <1>16 DEF EngineRefuse, SleepImageNeverFlashed
<1>17. CASE EngineAdmit
  BY <1>17 DEF EngineAdmit, SleepImageNeverFlashed
<1>18. CASE EngineAccept
  BY <1>18 DEF EngineAccept, SleepImageNeverFlashed
<1>19. CASE Tick
  BY <1>19 DEF Tick, SleepImageNeverFlashed
<1>20. ASSUME NEW i \in Intervals, SetInterval(i) PROVE SleepImageNeverFlashed'
  BY <1>20 DEF SetInterval, SleepImageNeverFlashed
<1>21. CASE UNCHANGED vars
  BY <1>21 DEF vars, SleepImageNeverFlashed
<1> QED
  BY <1>1, <1>2, <1>3, <1>4, <1>5, <1>6, <1>7, <1>8, <1>9, <1>10, <1>11,
     <1>12, <1>13, <1>14, <1>15, <1>16, <1>17, <1>18, <1>19, <1>20, <1>21 DEF Next

\* The inductive invariant holds before Start.
LEMMA InitIInv == Init => IInv
<1> SUFFICES ASSUME Init PROVE IInv
  OBVIOUS
<1>1. TypeOK
  BY InitTypeOK
<1>2. ThreadInv
  BY DEF Init, ThreadInv
<1>3. SubmissionInv
  BY DEF Init, SubmissionInv
<1>4. OrderInv
  BY DEF Init, OrderInv, NewestCandidate, NoSubmission
<1>5. SleepImageNeverFlashed
  BY DEF Init, SleepImageNeverFlashed, NoSubmission, NoFrame
<1> QED BY <1>1, <1>2, <1>3, <1>4, <1>5 DEF IInv

\* The inductive invariant is kept by every step of every thread.
LEMMA StepIInv == IInv /\ [Next]_vars => IInv'
<1> SUFFICES ASSUME IInv, [Next]_vars PROVE IInv'
  OBVIOUS
<1>1. TypeOK'
  BY StepAdapterOK, StepWorkerOK, StepOthersOK DEF IInv, TypeOK
<1> QED
  BY <1>1, StepThreadInv, StepSubmissionInv, StepOrderInv, StepNeverFlashed DEF IInv

\* Whatever the callers, the worker, the engine and the clock do, the adapter's
\* state keeps its shape and the inductive invariant holds.
THEOREM Invariance == Spec => []IInv
BY InitIInv, StepIInv, PTL DEF Spec

\* The worker holds a frame exactly while a submission is under way, and a
\* wake-up is kept only for a blocked worker.
THEOREM TypeCorrect == Spec => []TypeOK
<1>1. IInv => TypeOK
  BY DEF IInv
<1> QED BY <1>1, Invariance, PTL

\* Frames reach the engine in the order Enqueue accepted them and none twice.
THEOREM FramesInOrder == Spec => []NewestCandidate
<1>1. IInv => NewestCandidate
  BY DEF IInv, OrderInv
<1> QED BY <1>1, Invariance, PTL

\* No coalescing, cancellation or Stop lets a sleep image carry a diagnostic
\* refresh.
THEOREM SleepImagesKeepQuiet == Spec => []SleepImageNeverFlashed
<1>1. IInv => SleepImageNeverFlashed
  BY DEF IInv
<1> QED BY <1>1, Invariance, PTL

\* When Stop returns, the worker has left and no frame is pending or in the
\* engine's hands.
THEOREM StopIsFinal == Spec => []QuietAfterStop
<1>1. IInv => QuietAfterStop
  BY DEF IInv, ThreadInv, SubmissionInv, QuietAfterStop
<1> QED BY <1>1, Invariance, PTL

\* The engine has the frame, and its answer has not been counted.
Uncounted == worker \in InEngine \cup {"returned"}

\* A deferral is settled by the end of the stay that was deferred: until then the
\* trailing mark stands for it.  (That the slot is occupied, as the counters'
\* readers see it, is too little to survive the next deferral.)
DeferralsMarked ==
  diagnostics.trailing_deferred
    <= diagnostics.submit_calls + diagnostics.pending_sleep_images_cancelled
         + One(Uncounted) + One(pending_is_trailing)

AccountingInv == Accounting /\ DeferralsMarked

\* Steps that touch no counter and nothing that the counters are compared with.
LEMMA AccountingStays ==
  ASSUME AccountingInv,
         UNCHANGED <<diagnostics, pending, pending_is_trailing, stopping, submission.trailing>>,
         Uncounted <=> Uncounted',
         submission.trailing => (worker = "recorded" <=> worker' = "recorded")
  PROVE  AccountingInv'
BY DEF AccountingInv, Accounting, SlotAccounting, TrailingAccounting, DeferralsMarked, Uncounted, One

\* Every step that accepts, replaces, withdraws, defers, takes or submits a frame
\* moves it from one account to another.
LEMMA StepAccounting == IInv /\ AccountingInv /\ [Next]_vars => AccountingInv'
<1> SUFFICES ASSUME IInv, AccountingInv, [Next]_vars PROVE AccountingInv'
  OBVIOUS
<1> DEFINE d == diagnostics
<1>0. /\ d.enqueues_accepted \in Nat /\ d.pending_replaced \in Nat
      /\ d.pending_sleep_images_cancelled \in Nat /\ d.trailing_deferred \in Nat
      /\ d.trailing_submitted \in Nat /\ d.submit_calls \in Nat
      /\ pending \in Frames \cup {NoFrame} /\ pending_is_trailing \in BOOLEAN
      /\ stopping \in BOOLEAN /\ submission.trailing \in BOOLEAN /\ diagnostics \in Counters
  BY DEF IInv, TypeOK, AdapterOK, WorkerOK, Counters
<1>1. CASE Start
  BY <1>1, AccountingStays DEF Start, Uncounted, IInv, ThreadInv
<1>2. ASSUME NEW c \in Callers, NEW e \in Epochs \cup {0}, NEW r \in Requests \cup {0},
            Enqueue(c, e, r)
      PROVE  AccountingInv'
  <2>1. pending' # NoFrame
    BY <1>2, NewFrame, InheritingShape, FrameShape DEF Enqueue, IInv, TypeOK, AdapterOK
  <2>2. /\ d.enqueues_accepted' = d.enqueues_accepted + 1
        /\ d.pending_replaced' = d.pending_replaced + One(pending # NoFrame)
        /\ UNCHANGED <<d.pending_sleep_images_cancelled, d.trailing_deferred, d.trailing_submitted,
                       d.submit_calls>>
    BY <1>0, <1>2 DEF Enqueue, Replaced, Counters
  <2>3. UNCHANGED <<pending_is_trailing, stopping, submission, worker>> /\ ~stopping
    BY <1>2 DEF Enqueue
  <2> QED
    BY <1>0, <2>1, <2>2, <2>3
       DEF AccountingInv, Accounting, SlotAccounting, TrailingAccounting, DeferralsMarked, Uncounted, One
<1>3. ASSUME NEW c \in Callers, Notify(c) PROVE AccountingInv'
  BY <1>3, AccountingStays DEF Notify, Uncounted
<1>4. ASSUME NEW e \in Epochs, CancelPendingSleepImage(e) PROVE AccountingInv'
  <2>1. /\ d.pending_sleep_images_cancelled' = d.pending_sleep_images_cancelled + 1
        /\ UNCHANGED <<d.enqueues_accepted, d.pending_replaced, d.trailing_deferred,
                       d.trailing_submitted, d.submit_calls>>
    BY <1>0, <1>4 DEF CancelPendingSleepImage, Counters
  <2>2. /\ UNCHANGED <<stopping, submission, worker>> /\ ~pending_is_trailing'
        /\ pending # NoFrame /\ pending' = NoFrame
    BY <1>4 DEF CancelPendingSleepImage
  <2> QED
    BY <1>0, <2>1, <2>2
       DEF AccountingInv, Accounting, SlotAccounting, TrailingAccounting, DeferralsMarked, Uncounted, One
<1>5. CASE CancelPendingDiagnosticRefresh
  <2>1. pending # NoFrame /\ pending' # NoFrame
    BY <1>0, <1>5, FrameShape DEF CancelPendingDiagnosticRefresh
  <2>2. UNCHANGED <<diagnostics, pending_is_trailing, stopping, submission, worker>>
    BY <1>5 DEF CancelPendingDiagnosticRefresh
  <2> QED
    BY <1>0, <2>1, <2>2
       DEF AccountingInv, Accounting, SlotAccounting, TrailingAccounting, DeferralsMarked, Uncounted, One
<1>6. CASE StopBegin
  <2>1. /\ UNCHANGED <<diagnostics, pending_is_trailing, submission, worker>>
        /\ ~stopping /\ stopping' /\ pending' = NoFrame
    BY <1>6 DEF StopBegin
  <2> QED
    BY <1>0, <2>1
       DEF AccountingInv, Accounting, SlotAccounting, TrailingAccounting, DeferralsMarked, Uncounted, One
<1>7. CASE StopNotify
  BY <1>7, AccountingStays DEF StopNotify, Uncounted
<1>8. CASE StopJoin
  BY <1>8, AccountingStays DEF StopJoin, Uncounted
<1>9. CASE WorkerExit
  BY <1>9, AccountingStays DEF WorkerExit, Uncounted
<1>10. CASE WorkerWait
  BY <1>10, AccountingStays DEF WorkerWait, Uncounted
<1>11. CASE WorkerDefer
  <2>1. /\ d.trailing_deferred' = d.trailing_deferred + One(~pending_is_trailing)
        /\ UNCHANGED <<d.enqueues_accepted, d.pending_replaced, d.pending_sleep_images_cancelled,
                       d.trailing_submitted, d.submit_calls>>
    BY <1>0, <1>11 DEF WorkerDefer, FirstDeferral, Counters
  <2>2. /\ UNCHANGED <<pending, stopping, submission>> /\ pending_is_trailing' /\ pending # NoFrame
        /\ worker = "ready" /\ worker' = "deferred"
    BY <1>11 DEF WorkerDefer
  <2> QED
    BY <1>0, <2>1, <2>2
       DEF AccountingInv, Accounting, SlotAccounting, TrailingAccounting, DeferralsMarked, Uncounted, One
<1>12. CASE WorkerTake
  <2>1. /\ UNCHANGED <<diagnostics, stopping>> /\ ~pending_is_trailing'
        /\ pending # NoFrame /\ pending' = NoFrame
        /\ worker = "ready" /\ worker' = "submit"
        /\ submission'.trailing = pending_is_trailing
    BY <1>12 DEF WorkerTake
  <2>2. submission.trailing = FALSE
    BY <2>1 DEF IInv, SubmissionInv, NoSubmission
  <2> QED
    BY <1>0, <2>1, <2>2
       DEF AccountingInv, Accounting, SlotAccounting, TrailingAccounting, DeferralsMarked, Uncounted, One
<1>13. CASE WorkerWake
  BY <1>13, AccountingStays DEF WorkerWake, Uncounted
<1>14. CASE WorkerRecord
  <2>1. /\ d.submit_calls' = d.submit_calls + 1
        /\ d.trailing_submitted' = d.trailing_submitted + One(submission.accepted /\ submission.trailing)
        /\ UNCHANGED <<d.enqueues_accepted, d.pending_replaced, d.pending_sleep_images_cancelled,
                       d.trailing_deferred>>
    BY <1>0, <1>14 DEF WorkerRecord, Counters
  <2>2. /\ UNCHANGED <<pending, pending_is_trailing, stopping, submission>>
        /\ worker = "returned" /\ worker' = "recorded"
    BY <1>14 DEF WorkerRecord
  <2> QED
    BY <1>0, <2>1, <2>2
       DEF AccountingInv, Accounting, SlotAccounting, TrailingAccounting, DeferralsMarked, Uncounted, One
<1>15. CASE WorkerObserve
  <2>1. /\ UNCHANGED <<diagnostics, pending, pending_is_trailing, stopping>>
        /\ worker = "recorded" /\ worker' = "ready" /\ submission'.trailing = FALSE
    BY <1>15 DEF WorkerObserve, NoSubmission
  <2> QED
    BY <1>0, <2>1
       DEF AccountingInv, Accounting, SlotAccounting, TrailingAccounting, DeferralsMarked, Uncounted, One
<1>16. CASE EngineRefuse \/ EngineAdmit \/ EngineAccept
  <2>1. submission'.trailing = submission.trailing
    BY <1>16 DEF EngineRefuse, EngineAdmit, EngineAccept, IInv, TypeOK, WorkerOK
  <2> QED
    BY <1>16, <2>1, AccountingStays DEF EngineRefuse, EngineAdmit, EngineAccept, Uncounted
<1>17. CASE Tick
  BY <1>17, AccountingStays DEF Tick, Uncounted
<1>18. ASSUME NEW i \in Intervals, SetInterval(i) PROVE AccountingInv'
  BY <1>18, AccountingStays DEF SetInterval, Uncounted
<1>19. CASE UNCHANGED vars
  BY <1>19, AccountingStays DEF vars, Uncounted
<1> QED
  BY <1>1, <1>2, <1>3, <1>4, <1>5, <1>6, <1>7, <1>8, <1>9, <1>10, <1>11, <1>12, <1>13,
     <1>14, <1>15, <1>16, <1>17, <1>18, <1>19 DEF Next

\* Every accepted frame is accounted for: replaced, cancelled, submitted, in the
\* slot, in the engine's hands, or the one frame Stop found pending; and every
\* deferral once, however often its frame is replaced or its wait repeated.
THEOREM CountersAddUp == Spec => []Accounting
<1>1. Init => AccountingInv
  BY DEF Init, AccountingInv, Accounting, SlotAccounting, TrailingAccounting, DeferralsMarked,
         Uncounted, NoSubmission, One
<1>2. AccountingInv => Accounting
  BY DEF AccountingInv
<1> QED
  BY <1>1, <1>2, Invariance, StepAccounting, PTL DEF Spec

\* Every step of the threads is one step of FrameSlot or none of its business.
LEMMA StepSlot == IInv /\ [Next]_vars => [Slot!Next]_(Slot!slotVars)
<1> SUFFICES ASSUME IInv, [Next]_vars PROVE Slot!Next \/ UNCHANGED Slot!slotVars
  OBVIOUS
<1>1. CASE Start
  BY <1>1 DEF Start, IInv, ThreadInv, Slot!Next, Slot!Open, SlotState, SlotCall
<1>2. ASSUME NEW c \in Callers, NEW e \in Epochs \cup {0}, NEW r \in Requests \cup {0},
               Enqueue(c, e, r)
      PROVE  Slot!Next \/ UNCHANGED Slot!slotVars
  <2>1. PICK f \in Frames : pending' = Inheriting(f)
    BY <1>2, NewFrame DEF Enqueue, IInv, TypeOK
  <2>2. Inheriting(f) = Slot!Coalesce(f, pending)
    BY DEF Inheriting, Slot!Coalesce
  <2>3. SlotState = "open" /\ UNCHANGED <<SlotState, SlotCall>>
    BY <1>2 DEF Enqueue, SlotState, SlotCall
  <2>4. Slot!Put(f)
    BY <2>1, <2>2, <2>3 DEF Slot!Put
  <2> QED BY <2>4 DEF Slot!Next
<1>3. ASSUME NEW c \in Callers, Notify(c)
      PROVE  Slot!Next \/ UNCHANGED Slot!slotVars
  BY <1>3 DEF Notify, SlotState, SlotCall, Slot!slotVars
<1>4. ASSUME NEW e \in Epochs, CancelPendingSleepImage(e)
      PROVE  Slot!Next \/ UNCHANGED Slot!slotVars
  <2>1. pending \in Frames /\ pending.epoch = e /\ e # 0
    BY <1>4 DEF CancelPendingSleepImage, IInv, TypeOK, AdapterOK
  <2>2. Slot!WithdrawSleep(pending.epoch)
    BY <1>4, <2>1 DEF CancelPendingSleepImage, Slot!WithdrawSleep, SlotState, SlotCall
  <2> QED BY <2>1, <2>2 DEF Slot!Next
<1>5. CASE CancelPendingDiagnosticRefresh
  <2>1. Slot!WithdrawDiagnostic
    BY <1>5 DEF CancelPendingDiagnosticRefresh, Slot!WithdrawDiagnostic, SlotState, SlotCall
  <2> QED BY <2>1 DEF Slot!Next
<1>6. CASE StopBegin
  BY <1>6 DEF StopBegin, Slot!Next, Slot!Close, SlotState, SlotCall
<1>7. CASE StopNotify
  BY <1>7 DEF StopNotify, SlotState, SlotCall, Slot!slotVars
<1>8. CASE StopJoin
  BY <1>8 DEF StopJoin, SlotState, SlotCall, Slot!slotVars
<1>9. CASE WorkerExit
  BY <1>9 DEF WorkerExit, SlotState, SlotCall, Slot!slotVars
<1>10. CASE WorkerWait
  BY <1>10 DEF WorkerWait, SlotState, SlotCall, Slot!slotVars
<1>11. CASE WorkerDefer
  BY <1>11 DEF WorkerDefer, SlotState, SlotCall, Slot!slotVars
<1>12. CASE WorkerTake
  <2>1. SlotState = "open" /\ UNCHANGED SlotState
    BY <1>12 DEF WorkerTake, IInv, ThreadInv, SlotState
  <2>2. SlotCall.stage = "idle"
    BY <1>12 DEF WorkerTake, SlotCall
  <2>3. SlotCall' = [stage |-> "submit", frame |-> pending, accepted |-> FALSE]
    BY <1>12 DEF WorkerTake, SlotCall
  <2>4. pending # NoFrame /\ pending' = NoFrame
    BY <1>12 DEF WorkerTake
  <2>5. Slot!Take
    BY <2>1, <2>2, <2>3, <2>4 DEF Slot!Take
  <2> QED BY <2>5 DEF Slot!Next
<1>13. CASE WorkerWake
  BY <1>13 DEF WorkerWake, SlotState, SlotCall, Slot!slotVars
<1>14. CASE WorkerRecord
  BY <1>14 DEF WorkerRecord, SlotState, SlotCall, Slot!slotVars
<1>15. CASE WorkerObserve
  <2>1. SlotCall.stage = "answered" /\ SlotCall' = Slot!Idle
    BY <1>15 DEF WorkerObserve, SlotCall, Slot!Idle
  <2>2. UNCHANGED <<SlotState, pending>>
    BY <1>15 DEF WorkerObserve, SlotState
  <2> QED BY <2>1, <2>2 DEF Slot!Next, Slot!Observe
<1>16. CASE EngineRefuse
  <2>1. /\ SlotCall.stage = "submit"
        /\ SlotCall' = [stage |-> "answered", frame |-> SlotCall.frame, accepted |-> FALSE]
    BY <1>16 DEF EngineRefuse, SlotCall, IInv, TypeOK, WorkerOK
  <2>2. UNCHANGED <<SlotState, pending>>
    BY <1>16 DEF EngineRefuse, SlotState
  <2>3. Slot!Answer(FALSE)
    BY <2>1, <2>2 DEF Slot!Answer
  <2> QED BY <2>3 DEF Slot!Next
<1>17. CASE EngineAdmit
  BY <1>17 DEF EngineAdmit, SlotState, SlotCall, Slot!slotVars
<1>18. CASE EngineAccept
  <2>1. /\ SlotCall.stage = "submit"
        /\ SlotCall' = [stage |-> "answered", frame |-> SlotCall.frame, accepted |-> TRUE]
    BY <1>18 DEF EngineAccept, SlotCall, IInv, TypeOK, WorkerOK
  <2>2. UNCHANGED <<SlotState, pending>>
    BY <1>18 DEF EngineAccept, SlotState
  <2>3. Slot!Answer(TRUE)
    BY <2>1, <2>2 DEF Slot!Answer
  <2> QED BY <2>3 DEF Slot!Next
<1>19. CASE Tick
  BY <1>19 DEF Tick, SlotState, SlotCall, Slot!slotVars
<1>20. ASSUME NEW i \in Intervals, SetInterval(i)
      PROVE  Slot!Next \/ UNCHANGED Slot!slotVars
  BY <1>20 DEF SetInterval, SlotState, SlotCall, Slot!slotVars
<1>21. CASE UNCHANGED vars
  BY <1>21 DEF vars, SlotState, SlotCall, Slot!slotVars
<1> QED
  BY <1>1, <1>2, <1>3, <1>4, <1>5, <1>6, <1>7, <1>8, <1>9, <1>10, <1>11,
     <1>12, <1>13, <1>14, <1>15, <1>16, <1>17, <1>18, <1>19, <1>20, <1>21 DEF Next

\* The adapter implements FrameSlot for every number of callers, frames and
\* intervals: what the pipeline is modelled on is what the threads provide.
THEOREM Refinement == Spec => SlotSpec
<1>1. Init => Slot!Init
  BY DEF Init, Slot!Init, Slot!Idle, SlotState, SlotCall
<1> QED BY <1>1, Invariance, StepSlot, PTL DEF Spec, SlotSpec, Slot!Spec

=============================================================================
