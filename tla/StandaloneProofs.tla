-------------------------- MODULE StandaloneProofs --------------------------
(***************************************************************************)
(* What the components that stand alone promise for every value of their   *)
(* parameters: those of the library, in whichever of them it runs, the     *)
(* pixel arithmetic among them, and the front light.                       *)
(***************************************************************************)
EXTENDS Library, FrontLight, FiniteSetTheorems, WellFoundedInduction, TLAPS

\* Each component of the library behaves as its own specification says: it takes
\* its steps, and what the others do leaves it alone.
LEMMA PartsRun ==
  LibrarySpec => /\ Dispatcher!Init /\ [][Dispatcher!Next]_dispatcherState
                 /\ Leases!Init /\ [][Leases!Next]_leaseState
                 /\ Vendor!Init /\ [][Vendor!Next]_vendorState
                 /\ Pogo!Init /\ [][Pogo!Next]_pogoState
                 /\ Wave!Init /\ [][Wave!Next]_waveState
                 /\ Micro!Init /\ [][Micro!Next]_microState
                 /\ Trackers!Init /\ [][Trackers!Next]_trackerState
                 /\ Planes!Init /\ [][Planes!Next]_planeState
<1>1. LibraryInit => /\ Dispatcher!Init /\ Leases!Init /\ Vendor!Init /\ Pogo!Init
                     /\ Wave!Init /\ Micro!Init /\ Trackers!Init /\ Planes!Init
  BY DEF LibraryInit
<1>2. [LibraryNext]_libraryVars => /\ [Dispatcher!Next]_dispatcherState
                                   /\ [Leases!Next]_leaseState
                                   /\ [Vendor!Next]_vendorState
                                   /\ [Pogo!Next]_pogoState
                                   /\ [Wave!Next]_waveState
                                   /\ [Micro!Next]_microState
                                   /\ [Trackers!Next]_trackerState
                                   /\ [Planes!Next]_planeState
  BY DEF LibraryNext, Only, libraryVars
<1> QED
  BY <1>1, <1>2, PTL DEF LibrarySpec

----------------------------------------------------------------------------
(* The resample dispatcher: any number of workers, whatever its executor   *)
(* answers and whenever the session stops.                                 *)

\* A stopped dispatcher has nothing outstanding, and the outstanding request has
\* a task in the executor or a Request whose answer the executor still owes.
DispatcherInv ==
  /\ Dispatcher!DispatcherTypeOK
  /\ stopped => ~outstanding
  /\ sequence = counts.dispatched + counts.cancelled + counts.rejected
                + (IF outstanding THEN 1 ELSE 0)
  /\ outstanding => \/ sequence \in tasks
                    \/ \E w \in Workers : /\ asking[w].task = sequence
                                          /\ asking[w].at \in {"posting", "refused"}

\* One counter goes up, the others stay.
LEMMA CountedUp ==
  ASSUME NEW c \in Dispatcher!Counters, NEW n \in [Dispatcher!Counters -> Nat]
  PROVE  LET m == [n EXCEPT ![c] = @ + 1]
         IN  /\ m \in [Dispatcher!Counters -> Nat]
             /\ \A d \in Dispatcher!Counters : m[d] = IF d = c THEN n[d] + 1 ELSE n[d]
OBVIOUS

LEMMA DispatcherInvInitially == Dispatcher!Init => DispatcherInv
<1> SUFFICES ASSUME Dispatcher!Init PROVE DispatcherInv
  OBVIOUS
<1>1. Dispatcher!DispatcherTypeOK
  BY DEF Dispatcher!Init, Dispatcher!DispatcherTypeOK, Dispatcher!NotAsking
<1>2. \A c \in Dispatcher!Counters : counts[c] = 0
  BY DEF Dispatcher!Init
<1>3. {"dispatched", "cancelled", "rejected"} \subseteq Dispatcher!Counters
  BY DEF Dispatcher!Counters
<1> QED
  BY <1>1, <1>2, <1>3 DEF Dispatcher!Init, DispatcherInv

LEMMA RequestKeepsInv ==
  ASSUME NEW w \in Workers, DispatcherInv, Dispatcher!Request(w)
  PROVE  DispatcherInv'
<1> USE DEF DispatcherInv, Dispatcher!DispatcherTypeOK, Dispatcher!Counters
<1>1. CASE Dispatcher!RequestStopped(w)
  BY <1>1 DEF Dispatcher!RequestStopped, Dispatcher!Count
<1>2. CASE Dispatcher!RequestCoalesced(w)
  BY <1>2 DEF Dispatcher!RequestCoalesced, Dispatcher!Count
<1>3. CASE Dispatcher!RequestAdmitted(w)
  <2>1. /\ asking'[w].task = sequence' /\ asking'[w].at = "posting"
        /\ asking' \in [Workers -> [at : {"idle", "posting", "accepted", "refused"}, task : Nat]]
    BY <1>3 DEF Dispatcher!RequestAdmitted
  <2> QED
    BY <1>3, <2>1 DEF Dispatcher!RequestAdmitted
<1> QED
  BY <1>1, <1>2, <1>3 DEF Dispatcher!Request

LEMMA AnswerKeepsInv ==
  ASSUME NEW w \in Workers, DispatcherInv, Dispatcher!Answering(w)
  PROVE  DispatcherInv'
<1> USE DEF DispatcherInv, Dispatcher!DispatcherTypeOK, Dispatcher!Counters
<1>1. CASE Dispatcher!ExecutorAccepts(w)
  BY <1>1 DEF Dispatcher!ExecutorAccepts
<1>2. CASE Dispatcher!ExecutorRefuses(w)
  BY <1>2 DEF Dispatcher!ExecutorRefuses
<1>3. CASE Dispatcher!RequestPosted(w)
  BY <1>3 DEF Dispatcher!RequestPosted, Dispatcher!NotAsking
<1>4. CASE Dispatcher!RequestRejected(w)
  <2>1. CASE outstanding /\ sequence = asking[w].task
    <3>1. /\ counts' = [counts EXCEPT !["rejected"] = @ + 1]
          /\ outstanding' = FALSE /\ UNCHANGED <<stopped, sequence, tasks, acting>>
          /\ asking' = [asking EXCEPT ![w] = Dispatcher!NotAsking]
      BY <1>4, <2>1 DEF Dispatcher!RequestRejected
    <3> HIDE DEF Dispatcher!Counters
    <3>2. {"dispatched", "cancelled", "rejected"} \subseteq Dispatcher!Counters
      BY DEF Dispatcher!Counters
    <3>3. /\ counts' \in [Dispatcher!Counters -> Nat]
          /\ counts'.rejected = counts.rejected + 1
          /\ counts'.dispatched = counts.dispatched
          /\ counts'.cancelled = counts.cancelled
      BY <3>1, <3>2, CountedUp
    <3>4. asking' \in [Workers -> [at : {"idle", "posting", "accepted", "refused"}, task : Nat]]
      BY <3>1 DEF Dispatcher!NotAsking
    <3>5. {counts.dispatched, counts.cancelled, counts.rejected} \subseteq Nat
      BY <3>2
    <3>6. sequence' = counts'.dispatched + counts'.cancelled + counts'.rejected
      BY <2>1, <3>1, <3>3, <3>5
    <3>7. Dispatcher!DispatcherTypeOK'
      BY <3>1, <3>3, <3>4
    <3> QED
      BY <3>1, <3>6, <3>7
  <2>2. CASE ~(outstanding /\ sequence = asking[w].task)
    BY <1>4, <2>2 DEF Dispatcher!RequestRejected, Dispatcher!NotAsking
  <2> QED
    BY <2>1, <2>2
<1> QED
  BY <1>1, <1>2, <1>3, <1>4 DEF Dispatcher!Answering

LEMMA DispatcherInvKept == DispatcherInv /\ [Dispatcher!Next]_dispatcherState => DispatcherInv'
<1> SUFFICES ASSUME DispatcherInv, [Dispatcher!Next]_dispatcherState
             PROVE  DispatcherInv'
  OBVIOUS
<1>1. CASE Dispatcher!Stop
  <2> USE DEF DispatcherInv, Dispatcher!DispatcherTypeOK
  <2>1. {"dispatched", "cancelled", "rejected"} \subseteq Dispatcher!Counters
    BY DEF Dispatcher!Counters
  <2>2. {counts.dispatched, counts.cancelled, counts.rejected} \subseteq Nat
    BY <2>1
  <2>3. /\ counts' \in [Dispatcher!Counters -> Nat]
        /\ counts'.cancelled = counts.cancelled + (IF outstanding THEN 1 ELSE 0)
        /\ counts'.dispatched = counts.dispatched
        /\ counts'.rejected = counts.rejected
    BY <1>1, <2>1, <2>2, CountedUp DEF Dispatcher!Stop
  <2>4. sequence' = counts'.dispatched + counts'.cancelled + counts'.rejected
    <3>1. CASE outstanding
      BY <1>1, <2>2, <2>3, <3>1 DEF Dispatcher!Stop
    <3>2. CASE ~outstanding
      BY <1>1, <2>2, <2>3, <3>2 DEF Dispatcher!Stop
    <3> QED
      BY <3>1, <3>2
  <2>5. outstanding' = FALSE /\ Dispatcher!DispatcherTypeOK'
    BY <1>1, <2>3 DEF Dispatcher!Stop
  <2> QED
    BY <2>4, <2>5
<1>2. CASE Dispatcher!ActionReturns
  BY <1>2 DEF Dispatcher!ActionReturns, DispatcherInv, Dispatcher!DispatcherTypeOK
<1>3. ASSUME NEW t \in 1..MaxAsked, Dispatcher!RunPostedTask(t)
      PROVE  DispatcherInv'
  <2>1. CASE Dispatcher!TaskIsCurrent(t)
    <3> USE DEF DispatcherInv, Dispatcher!DispatcherTypeOK
    <3>1. {"dispatched", "cancelled", "rejected"} \subseteq Dispatcher!Counters
      BY DEF Dispatcher!Counters
    <3>2. {counts.dispatched, counts.cancelled, counts.rejected} \subseteq Nat
      BY <3>1
    <3>3. counts' = [counts EXCEPT !["dispatched"] = @ + 1]
      BY <1>3, <2>1 DEF Dispatcher!RunPostedTask
    <3>4. /\ counts' \in [Dispatcher!Counters -> Nat]
          /\ counts'.dispatched = counts.dispatched + 1
          /\ counts'.cancelled = counts.cancelled
          /\ counts'.rejected = counts.rejected
      BY <3>1, <3>3, CountedUp
    <3>5. sequence' = counts'.dispatched + counts'.cancelled + counts'.rejected
      BY <1>3, <2>1, <3>2, <3>4 DEF Dispatcher!RunPostedTask, Dispatcher!TaskIsCurrent
    <3>6. outstanding' = FALSE /\ Dispatcher!DispatcherTypeOK'
      BY <1>3, <2>1, <3>4 DEF Dispatcher!RunPostedTask, Dispatcher!TaskIsCurrent
    <3> QED
      BY <3>5, <3>6
  <2>2. CASE ~Dispatcher!TaskIsCurrent(t)
    BY <1>3, <2>2 DEF Dispatcher!RunPostedTask, Dispatcher!TaskIsCurrent, DispatcherInv, Dispatcher!DispatcherTypeOK
  <2> QED
    BY <2>1, <2>2
<1>4. CASE UNCHANGED dispatcherState
  BY <1>4 DEF dispatcherState, DispatcherInv, Dispatcher!DispatcherTypeOK
<1> QED
  BY <1>1, <1>2, <1>3, <1>4, RequestKeepsInv, AnswerKeepsInv DEF Dispatcher!Next, Dispatcher!MainThread

\* Every admitted request is dispatched, cancelled by Stop, refused by the
\* executor or still outstanding, and exactly one of these: no answer that comes
\* after the mutex was released ends a later request or the same one twice.
THEOREM EveryRequestEndsOnce == LibrarySpec => []AdmittedOnce
<1>1. DispatcherInv => AdmittedOnce
  BY DEF DispatcherInv, AdmittedOnce, Dispatcher!AdmittedOnce
<1> QED
  BY <1>1, PartsRun, DispatcherInvInitially, DispatcherInvKept, PTL

----------------------------------------------------------------------------
(* The vendor pipeline                                                     *)

Pipes == [enabled : BOOLEAN, started : BOOLEAN, stopping : BOOLEAN, pending : Nat, next : Nat]

\* A refresh under way has used the gate's one attempt already.
AttemptInv ==
  /\ gate \in [state : {"disarmed", "armed", "attempted"}, rejected : Nat, attempts : Nat,
               accepted : BOOLEAN]
  /\ sync \in [state : {"stopped", "initialized"}, rejected : Nat, submitted : Nat]
  /\ gate.attempts = IF gate.state = "attempted" THEN 1 ELSE 0
  /\ sync.submitted + sync.rejected
       + (IF attempt \in {"delegate", "vendor"} THEN 1 ELSE 0) <= gate.attempts

\* Stop goes through its steps in order, and none of the places it has emptied
\* fills again: captures are taken only before it, the worker is joined, and the
\* closed adapter takes nothing and hands nothing over.
StopInv ==
  /\ pipe \in Pipes /\ captured \in Nat
  /\ worker \in [at : {"none", "wait", "has"}, capture : Nat, sequence : Nat]
  /\ pipe.stopping => pipe.pending = 0
  /\ owner \in {"joining", "closing", "stopped"} => pipe.stopping
  /\ worker.at # "has" => worker.capture = 0
  /\ owner \in {"closing", "stopped"} => worker.at = "none" /\ adapter = "closed"
  /\ adapter = "fresh" => worker.at = "none"
  /\ adapter = "closed" => slot = NoFrame
  /\ call.stage = "idle" => call.frame = NoFrame
  /\ owner = "stopped" => call.stage = "idle"

LEMMA AttemptInvKept == AttemptInv /\ [Vendor!Next]_vendorState => AttemptInv'
<1> SUFFICES ASSUME AttemptInv, [Vendor!Next]_vendorState
             PROVE  AttemptInv'
  OBVIOUS
<1> USE DEF AttemptInv
<1>1. CASE Vendor!InitializeForObservedPanel
  BY <1>1 DEF Vendor!InitializeForObservedPanel
<1>2. CASE Vendor!Arm
  BY <1>2 DEF Vendor!Arm
<1>3. CASE Vendor!AdapterTake
  BY <1>3 DEF Vendor!AdapterTake
<1>4. CASE Vendor!GateRejects
  BY <1>4 DEF Vendor!GateRejects
<1>5. CASE Vendor!GateAdmits
  <2>1. /\ gate.state = "armed" /\ gate' = [gate EXCEPT !.state = "attempted", !.attempts = @ + 1]
        /\ attempt = "gate" /\ attempt' = "delegate" /\ UNCHANGED sync
    BY <1>5 DEF Vendor!GateAdmits
  <2>2. gate.attempts = 0 /\ sync.submitted + sync.rejected <= 0
    BY <2>1
  <2>3. gate'.state = "attempted" /\ gate'.attempts = 1
    BY <2>1, <2>2
  <2>4. gate' \in [state : {"disarmed", "armed", "attempted"}, rejected : Nat, attempts : Nat,
                  accepted : BOOLEAN]
    <3>1. gate' = [state |-> "attempted", rejected |-> gate.rejected,
                   attempts |-> gate.attempts + 1, accepted |-> gate.accepted]
      BY <2>1
    <3> QED
      BY <2>2, <3>1
  <2> QED
    BY <2>1, <2>2, <2>3, <2>4
<1>6. CASE Vendor!SyncRejects
  BY <1>6 DEF Vendor!SyncRejects
<1>7. CASE Vendor!SyncRefresh
  BY <1>7 DEF Vendor!SyncRefresh
<1>8. CASE Vendor!RefreshReturns
  BY <1>8 DEF Vendor!RefreshReturns
<1>9. CASE Vendor!GateAnswers
  BY <1>9 DEF Vendor!GateAnswers
<1>10. CASE UNCHANGED <<gate, attempt, sync>>
  BY <1>10
<1> QED
  BY <1>1, <1>2, <1>3, <1>4, <1>5, <1>6, <1>7, <1>8, <1>9, <1>10
     DEF Vendor!Next, Vendor!Start, Vendor!StartWorkers, Vendor!SetEnabled, Vendor!Stop,
         Vendor!StopAdapter, Vendor!StopReturns, Vendor!OnCapturedComposition,
         Vendor!WorkerTake, Vendor!WorkerEnqueue, Vendor!WorkerExits, Vendor!AdapterObserves,
         Vendor!engineVars, vendorState

LEMMA StopInvKept == StopInv /\ [Vendor!Next]_vendorState => StopInv'
<1> SUFFICES ASSUME StopInv, [Vendor!Next]_vendorState
             PROVE  StopInv'
  OBVIOUS
<1> USE LibraryAssumption DEF StopInv, Pipes, Vendor!slotVars, Vendor!engineVars
<1>1. CASE Vendor!Start
  BY <1>1 DEF Vendor!Start
<1>2. CASE Vendor!StartWorkers
  BY <1>2 DEF Vendor!StartWorkers, Vendor!Slot!Open
<1>3. ASSUME NEW on \in BOOLEAN, Vendor!SetEnabled(on) PROVE StopInv'
  BY <1>3 DEF Vendor!SetEnabled
<1>4. CASE Vendor!Stop
  BY <1>4 DEF Vendor!Stop
<1>5. CASE Vendor!StopAdapter
  BY <1>5 DEF Vendor!StopAdapter, Vendor!Slot!Close
<1>6. CASE Vendor!StopReturns
  BY <1>6 DEF Vendor!StopReturns
<1>7. CASE UNCHANGED vendorState
  BY <1>7 DEF vendorState
<1>8. CASE Vendor!WorkerTake
  <2>1. /\ pipe' = [pipe EXCEPT !.pending = 0, !.next = @ + 1]
        /\ worker.at = "wait" /\ UNCHANGED <<owner, captured, adapter, slot, call>>
    BY <1>8 DEF Vendor!WorkerTake
  <2>3. pipe'.pending = 0 /\ pipe' \in Pipes /\ pipe'.stopping = pipe.stopping
    <3>1. pipe' = [enabled |-> pipe.enabled, started |-> pipe.started,
                   stopping |-> pipe.stopping, pending |-> 0, next |-> pipe.next + 1]
      BY <2>1
    <3> QED
      BY <3>1
  <2>2. worker'.at = "has" /\ worker' \in [at : {"none", "wait", "has"}, capture : Nat, sequence : Nat]
    BY <1>8 DEF Vendor!WorkerTake
  <2> QED
    BY <2>1, <2>2, <2>3
<1>9. CASE Vendor!WorkerEnqueue
  BY <1>9 DEF Vendor!WorkerEnqueue, Vendor!Slot!Put
<1>10. CASE Vendor!WorkerExits
  BY <1>10 DEF Vendor!WorkerExits
<1>11. CASE Vendor!AdapterTake
  BY <1>11 DEF Vendor!AdapterTake, Vendor!Slot!Take
<1>12. CASE Vendor!GateRejects \/ Vendor!GateAnswers
  BY <1>12 DEF Vendor!GateRejects, Vendor!GateAnswers, Vendor!Slot!Answer
<1>13. CASE Vendor!AdapterObserves
  BY <1>13 DEF Vendor!AdapterObserves, Vendor!Slot!Observe, Vendor!Slot!Idle
<1>14. CASE UNCHANGED <<owner, pipe, worker, captured, Vendor!slotVars>>
  BY <1>14
<1>15. ASSUME NEW isOwned \in BOOLEAN, Vendor!OnCapturedComposition(isOwned)
       PROVE  StopInv'
  BY <1>15 DEF Vendor!OnCapturedComposition, Vendor!Taking
<1> QED
  BY <1>1, <1>2, <1>3, <1>4, <1>5, <1>6, <1>7, <1>8, <1>9, <1>10, <1>11, <1>12, <1>13, <1>14,
     <1>15
     DEF Vendor!Next, Vendor!InitializeForObservedPanel, Vendor!Arm, Vendor!GateAdmits,
         Vendor!SyncRejects, Vendor!SyncRefresh, Vendor!RefreshReturns

\* The vendor's controller sees one refresh at most in the life of the process, and
\* once Stop has returned no capture's lease is left on its way: the gate becomes
\* terminal before its delegate is called, and Stop empties the pipeline in the
\* order in which captures pass through it.
THEOREM VendorTriedOnce == LibrarySpec => []VendorPipelineSettles
<1>1. Vendor!Init => AttemptInv /\ StopInv
  BY DEF Vendor!Init, AttemptInv, StopInv, Pipes, Vendor!Slot!Init, Vendor!Slot!Idle
<1>2. AttemptInv /\ StopInv => VendorPipelineSettles
  BY DEF AttemptInv, StopInv, VendorPipelineSettles, Vendor!OneVendorAttempt,
         Vendor!StopReturnsLeases
<1> QED
  BY <1>1, <1>2, PartsRun, AttemptInvKept, StopInvKept, PTL

----------------------------------------------------------------------------
(* Reports of what failed: the pogo keys and the patched function          *)

\* The call is at one step; a verified write is what the driver holds until the
\* next write to the same selector.
PogoInv ==
  /\ Pogo!PogoTypeOK
  /\ verified \in [Pogo!Sides -> BOOLEAN]
  /\ pogo = "writeDown" => selector["up"] = F5
  /\ pogo = "succeed" => selector = Pogo!Wanted
  /\ pogo = "restoreUp" => (verified["down"] => selector["down"] = original["down"])
  /\ pogo = "fail" => \A s \in Pogo!Sides : verified[s] => selector[s] = original[s]
  /\ pogoResult # "none" => pogo = "done"
  /\ Pogo!ReportMatchesDriver

\* A write that was verified has reached the driver, and no write reaches the
\* other selector.
LEMMA SelectorWritten ==
  ASSUME PogoInv, NEW side \in Pogo!Sides, NEW value \in Keys, NEW next,
         Pogo!WriteSelector(side, value, next)
  PROVE  /\ selector' \in [Pogo!Sides -> Keys] /\ verified' \in [Pogo!Sides -> BOOLEAN]
         /\ verified'[side] => selector'[side] = value
         /\ \A other \in Pogo!Sides \ {side} :
              selector'[other] = selector[other] /\ verified'[other] = verified[other]
         /\ pogo' = next[verified'[side]]
BY DEF PogoInv, Pogo!PogoTypeOK, Pogo!WriteSelector

LEMMA PogoInvKept == PogoInv /\ [Pogo!Next]_pogoState => PogoInv'
<1> SUFFICES ASSUME PogoInv, [Pogo!Next]_pogoState
             PROVE  PogoInv'
  OBVIOUS
<1>0. /\ selector \in [Pogo!Sides -> Keys] /\ original \in [Pogo!Sides -> Keys]
      /\ Pogo!Sides = {"up", "down"} /\ {F5, F6} \subseteq Keys
      /\ Pogo!Wanted = [s \in Pogo!Sides |-> IF s = "up" THEN F5 ELSE F6]
  BY LibraryAssumption DEF PogoInv, Pogo!PogoTypeOK, Pogo!Sides, Pogo!Wanted
<1>1. CASE Pogo!Boot
  BY <1>0, <1>1 DEF Pogo!Boot, PogoInv, Pogo!PogoTypeOK, Pogo!ReportMatchesDriver
<1>2. CASE Pogo!Unavailable
  BY <1>2 DEF Pogo!Unavailable, PogoInv, Pogo!PogoTypeOK, Pogo!ReportMatchesDriver
<1>3. CASE Pogo!ReadBoth
  BY <1>3 DEF Pogo!ReadBoth, PogoInv, Pogo!PogoTypeOK, Pogo!ReportMatchesDriver
<1>4. CASE Pogo!WriteUp
  <2> DEFINE next == [ok \in BOOLEAN |-> IF ok THEN "writeDown" ELSE "restoreDown"]
  <2>1. /\ pogo = "writeUp" /\ Pogo!WriteSelector("up", F5, next)
        /\ UNCHANGED <<original, pogoResult>>
    BY <1>4 DEF Pogo!WriteUp, Pogo!Wanted
  <2>2. /\ selector' \in [Pogo!Sides -> Keys] /\ verified' \in [Pogo!Sides -> BOOLEAN]
        /\ verified'["up"] => selector'["up"] = F5
        /\ pogo' = next[verified'["up"]]
    BY <1>0, <2>1, SelectorWritten
  <2>3. pogo' = IF verified'["up"] THEN "writeDown" ELSE "restoreDown"
    BY <1>0, <2>2
  <2> QED
    BY <1>0, <2>1, <2>2, <2>3 DEF PogoInv, Pogo!PogoTypeOK, Pogo!ReportMatchesDriver
<1>5. CASE Pogo!WriteDown
  <2> DEFINE next == [ok \in BOOLEAN |-> IF ok THEN "succeed" ELSE "restoreDown"]
  <2>1. /\ pogo = "writeDown" /\ Pogo!WriteSelector("down", F6, next)
        /\ UNCHANGED <<original, pogoResult>>
    BY <1>5 DEF Pogo!WriteDown, Pogo!Wanted
  <2>2. /\ selector' \in [Pogo!Sides -> Keys] /\ verified' \in [Pogo!Sides -> BOOLEAN]
        /\ verified'["down"] => selector'["down"] = F6
        /\ selector'["up"] = selector["up"]
        /\ pogo' = next[verified'["down"]]
    BY <1>0, <2>1, SelectorWritten
  <2>3. pogo' = IF verified'["down"] THEN "succeed" ELSE "restoreDown"
    BY <1>0, <2>2
  <2>4. pogo' = "succeed" => selector' = Pogo!Wanted
    BY <1>0, <2>1, <2>2, <2>3 DEF PogoInv
  <2> QED
    BY <1>0, <2>1, <2>2, <2>3, <2>4 DEF PogoInv, Pogo!PogoTypeOK, Pogo!ReportMatchesDriver
<1>6. CASE Pogo!RestoreDown
  <2> DEFINE next == [ok \in BOOLEAN |-> "restoreUp"]
  <2>1. /\ pogo = "restoreDown" /\ Pogo!WriteSelector("down", original["down"], next)
        /\ UNCHANGED <<original, pogoResult>>
    BY <1>6 DEF Pogo!RestoreDown
  <2>2. /\ selector' \in [Pogo!Sides -> Keys] /\ verified' \in [Pogo!Sides -> BOOLEAN]
        /\ verified'["down"] => selector'["down"] = original["down"]
        /\ pogo' = next[verified'["down"]]
    BY <1>0, <2>1, SelectorWritten
  <2>3. pogo' = "restoreUp"
    BY <1>0, <2>2
  <2> QED
    BY <1>0, <2>1, <2>2, <2>3 DEF PogoInv, Pogo!PogoTypeOK, Pogo!ReportMatchesDriver
<1>7. CASE Pogo!RestoreUp
  <2> DEFINE next == [ok \in BOOLEAN |-> "fail"]
  <2>1. /\ pogo = "restoreUp" /\ Pogo!WriteSelector("up", original["up"], next)
        /\ UNCHANGED <<original, pogoResult>>
    BY <1>7 DEF Pogo!RestoreUp
  <2>2. /\ selector' \in [Pogo!Sides -> Keys] /\ verified' \in [Pogo!Sides -> BOOLEAN]
        /\ verified'["up"] => selector'["up"] = original["up"]
        /\ selector'["down"] = selector["down"] /\ verified'["down"] = verified["down"]
        /\ pogo' = next[verified'["up"]]
    BY <1>0, <2>1, SelectorWritten
  <2>3. pogo' = "fail"
    BY <1>0, <2>2
  <2> QED
    BY <1>0, <2>1, <2>2, <2>3 DEF PogoInv, Pogo!PogoTypeOK, Pogo!ReportMatchesDriver
<1>8. CASE Pogo!Return
  <2>1. pogo = "fail" /\ verified["up"] /\ verified["down"] => selector = original
    BY <1>0 DEF PogoInv
  <2> QED
    BY <1>8, <2>1 DEF Pogo!Return, Pogo!RollbackComplete, PogoInv, Pogo!PogoTypeOK,
       Pogo!ReportMatchesDriver
<1>9. CASE UNCHANGED pogoState
  BY <1>9 DEF pogoState, PogoInv, Pogo!PogoTypeOK, Pogo!ReportMatchesDriver
<1> QED
  BY <1>1, <1>2, <1>3, <1>4, <1>5, <1>6, <1>7, <1>8, <1>9 DEF Pogo!Next

\* The images an install looks at.
ImageOK ==
  /\ image.relocations \in Seq(Wave!Relocations)
  /\ image.target \in {Libc, Other}

\* A patched slot is the one the scan of this image finds, and finds alone.
Patched(a) == \E i \in Wave!Strncpys : Wave!Strncpys = {i} /\ image.relocations[i].slot = a

WaveInv ==
  /\ ImageOK
  /\ slotValue \in [Wave!SlotAddresses -> {Libc, Scalar, Other}]
  /\ outcome = "none" => \A a \in Wave!SlotAddresses : slotValue[a] # Scalar
  /\ Wave!OnlyStrncpyReplaced

\* An install that gets as far as writing has found one strncpy slot, unpatched.
LEMMA NothingRefused ==
  ASSUME WaveInv, Wave!Refusal = "none"
  PROVE  /\ Patched(Wave!Target) /\ Wave!Target \in Wave!SlotAddresses
         /\ slotValue[Wave!Target] = Libc
<1>1. Wave!ScanOk /\ Wave!Strncpys # {} /\ slotValue[Wave!Target] = Libc
  BY DEF Wave!Refusal
<1>2. PICK i \in Wave!Strncpys : Wave!Strncpys = {i}
  BY <1>1 DEF Wave!ScanOk
<1>3. i \in DOMAIN image.relocations /\ image.relocations[i] \in Wave!Relocations /\ i \in Nat
  BY <1>2 DEF Wave!Strncpys, WaveInv, ImageOK
<1>4. Wave!Target = image.relocations[i].slot
  BY <1>2, <1>3 DEF Wave!Target
<1> QED
  BY <1>1, <1>2, <1>3, <1>4 DEF Patched, Wave!Relocations

LEMMA WaveInvKept == WaveInv /\ [Wave!Next]_waveState => WaveInv'
<1> SUFFICES ASSUME WaveInv, [Wave!Next]_waveState
             PROVE  WaveInv'
  OBVIOUS
<1>1. CASE Wave!Load
  <2>1. /\ image' \in Wave!Images /\ outcome' = "loaded"
        /\ slotValue' = [a \in Wave!SlotAddresses |-> image'.target]
    BY <1>1 DEF Wave!Load
  <2>2. ImageOK'
    <3>1. image'.target \in {Libc, Other}
      BY <2>1 DEF Wave!Images
    <3>2. PICK n \in 1..2 : image'.relocations \in [1..n -> Wave!Relocations]
      BY <2>1 DEF Wave!Images
    <3>3. image'.relocations \in Seq(Wave!Relocations)
      BY <3>2
    <3> QED
      BY <3>1, <3>3 DEF ImageOK
  <2>3. \A a \in Wave!SlotAddresses : slotValue'[a] \in {Libc, Other}
    BY <2>1, <2>2 DEF ImageOK
  <2> QED
    BY <2>1, <2>2, <2>3, LibraryAssumption DEF WaveInv, Wave!OnlyStrncpyReplaced
<1>2. CASE \E p \in BOOLEAN : Wave!Replace(p)
  <2>1. PICK p \in BOOLEAN : Wave!Replace(p)
    BY <1>2
  <2>2. /\ Wave!Refusal = "none" /\ outcome # "none" /\ UNCHANGED image
        /\ slotValue' = [slotValue EXCEPT ![Wave!Target] = Scalar]
        /\ page' = (IF p THEN "ro" ELSE "rw")
        /\ outcome' = (IF p THEN "applied" ELSE "protection_failed")
    BY <2>1 DEF Wave!Replace
  <2>3. Wave!Strncpys' = Wave!Strncpys /\ Wave!Target' = Wave!Target
        /\ (\A a : Patched(a)' <=> Patched(a))
    BY <2>2 DEF Wave!Strncpys, Wave!Target, Patched
  <2>4. slotValue'[Wave!Target] = Scalar /\ slotValue' \in [Wave!SlotAddresses -> {Libc, Scalar, Other}]
    BY <2>2, NothingRefused DEF WaveInv
  <2>5. \A a \in Wave!SlotAddresses : slotValue'[a] = Scalar => Patched(a)
    BY <2>2, NothingRefused DEF WaveInv, Wave!OnlyStrncpyReplaced, Patched
  <2>6. outcome' = "applied" => page' = "ro" /\ slotValue'[Wave!Target'] = Scalar
    BY <2>2, <2>3, <2>4
  <2>7. Wave!OnlyStrncpyReplaced'
    BY <2>3, <2>5, <2>6 DEF Wave!OnlyStrncpyReplaced, Patched
  <2> QED
    BY <2>2, <2>4, <2>7 DEF WaveInv, ImageOK
<1>3. CASE Wave!InstallRefused \/ Wave!UnprotectFails \/ UNCHANGED waveState
  <2>1. /\ UNCHANGED <<image, slotValue, page>>
        /\ outcome' = outcome \/ (outcome # "none" /\ outcome' \notin {"none", "applied"})
    BY <1>3 DEF Wave!InstallRefused, Wave!UnprotectFails, waveState, Wave!Refusal
  <2>2. Wave!Strncpys' = Wave!Strncpys /\ Wave!Target' = Wave!Target
    BY <2>1 DEF Wave!Strncpys, Wave!Target
  <2> QED
    BY <2>1, <2>2 DEF WaveInv, ImageOK, Wave!OnlyStrncpyReplaced
<1> QED
  BY <1>1, <1>2, <1>3 DEF Wave!Next

\* When one of several writes fails, what is reported is what was left behind: the
\* configurator's result tells what the keypad driver holds, and the install's
\* result that exactly the engine's one strncpy slot is replaced.
THEOREM FailuresAreReported == LibrarySpec => []FailureIsReported
<1>1. Pogo!Init => PogoInv
  BY LibraryAssumption DEF Pogo!Init, PogoInv, Pogo!PogoTypeOK, Pogo!ReportMatchesDriver
<1>2. Wave!Init => WaveInv
  <2> SUFFICES ASSUME Wave!Init PROVE WaveInv
    OBVIOUS
  <2>1. image.relocations = <<>> /\ image.target = Libc /\ outcome = "none"
        /\ slotValue = [a \in Wave!SlotAddresses |-> Libc]
    BY DEF Wave!Init
  <2> QED
    BY <2>1, LibraryAssumption DEF WaveInv, ImageOK, Wave!OnlyStrncpyReplaced
<1>3. PogoInv /\ WaveInv => FailureIsReported
  BY DEF PogoInv, WaveInv, FailureIsReported
<1> QED
  BY <1>1, <1>2, <1>3, PartsRun, PogoInvKept, WaveInvKept, PTL

----------------------------------------------------------------------------
(* Small changes held back                                                 *)

\* A candidate is held between a settle time, which runs once, and a repeat
\* window, which a drifting change does not prolong: what is held has a deadline
\* that has not passed, at most one window after the wait began, or one window and
\* one settle time when the settle time began in the window.
HeldTypes ==
  /\ now \in Nat /\ signature \in Places \cup {Micro!Nowhere}
  /\ microDeadline \in Nat \cup {Micro!Never} /\ waitingSince \in Nat \cup {Micro!Never}
  /\ deferred \in BOOLEAN /\ repeatGuard \in BOOLEAN

HeldInv ==
  /\ HeldTypes
  /\ signature # Micro!Nowhere => deferred \/ repeatGuard
  /\ repeatGuard => microDeadline # Micro!Never /\ microDeadline - now <= Repeat
  /\ ~deferred => waitingSince = Micro!Never
  /\ deferred =>
       /\ signature # Micro!Nowhere
       /\ microDeadline # Micro!Never /\ now <= microDeadline
       /\ waitingSince # Micro!Never /\ waitingSince <= now
       /\ repeatGuard => microDeadline - waitingSince <= Repeat
       /\ microDeadline - waitingSince <= Repeat + Settle

LEMMA HeldInvKept == HeldInv /\ [Micro!Next]_microState => HeldInv'
<1> SUFFICES ASSUME HeldInv, [Micro!Next]_microState
             PROVE  HeldInv'
  OBVIOUS
<1>0. Settle \in Nat /\ Repeat \in Nat /\ Places \subseteq Nat
  BY LibraryAssumption
<1> USE <1>0 DEF HeldTypes, Micro!Never, Micro!Nowhere
<1>1. ASSUME NEW change \in Places \cup {Micro!Substantive}, Micro!Evaluate(change)
      PROVE  HeldInv'
  <2>1. CASE Micro!SubmitSubstantive(change)
    <3>1. /\ waitingSince' = Micro!Never /\ now' = now /\ deferred' = FALSE
          /\ \/ Micro!Reset
             \/ signature' = Micro!Nowhere /\ microDeadline' = Micro!Never /\ repeatGuard' = FALSE
             \/ UNCHANGED <<signature, microDeadline, repeatGuard>> /\ ~deferred
      BY <2>1 DEF Micro!SubmitSubstantive, Micro!Reset, HeldInv
    <3>2. HeldTypes'
      BY <3>1 DEF Micro!Reset, HeldInv
    <3> QED
      BY <3>1, <3>2 DEF Micro!Reset, HeldInv
  <2>2. CASE Micro!HoldFirst(change)
    <3>1. /\ change \in Places /\ (signature = Micro!Nowhere \/ Micro!RepeatExpired)
          /\ signature' = change /\ microDeadline' = now + Settle /\ deferred' = TRUE
          /\ repeatGuard' = FALSE /\ now' = now
          /\ waitingSince' = IF waitingSince = Micro!Never THEN now ELSE waitingSince
      BY <2>2 DEF Micro!HoldFirst, Micro!IsMicro, Micro!Holds
    <3>2. now + Settle \in Nat /\ waitingSince' \in Nat \cup {Micro!Never}
      BY <3>1 DEF HeldInv
    <3>3. HeldTypes'
      BY <3>1, <3>2 DEF HeldInv
    <3>4. CASE deferred
      <4>1. repeatGuard /\ now >= microDeadline
        BY <3>1, <3>4 DEF Micro!RepeatExpired, HeldInv
      <4>2. waitingSince' = waitingSince /\ now - waitingSince <= Repeat
        BY <3>1, <3>4, <4>1 DEF HeldInv
      <4> QED
        BY <3>1, <3>3, <3>4, <4>2 DEF HeldInv
    <3>5. CASE ~deferred
      <4>1. waitingSince' = now
        BY <3>1, <3>5 DEF HeldInv
      <4> QED
        BY <3>1, <3>3, <4>1 DEF HeldInv
    <3> QED
      BY <3>4, <3>5
  <2>3. CASE Micro!SubmitPromoted(change)
    BY <2>3 DEF Micro!SubmitPromoted, Micro!Reset, HeldInv
  <2>4. CASE Micro!HoldAgain(change)
    <3>1. /\ change \in Places /\ signature # Micro!Nowhere /\ ~Micro!RepeatExpired
          /\ signature' = change /\ deferred' = TRUE
          /\ UNCHANGED <<now, microDeadline, repeatGuard>>
          /\ waitingSince' = IF waitingSince = Micro!Never THEN now ELSE waitingSince
      BY <2>4 DEF Micro!HoldAgain, Micro!IsMicro, Micro!Holds
    <3>2. HeldTypes'
      BY <3>1 DEF HeldInv
    <3>3. CASE deferred
      <4>1. waitingSince' = waitingSince
        BY <3>1, <3>3 DEF HeldInv
      <4> QED
        BY <3>1, <3>2, <3>3, <4>1 DEF HeldInv
    <3>4. CASE ~deferred
      <4>1. waitingSince' = now /\ repeatGuard /\ now < microDeadline
        BY <3>1, <3>4 DEF Micro!RepeatExpired, HeldInv
      <4> QED
        BY <3>1, <3>2, <4>1 DEF HeldInv
    <3> QED
      BY <3>3, <3>4
  <2> QED
    BY <1>1, <2>1, <2>2, <2>3, <2>4 DEF Micro!Evaluate
<1>2. CASE Micro!MarkExpirySubmitted
  <2>1. now + Repeat \in Nat
    BY DEF HeldInv
  <2>2. HeldTypes'
    BY <1>2, <2>1 DEF Micro!MarkExpirySubmitted, HeldInv
  <2> QED
    BY <1>2, <2>2 DEF Micro!MarkExpirySubmitted, HeldInv
<1>3. CASE Micro!CallerResets
  BY <1>3 DEF Micro!CallerResets, Micro!Reset, HeldInv
<1>4. CASE Micro!Tick
  <2>1. HeldTypes'
    BY <1>4 DEF Micro!Tick, HeldInv
  <2> QED
    BY <1>4, <2>1 DEF Micro!Tick, HeldInv
<1>5. CASE UNCHANGED microState
  BY <1>5 DEF microState, HeldInv
<1> QED
  BY <1>1, <1>2, <1>3, <1>4, <1>5 DEF Micro!Next

LEMMA HeldInvInitially == Micro!Init => HeldInv
<1> SUFFICES ASSUME Micro!Init PROVE HeldInv
  OBVIOUS
<1>1. HeldTypes
  BY DEF Micro!Init, HeldTypes, Micro!Never, Micro!Nowhere
<1> QED
  BY <1>1 DEF Micro!Init, HeldInv

\* However many equivalent changes keep coming and wherever they drift, what
\* MicroDeltaPolicy holds back is held for one repeat window and one settle time at
\* most, given a caller that submits at Deadline().
THEOREM HoldingEnds == LibrarySpec => []HeldWithinBound
<1>1. HeldInv => HeldWithinBound
  BY LibraryAssumption DEF HeldInv, HeldTypes, HeldWithinBound, Micro!HeldWithinBound, Micro!Never,
     Micro!Nowhere
<1> QED
  BY <1>1, HeldInvInitially, HeldInvKept, PartsRun, PTL

----------------------------------------------------------------------------
(* What is stale is told from what is current                              *)

\* The trackers' answers belong to the frame shown last, until a reset; a frame
\* that is kept has been given a generation.
KeptInv ==
  /\ shown.again \in BOOLEAN
  /\ shown = [geometry |-> shown.geometry, content |-> shown.content, again |-> shown.again]
  /\ \A t \in Trackers!Trackers :
       /\ generation[t] \in Nat
       /\ kept[t] = IF shown.again THEN [geometry |-> shown.geometry, content |-> shown.content]
                    ELSE Trackers!Empty
       /\ shown.again => generation[t] # 0

\* The counter never repeats the value it leaves, and skips zero.
LEMMA GenerationsDiffer ==
  ASSUME NEW g \in Nat
  PROVE  /\ Trackers!NextGeneration(g) \in Nat
         /\ Trackers!NextGeneration(g) # 0 /\ Trackers!NextGeneration(g) # g
<1>1. Modulus \in Nat /\ Modulus > 2
  BY LibraryAssumption
<1>2. (g + 1) % Modulus \in 0..(Modulus - 1)
  BY <1>1
<1>3. CASE (g + 1) % Modulus = 0
  <2>1. g # 1
    BY <1>1, <1>3
  <2> QED
    BY <1>3, <2>1 DEF Trackers!NextGeneration
<1>4. CASE (g + 1) % Modulus # 0
  <2>1. (g + 1) % Modulus # g
    BY <1>1, <1>2, <1>4
  <2> QED
    BY <1>2, <1>4, <2>1 DEF Trackers!NextGeneration
<1> QED
  BY <1>3, <1>4

\* A tracker sees a change exactly when the frame is not the one it keeps.
LEMMA ChangeSeen ==
  ASSUME KeptInv, NEW g \in Geometries, NEW c, NEW t \in Trackers!Trackers
  PROVE  Trackers!Changed(t, g, c)
           <=> ~(shown.again /\ shown.geometry = g /\ shown.content = c)
<1>1. Trackers!Changed(t, g, c) <=> kept[t].geometry # g \/ kept[t].content # c
  BY DEF Trackers!Changed, Trackers!GrayChanged, Trackers!RgbChanged, Trackers!Trackers
<1>2. CASE shown.again
  BY <1>1, <1>2 DEF KeptInv
<1>3. CASE ~shown.again
  <2>1. kept[t].geometry = "none"
    BY <1>3 DEF KeptInv, Trackers!Empty
  <2> QED
    BY <1>1, <1>3, <2>1, LibraryAssumption
<1> QED
  BY <1>2, <1>3

LEMMA UpdateTells ==
  ASSUME KeptInv, NEW g \in Geometries, NEW c, Trackers!Update(g, c),
         NEW t \in Trackers!Trackers
  PROVE  /\ generation'[t] \in Nat /\ generation'[t] # 0 /\ signatures'[t] # 0
         /\ (generation'[t] = generation[t])
              <=> (shown.again /\ shown.geometry = g /\ shown.content = c)
<1>1. generation'[t] = IF Trackers!Changed(t, g, c)
                       THEN Trackers!NextGeneration(generation[t]) ELSE generation[t]
  BY DEF Trackers!Update
<1>2. generation[t] \in Nat
  BY DEF KeptInv
<1>3. ~Trackers!Changed(t, g, c) => generation[t] # 0
  BY ChangeSeen DEF KeptInv
<1>4. signatures'[t] = generation'[t]
  BY DEF Trackers!Update
<1> QED
  BY <1>1, <1>2, <1>3, <1>4, ChangeSeen, GenerationsDiffer

LEMMA KeptInvKept == KeptInv /\ [Trackers!Next]_trackerState => KeptInv'
<1> SUFFICES ASSUME KeptInv, [Trackers!Next]_trackerState
             PROVE  KeptInv'
  OBVIOUS
<1>1. ASSUME NEW g \in Geometries, NEW c \in Contents, Trackers!Update(g, c)
      PROVE  KeptInv'
  <2>1. /\ shown' = [geometry |-> g, content |-> c, again |-> TRUE]
        /\ kept' = [t \in Trackers!Trackers |-> [geometry |-> g, content |-> c]]
    BY <1>1 DEF Trackers!Update
  <2>2. \A t \in Trackers!Trackers : generation'[t] \in Nat /\ generation'[t] # 0
    BY <1>1, UpdateTells
  <2> QED
    BY <2>1, <2>2 DEF KeptInv
<1>2. CASE Trackers!Reset
  <2>1. /\ shown' = [geometry |-> shown.geometry, content |-> shown.content, again |-> FALSE]
        /\ kept' = [t \in Trackers!Trackers |-> Trackers!Empty]
        /\ UNCHANGED generation
    BY <1>2 DEF Trackers!Reset, KeptInv
  <2> QED
    BY <2>1 DEF KeptInv
<1>3. CASE Trackers!UpdateInvalid \/ UNCHANGED trackerState
  BY <1>3 DEF Trackers!UpdateInvalid, trackerState, KeptInv
<1> QED
  BY <1>1, <1>2, <1>3 DEF Trackers!Next

LEMMA LeaseTypesKept == Leases!LeasesTypeOK /\ [Leases!Next]_leaseState => Leases!LeasesTypeOK'
<1> SUFFICES ASSUME Leases!LeasesTypeOK, [Leases!Next]_leaseState
             PROVE  Leases!LeasesTypeOK'
  OBVIOUS
<1> USE DEF Leases!LeasesTypeOK
<1>1. ASSUME NEW c \in Clients, Leases!TryAcquire(c) PROVE Leases!LeasesTypeOK'
  <2>1. PICK s \in Leases!FreeSlots :
          /\ slots' = [slots EXCEPT ![s] = [state |-> "copying", generation |-> @.generation + 1]]
          /\ leases' = [leases EXCEPT
                          ![c] = @ \cup {[slot |-> s, generation |-> slots[s].generation + 1]}]
          /\ UNCHANGED dropCount
    BY <1>1 DEF Leases!TryAcquire
  <2>2. s \in Slots /\ slots[s].generation + 1 \in Nat
    BY DEF Leases!FreeSlots
  <2>3. [slot |-> s, generation |-> slots[s].generation + 1] \in [slot : Slots, generation : Nat]
    BY <2>2
  <2>4. leases' \in [Clients -> SUBSET [slot : Slots, generation : Nat]]
    BY <2>1, <2>3
  <2> QED
    BY <2>1, <2>2, <2>4
<1>2. ASSUME NEW c \in Clients, NEW lease \in leases[c],
             \/ Leases!HandOffToConverter(c, lease)
             \/ Leases!AbortCopy(c, lease)
             \/ Leases!ReleaseAfterConversion(c, lease)
      PROVE  Leases!LeasesTypeOK'
  <2>1. PICK next \in {"free", "copying", "converting"} :
          slots' = [slots EXCEPT ![lease.slot].state = next] /\ UNCHANGED <<dropCount, leases>>
    BY <1>2 DEF Leases!HandOffToConverter, Leases!AbortCopy, Leases!ReleaseAfterConversion,
       Leases!Present
  <2> QED
    BY <2>1
<1>3. CASE Leases!Dropped \/ UNCHANGED leaseState
  BY <1>3 DEF Leases!Dropped, leaseState
<1> QED
  BY <1>1, <1>2, <1>3 DEF Leases!Next

\* Only the holder of the lease of a slot's present use moves the slot.
LEMMA HoldersMove ==
  ASSUME Leases!LeasesTypeOK, [Leases!Next]_leaseState, NEW s \in Slots,
         slots[s].state # "free", slots'[s] # slots[s]
  PROVE  [slot |-> s, generation |-> slots[s].generation] \in leases[presented'.client]
<1>1. ASSUME NEW c \in Clients, Leases!TryAcquire(c) PROVE FALSE
  <2>1. PICK free \in Leases!FreeSlots :
          slots' = [slots EXCEPT ![free] = [state |-> "copying", generation |-> @.generation + 1]]
    BY <1>1 DEF Leases!TryAcquire
  <2> QED
    BY <2>1 DEF Leases!FreeSlots, Leases!LeasesTypeOK
<1>2. ASSUME NEW c \in Clients, NEW lease \in leases[c],
             \/ Leases!HandOffToConverter(c, lease)
             \/ Leases!AbortCopy(c, lease)
             \/ Leases!ReleaseAfterConversion(c, lease)
      PROVE  [slot |-> s, generation |-> slots[s].generation] \in leases[presented'.client]
  <2>1. PICK next \in {"free", "copying", "converting"} :
          /\ slots' = [slots EXCEPT ![lease.slot].state = next]
          /\ slots[lease.slot].generation = lease.generation
          /\ presented' = [client |-> c, slot |-> lease.slot, generation |-> lease.generation]
    BY <1>2 DEF Leases!HandOffToConverter, Leases!AbortCopy, Leases!ReleaseAfterConversion,
       Leases!Present, Leases!Matches
  <2>2. lease \in [slot : Slots, generation : Nat]
    BY DEF Leases!LeasesTypeOK
  <2>3. s = lease.slot
    BY <2>1, <2>2 DEF Leases!LeasesTypeOK
  <2>4. lease = [slot |-> s, generation |-> slots[s].generation]
    BY <2>1, <2>2, <2>3
  <2> QED
    BY <2>1, <2>4
<1>3. ~(Leases!Dropped \/ UNCHANGED leaseState)
  BY DEF Leases!Dropped, leaseState
<1> QED
  BY <1>1, <1>2, <1>3 DEF Leases!Next

\* A lease of an older generation moves nothing, however often and late it is
\* presented, and two frames in a row have the same signature exactly when they are
\* the same frame with no reset between them.
THEOREM StaleIsTold == LibrarySpec => StaleIsRecognised
<1>1. Leases!Init => Leases!LeasesTypeOK
  BY DEF Leases!Init, Leases!LeasesTypeOK
<1>2. Trackers!Init => KeptInv
  BY DEF Trackers!Init, KeptInv
<1>3. Leases!LeasesTypeOK /\ [Leases!Next]_leaseState =>
        [\A s \in Slots : slots[s].state # "free" /\ slots'[s] # slots[s] =>
           [slot |-> s, generation |-> slots[s].generation]
             \in leases[presented'.client]]_leaseState
  BY HoldersMove
<1>4. KeptInv =>
        [\A g \in Geometries, c \in Contents : Trackers!Update(g, c) =>
           /\ \A t \in Trackers!Trackers : signatures'[t] # 0
           /\ \A t \in Trackers!Trackers :
                (generation'[t] = generation[t])
                  <=> (shown.again /\ shown.geometry = g /\ shown.content = c)]_trackerState
  BY UpdateTells
<1> QED
  BY <1>1, <1>2, <1>3, <1>4, PartsRun, LeaseTypesKept, KeptInvKept, PTL
     DEF StaleIsRecognised, Leases!OnlyHolderMoves, Trackers!SignatureTellsFrames,
         Leases!leaseVars, Trackers!trackerVars, leaseState, trackerState

----------------------------------------------------------------------------
(* The way of a sleep image to the engine                                  *)

LEMMA ProductGrows ==
  ASSUME NEW a \in Nat, NEW b \in Nat, NEW c \in Nat, a <= b
  PROVE  a * c <= b * c
OBVIOUS

\* A weighted mean of two bytes, rounded, lies between them.
LEMMA MeanBetween ==
  ASSUME NEW low \in Nat, NEW high \in Nat, NEW over \in low..high, NEW under \in low..high,
         NEW alpha \in 0..255
  PROVE  (over * alpha + under * (255 - alpha) + 127) \div 255 \in low..high
<1> DEFINE rest == 255 - alpha
<1>1. /\ alpha \in Nat /\ rest \in Nat /\ over \in Nat /\ under \in Nat
      /\ low <= over /\ over <= high /\ low <= under /\ under <= high
  OBVIOUS
<1>2. low * alpha <= over * alpha /\ over * alpha <= high * alpha
  BY <1>1, ProductGrows
<1> HIDE DEF rest
<1>3. low * rest <= under * rest /\ under * rest <= high * rest
  BY <1>1, ProductGrows
<1>4. low * alpha + low * rest = low * 255 /\ high * alpha + high * rest = high * 255
  BY <1>1 DEF rest
<1>5. over * alpha \in Nat /\ under * rest \in Nat
  BY <1>1
<1> DEFINE sum == over * alpha + under * rest
<1>6. sum \in Nat /\ low * 255 <= sum /\ sum <= high * 255
  BY <1>1, <1>2, <1>3, <1>4, <1>5
<1> HIDE DEF sum
<1>7. (sum + 127) \div 255 \in low..high
  BY <1>6
<1> QED
  BY <1>7 DEF sum, rest

\* Quantizing keeps what lies between two panel grays between them.
LEMMA QuantizeBetween ==
  ASSUME NEW low \in Nat, NEW high \in Nat, Planes!IsPanelGray(low), Planes!IsPanelGray(high),
         NEW value \in low..high
  PROVE  /\ Planes!IsPanelGray(Planes!QuantizePanelGray(value))
         /\ Planes!QuantizePanelGray(value) \in low..high
<1>1. PICK k \in 0..15 : low = 16 * k
  BY DEF Planes!IsPanelGray
<1>2. PICK m \in 0..15 : high = 16 * m
  BY DEF Planes!IsPanelGray
<1>3. (value + 8) \div 16 \in k..m
  BY <1>1, <1>2
<1> DEFINE level == (value + 8) \div 16
<1> HIDE DEF level
<1>4. level \in k..m /\ Planes!QuantizePanelGray(value) = 16 * level
  BY <1>1, <1>2, <1>3 DEF level, Planes!QuantizePanelGray
<1>5. 16 * level \in low..high /\ 16 * level \in 0..240 /\ (16 * level) % 16 = 0
  BY <1>1, <1>2, <1>4
<1> QED
  BY <1>4, <1>5 DEF Planes!IsPanelGray

\* Blending two panel grays gives a panel gray between them, and one of them where
\* the image is opaque or transparent.
LEMMA BlendedBetween ==
  ASSUME NEW over, NEW under, Planes!IsPanelGray(over), Planes!IsPanelGray(under),
         NEW alpha \in 0..255
  PROVE  /\ Planes!IsPanelGray(Planes!Blended(over, alpha, under))
         /\ Planes!Between(Planes!Blended(over, alpha, under), over, under)
         /\ alpha = 255 => Planes!Blended(over, alpha, under) = over
         /\ alpha = 0 => Planes!Blended(over, alpha, under) = under
<1> DEFINE mean == (over * alpha + under * (255 - alpha) + 127) \div 255
<1>1. over \in 0..240 /\ under \in 0..240
  BY DEF Planes!IsPanelGray
<1>2. Planes!Blended(over, alpha, under) = Planes!QuantizePanelGray(mean)
  BY DEF Planes!Blended
<1>3. ASSUME NEW low \in {over, under}, NEW high \in {over, under}, mean \in low..high
      PROVE  /\ Planes!IsPanelGray(Planes!QuantizePanelGray(mean))
             /\ Planes!QuantizePanelGray(mean) \in low..high
  <2> HIDE DEF mean
  <2> QED
    BY <1>1, <1>3, QuantizeBetween
<1>4. CASE over <= under
  <2>1. mean \in over..under
    BY <1>1, <1>4, MeanBetween
  <2> QED
    BY <1>1, <1>2, <1>3, <2>1 DEF Planes!Between
<1>5. CASE under <= over
  <2>1. mean \in under..over
    BY <1>1, <1>5, MeanBetween
  <2> QED
    BY <1>1, <1>2, <1>3, <2>1 DEF Planes!Between
<1>6. /\ Planes!IsPanelGray(Planes!Blended(over, alpha, under))
      /\ Planes!Between(Planes!Blended(over, alpha, under), over, under)
  BY <1>1, <1>4, <1>5
<1>7. ASSUME alpha = 255 PROVE Planes!Blended(over, alpha, under) = over
  <2>1. mean = over
    BY <1>1, <1>7
  <2>2. Planes!QuantizePanelGray(mean) \in over..over
    BY <1>1, <1>3, <2>1
  <2> QED
    BY <1>1, <1>2, <2>2
<1>8. ASSUME alpha = 0 PROVE Planes!Blended(over, alpha, under) = under
  <2>1. mean = under
    BY <1>1, <1>8
  <2>2. Planes!QuantizePanelGray(mean) \in under..under
    BY <1>1, <1>3, <2>1
  <2> QED
    BY <1>1, <1>2, <2>2
<1> QED
  BY <1>6, <1>7, <1>8

\* What the catalog checked once is what the composition needs: planes of the right
\* size, panel gray, and an RGBA plane that fits.
Checked(entry) ==
  /\ entry.graySize = TRUE /\ entry.alphaSize = TRUE /\ entry.rgba # "size"
  /\ Planes!IsPanelGray(entry.gray) /\ entry.alpha \in 0..255

PlanesInv ==
  /\ catalog \in Seq(Planes!Entry)
  /\ \A i \in DOMAIN catalog : Checked(catalog[i])
  /\ background.gray = Planes!None \/ Planes!IsPanelGray(background.gray)
  /\ Planes!AcceptedImageIsPresentable

LEMMA ComposedIsPresentable ==
  ASSUME NEW entry, Checked(entry), NEW under, Planes!IsPanelGray(under)
  PROVE  /\ Planes!ComposeRefusal(entry, under) = "none"
         /\ Planes!ValidateLowerEnginePlanes(Planes!SleepFrame(entry)) = "ready"
<1>1. Planes!ComposeRefusal(entry, under) = "none"
  BY DEF Planes!ComposeRefusal, Checked
<1>2. /\ Planes!SleepFrame(entry).source = FALSE /\ Planes!SleepFrame(entry).compose = FALSE
      /\ Planes!SleepFrame(entry).epoch = 1 /\ Planes!SleepFrame(entry).graySize = TRUE
  BY DEF Planes!SleepFrame, Checked
<1>3. Planes!ValidateLowerEnginePlanes(Planes!SleepFrame(entry)) = "ready"
  BY <1>2 DEF Planes!ValidateLowerEnginePlanes
<1> QED
  BY <1>1, <1>3

LEMMA PlanesInvKept == PlanesInv /\ [Planes!Next]_planeState => PlanesInv'
<1> SUFFICES ASSUME PlanesInv, [Planes!Next]_planeState
             PROVE  PlanesInv'
  OBVIOUS
<1>1. ASSUME planePresented' = Planes!NotPresented
      PROVE  Planes!AcceptedImageIsPresentable'
  BY <1>1 DEF Planes!AcceptedImageIsPresentable, Planes!NotPresented
<1>2. CASE \E known \in BOOLEAN, cfa \in BOOLEAN : Planes!Build(known, cfa)
  BY <1>2 DEF Planes!Build, PlanesInv, Planes!AcceptedImageIsPresentable
<1>3. ASSUME NEW e \in Planes!Offered, NEW n \in 0..(MaxEntries + 1),
             Planes!Publish([i \in 1..n |-> e])
      PROVE  PlanesInv'
  <2> DEFINE entries == [i \in 1..n |-> e]
  <2>1. /\ catalog' = IF Planes!Validate(entries) THEN entries ELSE catalog
        /\ planePresented' = Planes!NotPresented /\ UNCHANGED background
    BY <1>3 DEF Planes!Publish
  <2>2. e \in Planes!Entry /\ n \in Nat
    BY LibraryAssumption DEF Planes!Offered
  <2>3. entries \in Seq(Planes!Entry)
    BY <2>2
  <2>4. ASSUME Planes!Validate(entries) PROVE \A i \in DOMAIN entries : Checked(entries[i])
    <3>1. e.gray \in Levels \cup {Dense} /\ e.alpha \in 0..255
          /\ e.alphaSize \in BOOLEAN /\ e.graySize \in BOOLEAN
      BY <2>2, LibraryAssumption DEF Planes!Entry
    <3> QED
      BY <2>4, <3>1 DEF Planes!Validate, Planes!ValidateEntry, Checked
  <2> QED
    BY <1>1, <2>1, <2>3, <2>4 DEF PlanesInv
<1>4. CASE Planes!Clear
  BY <1>1, <1>4 DEF Planes!Clear, PlanesInv
<1>5. CASE Planes!Release
  BY <1>1, <1>5 DEF Planes!Release, PlanesInv
<1>6. ASSUME NEW f \in Planes!SubmittedFrames, NEW accepted \in BOOLEAN,
             Planes!ObserveSubmission(f, accepted)
      PROVE  PlanesInv'
  BY <1>1, <1>6 DEF Planes!ObserveSubmission, Planes!Retains, PlanesInv
<1>7. ASSUME NEW index \in 1..(MaxEntries + 1), NEW overlay \in BOOLEAN,
             Planes!PresentSleepImage(index, overlay)
      PROVE  PlanesInv'
  <2> DEFINE entry == catalog[index]
             under == IF overlay THEN background.gray ELSE Planes!White
  <2>1. UNCHANGED <<catalog, background, profile>>
    BY <1>7 DEF Planes!PresentSleepImage
  <2>2. CASE index > Len(catalog) \/ (overlay /\ background.gray = Planes!None)
    <3>1. planePresented'.result \in {"no_candidate", "no_background"}
      BY <1>7, <2>2 DEF Planes!PresentSleepImage, Planes!NotPresented
    <3> QED
      BY <2>1, <3>1 DEF PlanesInv, Planes!AcceptedImageIsPresentable
  <2>3. CASE ~(index > Len(catalog) \/ (overlay /\ background.gray = Planes!None))
    <3>1. index \in DOMAIN catalog
      BY <2>3, LibraryAssumption DEF PlanesInv
    <3>2. Checked(entry) /\ Planes!IsPanelGray(under)
      BY <2>3, <3>1 DEF PlanesInv, Planes!White, Planes!IsPanelGray
    <3>3. planePresented' = Planes!Outcome("composited", entry, under)
      BY <1>7, <2>3, <3>2, ComposedIsPresentable DEF Planes!PresentSleepImage
    <3> HIDE DEF entry, under
    <3>4. /\ planePresented'.result = "composited" /\ planePresented'.status = "ready"
          /\ planePresented'.gray = Planes!Blended(entry.gray, entry.alpha, under)
          /\ planePresented'.alpha = entry.alpha /\ planePresented'.over = entry.gray
          /\ planePresented'.under = under
      BY <3>2, <3>3, ComposedIsPresentable DEF Planes!Outcome
    <3>5. /\ Planes!IsPanelGray(planePresented'.gray)
          /\ Planes!Between(planePresented'.gray, entry.gray, under)
          /\ entry.alpha = 255 => planePresented'.gray = entry.gray
          /\ entry.alpha = 0 => planePresented'.gray = under
      BY <3>2, <3>4, BlendedBetween DEF Checked
    <3>6. Planes!AcceptedImageIsPresentable'
      BY <3>4, <3>5 DEF Planes!AcceptedImageIsPresentable
    <3> QED
      BY <2>1, <3>6 DEF PlanesInv
  <2> QED
    BY <2>2, <2>3
<1>8. CASE UNCHANGED planeState
  BY <1>8 DEF planeState, PlanesInv, Planes!AcceptedImageIsPresentable
<1> QED
  BY <1>2, <1>3, <1>4, <1>5, <1>6, <1>7, <1>8 DEF Planes!Next

\* An image the catalog accepted is never refused on its way to the engine: it is
\* composed over whatever page was retained, lands on panel grays between the two,
\* and passes the engine's check of its planes.
THEOREM AcceptedIsPresented == LibrarySpec => []AcceptedImageIsPresentable
<1>1. Planes!Init => PlanesInv
  BY DEF Planes!Init, PlanesInv, Planes!AcceptedImageIsPresentable, Planes!NotPresented
<1>2. PlanesInv => AcceptedImageIsPresentable
  BY DEF PlanesInv, AcceptedImageIsPresentable
<1> QED
  BY <1>1, <1>2, PartsRun, PlanesInvKept, PTL

----------------------------------------------------------------------------
(* The front light.  Only the handler touches the desired and the physical *)
(* state, one message at a time, and nothing at all while it awaits a      *)
(* result; the binder threads make what it holds stale.                    *)

Has(messages, what) == \E i \in DOMAIN messages : messages[i].what = what
GestureIn(messages) ==
  \E i \in DOMAIN messages : messages[i].what \in Gestures /\ messages[i].current
Live(request) == request # None /\ request.current

\* A superseded message is the same message, no longer of the latest generation.
LEMMA StaleMessage ==
  ASSUME NEW m \in Messages
  PROVE  /\ Stale(m) \in Messages /\ Stale(m).what = m.what /\ ~Stale(m).current
         /\ Stale(m) # None /\ m # None
<1>1. m # None
  BY NoneAssumption
<1>2. Stale(m) = [what |-> m.what, current |-> FALSE, brightness |-> m.brightness, warmth |-> m.warmth]
  BY <1>1 DEF Stale, Messages
<1>3. Stale(m) \in Messages
  BY <1>2 DEF Messages
<1>4. Stale(m) # None
  BY <1>3, NoneAssumption
<1>5. Stale(m).what = m.what /\ ~Stale(m).current
  BY <1>2
<1> QED
  BY <1>1, <1>3, <1>4, <1>5

\* A superseded request is still a request, and is not served.
LEMMA StaleRequest ==
  ASSUME NEW r \in Requests \cup {None}
  PROVE  Stale(r) \in Requests \cup {None} /\ ~Live(Stale(r)) /\ (Stale(r) = None <=> r = None)
<1>1. CASE r = None
  BY <1>1 DEF Stale, Live
<1>2. CASE r \in Requests
  <2>1. r # None
    BY <1>2, NoneAssumption
  <2>2. Stale(r) = [kind |-> r.kind, current |-> FALSE, brightness |-> r.brightness, warmth |-> r.warmth]
    BY <1>2, <2>1 DEF Stale, Requests
  <2>3. Stale(r) \in Requests
    BY <1>2, <2>2 DEF Requests
  <2>4. Stale(r) # None
    BY <2>3, NoneAssumption
  <2>5. ~Live(Stale(r))
    BY <2>2 DEF Live
  <2> QED
    BY <2>1, <2>3, <2>4, <2>5
<1> QED
  BY <1>1, <1>2

\* A call underway that is superseded is still awaited, its answer no longer wanted.
LEMMA StaleCall ==
  ASSUME NEW r \in Calls \cup {None}
  PROVE  Stale(r) \in Calls \cup {None} /\ ~Live(Stale(r)) /\ (Stale(r) = None <=> r = None)
<1>1. CASE r = None
  BY <1>1 DEF Stale, Live
<1>2. CASE r \in Calls
  <2>1. r # None
    BY <1>2, NoneAssumption
  <2>2. Stale(r) = [kind |-> r.kind, current |-> FALSE, result |-> r.result]
    BY <1>2, <2>1 DEF Stale, Calls
  <2>3. Stale(r) \in Calls
    BY <1>2, <2>2 DEF Calls
  <2>4. Stale(r) # None
    BY <2>3, NoneAssumption
  <2>5. ~Live(Stale(r))
    BY <2>2 DEF Live
  <2> QED
    BY <2>1, <2>3, <2>4, <2>5
<1> QED
  BY <1>1, <1>2

\* Superseding the inbox leaves no current gesture and moves nothing.
LEMMA SupersededInbox ==
  ASSUME NEW s \in Seq(Messages)
  PROVE  /\ Superseded(s) \in Seq(Messages)
         /\ ~GestureIn(Superseded(s))
         /\ \A w : Has(Superseded(s), w) <=> Has(s, w)
         /\ Superseded(s) = <<>> <=> s = <<>>
         /\ s # <<>> => /\ Head(Superseded(s)).what = Head(s).what
                        /\ \A w : Has(Tail(Superseded(s)), w) <=> Has(Tail(s), w)
<1>1. DOMAIN s = 1..Len(s) /\ Len(s) \in Nat /\ \A i \in 1..Len(s) : s[i] \in Messages
  OBVIOUS
<1>2. \A i \in 1..Len(s) : /\ Superseded(s)[i] \in Messages
                           /\ Superseded(s)[i].what = s[i].what
                           /\ ~Superseded(s)[i].current
  BY <1>1, StaleMessage DEF Superseded
<1>3. DOMAIN Superseded(s) = 1..Len(s)
  BY <1>1 DEF Superseded
<1>4. Superseded(s) \in Seq(Messages)
  BY <1>1, <1>2 DEF Superseded
<1>5. Len(Superseded(s)) = Len(s)
  BY <1>1, <1>3, <1>4
<1>6. ~GestureIn(Superseded(s))
  BY <1>2, <1>3 DEF GestureIn
<1>7. \A w : Has(Superseded(s), w) <=> Has(s, w)
  BY <1>1, <1>2, <1>3 DEF Has
<1>8. Superseded(s) = <<>> <=> s = <<>>
  BY <1>4, <1>5
<1>9. ASSUME s # <<>> PROVE Head(Superseded(s)).what = Head(s).what
  BY <1>1, <1>2, <1>3, <1>4, <1>5, <1>9
<1>10. ASSUME s # <<>>, NEW w PROVE Has(Tail(Superseded(s)), w) <=> Has(Tail(s), w)
  <2>1. DOMAIN Tail(s) = 1..(Len(s) - 1) /\ \A i \in 1..(Len(s) - 1) : Tail(s)[i] = s[i + 1]
    BY <1>1, <1>10
  <2>2. DOMAIN Tail(Superseded(s)) = 1..(Len(s) - 1)
    BY <1>4, <1>5, <1>8, <1>10
  <2>3. \A i \in 1..(Len(s) - 1) : Tail(Superseded(s))[i] = Superseded(s)[i + 1]
    BY <1>4, <1>5, <1>8, <1>10
  <2>4. \A i \in 1..(Len(s) - 1) : i + 1 \in 1..Len(s)
    BY <1>1
  <2> QED
    BY <1>2, <2>1, <2>2, <2>3, <2>4 DEF Has
<1> QED
  BY <1>4, <1>6, <1>7, <1>8, <1>9, <1>10

\* A message posted comes last.
LEMMA Appended ==
  ASSUME NEW s \in Seq(Messages), NEW m \in Messages
  PROVE  /\ Append(s, m) \in Seq(Messages) /\ Append(s, m) # <<>>
         /\ \A w : Has(Append(s, m), w) <=> Has(s, w) \/ m.what = w
         /\ GestureIn(Append(s, m)) <=> GestureIn(s) \/ (m.what \in Gestures /\ m.current)
         /\ s # <<>> => Head(Append(s, m)) = Head(s) /\ Tail(Append(s, m)) = Append(Tail(s), m)
<1>1. Append(s, m) \in Seq(Messages) /\ Append(s, m) # <<>>
  <2>1. Append(s, m) \in Seq(Messages) /\ Len(Append(s, m)) = Len(s) + 1 /\ Len(s) \in Nat
    OBVIOUS
  <2> QED
    BY <2>1
<1>2. DOMAIN Append(s, m) = 1..(Len(s) + 1) /\ DOMAIN s = 1..Len(s) /\ Len(s) \in Nat
  OBVIOUS
<1>3. Append(s, m)[Len(s) + 1] = m /\ \A i \in 1..Len(s) : Append(s, m)[i] = s[i]
  OBVIOUS
<1>4. \A i : i \in 1..(Len(s) + 1) <=> i \in 1..Len(s) \/ i = Len(s) + 1
  BY <1>2
<1>5. \A w : Has(Append(s, m), w) <=> Has(s, w) \/ m.what = w
  BY <1>2, <1>3, <1>4 DEF Has
<1>6. GestureIn(Append(s, m)) <=> GestureIn(s) \/ (m.what \in Gestures /\ m.current)
  BY <1>2, <1>3, <1>4 DEF GestureIn
<1>7. s # <<>> => Head(Append(s, m)) = Head(s) /\ Tail(Append(s, m)) = Append(Tail(s), m)
  OBVIOUS
<1> QED
  BY <1>1, <1>5, <1>6, <1>7

\* What is in the inbox is its first message or in the rest.
LEMMA HeadAndTail ==
  ASSUME NEW s \in Seq(Messages), s # <<>>
  PROVE  /\ Head(s) \in Messages /\ Tail(s) \in Seq(Messages)
         /\ \A w : Has(s, w) <=> Head(s).what = w \/ Has(Tail(s), w)
         /\ GestureIn(s) <=> (Head(s).what \in Gestures /\ Head(s).current) \/ GestureIn(Tail(s))
<1>1. Head(s) \in Messages /\ Tail(s) \in Seq(Messages)
  OBVIOUS
<1>2. DOMAIN Tail(s) = 1..(Len(s) - 1) /\ DOMAIN s = 1..Len(s) /\ Len(s) \in Nat \ {0}
  OBVIOUS
<1>3. Head(s) = s[1] /\ \A i \in 1..(Len(s) - 1) : Tail(s)[i] = s[i + 1]
  OBVIOUS
<1>4. \A i \in 1..Len(s) : i # 1 => i - 1 \in 1..(Len(s) - 1) /\ s[i] = Tail(s)[i - 1]
  BY <1>2, <1>3
<1>5. /\ 1 \in 1..Len(s) /\ \A i \in 1..(Len(s) - 1) : i + 1 \in 1..Len(s)
  BY <1>2
<1>6. \A w : Has(s, w) <=> Head(s).what = w \/ Has(Tail(s), w)
  BY <1>2, <1>3, <1>4, <1>5 DEF Has
<1>7. GestureIn(s) <=> (Head(s).what \in Gestures /\ Head(s).current) \/ GestureIn(Tail(s))
  BY <1>2, <1>3, <1>4, <1>5 DEF GestureIn
<1> QED
  BY <1>1, <1>6, <1>7

\* What the handler leaves of its inbox when it goes on: the rest of the messages and
\* perhaps a drain.
Passed(rest) ==
  /\ inbox' \in Seq(Messages) /\ mDrainScheduled' \in BOOLEAN
  /\ \A w : w # "drain" => (Has(inbox', w) <=> Has(rest, w))
  /\ GestureIn(inbox') <=> GestureIn(rest)
  /\ Has(rest, "drain") => Has(inbox', "drain")
  /\ mDrainScheduled => mDrainScheduled'
  /\ mDrainScheduled' => mDrainScheduled \/ Has(inbox', "drain")

\* The messages the service posts to itself are well formed, and no gestures.
LEMMA KnownMessages ==
  /\ \A what \in Gestures \cup {"load", "setup", "display", "drain"} :
        /\ Message(what) \in Messages /\ Message(what).what = what
        /\ Message(what).brightness = 0 /\ Message(what).warmth = 0 /\ Message(what).current
  /\ "drain" \notin Gestures /\ "display" \notin Gestures /\ "setup" \notin Gestures
  /\ "load" \notin Gestures
BY DEF Message, Messages, Gestures, Percent

\* Scheduling a drain passes the rest of the inbox on.
LEMMA PostDrainPasses ==
  ASSUME NEW rest \in Seq(Messages), mDrainScheduled \in BOOLEAN, PostDrain(rest)
  PROVE  Passed(rest) /\ mDrainScheduled'
<1>1. Message("drain") \in Messages /\ Message("drain").what = "drain" /\ "drain" \notin Gestures
  BY KnownMessages
<1>2. CASE mDrainScheduled
  BY <1>2 DEF PostDrain, Passed
<1>3. CASE ~mDrainScheduled
  <2>1. inbox' = Append(rest, Message("drain")) /\ mDrainScheduled'
    BY <1>3 DEF PostDrain
  <2>2. /\ inbox' \in Seq(Messages)
        /\ \A w : Has(inbox', w) <=> Has(rest, w) \/ w = "drain"
        /\ GestureIn(inbox') <=> GestureIn(rest)
    BY <1>1, <2>1, Appended
  <2>3. mDrainScheduled' \in BOOLEAN
    BY DEF PostDrain
  <2> QED
    BY <2>1, <2>2, <2>3 DEF Passed
<1> QED
  BY <1>2, <1>3

\* Queueing nothing passes the rest of the inbox on, and schedules nothing.
LEMMA NothingQueuedPasses ==
  ASSUME NEW rest \in Seq(Messages), mDrainScheduled \in BOOLEAN, NothingQueued(rest)
  PROVE  Passed(rest) /\ mDrainScheduled' = mDrainScheduled
BY DEF NothingQueued, Passed

\* The request for darkness.
LEMMA OffRequestIs ==
  /\ OffRequest \in Requests /\ OffRequest.kind = "off" /\ OffRequest.current
  /\ OffRequest.brightness = 0 /\ OffRequest.warmth = 0
BY DEF OffRequest, Requests, Kinds, Percent

\* The request for what is desired.
LEMMA UserRequestIs ==
  ASSUME DesiredOK', NEW kind \in Kinds
  PROVE  /\ UserRequest(kind) \in Requests /\ UserRequest(kind).kind = kind
         /\ UserRequest(kind).current
         /\ UserRequest(kind).brightness = mDesiredBrightness'
         /\ UserRequest(kind).warmth = mDesiredWarmth'
BY DEF DesiredOK, UserRequest, Requests, Percent

\* A request asks for darkness or for the desired state.
LEMMA Queueing ==
  ASSUME NEW rest \in Seq(Messages), mDrainScheduled \in BOOLEAN, DesiredOK',
         mPending \in Requests \cup {None},
         NEW kind \in Kinds, kind # "off", QueueDesiredOrOff(kind, rest)
  PROVE  /\ Passed(rest) /\ mPending' \in Requests \cup {None}
         /\ \/ /\ ~mStateLoaded' \/ ~mSetupComplete'
               /\ mPending' = mPending /\ mDrainScheduled' = mDrainScheduled
            \/ mStateLoaded' /\ mSetupComplete' /\ ~mDisplayOn' /\ mOffCompleted /\ mPending' = None
            \/ /\ mStateLoaded' /\ mSetupComplete' /\ ~(~mDisplayOn' /\ mOffCompleted)
               /\ ~mDisplayOn' \/ mWakeRestorePending \/ ~mEnabled'
               /\ mPending' = OffRequest /\ mDrainScheduled'
            \/ /\ mStateLoaded' /\ mSetupComplete'
               /\ mDisplayOn' /\ ~mWakeRestorePending /\ mEnabled'
               /\ mPending' = UserRequest(kind) /\ mDrainScheduled'
<1>1. CASE ~mStateLoaded' \/ ~mSetupComplete'
  BY <1>1, NothingQueuedPasses DEF QueueDesiredOrOff
<1>2. CASE mStateLoaded' /\ mSetupComplete' /\ ~mDisplayOn' /\ mOffCompleted
  BY <1>2, NothingQueuedPasses DEF QueueDesiredOrOff
<1>3. CASE mStateLoaded' /\ mSetupComplete' /\ ~(~mDisplayOn' /\ mOffCompleted)
  <2>1. PostDrain(rest) /\ mPending' = PhysicalRequest(UserRequest(kind))
    BY <1>3 DEF QueueDesiredOrOff
  <2>2. Passed(rest) /\ mDrainScheduled'
    BY <2>1, PostDrainPasses
  <2>3. CASE ~mDisplayOn' \/ mWakeRestorePending \/ ~mEnabled'
    BY <1>3, <2>1, <2>2, <2>3, OffRequestIs, UserRequestIs DEF PhysicalRequest
  <2>4. CASE ~(~mDisplayOn' \/ mWakeRestorePending \/ ~mEnabled')
    BY <1>3, <2>1, <2>2, <2>4, OffRequestIs, UserRequestIs DEF PhysicalRequest
  <2> QED
    BY <2>3, <2>4
<1> QED
  BY <1>1, <1>2, <1>3

\* The light starts well typed.
LEMMA LightTypesInitially == Init => TypeOK
<1> SUFFICES ASSUME Init PROVE TypeOK
  OBVIOUS
<1>1. <<Message("load")>> \in Seq(Messages)
  BY KnownMessages
<1>2. FlagsOK
  BY DEF Init, FlagsOK
<1>3. DesiredOK
  BY DEF Init, DesiredOK, INITIAL_BRIGHTNESS, INITIAL_WARMTH, Percent
<1>4. QueueOK
  BY <1>1 DEF Init, QueueOK
<1>5. display \in {"on", "off"} /\ DOMAIN lights = Channels
  BY DEF Init
<1>6. requests \in Nat /\ offs \in Nat /\ upsets \in Nat
  BY DEF Init
<1> QED
  BY <1>2, <1>3, <1>4, <1>5, <1>6 DEF TypeOK

\* What the writes leave.
LEMMA WhatIsWritten ==
  ASSUME NEW n \in 0..4, NEW b, NEW w, DOMAIN lights = Channels
  PROVE  /\ DOMAIN Written(n, b, w) = Channels
         /\ \A c \in Channels : Written(n, b, w)[c] # lights[c] => Written(n, b, w)[c] = Code(b, w, c)
         /\ n = 4 => \A c \in Channels : board.endpoints[c] = "writable" => Written(n, b, w)[c] = Code(b, w, c)
<1>1. DOMAIN Written(n, b, w) = Channels
  BY DEF Written
<1>2. \A c \in Channels : Written(n, b, w)[c] # lights[c] => Written(n, b, w)[c] = Code(b, w, c)
  BY DEF Written
<1>3. ASSUME n = 4, NEW c \in Channels, board.endpoints[c] = "writable"
      PROVE  Written(n, b, w)[c] = Code(b, w, c)
  <2>1. \E i \in 1..n : WriteOrder[i] = c
    BY <1>3 DEF Channels
  <2> QED
    BY <1>3, <2>1 DEF Written
<1> QED
  BY <1>1, <1>2, <1>3

\* Types are kept when the setup state is handled.
LEMMA SetupTypes ==
  ASSUME NEW rest \in Seq(Messages), FlagsOK, QueueOK, DesiredOK', SetupStateChanged(rest)
  PROVE  /\ mSetupComplete' \in BOOLEAN /\ mDrainScheduled' \in BOOLEAN /\ QueueOK'
<1>1. CASE setup_complete /\ ~mSetupComplete
  <2>1. /\ mSetupComplete' /\ posting' = Stale(posting) /\ calling' = calling
        /\ QueueDesiredOrOff("initialization", Superseded(rest))
    BY <1>1 DEF SetupStateChanged
  <2>2. Superseded(rest) \in Seq(Messages)
    BY SupersededInbox
  <2>3. "initialization" \in Kinds /\ "initialization" # "off"
    BY DEF Kinds
  <2>4. Passed(Superseded(rest)) /\ mPending' \in Requests \cup {None}
    BY <2>1, <2>2, <2>3, Queueing DEF FlagsOK, QueueOK
  <2>5. posting' = None \/ (posting' \in Messages /\ posting'.what \in Gestures)
    BY <2>1, StaleMessage DEF QueueOK, Stale
  <2>6. mSetupComplete' \in BOOLEAN
    BY <1>1 DEF SetupStateChanged
  <2> QED
    BY <2>1, <2>4, <2>5, <2>6 DEF QueueOK, Passed
<1>2. CASE ~(setup_complete /\ ~mSetupComplete)
  BY <1>2 DEF SetupStateChanged, NothingQueued, FlagsOK, QueueOK
<1> QED
  BY <1>1, <1>2

\* Types are kept when a drain continues.
LEMMA ContinueDrainTypes ==
  ASSUME NEW rest \in Seq(Messages), NEW pending, mDrainScheduled \in BOOLEAN,
         ContinueDrain(pending, rest)
  PROVE  inbox' \in Seq(Messages) /\ mDrainScheduled' \in BOOLEAN
<1>1. Append(rest, Message("drain")) \in Seq(Messages)
  BY KnownMessages, Appended
<1> QED
  BY <1>1 DEF ContinueDrain

\* Every step keeps the types.
LEMMA LightTypesKept == TypeOK /\ [Next]_vars => TypeOK'
<1> SUFFICES ASSUME TypeOK, [Next]_vars PROVE TypeOK'
  OBVIOUS
<1>0. FlagsOK /\ DesiredOK /\ QueueOK /\ inbox \in Seq(Messages)
  BY DEF TypeOK, QueueOK
<1>h. inbox # <<>> => Head(inbox) \in Messages /\ Tail(inbox) \in Seq(Messages)
  BY <1>0, HeadAndTail
<1>s. /\ Superseded(inbox) \in Seq(Messages)
      /\ inbox # <<>> => Superseded(Tail(inbox)) \in Seq(Messages)
  BY <1>0, <1>h, SupersededInbox
<1>p. Stale(posting) = None \/ (Stale(posting) \in Messages /\ Stale(posting).what \in Gestures)
  BY <1>0, StaleMessage DEF QueueOK, Stale
<1>1. CASE SubmitBegin
  <2>1. PICK what \in Gestures, b \in Brightnesses, w \in Warmths :
          posting' = [Message(what) EXCEPT !.brightness = b, !.warmth = w]
    BY <1>1 DEF SubmitBegin, Gestures
  <2>2. posting' = [what |-> what, current |-> TRUE, brightness |-> b, warmth |-> w]
    BY <2>1 DEF Message
  <2>3. posting' \in Messages /\ posting'.what \in Gestures
    BY <2>2, FrontLightAssumption DEF Messages
  <2>4. inbox' = Superseded(inbox) /\ mPending' = Stale(mPending) /\ calling' = Stale(calling)
    BY <1>1 DEF SubmitBegin
  <2>5. QueueOK'
    BY <1>0, <1>s, <2>3, <2>4, StaleRequest, StaleCall DEF QueueOK
  <2>6. FlagsOK' /\ DesiredOK' /\ requests' = requests + 1
        /\ UNCHANGED <<display, lights, offs, upsets>>
    BY <1>0, <1>1 DEF SubmitBegin, FlagsOK, DesiredOK, worldVars, desiredVars, screenVars, bootVars,
                      deviceVars
  <2> QED
    BY <2>5, <2>6 DEF TypeOK
<1>2. CASE SubmitPost
  <2>1. posting \in Messages /\ inbox' = Append(inbox, posting) /\ posting' = None
    BY <1>0, <1>2 DEF SubmitPost, QueueOK
  <2>2. inbox' \in Seq(Messages)
    BY <1>0, <2>1, Appended
  <2>3. QueueOK' /\ FlagsOK' /\ DesiredOK'
    BY <1>0, <1>2, <2>1, <2>2 DEF SubmitPost, QueueOK, FlagsOK, DesiredOK, worldVars, desiredVars,
                                   screenVars, bootVars, deviceVars
  <2> QED
    BY <1>2, <2>3 DEF SubmitPost, TypeOK, worldVars, deviceVars
<1>3. CASE HandleGesture
  <2>1. Head(inbox) \in Messages /\ Tail(inbox) \in Seq(Messages)
    BY <1>3, <1>h DEF HandleGesture, Handling
  <2>2. UNCHANGED <<display, lights, requests, offs, upsets, posting, calling>>
    BY <1>3 DEF HandleGesture, HandlerRest, worldVars, deviceVars
  <2>3. CASE Head(inbox).current
    <3>1. mEnabled' \in BOOLEAN /\ mDesiredBrightness' \in 1..100 /\ mDesiredWarmth' \in Percent
      <4>1. DesiredAfter(Head(inbox))
        BY <1>3, <2>3 DEF HandleGesture
      <4>2. Head(inbox).brightness \in Percent /\ Head(inbox).warmth \in Percent
        BY <2>1 DEF Messages
      <4>3. Head(inbox).what \in Gestures
        BY <1>3 DEF HandleGesture, Handling
      <4>4. mDesiredBrightness \in 1..100 /\ mDesiredWarmth \in Percent
        BY <1>0 DEF DesiredOK
      <4>5. ASSUME NEW b \in Percent, NEW w \in Percent, UpdateDesired(b, w)
            PROVE  mEnabled' \in BOOLEAN /\ mDesiredBrightness' \in 1..100 /\ mDesiredWarmth' \in Percent
        <5>1. b > 0 => b \in 1..100
          BY DEF Percent
        <5>2. CASE b > 0
          BY <4>5, <5>1, <5>2 DEF UpdateDesired
        <5>3. CASE ~(b > 0)
          BY <4>4, <4>5, <5>3 DEF UpdateDesired
        <5> QED
          BY <5>2, <5>3
      <4>6. mDesiredBrightness \in Percent
        BY <4>4 DEF Percent
      <4>7. CASE Head(inbox).what = "manual"
        BY <4>1, <4>2, <4>5, <4>7 DEF DesiredAfter
      <4>8. CASE Head(inbox).what = "brightness"
        BY <4>1, <4>2, <4>4, <4>5, <4>8 DEF DesiredAfter
      <4>9. CASE Head(inbox).what = "warmth"
        BY <4>1, <4>2, <4>5, <4>6, <4>9 DEF DesiredAfter
      <4>10. CASE Head(inbox).what \notin {"manual", "brightness", "warmth"}
        BY <4>1, <4>4, <4>10 DEF DesiredAfter
      <4> QED
        BY <4>7, <4>8, <4>9, <4>10
    <3>2. DesiredOK'
      BY <1>3, <2>3, <3>1 DEF HandleGesture, PersistState, DesiredOK, States
    <3>3. QueueDesiredOrOff("user", Tail(inbox)) /\ UNCHANGED <<screenVars, bootVars>>
      BY <1>3, <2>3 DEF HandleGesture
    <3>4. Passed(Tail(inbox)) /\ mPending' \in Requests \cup {None}
      <4>1. "user" \in Kinds /\ "user" # "off" /\ mPending \in Requests \cup {None}
            /\ mDrainScheduled \in BOOLEAN
        BY <1>0 DEF Kinds, QueueOK, FlagsOK
      <4> QED
        BY <2>1, <3>2, <3>3, <4>1, Queueing
    <3>5. FlagsOK'
      BY <1>0, <1>3, <3>1, <3>3, <3>4 DEF FlagsOK, Passed, screenVars, bootVars, HandleGesture, HandlerRest,
                                           worldVars, deviceVars
    <3>6. QueueOK'
      BY <1>0, <2>2, <3>4 DEF QueueOK, Passed
    <3> QED
      BY <2>2, <3>2, <3>5, <3>6 DEF TypeOK
  <2>4. CASE ~Head(inbox).current
    <3>1. FlagsOK' /\ DesiredOK'
      BY <1>0, <1>3, <2>4 DEF HandleGesture, FlagsOK, DesiredOK, desiredVars, screenVars, bootVars,
                              deviceVars, HandlerRest, worldVars
    <3>2. QueueOK'
      BY <1>0, <1>3, <2>1, <2>2, <2>4 DEF HandleGesture, QueueOK
    <3> QED
      BY <2>2, <3>1, <3>2 DEF TypeOK
  <2> QED
    BY <2>3, <2>4
<1>4. CASE LoadState
  <2>1. Tail(inbox) \in Seq(Messages)
    BY <1>4, <1>h DEF LoadState, Handling
  <2>2. UNCHANGED <<display, lights, requests, offs, upsets>>
    BY <1>4 DEF LoadState, HandlerRest, worldVars, deviceVars
  <2>3. mEnabled' \in BOOLEAN /\ mDesiredBrightness' \in 1..100 /\ mDesiredWarmth' \in Percent
    <3>1. CASE settings = None
      BY <1>0, <1>4, <3>1 DEF LoadState, FlagsOK, DesiredOK
    <3>2. CASE settings # None
      BY <1>0, <1>4, <3>2 DEF LoadState, DesiredOK, States
    <3> QED
      BY <3>1, <3>2
  <2>4. DesiredOK'
    BY <1>4, <2>3 DEF LoadState, PersistState, DesiredOK, States
  <2>5. mSetupComplete' \in BOOLEAN /\ mDrainScheduled' \in BOOLEAN /\ QueueOK'
    BY <1>0, <1>4, <2>1, <2>4, SetupTypes DEF LoadState
  <2>6. FlagsOK'
    BY <1>0, <1>4, <2>3, <2>5 DEF LoadState, HandlerRest, worldVars, FlagsOK, deviceVars
  <2> QED
    BY <2>2, <2>4, <2>5, <2>6 DEF TypeOK
<1>5. CASE HandleSetup
  <2>1. Tail(inbox) \in Seq(Messages)
    BY <1>5, <1>h DEF HandleSetup, Handling
  <2>2. UNCHANGED <<display, lights, requests, offs, upsets>>
    BY <1>5 DEF HandleSetup, HandlerRest, worldVars, deviceVars
  <2>3. DesiredOK'
    BY <1>0, <1>5 DEF HandleSetup, DesiredOK, desiredVars
  <2>4. mSetupComplete' \in BOOLEAN /\ mDrainScheduled' \in BOOLEAN /\ QueueOK'
    <3>1. CASE mStateLoaded
      BY <1>0, <1>5, <2>1, <2>3, <3>1, SetupTypes DEF HandleSetup
    <3>2. CASE ~mStateLoaded
      BY <1>0, <1>5, <2>1, <3>2 DEF HandleSetup, QueueOK, FlagsOK
    <3> QED
      BY <3>1, <3>2
  <2>5. FlagsOK'
    BY <1>0, <1>5, <2>4 DEF HandleSetup, HandlerRest, worldVars, FlagsOK, deviceVars, desiredVars, screenVars
  <2> QED
    BY <2>2, <2>3, <2>4, <2>5 DEF TypeOK
<1>6. CASE HandleDisplay
  <2>1. Tail(inbox) \in Seq(Messages) /\ Superseded(Tail(inbox)) \in Seq(Messages)
    BY <1>6, <1>h, <1>s DEF HandleDisplay, Handling
  <2>2. UNCHANGED <<display, lights, requests, offs, upsets>>
    BY <1>6 DEF HandleDisplay, HandlerRest, worldVars, deviceVars
  <2>3. DesiredOK'
    BY <1>0, <1>6 DEF HandleDisplay, DesiredOK, desiredVars
  <2>4. RestoreRequest \in Requests
    <3>1. "restore" \in Kinds
      BY DEF Kinds
    <3> QED
      BY <2>3, <3>1, OffRequestIs, UserRequestIs DEF RestoreRequest
  <2>5. NewGeneration(Tail(inbox)) /\ mPending' \in Requests \cup {None} => QueueOK' /\ mDrainScheduled' \in BOOLEAN
    <3>1. mDrainScheduled \in BOOLEAN
      BY <1>0 DEF FlagsOK
    <3>2. PostDrain(Superseded(Tail(inbox))) => inbox' \in Seq(Messages) /\ mDrainScheduled' \in BOOLEAN
      BY <2>1, <3>1, PostDrainPasses DEF Passed
    <3> QED
      BY <1>0, <1>p, <3>2 DEF NewGeneration, QueueOK
  <2>6. inbox' = Tail(inbox) /\ UNCHANGED <<mPending, mDrainScheduled, posting, calling>>
        => QueueOK' /\ mDrainScheduled' \in BOOLEAN
    BY <1>0, <2>1 DEF QueueOK, FlagsOK
  <2>7. UNCHANGED <<setup_complete, mStateLoaded, mSetupComplete, failure_latched, mEnabled>>
    BY <1>6 DEF HandleDisplay, HandlerRest, worldVars, bootVars, deviceVars, desiredVars
  <2>8. mDisplayOn' \in BOOLEAN /\ mWakeRestorePending' \in BOOLEAN /\ mOffCompleted' \in BOOLEAN
        /\ QueueOK' /\ mDrainScheduled' \in BOOLEAN
    <3>1. CASE ~mStateLoaded \/ mDisplayOn = (display = "on")
      BY <1>0, <1>6, <2>6, <3>1 DEF HandleDisplay, screenVars, FlagsOK
    <3>2. CASE ~(~mStateLoaded \/ mDisplayOn = (display = "on")) /\ mDisplayOn
      BY <1>6, <2>5, <3>2, OffRequestIs DEF HandleDisplay
    <3>3. CASE ~(~mStateLoaded \/ mDisplayOn = (display = "on")) /\ ~mDisplayOn
      BY <1>0, <1>6, <2>4, <2>5, <2>6, <3>3 DEF HandleDisplay, FlagsOK
    <3> QED
      BY <3>1, <3>2, <3>3
  <2>9. FlagsOK'
    BY <1>0, <2>7, <2>8 DEF FlagsOK
  <2> QED
    BY <2>2, <2>3, <2>8, <2>9 DEF TypeOK
<1>7. ASSUME NEW result \in Results, DrainCalls(result) PROVE TypeOK'
  <2>1. Tail(inbox) \in Seq(Messages)
    BY <1>7, <1>h DEF DrainCalls, Handling
  <2>2. calling' \in Calls
    <3>1. mPending \in Requests
      BY <1>0, <1>7 DEF DrainCalls, Drains, QueueOK
    <3> QED
      BY <1>7, <3>1 DEF DrainCalls, Calls, Requests
  <2>3. QueueOK'
    BY <1>0, <1>7, <2>1, <2>2 DEF DrainCalls, QueueOK, binderVars
  <2>4. DOMAIN lights' = Channels /\ upsets' \in Nat /\ failure_latched' \in BOOLEAN
    <3>1. DOMAIN lights = Channels /\ upsets \in Nat /\ failure_latched \in BOOLEAN
      BY <1>0 DEF TypeOK, FlagsOK
    <3>2. Apply(mPending.brightness, mPending.warmth, result)
      BY <1>7 DEF DrainCalls
    <3>3. Len(WriteOrder) = 4
      BY DEF WriteOrder
    <3>4. ASSUME NEW n \in 0..4
          PROVE  DOMAIN Written(n, mPending.brightness, mPending.warmth) = Channels
      BY <3>1, WhatIsWritten
    <3>5. \A i \in 1..4 : i - 1 \in 0..4
      OBVIOUS
    <3>6. upsets' \in Nat
      BY <3>1, <3>2 DEF Apply, Upset
    <3>7. failure_latched' \in BOOLEAN
      BY <3>1, <3>2 DEF Apply
    <3>8. DOMAIN lights' = Channels
      <4>1. CASE UNCHANGED lights
        BY <3>1, <4>1
      <4>2. CASE \E n \in 0..4 : lights' = Written(n, mPending.brightness, mPending.warmth)
        BY <3>4, <4>2
      <4>3. 4 \in 0..4
        OBVIOUS
      <4> QED
        BY <3>2, <3>3, <3>5, <4>1, <4>2, <4>3 DEF Apply
    <3> QED
      BY <3>6, <3>7, <3>8
  <2>5. FlagsOK' /\ DesiredOK'
    BY <1>0, <1>7, <2>4 DEF DrainCalls, FlagsOK, DesiredOK, worldVars, desiredVars, screenVars, bootVars
  <2> QED
    BY <1>7, <2>3, <2>4, <2>5 DEF DrainCalls, TypeOK, worldVars, binderVars
<1>8. CASE DrainSkips
  <2>1. Tail(inbox) \in Seq(Messages)
    BY <1>8, <1>h DEF DrainSkips, Handling
  <2>2. QueueOK'
    BY <1>0, <1>8, <2>1 DEF DrainSkips, QueueOK
  <2>3. FlagsOK' /\ DesiredOK'
    BY <1>0, <1>8 DEF DrainSkips, FlagsOK, DesiredOK, HandlerRest, worldVars, desiredVars, screenVars, bootVars,
                      deviceVars
  <2> QED
    BY <1>8, <2>2, <2>3 DEF DrainSkips, HandlerRest, TypeOK, worldVars, deviceVars
<1>9. CASE DrainReturns
  <2>1. DesiredOK'
    BY <1>0, <1>9 DEF DrainReturns, DesiredOK, desiredVars
  <2>2. RestoreRequest \in Requests
    <3>1. "restore" \in Kinds
      BY DEF Kinds
    <3> QED
      BY <2>1, <3>1, OffRequestIs, UserRequestIs DEF RestoreRequest
  <2>3. ASSUME NEW rest \in Seq(Messages), NEW pending, ContinueDrain(pending, rest)
        PROVE  inbox' \in Seq(Messages) /\ mDrainScheduled' \in BOOLEAN
    BY <1>0, <2>3, ContinueDrainTypes DEF FlagsOK
  <2>5. mWakeRestorePending' \in BOOLEAN /\ mOffCompleted' \in BOOLEAN
    BY <1>0, <1>9 DEF DrainReturns, FlagsOK
  <2>6. QueueOK' /\ mDrainScheduled' \in BOOLEAN
    <3>1. calling' = None
      BY <1>9 DEF DrainReturns
    <3>2. CASE ConsumesOff /\ calling.result = "off" /\ mWakeRestorePending /\ mDisplayOn
      BY <1>0, <1>9, <1>s, <1>p, <2>2, <2>3, <3>1, <3>2 DEF DrainReturns, QueueOK
    <3>3. CASE ~(ConsumesOff /\ calling.result = "off" /\ mWakeRestorePending /\ mDisplayOn)
      BY <1>0, <1>9, <2>3, <3>1, <3>3 DEF DrainReturns, QueueOK
    <3> QED
      BY <3>2, <3>3
  <2>7. FlagsOK'
    BY <1>0, <1>9, <2>5, <2>6 DEF DrainReturns, FlagsOK, HandlerRest, worldVars, desiredVars, bootVars, deviceVars
  <2> QED
    BY <1>9, <2>1, <2>6, <2>7 DEF DrainReturns, HandlerRest, TypeOK, worldVars, deviceVars
<1>10. CASE DisplayTurnsOff \/ DisplayTurnsOn \/ SetupCompletes
  <2>1. PICK what \in {"display", "setup"} : inbox' = Append(inbox, Message(what))
    BY <1>10 DEF DisplayTurnsOff, DisplayTurnsOn, SetupCompletes
  <2>2. inbox' \in Seq(Messages)
    BY <1>0, <2>1, KnownMessages, Appended
  <2>3. OutsideRest
    BY <1>10 DEF DisplayTurnsOff, DisplayTurnsOn, SetupCompletes
  <2>4. QueueOK'
    BY <1>0, <2>2, <2>3 DEF OutsideRest, QueueOK, binderVars
  <2>5. display' \in {"on", "off"} /\ setup_complete' \in BOOLEAN /\ offs' \in Nat
    <3>1. CASE DisplayTurnsOff
      BY <1>0, <3>1 DEF DisplayTurnsOff, TypeOK, FlagsOK
    <3>2. CASE DisplayTurnsOn
      BY <1>0, <3>2 DEF DisplayTurnsOn, TypeOK, FlagsOK
    <3>3. CASE SetupCompletes
      BY <1>0, <3>3 DEF SetupCompletes, TypeOK, FlagsOK
    <3> QED
      BY <1>10, <3>1, <3>2, <3>3
  <2>6. FlagsOK' /\ DesiredOK'
    BY <1>0, <2>3, <2>5 DEF OutsideRest, FlagsOK, DesiredOK, desiredVars, screenVars, bootVars, deviceVars
  <2> QED
    BY <2>3, <2>4, <2>5, <2>6 DEF OutsideRest, TypeOK, binderVars, deviceVars
<1>11. CASE Restart
  <2>1. inbox' = <<Message("load")>> /\ <<Message("load")>> \in Seq(Messages)
    BY <1>11, KnownMessages DEF Restart
  <2>2. QueueOK'
    BY <1>11, <2>1 DEF Restart, QueueOK
  <2>3. DesiredOK'
    <3>1. INITIAL_BRIGHTNESS \in 1..100 /\ INITIAL_WARMTH \in Percent
      BY DEF INITIAL_BRIGHTNESS, INITIAL_WARMTH, Percent
    <3>2. UNCHANGED settings /\ mDesiredBrightness' = INITIAL_BRIGHTNESS /\ mDesiredWarmth' = INITIAL_WARMTH
      BY <1>11 DEF Restart
    <3> QED
      BY <1>0, <3>1, <3>2 DEF DesiredOK
  <2>6. FlagsOK'
    BY <1>0, <1>11 DEF Restart, FlagsOK
  <2>4. DOMAIN lights' = Channels
    <3>1. DOMAIN lights = Channels /\ Len(WriteOrder) = 4
      BY DEF TypeOK, WriteOrder
    <3>2. ASSUME NEW n \in 1..4
          PROVE  DOMAIN Written(n, mPending.brightness, mPending.warmth) = Channels
      BY <3>1, WhatIsWritten
    <3> QED
      BY <1>11, <3>1, <3>2 DEF Restart
  <2>5. display' \in {"on", "off"} /\ requests' \in Nat /\ offs' \in Nat /\ upsets' \in Nat
    BY <1>11 DEF Restart, Upset, TypeOK
  <2> QED
    BY <2>2, <2>3, <2>4, <2>5, <2>6 DEF TypeOK
<1>12. CASE UNCHANGED vars
  <2>1. FlagsOK' /\ DesiredOK'
    BY <1>0, <1>12 DEF vars, FlagsOK, DesiredOK, worldVars, desiredVars, screenVars, bootVars, queueVars, deviceVars
  <2>2. QueueOK'
    BY <1>0, <1>12 DEF vars, QueueOK, queueVars, binderVars
  <2> QED
    BY <1>12, <2>1, <2>2 DEF vars, TypeOK, worldVars, binderVars, deviceVars
<1> QED
  BY <1>1, <1>2, <1>3, <1>4, <1>5, <1>6, <1>7, <1>8, <1>9, <1>10, <1>11, <1>12 DEF Next, Handler, Outside

\* The state is loaded once, before any other message is handled.
LoadInv ==
  /\ mStateLoaded => ~Has(inbox, "load")
  /\ ~mStateLoaded =>
       /\ inbox # <<>> /\ Head(inbox).what = "load" /\ ~Has(Tail(inbox), "load")
       /\ mPending = None /\ calling = None
       /\ ~mSetupComplete /\ ~mOffCompleted /\ ~mWakeRestorePending

\* A request nothing has superseded asks for darkness with a reason that still
\* stands, or for the desired state, awake and with nothing left to restore.
PendingInv ==
  Live(mPending) =>
    /\ mPending.kind = "off" =>
         /\ mPending.brightness = 0 /\ mPending.warmth = 0
         /\ mSetupComplete => ~mDisplayOn \/ mWakeRestorePending \/ ~mEnabled
    /\ mPending.kind # "off" =>
         /\ mStateLoaded /\ mSetupComplete
         /\ mDisplayOn /\ ~mWakeRestorePending /\ mEnabled
         /\ mPending.brightness = mDesiredBrightness /\ mPending.warmth = mDesiredWarmth
         /\ mPending.kind = "restore" => mOffCompleted

\* A request waits for a drain that is scheduled, and a drain that is scheduled is
\* in the inbox or underway.
DrainInv ==
  /\ Live(mPending) => mDrainScheduled
  /\ mDrainScheduled => calling # None \/ Has(inbox, "drain")
  /\ calling # None => mPending = None /\ mDrainScheduled

Dark == \A c \in Channels : board.endpoints[c] = "writable" => lights[c] = DarkCode(c)

\* An off that was answered, or whose answer is awaited, has darkened the board.
DarkInv ==
  ~Unavailable =>
    /\ mOffCompleted /\ ~mDisplayOn => Dark
    /\ Live(calling) /\ calling.kind = "off" =>
         /\ calling.result = "off" /\ Dark
         /\ mSetupComplete => ~mDisplayOn \/ mWakeRestorePending \/ ~mEnabled

\* What will set the lights again: a gesture of the latest generation on its way
\* to the handler, a request that is pending, an off whose answer is awaited.
Coming ==
  \/ Live(posting)
  \/ GestureIn(inbox)
  \/ Live(mPending)
  \/ Live(calling) /\ calling.kind = "off"

\* Unless something is coming the lights are right, no restore is owed, and the
\* off of a dark screen was confirmed.
MatchInv ==
  mStateLoaded /\ mSetupComplete /\ ~Unavailable /\ ~Coming =>
    Fitting /\ ~mWakeRestorePending /\ (mDisplayOn \/ mOffCompleted)

LightInv ==
  /\ LoadInv /\ PendingInv /\ DrainInv /\ DarkInv /\ MatchInv
  /\ mWakeRestorePending => mDisplayOn /\ mSetupComplete

\* Until the controllers are written, the lights are as dark and as wanted as before.
LEMMA LightsStay ==
  ASSUME UNCHANGED <<board, lights, failure_latched>>
  PROVE  /\ Dark' <=> Dark
         /\ Unavailable' <=> Unavailable
         /\ UNCHANGED <<mDisplayOn, mEnabled, mDesiredBrightness, mDesiredWarmth>>
              => (Fitting' <=> Fitting)
         /\ Dark /\ ~(mDisplayOn' /\ mEnabled') => Fitting'
<1>1. Dark' <=> Dark
  BY Zenon DEF Dark, DarkCode, Code
<1>2. Unavailable' <=> Unavailable
  BY DEF Unavailable, PreflightSucceeds
<1>3. UNCHANGED <<mDisplayOn, mEnabled, mDesiredBrightness, mDesiredWarmth>> => (Fitting' <=> Fitting)
  <2> SUFFICES ASSUME UNCHANGED <<mDisplayOn, mEnabled, mDesiredBrightness, mDesiredWarmth>>
               PROVE  Fitting' <=> Fitting
    OBVIOUS
  <2>1. \A c \in Channels : DarkCode(c)' = DarkCode(c)
    BY Zenon DEF DarkCode, Code
  <2>2. \A c \in Channels : Code(mDesiredBrightness, mDesiredWarmth, c)' = Code(mDesiredBrightness, mDesiredWarmth, c)
    BY Zenon DEF Code
  <2> QED
    BY <2>1, <2>2 DEF Fitting, Wanted
<1>4. Dark /\ ~(mDisplayOn' /\ mEnabled') => Fitting'
  BY Zenon DEF Dark, Fitting, Wanted, DarkCode, Code
<1> QED
  BY <1>1, <1>2, <1>3, <1>4

\* All the writes of a request make the lights dark, or as wanted.
LEMMA AllWritten ==
  ASSUME UNCHANGED board, DOMAIN lights = Channels, NEW b, NEW w, lights' = Written(4, b, w)
  PROVE  /\ b = 0 /\ w = 0 => Dark'
         /\ mDisplayOn' /\ mEnabled' /\ b = mDesiredBrightness' /\ w = mDesiredWarmth' => Fitting'
<1>1. \A c \in Channels : board.endpoints[c] = "writable" => lights'[c] = Code(b, w, c)
  BY WhatIsWritten
<1>2. b = 0 /\ w = 0 => Dark'
  BY <1>1, Zenon DEF Dark, DarkCode, Code
<1>3. mDisplayOn' /\ mEnabled' /\ b = mDesiredBrightness' /\ w = mDesiredWarmth' => Fitting'
  BY <1>1, Zenon DEF Fitting, Wanted, Code
<1> QED
  BY <1>2, <1>3

\* A binder thread that stamps a request makes all that is underway stale, and its own
\* request is what is coming.
LEMMA SubmitBeginKeeps ==
  ASSUME TypeOK, LightInv, SubmitBegin PROVE LightInv'
<1>1. inbox \in Seq(Messages) /\ mPending \in Requests \cup {None} /\ calling \in Calls \cup {None}
  BY DEF TypeOK, QueueOK
<1>2. /\ inbox' = Superseded(inbox) /\ mPending' = Stale(mPending) /\ calling' = Stale(calling)
      /\ UNCHANGED <<mStateLoaded, mSetupComplete, mDisplayOn, mWakeRestorePending, mOffCompleted,
                     mDrainScheduled, board, lights, failure_latched>>
  BY DEF SubmitBegin, bootVars, screenVars, deviceVars
<1>3. /\ ~Live(mPending') /\ (mPending' = None <=> mPending = None)
      /\ ~Live(calling') /\ (calling' = None <=> calling = None)
  BY <1>1, <1>2, StaleRequest, StaleCall
<1>4. Live(posting')
  <2>1. PICK what \in Gestures, b \in Brightnesses, w \in Warmths :
          posting' = [Message(what) EXCEPT !.brightness = b, !.warmth = w]
    BY DEF SubmitBegin, Gestures
  <2>2. posting' = [what |-> what, current |-> TRUE, brightness |-> b, warmth |-> w]
    BY <2>1 DEF Message
  <2>3. posting' \in Messages
    BY <2>2, FrontLightAssumption DEF Messages
  <2> QED
    BY <2>2, <2>3, NoneAssumption DEF Live
<1>5. LoadInv'
  BY <1>1, <1>2, <1>3, SupersededInbox DEF LightInv, LoadInv
<1>6. PendingInv'
  BY <1>3 DEF PendingInv
<1>7. DrainInv'
  BY <1>1, <1>2, <1>3, SupersededInbox DEF LightInv, DrainInv
<1>8. DarkInv'
  BY <1>2, <1>3, LightsStay DEF LightInv, DarkInv
<1>9. MatchInv'
  BY <1>4 DEF MatchInv, Coming
<1> QED
  BY <1>2, <1>5, <1>6, <1>7, <1>8, <1>9 DEF LightInv

\* The request a thread posts is coming as before.
LEMMA SubmitPostKeeps ==
  ASSUME TypeOK, LightInv, SubmitPost PROVE LightInv'
<1>1. inbox \in Seq(Messages) /\ posting \in Messages /\ posting.what \in Gestures
  BY DEF TypeOK, QueueOK, SubmitPost
<1>2. /\ inbox' = Append(inbox, posting) /\ posting' = None
      /\ UNCHANGED <<mStateLoaded, mSetupComplete, mDisplayOn, mWakeRestorePending, mOffCompleted,
                     mEnabled, mDesiredBrightness, mDesiredWarmth,
                     mPending, calling, mDrainScheduled, board, lights, failure_latched>>
  BY DEF SubmitPost, bootVars, screenVars, desiredVars, deviceVars
<1>3. posting.what # "load"
  BY <1>1 DEF Gestures
<1>4. LoadInv'
  <2>1. ~Has(inbox, "load") => ~Has(inbox', "load")
    BY <1>1, <1>2, <1>3, Appended
  <2>2. inbox # <<>> => /\ inbox' # <<>> /\ Head(inbox') = Head(inbox)
                        /\ ~Has(Tail(inbox), "load") => ~Has(Tail(inbox'), "load")
    BY <1>1, <1>2, <1>3, Appended, HeadAndTail
  <2> QED
    BY <1>2, <2>1, <2>2 DEF LightInv, LoadInv
<1>5. PendingInv'
  BY <1>2 DEF LightInv, PendingInv
<1>6. DrainInv'
  <2>1. Has(inbox, "drain") => Has(inbox', "drain")
    BY <1>1, <1>2, Appended
  <2> QED
    BY <1>2, <2>1 DEF LightInv, DrainInv
<1>7. DarkInv'
  BY <1>2, LightsStay DEF LightInv, DarkInv
<1>8. MatchInv'
  <2>1. Coming => Coming'
    <3>1. GestureIn(inbox') <=> GestureIn(inbox) \/ posting.current
      BY <1>1, <1>2, Appended
    <3> QED
      BY <1>2, <3>1 DEF Coming, Live
  <2> QED
    BY <1>2, <2>1, LightsStay DEF LightInv, MatchInv
<1> QED
  BY <1>2, <1>4, <1>5, <1>6, <1>7, <1>8 DEF LightInv

\* A message about the display or the setup says nothing about the lights yet.
LEMMA OutsideKeeps ==
  ASSUME TypeOK, LightInv, DisplayTurnsOff \/ DisplayTurnsOn \/ SetupCompletes PROVE LightInv'
<1>1. PICK what \in {"display", "setup"} : inbox' = Append(inbox, Message(what))
  BY DEF DisplayTurnsOff, DisplayTurnsOn, SetupCompletes
<1>2. UNCHANGED <<mStateLoaded, mSetupComplete, mDisplayOn, mWakeRestorePending, mOffCompleted,
                  mEnabled, mDesiredBrightness, mDesiredWarmth, posting,
                  mPending, calling, mDrainScheduled, board, lights, failure_latched>>
  BY DEF DisplayTurnsOff, DisplayTurnsOn, SetupCompletes, OutsideRest, bootVars, screenVars,
         desiredVars, binderVars, deviceVars
<1>3. /\ inbox \in Seq(Messages)
      /\ Message(what) \in Messages /\ Message(what).what = what
      /\ what \notin Gestures /\ what # "load"
  BY KnownMessages DEF TypeOK, QueueOK
<1>4. LoadInv'
  <2>1. ~Has(inbox, "load") => ~Has(inbox', "load")
    BY <1>1, <1>3, Appended
  <2>2. inbox # <<>> => /\ inbox' # <<>> /\ Head(inbox') = Head(inbox)
                        /\ ~Has(Tail(inbox), "load") => ~Has(Tail(inbox'), "load")
    BY <1>1, <1>3, Appended, HeadAndTail
  <2> QED
    BY <1>2, <2>1, <2>2 DEF LightInv, LoadInv
<1>5. PendingInv'
  BY <1>2 DEF LightInv, PendingInv
<1>6. DrainInv'
  <2>1. Has(inbox, "drain") => Has(inbox', "drain")
    BY <1>1, <1>3, Appended
  <2> QED
    BY <1>2, <2>1 DEF LightInv, DrainInv
<1>7. DarkInv'
  BY <1>2, LightsStay DEF LightInv, DarkInv
<1>8. MatchInv'
  <2>1. Coming => Coming'
    <3>1. GestureIn(inbox') <=> GestureIn(inbox)
      BY <1>1, <1>3, Appended
    <3> QED
      BY <1>2, <3>1 DEF Coming
  <2> QED
    BY <1>2, <2>1, LightsStay DEF LightInv, MatchInv
<1> QED
  BY <1>2, <1>4, <1>5, <1>6, <1>7, <1>8 DEF LightInv

\* A fresh inbox holds the load and nothing else.
LEMMA OnlyLoad ==
  /\ <<Message("load")>> # <<>> /\ Head(<<Message("load")>>).what = "load"
  /\ ~Has(Tail(<<Message("load")>>), "load")
<1>1. Tail(<<Message("load")>>) = <<>>
  OBVIOUS
<1> QED
  BY <1>1, KnownMessages DEF Has

\* A restart forgets all but the settings and the lights.
LEMMA RestartKeeps ==
  ASSUME Restart PROVE LightInv'
<1>1. /\ inbox' = <<Message("load")>> /\ mPending' = None /\ calling' = None
      /\ ~mStateLoaded' /\ ~mSetupComplete' /\ ~mOffCompleted' /\ ~mWakeRestorePending'
      /\ ~mDrainScheduled'
  BY DEF Restart
<1>2. LoadInv'
  BY <1>1, OnlyLoad DEF LoadInv
<1>3. PendingInv' /\ DrainInv' /\ DarkInv' /\ MatchInv'
  BY <1>1 DEF PendingInv, DrainInv, DarkInv, MatchInv, Live
<1> QED
  BY <1>1, <1>2, <1>3 DEF LightInv

\* The service starts with nothing loaded.
LEMMA LightInvInitially == Init => LightInv
<1> SUFFICES ASSUME Init PROVE LightInv
  OBVIOUS
<1>1. /\ inbox = <<Message("load")>> /\ mPending = None /\ calling = None
      /\ ~mStateLoaded /\ ~mSetupComplete /\ ~mOffCompleted /\ ~mWakeRestorePending
      /\ ~mDrainScheduled
  BY DEF Init
<1>2. LoadInv
  BY <1>1, OnlyLoad DEF LoadInv
<1>3. PendingInv /\ DrainInv /\ DarkInv /\ MatchInv
  BY <1>1 DEF PendingInv, DrainInv, DarkInv, MatchInv, Live
<1> QED
  BY <1>1, <1>2, <1>3 DEF LightInv

\* What the handler knows of the message it takes.
LEMMA MessageTaken ==
  ASSUME TypeOK, LightInv, NEW what, Handling(what)
  PROVE  /\ calling = None /\ inbox # <<>> /\ Head(inbox).what = what /\ Head(inbox) \in Messages
         /\ Tail(inbox) \in Seq(Messages)
         /\ mStateLoaded <=> what # "load"
         /\ ~Has(Tail(inbox), "load")
         /\ what # "drain" /\ mDrainScheduled => Has(Tail(inbox), "drain")
         /\ GestureIn(inbox) <=> (what \in Gestures /\ Head(inbox).current) \/ GestureIn(Tail(inbox))
<1>1. inbox \in Seq(Messages) /\ inbox # <<>> /\ calling = None /\ Head(inbox).what = what
  BY DEF Handling, TypeOK, QueueOK
<1>2. /\ Head(inbox) \in Messages /\ Tail(inbox) \in Seq(Messages)
      /\ \A w : Has(inbox, w) <=> what = w \/ Has(Tail(inbox), w)
      /\ GestureIn(inbox) <=> (what \in Gestures /\ Head(inbox).current) \/ GestureIn(Tail(inbox))
  BY <1>1, HeadAndTail
<1>3. (mStateLoaded <=> what # "load") /\ ~Has(Tail(inbox), "load")
  BY <1>1, <1>2 DEF LightInv, LoadInv
<1>4. what # "drain" /\ mDrainScheduled => Has(Tail(inbox), "drain")
  BY <1>1, <1>2 DEF LightInv, DrainInv
<1> QED
  BY <1>1, <1>2, <1>3, <1>4

\* A message that asks for nothing, or a gesture that came too late.
LEMMA IgnoredKeeps ==
  ASSUME TypeOK, LightInv, NEW what, Handling(what), what \notin {"load", "drain"},
         what \in Gestures => ~Head(inbox).current, inbox' = Tail(inbox),
         UNCHANGED <<mStateLoaded, mSetupComplete, mDisplayOn, mWakeRestorePending, mOffCompleted,
                     mEnabled, mDesiredBrightness, mDesiredWarmth, posting,
                     mPending, calling, mDrainScheduled, board, lights, failure_latched>>
  PROVE  LightInv'
<1>1. /\ calling = None /\ mStateLoaded /\ ~Has(Tail(inbox), "load")
      /\ mDrainScheduled => Has(Tail(inbox), "drain")
      /\ GestureIn(inbox') <=> GestureIn(inbox)
  BY MessageTaken
<1>2. LoadInv'
  BY <1>1 DEF LoadInv
<1>3. PendingInv'
  BY DEF LightInv, PendingInv
<1>4. DrainInv'
  BY <1>1 DEF LightInv, DrainInv
<1>5. DarkInv'
  BY LightsStay DEF LightInv, DarkInv
<1>6. MatchInv'
  <2>1. Coming' <=> Coming
    BY <1>1 DEF Coming
  <2> QED
    BY <2>1, LightsStay DEF LightInv, MatchInv
<1> QED
  BY <1>2, <1>3, <1>4, <1>5, <1>6 DEF LightInv

\* What is desired is queued, or darkness, or nothing before the setup is complete and
\* after the off of a dark screen was confirmed.
LEMMA QueueingKeeps ==
  ASSUME TypeOK, LightInv, calling = None, NEW rest \in Seq(Messages), ~Has(rest, "load"),
         mDrainScheduled => Has(rest, "drain"), DesiredOK', mEnabled' \in BOOLEAN,
         NEW kind \in {"user", "initialization"}, QueueDesiredOrOff(kind, rest),
         mStateLoaded', mSetupComplete => mSetupComplete',
         mWakeRestorePending => mDisplayOn', mOffCompleted => mDisplayOn' = mDisplayOn,
         UNCHANGED <<mWakeRestorePending, mOffCompleted, calling, board, lights, failure_latched>>
  PROVE  LightInv'
<1>1. kind \in Kinds /\ kind # "off" /\ kind # "restore"
  BY DEF Kinds
<1>2. /\ Passed(rest) /\ mPending' \in Requests \cup {None}
      /\ \/ /\ ~mStateLoaded' \/ ~mSetupComplete'
            /\ mPending' = mPending /\ mDrainScheduled' = mDrainScheduled
         \/ mStateLoaded' /\ mSetupComplete' /\ ~mDisplayOn' /\ mOffCompleted /\ mPending' = None
         \/ /\ mStateLoaded' /\ mSetupComplete' /\ ~(~mDisplayOn' /\ mOffCompleted)
            /\ ~mDisplayOn' \/ mWakeRestorePending \/ ~mEnabled'
            /\ mPending' = OffRequest /\ mDrainScheduled'
         \/ /\ mStateLoaded' /\ mSetupComplete'
            /\ mDisplayOn' /\ ~mWakeRestorePending /\ mEnabled'
            /\ mPending' = UserRequest(kind) /\ mDrainScheduled'
  BY <1>1, Queueing DEF TypeOK, FlagsOK, QueueOK
<1>3. LoadInv'
  BY <1>2 DEF LoadInv, Passed
<1>4. DarkInv'
  BY LightsStay DEF LightInv, DarkInv, Live
<1>5. mDrainScheduled' => Has(inbox', "drain")
  BY <1>2 DEF Passed
<1>6. mWakeRestorePending' => mDisplayOn' /\ mSetupComplete'
  BY DEF LightInv
<1>7. PendingInv' /\ DrainInv' /\ MatchInv'
  <2>1. CASE ~mSetupComplete' /\ mPending' = mPending /\ mDrainScheduled' = mDrainScheduled
    BY <1>5, <2>1 DEF LightInv, PendingInv, DrainInv, MatchInv
  <2>2. CASE mSetupComplete' /\ ~mDisplayOn' /\ mOffCompleted /\ mPending' = None
    <3>1. PendingInv' /\ DrainInv'
      BY <1>5, <2>2 DEF PendingInv, DrainInv, Live
    <3>2. ~Unavailable' => Fitting'
      BY <2>2, LightsStay DEF LightInv, DarkInv
    <3>3. ~mWakeRestorePending' /\ mOffCompleted'
      BY <1>6, <2>2
    <3> QED
      BY <3>1, <3>2, <3>3 DEF MatchInv
  <2>3. CASE /\ ~mDisplayOn' \/ mWakeRestorePending \/ ~mEnabled'
             /\ mPending' = OffRequest /\ mDrainScheduled'
    <3>1. Live(mPending')
      BY <2>3, OffRequestIs, NoneAssumption DEF Live
    <3>2. PendingInv'
      BY <2>3, OffRequestIs DEF PendingInv
    <3> QED
      BY <1>5, <2>3, <3>1, <3>2 DEF DrainInv, MatchInv, Coming
  <2>4. CASE /\ mSetupComplete' /\ mDisplayOn' /\ ~mWakeRestorePending /\ mEnabled'
             /\ mPending' = UserRequest(kind) /\ mDrainScheduled'
    <3>1. Live(mPending')
      BY <1>1, <2>4, UserRequestIs, NoneAssumption DEF Live
    <3>2. PendingInv'
      BY <1>1, <2>4, UserRequestIs DEF PendingInv
    <3> QED
      BY <1>5, <2>4, <3>1, <3>2 DEF DrainInv, MatchInv, Coming
  <2> QED
    BY <1>2, <2>1, <2>2, <2>3, <2>4
<1> QED
  BY <1>3, <1>4, <1>6, <1>7 DEF LightInv

\* A gesture of the latest generation is queued; another is ignored.
LEMMA HandleGestureKeeps ==
  ASSUME TypeOK, TypeOK', LightInv, HandleGesture PROVE LightInv'
<1>1. PICK what \in Gestures : Handling(what)
  BY DEF HandleGesture
<1>2. what \notin {"load", "drain"}
  BY DEF Gestures
<1>3. UNCHANGED <<posting, calling, board, lights, failure_latched>>
  BY DEF HandleGesture, HandlerRest, deviceVars
<1>4. CASE Head(inbox).current
  <2>1. QueueDesiredOrOff("user", Tail(inbox)) /\ UNCHANGED <<screenVars, bootVars>>
    BY <1>4 DEF HandleGesture
  <2>2. /\ calling = None /\ Tail(inbox) \in Seq(Messages) /\ ~Has(Tail(inbox), "load")
        /\ mDrainScheduled => Has(Tail(inbox), "drain")
        /\ mStateLoaded
    BY <1>1, <1>2, MessageTaken
  <2>3. DesiredOK' /\ mEnabled' \in BOOLEAN
    BY DEF TypeOK, FlagsOK
  <2>4. mWakeRestorePending => mDisplayOn
    BY DEF LightInv
  <2> QED
    BY <1>3, <2>1, <2>2, <2>3, <2>4, QueueingKeeps DEF screenVars, bootVars
<1>5. CASE ~Head(inbox).current
  <2>1. inbox' = Tail(inbox) /\ UNCHANGED <<desiredVars, screenVars, bootVars, mPending, mDrainScheduled>>
    BY <1>5 DEF HandleGesture
  <2> QED
    BY <1>1, <1>2, <1>3, <1>5, <2>1, IgnoredKeeps DEF desiredVars, screenVars, bootVars
<1> QED
  BY <1>4, <1>5

\* The first initialisation supersedes what is underway and queues what is desired.
LEMMA SetupQueuesKeeps ==
  ASSUME TypeOK, TypeOK', LightInv, SetupStateChanged(Tail(inbox)), setup_complete, ~mSetupComplete,
         NEW what \in {"load", "setup"}, Handling(what), mStateLoaded',
         mOffCompleted => mDisplayOn' = mDisplayOn,
         UNCHANGED <<mWakeRestorePending, mOffCompleted, board, lights, failure_latched>>
  PROVE  LightInv'
<1>1. /\ calling = None /\ Tail(inbox) \in Seq(Messages) /\ ~Has(Tail(inbox), "load")
      /\ mDrainScheduled => Has(Tail(inbox), "drain")
  BY MessageTaken
<1>2. /\ Superseded(Tail(inbox)) \in Seq(Messages) /\ ~Has(Superseded(Tail(inbox)), "load")
      /\ mDrainScheduled => Has(Superseded(Tail(inbox)), "drain")
  BY <1>1, SupersededInbox
<1>3. /\ mSetupComplete' /\ UNCHANGED calling
      /\ QueueDesiredOrOff("initialization", Superseded(Tail(inbox)))
  BY DEF SetupStateChanged
<1>4. DesiredOK' /\ mEnabled' \in BOOLEAN /\ ~mWakeRestorePending
  BY DEF TypeOK, FlagsOK, LightInv
<1> QED
  BY <1>1, <1>2, <1>3, <1>4, QueueingKeeps

\* The state is loaded before anything was requested.
LEMMA LoadStateKeeps ==
  ASSUME TypeOK, TypeOK', LightInv, LoadState PROVE LightInv'
<1>1. Handling("load") /\ mStateLoaded' /\ SetupStateChanged(Tail(inbox))
  BY DEF LoadState
<1>2. /\ calling = None /\ ~mStateLoaded /\ ~Has(Tail(inbox), "load")
      /\ mDrainScheduled => Has(Tail(inbox), "drain")
  BY <1>1, MessageTaken
<1>3. mPending = None /\ ~mSetupComplete /\ ~mOffCompleted /\ ~mWakeRestorePending
  BY <1>2 DEF LightInv, LoadInv
<1>4. UNCHANGED <<mWakeRestorePending, mOffCompleted, board, lights, failure_latched>>
  BY DEF LoadState, HandlerRest, deviceVars
<1>5. CASE setup_complete
  BY <1>1, <1>3, <1>4, <1>5, SetupQueuesKeeps
<1>6. CASE ~setup_complete
  <2>1. /\ inbox' = Tail(inbox) /\ mDrainScheduled' = mDrainScheduled
        /\ ~mSetupComplete' /\ mPending' = None /\ calling' = None
    BY <1>1, <1>2, <1>3, <1>6 DEF SetupStateChanged, NothingQueued
  <2>2. LoadInv' /\ DrainInv'
    BY <1>1, <1>2, <2>1 DEF LoadInv, DrainInv, Live
  <2>3. PendingInv' /\ DarkInv' /\ MatchInv'
    BY <1>3, <1>4, <2>1 DEF PendingInv, DarkInv, MatchInv, Live
  <2> QED
    BY <1>3, <1>4, <2>2, <2>3 DEF LightInv
<1> QED
  BY <1>5, <1>6

\* The setup is handled once the state is loaded.
LEMMA HandleSetupKeeps ==
  ASSUME TypeOK, TypeOK', LightInv, HandleSetup PROVE LightInv'
<1>1. Handling("setup")
  BY DEF HandleSetup
<1>2. mStateLoaded /\ mStateLoaded'
  BY <1>1, MessageTaken DEF HandleSetup
<1>3. SetupStateChanged(Tail(inbox)) /\ UNCHANGED <<desiredVars, screenVars, board, lights, failure_latched>>
  BY <1>2 DEF HandleSetup, HandlerRest, deviceVars
<1>4. CASE setup_complete /\ ~mSetupComplete
  BY <1>1, <1>2, <1>3, <1>4, SetupQueuesKeeps DEF screenVars
<1>5. CASE ~(setup_complete /\ ~mSetupComplete)
  <2>1. inbox' = Tail(inbox) /\ UNCHANGED <<mSetupComplete, mPending, mDrainScheduled, posting, calling>>
    BY <1>3, <1>5 DEF SetupStateChanged, NothingQueued
  <2>2. "setup" \notin Gestures
    BY DEF Gestures
  <2> QED
    BY <1>1, <1>2, <1>3, <2>1, <2>2, IgnoredKeeps DEF desiredVars, screenVars
<1> QED
  BY <1>4, <1>5

\* What the handler queues for a generation of its own is what is coming.
LEMMA NewGenerationKeeps ==
  ASSUME TypeOK, LightInv, Handling("display"), NewGeneration(Tail(inbox)),
         mStateLoaded', Live(mPending'), PendingInv', DarkInv',
         mWakeRestorePending' => mDisplayOn' /\ mSetupComplete'
  PROVE  LightInv'
<1>1. /\ calling = None /\ Tail(inbox) \in Seq(Messages) /\ ~Has(Tail(inbox), "load")
      /\ mDrainScheduled => Has(Tail(inbox), "drain")
  BY MessageTaken
<1>2. /\ Superseded(Tail(inbox)) \in Seq(Messages) /\ ~Has(Superseded(Tail(inbox)), "load")
      /\ mDrainScheduled => Has(Superseded(Tail(inbox)), "drain")
  BY <1>1, SupersededInbox
<1>3. Passed(Superseded(Tail(inbox))) /\ mDrainScheduled' /\ calling' = None
  BY <1>1, <1>2, PostDrainPasses DEF NewGeneration, TypeOK, FlagsOK
<1>4. LoadInv' /\ DrainInv'
  BY <1>2, <1>3 DEF LoadInv, DrainInv, Passed
<1>5. MatchInv'
  BY DEF MatchInv, Coming
<1> QED
  BY <1>4, <1>5 DEF LightInv

\* The display goes off: darkness is queued.  It goes on: the restore is queued if the
\* off was confirmed, and is owed otherwise, with the off still coming.
LEMMA HandleDisplayKeeps ==
  ASSUME TypeOK, TypeOK', LightInv, HandleDisplay PROVE LightInv'
<1>1. Handling("display") /\ "display" \notin Gestures
  BY DEF HandleDisplay, Gestures
<1>2. /\ calling = None /\ mStateLoaded /\ Tail(inbox) \in Seq(Messages) /\ ~Has(Tail(inbox), "load")
      /\ mDrainScheduled => Has(Tail(inbox), "drain")
      /\ GestureIn(inbox) <=> GestureIn(Tail(inbox))
  BY <1>1, MessageTaken
<1>3. UNCHANGED <<mStateLoaded, mSetupComplete, mEnabled, mDesiredBrightness, mDesiredWarmth,
                  board, lights, failure_latched>>
  BY DEF HandleDisplay, HandlerRest, desiredVars, bootVars, deviceVars
<1>4. CASE ~mStateLoaded \/ mDisplayOn = (display = "on")
  <2>1. inbox' = Tail(inbox) /\ UNCHANGED <<screenVars, mPending, mDrainScheduled, posting, calling>>
    BY <1>4 DEF HandleDisplay
  <2> QED
    BY <1>1, <1>3, <2>1, IgnoredKeeps DEF screenVars
<1>5. CASE ~(~mStateLoaded \/ mDisplayOn = (display = "on")) /\ mDisplayOn
  <2>1. /\ ~mDisplayOn' /\ ~mWakeRestorePending' /\ ~mOffCompleted'
        /\ mPending' = OffRequest /\ NewGeneration(Tail(inbox))
    BY <1>5 DEF HandleDisplay
  <2>2. Live(mPending') /\ PendingInv'
    BY <2>1, OffRequestIs, NoneAssumption DEF Live, PendingInv
  <2>3. calling' = None
    BY <1>2, <2>1 DEF NewGeneration
  <2>4. DarkInv'
    BY <2>1, <2>3 DEF DarkInv, Live
  <2> QED
    BY <1>1, <1>2, <1>3, <2>1, <2>2, <2>4, NewGenerationKeeps
<1>6. CASE ~(~mStateLoaded \/ mDisplayOn = (display = "on")) /\ ~mDisplayOn
  <2>1. mDisplayOn' /\ UNCHANGED mOffCompleted /\ ~mWakeRestorePending
    BY <1>6 DEF HandleDisplay, LightInv
  <2>2. CASE mSetupComplete /\ mOffCompleted
    <3>1. /\ ~mWakeRestorePending' /\ mPending' = RestoreRequest /\ NewGeneration(Tail(inbox))
      BY <1>6, <2>2 DEF HandleDisplay, RestoreNow
    <3>2. DesiredOK' /\ "restore" \in Kinds /\ "restore" # "off"
      BY DEF TypeOK, Kinds
    <3>3. Live(mPending') /\ PendingInv'
      <4>1. CASE mEnabled
        <5>1. mPending' = UserRequest("restore")
          BY <3>1, <4>1 DEF RestoreRequest
        <5> QED
          BY <1>2, <1>3, <2>1, <2>2, <3>1, <3>2, <4>1, <5>1, UserRequestIs, NoneAssumption DEF Live, PendingInv
      <4>2. CASE ~mEnabled
        <5>1. mPending' = OffRequest
          BY <3>1, <4>2 DEF RestoreRequest
        <5> QED
          BY <1>3, <4>2, <5>1, OffRequestIs, NoneAssumption DEF Live, PendingInv
      <4> QED
        BY <4>1, <4>2
    <3>4. calling' = None
      BY <1>2, <3>1 DEF NewGeneration
    <3>5. DarkInv'
      BY <2>1, <3>4 DEF DarkInv, Live
    <3> QED
      BY <1>1, <1>2, <1>3, <3>1, <3>3, <3>5, NewGenerationKeeps
  <2>3. CASE ~(mSetupComplete /\ mOffCompleted)
    <3>1. /\ mWakeRestorePending' = (mSetupComplete \/ mWakeRestorePending)
          /\ inbox' = Tail(inbox)
          /\ UNCHANGED <<mPending, mDrainScheduled, posting, calling>>
      BY <1>6, <2>3 DEF HandleDisplay, RestoreNow
    <3>2. LoadInv' /\ DrainInv'
      BY <1>2, <1>3, <3>1 DEF LightInv, LoadInv, DrainInv
    <3>3. mWakeRestorePending' => mDisplayOn' /\ mSetupComplete'
      BY <1>3, <2>1, <3>1 DEF LightInv
    <3>4. PendingInv'
      BY <1>3, <1>6, <3>1 DEF LightInv, PendingInv
    <3>5. DarkInv'
      BY <1>2, <2>1, <3>1 DEF DarkInv, Live
    <3>6. MatchInv'
      <4>1. SUFFICES ASSUME mSetupComplete, ~Unavailable PROVE Coming'
        BY <1>3, LightsStay DEF MatchInv
      <4>2. Coming
        BY <1>2, <1>6, <2>3, <4>1 DEF LightInv, MatchInv
      <4> QED
        BY <1>2, <3>1, <4>2 DEF Coming
    <3> QED
      BY <3>2, <3>3, <3>4, <3>5, <3>6 DEF LightInv
  <2> QED
    BY <2>2, <2>3
<1> QED
  BY <1>4, <1>5, <1>6

\* What a request that nothing has superseded writes.
LEMMA Writes ==
  ASSUME TypeOK, LightInv, Drains, NEW n \in 0..4, NEW c \in Channels,
         Written(n, mPending.brightness, mPending.warmth)[c] # lights[c],
         Written(n, mPending.brightness, mPending.warmth)[c] # DarkCode(c)
  PROVE  /\ mDisplayOn /\ ~mWakeRestorePending
         /\ mPending.kind = "restore" => mOffCompleted
<1>1. Live(mPending)
  BY DEF Drains, Live
<1>2. DOMAIN lights = Channels
  BY DEF TypeOK
<1>3. Written(n, mPending.brightness, mPending.warmth)[c] = Code(mPending.brightness, mPending.warmth, c)
  BY <1>2, WhatIsWritten
<1>4. mPending.kind # "off"
  BY <1>1, <1>3 DEF LightInv, PendingInv, DarkCode
<1> QED
  BY <1>1, <1>4 DEF LightInv, PendingInv

\* A request that nothing has superseded is written, all of it or with a failure that
\* is latched.
LEMMA DrainCallsKeeps ==
  ASSUME TypeOK, TypeOK', LightInv, NEW result \in Results, DrainCalls(result) PROVE LightInv'
<1>1. Handling("drain") /\ Live(mPending) /\ mPending \in Requests
  BY DEF DrainCalls, Drains, Live, TypeOK, QueueOK
<1>2. /\ calling = None /\ mStateLoaded /\ ~Has(Tail(inbox), "load")
      /\ GestureIn(inbox) <=> GestureIn(Tail(inbox))
  BY <1>1, MessageTaken, KnownMessages
<1>3. /\ Apply(mPending.brightness, mPending.warmth, result)
      /\ mPending' = None /\ inbox' = Tail(inbox)
      /\ UNCHANGED <<mStateLoaded, mSetupComplete, mDisplayOn, mWakeRestorePending, mOffCompleted,
                     mEnabled, mDesiredBrightness, mDesiredWarmth, posting, mDrainScheduled, board>>
  BY DEF DrainCalls, bootVars, screenVars, desiredVars, binderVars
<1>4. /\ calling' # None /\ calling'.current
      /\ calling'.kind = mPending.kind /\ calling'.result = result
  <2>1. calling' = [kind |-> mPending.kind, current |-> TRUE, result |-> result]
    BY DEF DrainCalls
  <2>2. calling' \in Calls
    BY <1>1, <2>1 DEF Calls, Requests
  <2> QED
    BY <2>1, <2>2, NoneAssumption
<1>5. mDrainScheduled
  BY <1>1 DEF LightInv, DrainInv
<1>6. LoadInv' /\ PendingInv' /\ DrainInv'
  BY <1>2, <1>3, <1>4, <1>5 DEF LoadInv, PendingInv, DrainInv, Live
<1>7. mWakeRestorePending' => mDisplayOn' /\ mSetupComplete'
  BY <1>3 DEF LightInv
<1>8. Unavailable' \/ /\ ~Unavailable /\ result = Outcome(mPending.brightness, mPending.warmth)
                      /\ lights' = Written(4, mPending.brightness, mPending.warmth)
  <2>1. PreflightSucceeds' <=> PreflightSucceeds
    BY <1>3 DEF PreflightSucceeds
  <2>2. Len(WriteOrder) = 4
    BY DEF WriteOrder
  <2> QED
    BY <1>3, <2>1, <2>2 DEF Apply, Unavailable
<1>9. CASE Unavailable'
  BY <1>6, <1>7, <1>9 DEF LightInv, DarkInv, MatchInv
<1>10. CASE /\ ~Unavailable /\ result = Outcome(mPending.brightness, mPending.warmth)
            /\ lights' = Written(4, mPending.brightness, mPending.warmth)
  <2>1. DOMAIN lights = Channels
    BY DEF TypeOK
  <2>2. CASE mPending.kind = "off"
    <3>1. /\ mPending.brightness = 0 /\ mPending.warmth = 0
          /\ mSetupComplete => ~mDisplayOn \/ mWakeRestorePending \/ ~mEnabled
      BY <1>1, <2>2 DEF LightInv, PendingInv
    <3>2. result = "off"
      BY <1>10, <3>1 DEF Outcome
    <3>3. Dark'
      BY <1>3, <1>10, <2>1, <3>1, AllWritten
    <3>4. DarkInv'
      BY <1>3, <1>4, <3>1, <3>2, <3>3 DEF DarkInv
    <3>5. MatchInv'
      BY <1>4, <2>2 DEF MatchInv, Coming, Live
    <3> QED
      BY <1>6, <1>7, <3>4, <3>5 DEF LightInv
  <2>3. CASE mPending.kind # "off"
    <3>1. /\ mDisplayOn /\ ~mWakeRestorePending /\ mEnabled
          /\ mPending.brightness = mDesiredBrightness /\ mPending.warmth = mDesiredWarmth
      BY <1>1, <2>3 DEF LightInv, PendingInv
    <3>2. Fitting'
      BY <1>3, <1>10, <2>1, <3>1, AllWritten
    <3>3. DarkInv'
      BY <1>3, <1>4, <2>3, <3>1 DEF DarkInv
    <3>4. MatchInv'
      BY <1>3, <3>1, <3>2 DEF MatchInv
    <3> QED
      BY <1>6, <1>7, <3>3, <3>4 DEF LightInv
  <2> QED
    BY <2>2, <2>3
<1> QED
  BY <1>8, <1>9, <1>10

\* A drain that finds nothing current.
LEMMA DrainSkipsKeeps ==
  ASSUME TypeOK, LightInv, DrainSkips PROVE LightInv'
<1>1. Handling("drain") /\ ~Live(mPending)
  BY DEF DrainSkips, Drains, Live
<1>2. /\ calling = None /\ mStateLoaded /\ ~Has(Tail(inbox), "load")
      /\ GestureIn(inbox) <=> GestureIn(Tail(inbox))
  BY <1>1, MessageTaken, KnownMessages
<1>3. /\ mPending' = None /\ inbox' = Tail(inbox) /\ ~mDrainScheduled'
      /\ UNCHANGED <<mStateLoaded, mSetupComplete, mDisplayOn, mWakeRestorePending, mOffCompleted,
                     mEnabled, mDesiredBrightness, mDesiredWarmth, posting, calling,
                     board, lights, failure_latched>>
  BY DEF DrainSkips, HandlerRest, desiredVars, screenVars, bootVars, deviceVars
<1>4. LoadInv' /\ PendingInv' /\ DrainInv'
  BY <1>2, <1>3 DEF LoadInv, PendingInv, DrainInv, Live
<1>5. DarkInv'
  BY <1>3, LightsStay DEF LightInv, DarkInv
<1>6. MatchInv'
  <2>1. Coming' <=> Coming
    BY <1>1, <1>2, <1>3 DEF Coming, Live
  <2> QED
    BY <1>3, <2>1, LightsStay DEF LightInv, MatchInv
<1> QED
  BY <1>3, <1>4, <1>5, <1>6 DEF LightInv

\* The answer of an off that is still current confirms it and makes way for the restore
\* that is owed; any other answer is forgotten.
LEMMA DrainReturnsKeeps ==
  ASSUME TypeOK, TypeOK', LightInv, DrainReturns PROVE LightInv'
<1>1. calling # None /\ mPending = None /\ mDrainScheduled /\ mStateLoaded /\ ~Has(inbox, "load")
  BY DEF DrainReturns, LightInv, DrainInv, LoadInv
<1>2. /\ calling' = None
      /\ UNCHANGED <<mStateLoaded, mSetupComplete, mDisplayOn, mEnabled, mDesiredBrightness,
                     mDesiredWarmth, board, lights, failure_latched>>
  BY DEF DrainReturns, HandlerRest, desiredVars, bootVars, deviceVars
<1>3. inbox \in Seq(Messages)
  BY DEF TypeOK, QueueOK
<1>4. CASE ConsumesOff
  <2>1. Live(calling) /\ calling.kind = "off"
    BY <1>1, <1>4 DEF ConsumesOff, Live
  <2>2. ~Unavailable => /\ calling.result = "off" /\ Dark
                        /\ mSetupComplete => ~mDisplayOn \/ mWakeRestorePending \/ ~mEnabled
    BY <2>1 DEF LightInv, DarkInv
  <2>3. ~mWakeRestorePending' /\ mOffCompleted' = (mOffCompleted \/ calling.result = "off")
    BY <1>4 DEF DrainReturns
  <2>4. DarkInv'
    <3>1. ~Unavailable => Dark'
      BY <1>2, <2>2, LightsStay
    <3> QED
      BY <1>2, <3>1, LightsStay DEF DarkInv, Live
  <2>5. CASE calling.result = "off" /\ mWakeRestorePending /\ mDisplayOn
    <3>1. mPending' = RestoreRequest /\ ContinueDrain(mPending', Superseded(inbox))
      BY <1>4, <2>5 DEF DrainReturns
    <3>2. DesiredOK' /\ "restore" \in Kinds /\ "restore" # "off"
      BY DEF TypeOK, Kinds
    <3>3. mSetupComplete /\ mOffCompleted'
      BY <2>3, <2>5 DEF LightInv
    <3>4. Live(mPending') /\ PendingInv'
      <4>1. CASE mEnabled
        <5>1. mPending' = UserRequest("restore")
          BY <3>1, <4>1 DEF RestoreRequest
        <5> QED
          BY <1>1, <1>2, <2>3, <2>5, <3>2, <3>3, <4>1, <5>1, UserRequestIs, NoneAssumption DEF Live, PendingInv
      <4>2. CASE ~mEnabled
        <5>1. mPending' = OffRequest
          BY <3>1, <4>2 DEF RestoreRequest
        <5> QED
          BY <1>2, <4>2, <5>1, OffRequestIs, NoneAssumption DEF Live, PendingInv
      <4> QED
        BY <4>1, <4>2
    <3>5. inbox' = Append(Superseded(inbox), Message("drain")) /\ mDrainScheduled'
      BY <1>1, <3>1, <3>4 DEF ContinueDrain, Live
    <3>6. /\ Superseded(inbox) \in Seq(Messages) /\ ~Has(Superseded(inbox), "load")
          /\ Message("drain") \in Messages /\ Message("drain").what = "drain"
      BY <1>1, <1>3, SupersededInbox, KnownMessages
    <3>7. Has(inbox', "drain") /\ ~Has(inbox', "load")
      BY <3>5, <3>6, Appended
    <3>8. LoadInv' /\ DrainInv' /\ MatchInv'
      BY <1>1, <1>2, <3>4, <3>5, <3>7 DEF LoadInv, DrainInv, MatchInv, Coming
    <3> QED
      BY <2>3, <2>4, <3>4, <3>8 DEF LightInv
  <2>6. CASE ~(calling.result = "off" /\ mWakeRestorePending /\ mDisplayOn)
    <3>1. mPending' = None /\ inbox' = inbox /\ ~mDrainScheduled'
      BY <1>1, <1>4, <2>6 DEF DrainReturns, ContinueDrain
    <3>2. LoadInv' /\ PendingInv' /\ DrainInv'
      BY <1>1, <1>2, <3>1 DEF LoadInv, PendingInv, DrainInv, Live
    <3>3. MatchInv'
      <4>1. SUFFICES ASSUME ~Unavailable, mSetupComplete PROVE Fitting' /\ mOffCompleted'
        BY <1>2, <2>3, LightsStay DEF MatchInv
      <4>2. calling.result = "off" /\ Dark /\ (~mDisplayOn \/ ~mEnabled)
        BY <2>2, <2>6, <4>1
      <4> QED
        BY <1>2, <2>3, <4>2, LightsStay
    <3> QED
      BY <2>3, <2>4, <3>2, <3>3 DEF LightInv
  <2> QED
    BY <2>5, <2>6
<1>5. CASE ~ConsumesOff
  <2>1. /\ UNCHANGED <<mWakeRestorePending, mOffCompleted, posting>>
        /\ mPending' = None /\ inbox' = inbox /\ ~mDrainScheduled'
    BY <1>1, <1>5 DEF DrainReturns, ContinueDrain
  <2>2. LoadInv' /\ PendingInv' /\ DrainInv'
    BY <1>1, <1>2, <2>1 DEF LoadInv, PendingInv, DrainInv, Live
  <2>3. DarkInv'
    BY <1>2, <2>1, LightsStay DEF LightInv, DarkInv, Live
  <2>4. MatchInv'
    <3>1. Coming' <=> Coming
      BY <1>1, <1>2, <1>5, <2>1 DEF Coming, Live, ConsumesOff
    <3> QED
      BY <1>2, <2>1, <3>1, LightsStay DEF LightInv, MatchInv
  <2> QED
    BY <1>2, <2>1, <2>2, <2>3, <2>4 DEF LightInv
<1> QED
  BY <1>4, <1>5

\* Every step keeps the invariant.
LEMMA LightInvKept == TypeOK /\ TypeOK' /\ LightInv /\ [Next]_vars => LightInv'
<1> SUFFICES ASSUME TypeOK, TypeOK', LightInv, [Next]_vars PROVE LightInv'
  OBVIOUS
<1>1. CASE SubmitBegin \/ SubmitPost
  BY <1>1, SubmitBeginKeeps, SubmitPostKeeps
<1>2. CASE HandleGesture \/ LoadState \/ HandleSetup \/ HandleDisplay
  BY <1>2, HandleGestureKeeps, LoadStateKeeps, HandleSetupKeeps, HandleDisplayKeeps
<1>3. CASE (\E result \in Results : DrainCalls(result)) \/ DrainSkips \/ DrainReturns
  BY <1>3, DrainCallsKeeps, DrainSkipsKeeps, DrainReturnsKeeps
<1>4. CASE Outside
  BY <1>4, OutsideKeeps, RestartKeeps DEF Outside
<1>5. CASE UNCHANGED vars
  <2>1. /\ UNCHANGED <<mStateLoaded, mSetupComplete, mDisplayOn, mWakeRestorePending, mOffCompleted>>
        /\ UNCHANGED <<mEnabled, mDesiredBrightness, mDesiredWarmth, board, lights, failure_latched>>
        /\ UNCHANGED <<inbox, posting, calling, mPending, mDrainScheduled>>
    BY <1>5 DEF vars, bootVars, screenVars, desiredVars, deviceVars, queueVars, binderVars
  <2>2. LoadInv' /\ PendingInv' /\ DrainInv' /\ (Coming' <=> Coming)
    BY <2>1 DEF LightInv, LoadInv, PendingInv, DrainInv, Coming
  <2>3. DarkInv' /\ MatchInv'
    BY <2>1, <2>2, LightsStay DEF LightInv, DarkInv, MatchInv
  <2> QED
    BY <2>1, <2>2, <2>3 DEF LightInv
<1> QED
  BY <1>1, <1>2, <1>3, <1>4, <1>5 DEF Next, Handler

\* The invariant holds throughout.
LEMMA LightInvAlways == Spec => [](TypeOK /\ LightInv)
<1>1. Init => TypeOK /\ LightInv
  BY LightTypesInitially, LightInvInitially
<1>2. TypeOK /\ LightInv /\ [Next]_vars => (TypeOK /\ LightInv)'
  BY LightTypesKept, LightInvKept
<1> QED
  BY <1>1, <1>2, PTL DEF Spec

\* Once nothing is underway the lights are what is desired, or dark with the display
\* off, whatever gestures, sleeps, failures and restarts came before, with any board and
\* any number of requests (the generations of Neo2FrontLightManagerService).
THEOREM LightsAreRight == Spec => []LightMatches
<1>1. TypeOK /\ LightInv => LightMatches
  <2> SUFFICES ASSUME LightInv, Quiet, ~Unavailable PROVE Fitting
    BY DEF LightMatches
  <2>1. ~Has(inbox, "drain") /\ ~GestureIn(inbox)
    BY DEF Quiet, Has, GestureIn
  <2>2. ~Live(mPending)
    BY <2>1 DEF LightInv, DrainInv, Quiet
  <2>3. ~Coming
    BY <2>1, <2>2 DEF Coming, Live, Quiet
  <2> QED
    BY <2>3 DEF LightInv, MatchInv, Quiet
<1> QED
  BY <1>1, LightInvAlways, PTL

\* No channel is lit before the display is on and the off of the sleep is confirmed,
\* not even by a write that fails or is cut short by a restart.
THEOREM NothingLitAsleep == Spec => LitOnlyAwake
<1> DEFINE Lit == \E c \in Channels : lights'[c] # lights[c] /\ lights'[c] # DarkCode(c)
           Awake == /\ mDisplayOn /\ ~mWakeRestorePending
                    /\ (mPending.kind = "restore" => mOffCompleted)
<1>1. TypeOK /\ LightInv /\ [Next]_vars => [Lit => Awake]_vars
  <2> SUFFICES ASSUME TypeOK, LightInv, Next, NEW c \in Channels,
                      lights'[c] # lights[c], lights'[c] # DarkCode(c)
               PROVE  Awake
    OBVIOUS
  <2>1. Drains /\ \E n \in 0..4 : lights' = Written(n, mPending.brightness, mPending.warmth)
    <3>1. lights' # lights
      OBVIOUS
    <3>2. Len(WriteOrder) = 4
      BY DEF WriteOrder
    <3>3. CASE Restart
      BY <3>1, <3>2, <3>3 DEF Restart
    <3>4. ASSUME NEW result \in Results, DrainCalls(result)
          PROVE  Drains /\ \E n \in 0..4 : lights' = Written(n, mPending.brightness, mPending.warmth)
      <4>1. Drains /\ Apply(mPending.brightness, mPending.warmth, result)
        BY <3>4 DEF DrainCalls
      <4>2. 4 \in 0..4 /\ \A i \in 1..4 : i - 1 \in 0..4
        OBVIOUS
      <4> QED
        BY <3>1, <3>2, <4>1, <4>2 DEF Apply
    <3>5. SubmitBegin \/ SubmitPost \/ DisplayTurnsOff \/ DisplayTurnsOn \/ SetupCompletes => UNCHANGED lights
      BY DEF SubmitBegin, SubmitPost, DisplayTurnsOff, DisplayTurnsOn, SetupCompletes, OutsideRest, deviceVars
    <3>6. HandleGesture \/ LoadState \/ HandleSetup \/ HandleDisplay \/ DrainSkips \/ DrainReturns => UNCHANGED lights
      BY DEF HandleGesture, LoadState, HandleSetup, HandleDisplay, DrainSkips, DrainReturns, deviceVars
    <3> QED
      BY <3>1, <3>3, <3>4, <3>5, <3>6 DEF Next, Handler, Outside
  <2> QED
    BY <2>1, Writes
<1>2. LitOnlyAwake <=> [][Lit => Awake]_vars
  BY DEF LitOnlyAwake
<1> QED
  BY <1>1, <1>2, LightInvAlways, PTL DEF Spec
----------------------------------------------------------------------------
(* The pixel arithmetic, for every colour, block, size and frame.          *)

\* Where a pixel comes from.
LEMMA DestinationReached ==
  ASSUME NEW w \in Nat, NEW h \in Nat, NEW rotation \in Pixel!Rotations,
         NEW r \in Pixel!Rectangles(w, h)
  PROVE  {Pixel!Destination(p[1], p[2], w, h, rotation) : p \in Pixel!Pixels(r)}
           = Pixel!Pixels(Pixel!TransformRect(r, w, h, rotation))
<1> DEFINE t == Pixel!TransformRect(r, w, h, rotation)
           D(x, y) == Pixel!Destination(x, y, w, h, rotation)
<1>1. /\ r.left \in 0..w /\ r.right \in 0..w /\ r.top \in 0..h /\ r.bottom \in 0..h
  BY DEF Pixel!Rectangles
<1>2. \A x, y : <<x, y>> \in Pixel!Pixels(r) <=>
                  x \in r.left..(r.right - 1) /\ y \in r.top..(r.bottom - 1)
  BY DEF Pixel!Pixels
<1>3. \A x, y : <<x, y>> \in Pixel!Pixels(t) <=>
                  x \in t.left..(t.right - 1) /\ y \in t.top..(t.bottom - 1)
  BY DEF Pixel!Pixels
<1>4. rotation \in {"none", "clockwise", "counterclockwise"}
  BY DEF Pixel!Rotations
<1>5. ASSUME NEW x \in r.left..(r.right - 1), NEW y \in r.top..(r.bottom - 1)
      PROVE  D(x, y) \in Pixel!Pixels(t)
  <2>1. CASE rotation = "none"
    BY <1>1, <1>3, <2>1 DEF Pixel!Destination, Pixel!TransformRect
  <2>2. CASE rotation = "clockwise"
    BY <1>1, <1>3, <2>2 DEF Pixel!Destination, Pixel!TransformRect
  <2>3. CASE rotation = "counterclockwise"
    BY <1>1, <1>3, <2>3 DEF Pixel!Destination, Pixel!TransformRect
  <2> QED
    BY <1>4, <2>1, <2>2, <2>3
<1>6. ASSUME NEW x \in t.left..(t.right - 1), NEW y \in t.top..(t.bottom - 1)
      PROVE  \E a \in r.left..(r.right - 1), b \in r.top..(r.bottom - 1) : D(a, b) = <<x, y>>
  <2>1. CASE rotation = "none"
    BY <1>1, <2>1 DEF Pixel!Destination, Pixel!TransformRect
  <2>2. CASE rotation = "clockwise"
    <3>1. y \in r.left..(r.right - 1) /\ h - 1 - x \in r.top..(r.bottom - 1)
      BY <1>1, <2>2 DEF Pixel!TransformRect
    <3>2. D(y, h - 1 - x) = <<x, y>>
      BY <1>1, <2>2 DEF Pixel!Destination, Pixel!TransformRect
    <3> QED
      BY <3>1, <3>2
  <2>3. CASE rotation = "counterclockwise"
    <3>1. w - 1 - y \in r.left..(r.right - 1) /\ x \in r.top..(r.bottom - 1)
      BY <1>1, <2>3 DEF Pixel!TransformRect
    <3>2. D(w - 1 - y, x) = <<x, y>>
      BY <1>1, <2>3 DEF Pixel!Destination, Pixel!TransformRect
    <3> QED
      BY <3>1, <3>2
  <2> QED
    BY <1>4, <2>1, <2>2, <2>3
<1>7. \A p \in Pixel!Pixels(r) : p = <<p[1], p[2]>> /\ p[1] \in r.left..(r.right - 1)
                                 /\ p[2] \in r.top..(r.bottom - 1)
  BY DEF Pixel!Pixels
<1>8. \A q \in Pixel!Pixels(t) : q = <<q[1], q[2]>> /\ q[1] \in t.left..(t.right - 1)
                                 /\ q[2] \in t.top..(t.bottom - 1)
  BY DEF Pixel!Pixels
<1>9. \A p \in Pixel!Pixels(r) : D(p[1], p[2]) \in Pixel!Pixels(t)
  BY <1>5, <1>7
<1>10. \A q \in Pixel!Pixels(t) : \E p \in Pixel!Pixels(r) : D(p[1], p[2]) = q
  <2> SUFFICES ASSUME NEW q \in Pixel!Pixels(t) PROVE \E p \in Pixel!Pixels(r) : D(p[1], p[2]) = q
    OBVIOUS
  <2>1. PICK a \in r.left..(r.right - 1), b \in r.top..(r.bottom - 1) : D(a, b) = <<q[1], q[2]>>
    BY <1>6, <1>8
  <2>2. <<a, b>> \in Pixel!Pixels(r) /\ <<a, b>>[1] = a /\ <<a, b>>[2] = b
    BY <1>2
  <2> QED
    BY <1>8, <2>1, <2>2
<1> HIDE DEF D, t
<1>11. {D(p[1], p[2]) : p \in Pixel!Pixels(r)} = Pixel!Pixels(t)
  BY <1>9, <1>10
<1> QED
  BY <1>11 DEF D, t

\* Damage follows the pixels: at every size and rotation the transformed rectangle is
\* where the converted pixels of the rectangle went.
THEOREM DamageIsExact ==
  \A w, h \in Nat, rotation \in Pixel!Rotations : Pixel!DamageFollowsPixels(w, h, rotation)
BY DestinationReached DEF Pixel!DamageFollowsPixels

\* Every set of naturals has a least element, and a bounded one a greatest.
LEMMA LeastExists ==
  ASSUME NEW T \in SUBSET Nat, T # {} PROVE \E x \in T : \A y \in T : x <= y
<1>1. PICK x \in T : \A y \in T : ~(<<y, x>> \in OpToRel(<, Nat))
  BY WFMin, NatLessThanWellFounded, Zenon
<1>2. \A y \in T : ~(y < x)
  BY <1>1 DEF OpToRel
<1> QED
  BY <1>2

\* What Min returns.
LEMMA MinIs ==
  ASSUME NEW T \in SUBSET Nat, T # {}
  PROVE  Pixel!Min(T) \in T /\ \A y \in T : Pixel!Min(T) <= y
BY LeastExists DEF Pixel!Min

\* What Max returns of a bounded set.
LEMMA MaxIs ==
  ASSUME NEW T \in SUBSET Nat, T # {}, NEW n \in Nat, \A y \in T : y <= n
  PROVE  Pixel!Max(T) \in T /\ \A y \in T : Pixel!Max(T) >= y
<1> DEFINE U == {n - y : y \in T}
<1>0. \A y \in T : n - y \in Nat
  OBVIOUS
<1>1. U \in SUBSET Nat /\ U # {}
  BY <1>0
<1>2. PICK u \in U : \A v \in U : u <= v
  BY <1>1, LeastExists
<1>3. PICK x \in T : u = n - x
  BY <1>2
<1>4. \A y \in T : n - y \in U
  OBVIOUS
<1>5. \A y \in T : x >= y
  BY <1>2, <1>3, <1>4
<1> QED
  BY <1>5 DEF Pixel!Max

\* The peak, the base and the spread of a colour are bytes.
LEMMA Extremes ==
  ASSUME NEW rgb \in Pixel!Colour
  PROVE  /\ Pixel!Highest(rgb) \in Pixel!Byte /\ \E c \in 1..3 : Pixel!Highest(rgb) = rgb[c]
         /\ Pixel!Lowest(rgb) \in Pixel!Byte /\ \E c \in 1..3 : Pixel!Lowest(rgb) = rgb[c]
         /\ \A c \in 1..3 : Pixel!Lowest(rgb) <= rgb[c] /\ rgb[c] <= Pixel!Highest(rgb)
         /\ Pixel!Spread(rgb) = Pixel!Highest(rgb) - Pixel!Lowest(rgb)
         /\ Pixel!Spread(rgb) \in 0..255
<1> DEFINE T == {rgb[c] : c \in 1..3}
<1>1. \A c \in 1..3 : rgb[c] \in 0..255
  BY DEF Pixel!Colour, Pixel!Byte
<1>2. T \in SUBSET Nat /\ T # {} /\ \A y \in T : y <= 255
  BY <1>1
<1>3. Pixel!Max(T) \in T /\ \A y \in T : Pixel!Max(T) >= y
  BY <1>2, MaxIs
<1>4. Pixel!Min(T) \in T /\ \A y \in T : Pixel!Min(T) <= y
  BY <1>2, MinIs
<1>5. Pixel!Highest(rgb) = Pixel!Max(T) /\ Pixel!Lowest(rgb) = Pixel!Min(T)
  BY DEF Pixel!Highest, Pixel!Lowest
<1>6. Pixel!Spread(rgb) = Pixel!Highest(rgb) - Pixel!Lowest(rgb)
  BY DEF Pixel!Spread
<1>7. \A c \in 1..3 : Pixel!Lowest(rgb) <= rgb[c] /\ rgb[c] <= Pixel!Highest(rgb)
  BY <1>3, <1>4, <1>5
<1>8. /\ \E c \in 1..3 : Pixel!Highest(rgb) = rgb[c]
      /\ \E c \in 1..3 : Pixel!Lowest(rgb) = rgb[c]
  BY <1>3, <1>4, <1>5
<1>9. Pixel!Highest(rgb) \in 0..255 /\ Pixel!Lowest(rgb) \in 0..255
  BY <1>1, <1>8
<1>10. Pixel!Lowest(rgb) <= Pixel!Highest(rgb)
  <2>0. \A l, a, h \in 0..255 : l <= a /\ a <= h => l <= h
    OBVIOUS
  <2>1. 1 \in 1..3 /\ rgb[1] \in 0..255
    BY <1>1
  <2>2. Pixel!Lowest(rgb) <= rgb[1] /\ rgb[1] <= Pixel!Highest(rgb)
    BY <1>7, <2>1
  <2> QED
    BY <1>9, <2>0, <2>1, <2>2
<1>11. Pixel!Spread(rgb) \in 0..255
  <2>1. \A a, b \in 0..255 : b <= a => a - b \in 0..255
    OBVIOUS
  <2> QED
    BY <1>6, <1>9, <1>10, <2>1
<1> QED
  BY <1>6, <1>7, <1>8, <1>9, <1>11 DEF Pixel!Byte

Preferences == {Pixel!Thresholds[p] : p \in DOMAIN Pixel!Thresholds}

\* The thresholds of the two strengths.
LEMMA PreferencesAre ==
  ASSUME NEW t \in Preferences
  PROVE  \/ t.low = 8 /\ t.high = 24 /\ Pixel!Width(t) = 16 /\ Pixel!Denominator(t) = 4096
         \/ t.low = 16 /\ t.high = 40 /\ Pixel!Width(t) = 24 /\ Pixel!Denominator(t) = 13824
BY DEF Preferences, Pixel!Thresholds, Pixel!Width, Pixel!Denominator

\* Below the fade the colour has no weight.
LEMMA NoWeight ==
  ASSUME NEW t \in Preferences, NEW spread \in 0..255, spread <= t.low
  PROVE  Pixel!Weight(t, spread) = 0
BY PreferencesAre DEF Pixel!Weight

\* The smoothstep stays between nothing and its denominator.
LEMMA WeightIs ==
  ASSUME NEW t \in Preferences, NEW spread \in 0..255
  PROVE  Pixel!Weight(t, spread) \in 0..Pixel!Denominator(t)
<1>0. Pixel!Width(t) \in {16, 24} /\ t.low \in {8, 16}
      /\ Pixel!Denominator(t) = Pixel!Width(t) * Pixel!Width(t) * Pixel!Width(t)
  BY PreferencesAre DEF Pixel!Denominator
<1>1. ASSUME NEW s \in 0..Pixel!Width(t)
      PROVE  s * s * (3 * Pixel!Width(t) - 2 * s) \in 0..Pixel!Denominator(t)
  <2>1. CASE Pixel!Width(t) = 16
    <3>1. s * s * (48 - 2 * s) >= 0
      BY <1>1, <2>1
    <3>2. 4096 - s * s * (48 - 2 * s) = (16 - s) * (16 - s) * (16 + 2 * s)
      BY <1>1, <2>1
    <3>3. (16 - s) * (16 - s) * (16 + 2 * s) >= 0
      BY <1>1, <2>1
    <3> QED
      BY <1>0, <1>1, <2>1, <3>1, <3>2, <3>3
  <2>2. CASE Pixel!Width(t) = 24
    <3>1. s * s * (72 - 2 * s) >= 0
      BY <1>1, <2>2
    <3>2. 13824 - s * s * (72 - 2 * s) = (24 - s) * (24 - s) * (24 + 2 * s)
      BY <1>1, <2>2
    <3>3. (24 - s) * (24 - s) * (24 + 2 * s) >= 0
      BY <1>1, <2>2
    <3> QED
      BY <1>0, <1>1, <2>2, <3>1, <3>2, <3>3
  <2> QED
    BY <1>0, <2>1, <2>2
<1>2. CASE spread <= t.low
  BY <1>0, <1>2, NoWeight
<1>3. CASE ~(spread <= t.low)
  <2>1. {spread - t.low, Pixel!Width(t)} \in SUBSET Nat
        /\ \A y \in {spread - t.low, Pixel!Width(t)} : y <= 255
    BY <1>0, <1>3
  <2>2. Pixel!Min({spread - t.low, Pixel!Width(t)}) \in 0..Pixel!Width(t)
    <3>1. {spread - t.low, Pixel!Width(t)} # {}
      OBVIOUS
    <3>2. /\ Pixel!Min({spread - t.low, Pixel!Width(t)}) \in {spread - t.low, Pixel!Width(t)}
          /\ Pixel!Min({spread - t.low, Pixel!Width(t)}) <= Pixel!Width(t)
      BY <2>1, <3>1, MinIs
    <3> QED
      BY <1>0, <2>1, <3>2
  <2> QED
    BY <1>1, <1>3, <2>2 DEF Pixel!Weight
<1> QED
  BY <1>2, <1>3

\* Both lumas of a colour are bytes.
LEMMA LumaIs ==
  ASSUME NEW rgb \in Pixel!Colour
  PROVE  /\ Pixel!RoundedLuma(rgb) \in Pixel!Byte
         /\ Pixel!Luma(rgb) \in Pixel!Byte
         /\ Pixel!Spread(rgb) = 0 => \A c \in 1..3 : Pixel!RoundedLuma(rgb) = rgb[c]
<1>1. rgb[1] \in 0..255 /\ rgb[2] \in 0..255 /\ rgb[3] \in 0..255
  BY DEF Pixel!Colour, Pixel!Byte
<1>2. Pixel!RoundedLuma(rgb) \in Pixel!Byte /\ Pixel!Luma(rgb) \in Pixel!Byte
  <2>1. \A r, g, b \in 0..255 : /\ (38 * r + 75 * g + 15 * b + 64) \div 128 \in 0..255
                                 /\ (38 * r + 75 * g + 15 * b) \div 128 \in 0..255
    OBVIOUS
  <2> QED
    BY <1>1, <2>1 DEF Pixel!RoundedLuma, Pixel!Luma, Pixel!Byte
<1>3. ASSUME Pixel!Spread(rgb) = 0 PROVE \A c \in 1..3 : Pixel!RoundedLuma(rgb) = rgb[c]
  <2>1. rgb[1] = rgb[2] /\ rgb[2] = rgb[3]
    <3>1. /\ Pixel!Highest(rgb) \in Nat /\ Pixel!Lowest(rgb) \in Nat
          /\ Pixel!Highest(rgb) - Pixel!Lowest(rgb) = 0
      BY <1>3, Extremes DEF Pixel!Byte
    <3>2. Pixel!Highest(rgb) = Pixel!Lowest(rgb)
      BY <3>1
    <3>3. \A c \in 1..3 : Pixel!Lowest(rgb) <= rgb[c] /\ rgb[c] <= Pixel!Lowest(rgb)
      BY <3>2, Extremes
    <3>4. \A c \in 1..3 : rgb[c] = Pixel!Lowest(rgb)
      <4>1. \A l \in Nat, a \in 0..255 : l <= a /\ a <= l => a = l
        OBVIOUS
      <4>2. \A c \in 1..3 : rgb[c] \in 0..255
        BY DEF Pixel!Colour, Pixel!Byte
      <4> QED
        BY <3>1, <3>3, <4>1, <4>2
    <3> QED
      BY <3>4
  <2> QED
    BY <1>1, <2>1 DEF Pixel!RoundedLuma
<1> QED
  BY <1>2, <1>3

\* A blend of two bytes is a byte, and with no weight the luma.
LEMMA BlendIs ==
  ASSUME NEW t \in Preferences, NEW channel \in Pixel!Byte, NEW luma \in Pixel!Byte
  PROVE  /\ Pixel!Blend(t, channel, luma, 0) = luma
         /\ \A weight \in 0..Pixel!Denominator(t) : Pixel!Blend(t, channel, luma, weight) \in Pixel!Byte
<1>1. channel \in 0..255 /\ luma \in 0..255
  BY DEF Pixel!Byte
<1>2. Pixel!Blend(t, channel, luma, 0) = luma
  <2>1. 0 * channel = 0
    BY <1>1
  <2> QED
    BY <1>1, <2>1, PreferencesAre DEF Pixel!Blend
<1>3. ASSUME NEW weight \in 0..Pixel!Denominator(t)
      PROVE  Pixel!Blend(t, channel, luma, weight) \in Pixel!Byte
  <2> DEFINE D == Pixel!Denominator(t)
  <2>1. D \in {4096, 13824}
    BY PreferencesAre
  <2> HIDE DEF D
  <2>2. D \in Nat /\ weight \in 0..D /\ D - weight \in Nat
    BY <1>3, <2>1 DEF D
  <2>3. /\ (D - weight) * luma \in Nat /\ weight * channel \in Nat
        /\ (D - weight) * luma <= (D - weight) * 255 /\ weight * channel <= weight * 255
    BY <1>1, <2>2
  <2>4. (D - weight) * 255 + weight * 255 = D * 255
    BY <2>2
  <2>5. \A n \in 0..(D * 255) : (n + D \div 2) \div D \in 0..255
    BY <2>1
  <2>6. (D - weight) * luma + weight * channel \in 0..(D * 255)
    BY <2>2, <2>3, <2>4
  <2>7. Pixel!Blend(t, channel, luma, weight) = ((D - weight) * luma + weight * channel + D \div 2) \div D
    BY DEF Pixel!Blend, D
  <2> QED
    BY <2>5, <2>6, <2>7 DEF Pixel!Byte
<1> QED
  BY <1>2, <1>3

\* The scalar loop returns a colour.
LEMMA PixelIsColour ==
  ASSUME NEW t \in Preferences, NEW rgb \in Pixel!Colour
  PROVE  Pixel!ApplyPixel(t, rgb) \in Pixel!Colour
<1>1. \A c \in 1..3 : rgb[c] \in Pixel!Byte
  BY DEF Pixel!Colour
<1>2. \A c \in 1..3 : Pixel!Blend(t, rgb[c], Pixel!RoundedLuma(rgb), Pixel!Weight(t, Pixel!Spread(rgb))) \in Pixel!Byte
  BY <1>1, LumaIs, BlendIs, WeightIs, Extremes
<1> QED
  BY <1>2 DEF Pixel!ApplyPixel, Pixel!Colour

\* The vector loop and the scalar one.
LEMMA VectorsAgree ==
  ASSUME NEW I, I # {}, NEW block \in [I -> Pixel!Colour], NEW t \in Preferences
  PROVE  Pixel!ApplyVectors(t, block) = [i \in I |-> Pixel!ApplyPixel(t, block[i])]
<1> DEFINE S == {Pixel!Spread(block[i]) : i \in I}
           Blended(rgb) == [c \in 1..3 |-> Pixel!Blend(t, rgb[c], Pixel!RoundedLuma(rgb),
                                                       Pixel!Weight(t, Pixel!Spread(rgb)))]
           Plain(rgb) == [c \in 1..3 |-> Pixel!RoundedLuma(rgb)]
<1>0. DOMAIN block = I /\ block = [i \in I |-> block[i]] /\ \A i \in I : block[i] \in Pixel!Colour
  OBVIOUS
<1>1. S \in SUBSET Nat /\ S # {} /\ \A y \in S : y <= 255
  BY <1>0, Extremes
<1>2. /\ \A i \in I : Pixel!Spread(block[i]) <= Pixel!Max(S)
      /\ \A i \in I : Pixel!Min(S) <= Pixel!Spread(block[i])
      /\ Pixel!Max(S) \in Nat /\ Pixel!Min(S) \in Nat
  <2>1. Pixel!Min(S) \in S /\ \A y \in S : Pixel!Min(S) <= y
    BY <1>1, MinIs
  <2>2. Pixel!Max(S) \in S /\ \A y \in S : Pixel!Max(S) >= y
    BY <1>1, MaxIs
  <2>3. \A i \in I : Pixel!Spread(block[i]) \in S /\ Pixel!Spread(block[i]) \in Nat
    BY <1>1
  <2> HIDE DEF S
  <2>4. Pixel!Max(S) \in Nat /\ Pixel!Min(S) \in Nat
    BY <1>1, <2>1, <2>2
  <2> QED
    BY <2>1, <2>2, <2>3, <2>4
<1>3. /\ t.low \in Nat /\ t.high \in Nat /\ t.low < t.high
  BY PreferencesAre
<1>4. \A rgb \in Pixel!Colour : Pixel!Spread(rgb) \in Nat /\ rgb = [c \in 1..3 |-> rgb[c]]
                          /\ \A c \in 1..3 : rgb[c] \in Pixel!Byte
  BY Extremes DEF Pixel!Colour
<1>5. ASSUME NEW rgb \in Pixel!Colour, Pixel!Spread(rgb) <= t.low
      PROVE  Blended(rgb) = Plain(rgb)
  <2>1. Pixel!Weight(t, Pixel!Spread(rgb)) = 0
    BY <1>5, NoWeight, Extremes
  <2>2. \A c \in 1..3 : Pixel!Blend(t, rgb[c], Pixel!RoundedLuma(rgb), 0) = Pixel!RoundedLuma(rgb)
    BY <1>4, LumaIs, BlendIs
  <2> QED
    BY <2>1, <2>2
<1>6. ASSUME NEW rgb \in Pixel!Colour, Pixel!Spread(rgb) = 0
      PROVE  Plain(rgb) = rgb
  BY <1>4, <1>6, LumaIs
<1>7. \A rgb \in Pixel!Colour : Pixel!ApplyPixel(t, rgb) =
        IF Pixel!Spread(rgb) = 0 \/ Pixel!Spread(rgb) >= t.high THEN rgb ELSE Blended(rgb)
  BY DEF Pixel!ApplyPixel
<1>8. Pixel!ApplyVectors(t, block) =
        IF Pixel!Max(S) = 0 \/ Pixel!Min(S) >= t.high THEN block
        ELSE IF Pixel!Max(S) <= t.low THEN [i \in I |-> Plain(block[i])]
        ELSE [i \in I |-> IF Pixel!Spread(block[i]) < t.high THEN Blended(block[i]) ELSE block[i]]
  BY <1>0 DEF Pixel!ApplyVectors
<1> HIDE DEF S, Blended, Plain
<1>9. CASE Pixel!Max(S) = 0 \/ Pixel!Min(S) >= t.high
  <2>1. \A i \in I : Pixel!ApplyPixel(t, block[i]) = block[i]
    BY <1>0, <1>2, <1>3, <1>4, <1>7, <1>9
  <2> QED
    BY <1>0, <1>8, <1>9, <2>1
<1>10. CASE ~(Pixel!Max(S) = 0 \/ Pixel!Min(S) >= t.high) /\ Pixel!Max(S) <= t.low
  <2>1. \A i \in I : Pixel!ApplyPixel(t, block[i]) = Plain(block[i])
    <3> SUFFICES ASSUME NEW i \in I PROVE Pixel!ApplyPixel(t, block[i]) = Plain(block[i])
      OBVIOUS
    <3>1. block[i] \in Pixel!Colour /\ Pixel!Spread(block[i]) \in Nat /\ Pixel!Spread(block[i]) <= t.low
      BY <1>0, <1>2, <1>3, <1>4, <1>10
    <3> QED
      BY <1>3, <1>5, <1>6, <1>7, <3>1
  <2> QED
    BY <1>8, <1>10, <2>1
<1>11. CASE ~(Pixel!Max(S) = 0 \/ Pixel!Min(S) >= t.high) /\ ~(Pixel!Max(S) <= t.low)
  <2>1. \A i \in I : Pixel!ApplyPixel(t, block[i]) =
                       IF Pixel!Spread(block[i]) < t.high THEN Blended(block[i]) ELSE block[i]
    <3> SUFFICES ASSUME NEW i \in I
                 PROVE  Pixel!ApplyPixel(t, block[i]) =
                          IF Pixel!Spread(block[i]) < t.high THEN Blended(block[i]) ELSE block[i]
      OBVIOUS
    <3>1. block[i] \in Pixel!Colour /\ Pixel!Spread(block[i]) \in Nat
      BY <1>0, <1>4
    <3> QED
      BY <1>3, <1>5, <1>6, <1>7, <3>1
  <2> QED
    BY <1>8, <1>11, <2>1
<1> QED
  BY <1>9, <1>10, <1>11

\* Division rounds down.
LEMMA DivisionIs ==
  ASSUME NEW n \in Nat, NEW d \in Nat \ {0}
  PROVE  /\ n \div d \in Nat /\ n % d \in 0..(d - 1)
         /\ n = d * (n \div d) + (n % d)
         /\ d * (n \div d) <= n /\ n < d * (n \div d + 1)
<1> DEFINE q == n \div d
           m == n % d
<1>1. q \in Nat
  OBVIOUS
<1>2. m \in 0..(d - 1)
  OBVIOUS
<1>3. n = d * q + m
  OBVIOUS
<1> HIDE DEF q, m
<1>4. d * q \in Nat /\ d * (q + 1) = d * q + d
  BY <1>1
<1>5. d * q <= n /\ n < d * (q + 1)
  BY <1>2, <1>3, <1>4
<1>6. q \in Nat /\ m \in 0..(d - 1) /\ n = d * q + m /\ d * q <= n /\ n < d * (q + 1)
  BY <1>1, <1>2, <1>3, <1>5
<1> QED
  BY <1>6, Zenon DEF q, m

\* A quotient is below what its dividend is below.
LEMMA QuotientBelow ==
  ASSUME NEW n \in Nat, NEW d \in Nat \ {0}, NEW m \in Nat, n < d * (m + 1)
  PROVE  n \div d <= m
<1> DEFINE q == n \div d
<1>1. q \in Nat /\ d * q <= n
  BY DivisionIs
<1> HIDE DEF q
<1>2. SUFFICES ASSUME q >= m + 1 PROVE FALSE
  BY <1>1 DEF q
<1>3. d * q >= d * (m + 1)
  BY <1>1, <1>2
<1> QED
  BY <1>1, <1>3

\* Division keeps the order.
LEMMA QuotientsOrdered ==
  ASSUME NEW a \in Nat, NEW b \in Nat, a <= b, NEW d \in Nat \ {0}
  PROVE  a \div d <= b \div d
<1>1. b \div d \in Nat /\ b < d * (b \div d + 1)
  BY DivisionIs
<1>2. a < d * (b \div d + 1)
  BY <1>1
<1> QED
  BY <1>1, <1>2, QuotientBelow

\* A vivid colour keeps its peak and the order of its channels.
LEMMA VividIs ==
  ASSUME NEW rgb \in Pixel!Colour
  PROVE  /\ Pixel!ApplyVividColor(rgb) \in Pixel!Colour
         /\ Pixel!Highest(Pixel!ApplyVividColor(rgb)) = Pixel!Highest(rgb)
         /\ \A c, d \in 1..3 : rgb[c] <= rgb[d] =>
              Pixel!ApplyVividColor(rgb)[c] <= Pixel!ApplyVividColor(rgb)[d]
<1> DEFINE vivid == Pixel!ApplyVividColor(rgb)
           L == Pixel!Lowest(rgb)
           H == Pixel!Highest(rgb)
           S == Pixel!Spread(rgb)
           s == Pixel!Min({S - 24, 40})
           D == 160 * S
           R(x) == (L * s * (H - x) + D \div 2) \div D
<1>1. /\ L \in 0..255 /\ H \in 0..255 /\ S \in 0..255 /\ S = H - L
      /\ \A c \in 1..3 : L <= rgb[c] /\ rgb[c] <= H /\ rgb[c] \in 0..255
      /\ \E c \in 1..3 : rgb[c] = H
  BY Extremes DEF Pixel!Colour, Pixel!Byte
<1>2. CASE S <= 24 \/ L = 0
  <2>1. vivid = rgb
    BY <1>2 DEF Pixel!ApplyVividColor
  <2> QED
    BY <2>1
<1>3. CASE ~(S <= 24 \/ L = 0)
  <2>1. vivid = [c \in 1..3 |-> rgb[c] - R(rgb[c])]
    BY <1>3 DEF Pixel!ApplyVividColor
  <2>2. s \in 0..40
    <3>0. S - 24 \in Nat
      <4>1. \A n \in 0..255 : ~(n <= 24) => n - 24 \in Nat
        OBVIOUS
      <4> QED
        BY <1>1, <1>3, <4>1
    <3> DEFINE C == {S - 24, 40}
    <3>1. C \in SUBSET Nat /\ C # {}
      BY <3>0
    <3>2. s \in C /\ \A c \in C : s <= c
      BY <3>1, MinIs
    <3> QED
      BY <3>1, <3>2
  <2> HIDE DEF vivid, L, H, S, s
  <2>3. D \in Nat \ {0} /\ D \div 2 = 80 * S /\ L * s \in Nat /\ L * s <= 40 * L
    BY <1>1, <1>3, <2>2
  <2>4. ASSUME NEW x \in 0..255, L <= x, x <= H
        PROVE  R(x) \in 0..L /\ (x = H => R(x) = 0)
    <3>1. H - x \in 0..S
      BY <1>1, <2>4
    <3>2. L * s * (H - x) \in Nat /\ L * s * (H - x) <= 40 * L * S
      <4>1. \A k, m, n, o \in Nat : k <= m /\ n <= o => k * n <= m * o
        <5> SUFFICES ASSUME NEW k \in Nat, NEW m \in Nat, NEW n \in Nat, NEW o \in Nat, k <= m, n <= o
                     PROVE  k * n <= m * o
          OBVIOUS
        <5>1. k * n <= m * n
          OBVIOUS
        <5>2. m * n <= m * o
          OBVIOUS
        <5> QED
          BY <5>1, <5>2
      <4>2. 40 * L \in Nat /\ H - x \in Nat /\ S \in Nat /\ H - x <= S
        BY <1>1, <3>1
      <4>3. L * s * (H - x) <= 40 * L * S
        BY <2>3, <4>1, <4>2
      <4> QED
        BY <2>3, <4>2, <4>3
    <3>3. L * s * (H - x) + D \div 2 < D * (L + 1)
      <4>1. D * (L + 1) = 160 * (L * S) + 160 * S
        BY <1>1
      <4>2. 40 * L * S = 40 * (L * S) /\ L * S \in Nat
        BY <1>1
      <4> QED
        BY <1>1, <1>3, <2>3, <3>2, <4>1, <4>2
    <3>4. L * s * (H - x) + D \div 2 \in Nat
      BY <1>1, <2>3, <3>2
    <3>5. R(x) \in Nat /\ R(x) <= L
      <4> DEFINE a == L * s * (H - x) + D \div 2
      <4>1. a \in Nat /\ a < D * (L + 1) /\ D \in Nat \ {0} /\ L \in Nat
        BY <1>1, <2>3, <3>3, <3>4
      <4> HIDE DEF a, D
      <4>2. a \div D <= L /\ a \div D \in Nat
        BY <4>1, QuotientBelow, DivisionIs
      <4> QED
        BY <4>2 DEF a
    <3>6. ASSUME x = H PROVE R(x) = 0
      <4>1. L * s * (H - x) + D \div 2 < D * (0 + 1)
        BY <1>1, <1>3, <2>3, <3>6
      <4>2. R(x) <= 0
        BY <2>3, <3>4, <4>1, QuotientBelow
      <4> QED
        BY <3>5, <4>2
    <3> QED
      BY <1>1, <3>5, <3>6
  <2>5. ASSUME NEW x \in 0..255, NEW y \in 0..255, L <= x, x <= y, y <= H
        PROVE  R(y) <= R(x)
    <3>1. H - y \in Nat /\ H - x \in Nat /\ H - y <= H - x
      BY <1>1, <2>5
    <3>2. L * s * (H - y) <= L * s * (H - x)
      BY <2>3, <3>1
    <3> DEFINE a == L * s * (H - y)
               b == L * s * (H - x)
               half == D \div 2
    <3>3. a + half \in Nat /\ b + half \in Nat /\ a + half <= b + half
      <4>1. a \in Nat /\ b \in Nat /\ half \in Nat
        BY <1>1, <2>3, <3>1
      <4>2. a <= b
        BY <3>2
      <4> HIDE DEF a, b, half
      <4> QED
        BY <4>1, <4>2
    <3> QED
      BY <2>3, <3>3, QuotientsOrdered
  <2> HIDE DEF R
  <2>6. \A c \in 1..3 : vivid[c] = rgb[c] - R(rgb[c]) /\ R(rgb[c]) \in 0..L
                        /\ vivid[c] \in 0..255 /\ vivid[c] <= rgb[c] /\ vivid[c] <= H
    <3> SUFFICES ASSUME NEW c \in 1..3
                 PROVE  vivid[c] = rgb[c] - R(rgb[c]) /\ R(rgb[c]) \in 0..L
                        /\ vivid[c] \in 0..255 /\ vivid[c] <= rgb[c] /\ vivid[c] <= H
      OBVIOUS
    <3>1. rgb[c] \in 0..255 /\ L <= rgb[c] /\ rgb[c] <= H /\ R(rgb[c]) \in 0..L
      BY <1>1, <2>4
    <3>2. vivid[c] = rgb[c] - R(rgb[c])
      BY <2>1
    <3>3. \A l, x \in 0..255, y \in 0..255, q \in Int :
            l <= x /\ x <= y /\ q \in 0..l => x - q \in 0..255 /\ x - q <= x /\ x - q <= y
      OBVIOUS
    <3>4. /\ rgb[c] - R(rgb[c]) \in 0..255
          /\ rgb[c] - R(rgb[c]) <= rgb[c] /\ rgb[c] - R(rgb[c]) <= H
      <4> DEFINE q == R(rgb[c])
      <4>1. q \in Int /\ q \in 0..L
        BY <1>1, <3>1
      <4> HIDE DEF q
      <4>2. rgb[c] - q \in 0..255 /\ rgb[c] - q <= rgb[c] /\ rgb[c] - q <= H
        BY <1>1, <3>1, <3>3, <4>1
      <4> QED
        BY <4>2 DEF q
    <3> QED
      BY <3>1, <3>2, <3>4
  <2>7. vivid \in Pixel!Colour
    BY <2>1, <2>6 DEF Pixel!Colour, Pixel!Byte
  <2>8. \A c, d \in 1..3 : rgb[c] <= rgb[d] => vivid[c] <= vivid[d]
    <3> SUFFICES ASSUME NEW c \in 1..3, NEW d \in 1..3, rgb[c] <= rgb[d] PROVE vivid[c] <= vivid[d]
      OBVIOUS
    <3>1. R(rgb[d]) <= R(rgb[c]) /\ R(rgb[d]) \in 0..L /\ R(rgb[c]) \in 0..L
      BY <1>1, <2>5, <2>6
    <3>2. \A x, y \in 0..255, p, q \in Int : x <= y /\ q <= p => x - p <= y - q
      OBVIOUS
    <3>3. R(rgb[c]) \in Int /\ R(rgb[d]) \in Int
      BY <1>1, <3>1
    <3>4. rgb[c] - R(rgb[c]) <= rgb[d] - R(rgb[d])
      BY <1>1, <3>1, <3>2, <3>3
    <3> QED
      BY <2>6, <3>4
  <2>9. Pixel!Highest(vivid) = H
    <3>1. PICK c \in 1..3 : rgb[c] = H
      BY <1>1
    <3>2. vivid[c] = H
      <4>1. R(rgb[c]) = 0
        BY <1>1, <2>4, <3>1
      <4> QED
        BY <1>1, <2>6, <3>1, <4>1
    <3>3. \E e \in 1..3 : Pixel!Highest(vivid) = vivid[e]
      BY <2>7, Extremes
    <3>4. \A e \in 1..3 : vivid[e] <= Pixel!Highest(vivid)
      BY <2>7, Extremes
    <3>5. PICK e \in 1..3 : Pixel!Highest(vivid) = vivid[e]
      BY <3>3
    <3>6. vivid[e] \in 0..255 /\ vivid[e] <= H /\ H <= vivid[e]
      BY <2>6, <3>2, <3>4, <3>5
    <3> QED
      BY <1>1, <3>5, <3>6
  <2> QED
    BY <2>7, <2>8, <2>9 DEF vivid, H
<1> QED
  BY <1>2, <1>3

\* A retained gray survives its expansion to a colour and back.
LEMMA LevelsSurvive ==
  ASSUME NEW rgb \in Pixel!Colour
  PROVE  Pixel!PanelGray(Pixel!ExpandSleepGrayscaleToRgba(Pixel!PanelGray(rgb))) = Pixel!PanelGray(rgb)
<1> DEFINE g == Pixel!PanelGray(rgb)
           k == g \div 16
           v == Pixel!ExpandSleepGrayscaleToRgba(g)
<1>1. g \in 0..255 /\ g % 16 = 0
  <2>1. Pixel!Luma(rgb) \in 0..255
    BY LumaIs DEF Pixel!Byte
  <2>2. \A n \in 0..255 : n - (n % 16) \in 0..255 /\ (n - (n % 16)) % 16 = 0
    OBVIOUS
  <2> QED
    BY <2>1, <2>2 DEF Pixel!PanelGray
<1> HIDE DEF g
<1>2. v = [c \in 1..3 |-> g + k]
  BY <1>1 DEF Pixel!ExpandSleepGrayscaleToRgba
<1>3. v[1] = g + k /\ v[2] = g + k /\ v[3] = g + k
  BY <1>2
<1>4. g = 16 * k /\ k \in 0..15
  BY <1>1
<1> HIDE DEF v, k
<1>5. Pixel!Luma(v) = 17 * k
  <2>1. \A n \in Nat : (38 * n + 75 * n + 15 * n) \div 128 = n
    OBVIOUS
  <2>2. g + k = 17 * k /\ 17 * k \in Nat
    BY <1>4
  <2> QED
    BY <1>3, <2>1, <2>2 DEF Pixel!Luma
<1>6. Pixel!PanelGray(v) = 16 * k
  BY <1>4, <1>5 DEF Pixel!PanelGray
<1> QED
  BY <1>4, <1>6 DEF g, v

\* The scalar and the vector form of the gray preference agree on every block, and
\* the vivid colours and the retained grays keep what they should.
THEOREM TonesAlwaysAgree ==
  \A I : I # {} => \A block \in [I -> Pixel!Colour] : Pixel!TonesAgree(block)
<1> SUFFICES ASSUME NEW I, I # {}, NEW block \in [I -> Pixel!Colour] PROVE Pixel!TonesAgree(block)
  OBVIOUS
<1>1. DOMAIN block = I /\ \A i \in I : block[i] \in Pixel!Colour
  OBVIOUS
<1>2. \A p \in DOMAIN Pixel!Thresholds : Pixel!Thresholds[p] \in Preferences
  BY DEF Preferences
<1>3. \A p \in DOMAIN Pixel!Thresholds :
        Pixel!ApplyVectors(Pixel!Thresholds[p], block)
          = [i \in DOMAIN block |-> Pixel!ApplyPixel(Pixel!Thresholds[p], block[i])]
  BY <1>1, <1>2, VectorsAgree
<1>4. ASSUME NEW i \in I, NEW p \in DOMAIN Pixel!Thresholds, NEW c \in 1..3
      PROVE  /\ Pixel!ApplyVividColor(block[i])[c] \in Pixel!Byte
             /\ Pixel!ApplyPixel(Pixel!Thresholds[p], block[i])[c] \in Pixel!Byte
  <2>1. Pixel!ApplyVividColor(block[i]) \in Pixel!Colour
    BY <1>1, VividIs
  <2>2. Pixel!ApplyPixel(Pixel!Thresholds[p], block[i]) \in Pixel!Colour
    BY <1>1, <1>2, PixelIsColour
  <2> QED
    BY <2>1, <2>2 DEF Pixel!Colour
<1>5. ASSUME NEW i \in I
      PROVE  /\ Pixel!Highest(Pixel!ApplyVividColor(block[i])) = Pixel!Highest(block[i])
             /\ \A c, d \in 1..3 : block[i][c] <= block[i][d] =>
                  Pixel!ApplyVividColor(block[i])[c] <= Pixel!ApplyVividColor(block[i])[d]
             /\ Pixel!PanelGray(Pixel!ExpandSleepGrayscaleToRgba(Pixel!PanelGray(block[i])))
                  = Pixel!PanelGray(block[i])
  BY <1>1, VividIs, LevelsSurvive
<1> QED
  BY <1>1, <1>3, <1>4, <1>5, Zenon DEF Pixel!TonesAgree

\* A quotient and a remainder are determined by what they make up.
LEMMA DivisionOnly ==
  ASSUME NEW d \in Nat \ {0}, NEW q \in Nat, NEW m \in 0..(d - 1)
  PROVE  (d * q + m) \div d = q /\ (d * q + m) % d = m
<1> DEFINE n == d * q + m
           p == n \div d
           l == n % d
<1>1. d * q \in Nat
  OBVIOUS
<1>2. n \in Nat
  BY <1>1
<1> HIDE DEF n
<1>3. p \in Nat /\ l \in 0..(d - 1) /\ n = d * p + l
  BY <1>2, DivisionIs
<1> HIDE DEF p, l
<1>4. n = d * q + m
  BY DEF n
<1>5. \A a, b \in Nat : a < b => d * a + d <= d * b
  <2> SUFFICES ASSUME NEW a \in Nat, NEW b \in Nat, a < b PROVE d * a + d <= d * b
    OBVIOUS
  <2>1. d * (a + 1) <= d * b
    OBVIOUS
  <2>2. d * (a + 1) = d * a + d
    OBVIOUS
  <2> QED
    BY <2>1, <2>2
<1>6. d * p \in Nat /\ d * q \in Nat
  BY <1>3
<1>7. ~(p < q)
  BY <1>3, <1>4, <1>5, <1>6
<1>8. ~(q < p)
  BY <1>3, <1>4, <1>5, <1>6
<1>9. p = q
  BY <1>3, <1>7, <1>8
<1>10. l = m
  BY <1>3, <1>4, <1>6, <1>9
<1> QED
  BY <1>9, <1>10 DEF n, p, l

\* The column and the row of a place.
LEMMA PlaceInRows ==
  ASSUME NEW w \in Nat \ {0}, NEW h \in Nat, NEW i \in 0..(w * h - 1)
  PROVE  i \div w \in 0..(h - 1) /\ i % w \in 0..(w - 1) /\ i = w * (i \div w) + (i % w)
<1> DEFINE q == i \div w
           m == i % w
<1>1. i \in Nat /\ i < w * h
  <2>1. w * h \in Nat
    OBVIOUS
  <2> QED
    BY <2>1
<1>2. q \in Nat /\ m \in 0..(w - 1) /\ i = w * q + m /\ w * q <= i
  BY <1>1, DivisionIs
<1> HIDE DEF q, m
<1>3. q < h
  <2>1. CASE h <= q
    <3>1. w * h <= w * q /\ w * q \in Nat /\ w * h \in Nat
      BY <1>2, <2>1
    <3> QED
      BY <1>1, <1>2, <3>1
  <2> QED
    BY <1>2, <2>1
<1>4. q \in 0..(h - 1)
  BY <1>2, <1>3
<1> QED
  BY <1>2, <1>4 DEF q, m

\* A column and a row make a place.
LEMMA RowsMakePlace ==
  ASSUME NEW w \in Nat \ {0}, NEW h \in Nat, NEW y \in 0..(h - 1), NEW x \in 0..(w - 1)
  PROVE  w * y + x \in 0..(w * h - 1)
<1>1. w * (y + 1) <= w * h
  OBVIOUS
<1>2. w * (y + 1) = w * y + w /\ w * y \in Nat /\ w * h \in Nat
  OBVIOUS
<1> QED
  BY <1>1, <1>2

\* The column of a pair of rows and which of the two rows it is.
LEMMA Parities ==
  ASSUME NEW w \in Nat \ {0}
  PROVE  /\ \A n \in 0..(2 * w - 1) : n % 2 \in 0..1 /\ n \div 2 \in 0..(w - 1)
         /\ \A x \in 0..(w - 1), r \in 0..1 :
              /\ 2 * x + r \in 0..(2 * w - 1)
              /\ (2 * x + r) % 2 = r /\ (2 * x + r) \div 2 = x
<1>1. \A n \in 0..(2 * w - 1) : n % 2 \in 0..1 /\ n \div 2 \in 0..(w - 1)
  OBVIOUS
<1>2. \A x \in 0..(w - 1), r \in 0..1 :
              /\ 2 * x + r \in 0..(2 * w - 1)
              /\ (2 * x + r) % 2 = r /\ (2 * x + r) \div 2 = x
  OBVIOUS
<1> QED
  BY <1>1, <1>2

\* No pixel is lost or doubled by the controller's row pairs, at any size.
THEOREM RowPairsKeepThePixels ==
  \A w, h \in Nat : Pixel!InterleaveLosesNothing(w, h)
<1> SUFFICES ASSUME NEW w \in Nat, NEW h \in Nat, h % 2 = 0
             PROVE  LET out == Pixel!InterleaveAdjacentGrayscaleRows([i \in 0..(w * h - 1) |-> i], w, h)
                    IN {out[i] : i \in DOMAIN out} = 0..(w * h - 1)
  BY DEF Pixel!InterleaveLosesNothing
<1> DEFINE place == [i \in 0..(w * h - 1) |-> i]
           from(i) == (2 * (i \div (2 * w)) + ((i % (2 * w)) % 2)) * w + (i % (2 * w)) \div 2
           out == Pixel!InterleaveAdjacentGrayscaleRows(place, w, h)
<1>1. out = [i \in 0..(w * h - 1) |-> place[from(i)]]
  BY DEF Pixel!InterleaveAdjacentGrayscaleRows
<1>2. CASE w = 0
  <2>1. 0..(w * h - 1) = {}
    BY <1>2
  <2> QED
    BY <1>1, <2>1
<1>3. CASE w # 0
  <2> DEFINE k == h \div 2
             d == 2 * w
  <2>1. k \in Nat /\ h = 2 * k /\ w \in Nat \ {0} /\ d \in Nat \ {0}
    BY <1>3
  <2> HIDE DEF k
  <2>2. w * h = d * k
    BY <2>1
  <2>3. ASSUME NEW i \in 0..(w * h - 1) PROVE from(i) \in 0..(w * h - 1)
    <3>1. i \div d \in 0..(k - 1) /\ i % d \in 0..(d - 1)
      BY <2>1, <2>2, PlaceInRows
    <3> DEFINE p == i \div d
               n == i % d
    <3>2. n % 2 \in 0..1 /\ n \div 2 \in 0..(w - 1)
      BY <2>1, <3>1, Parities
    <3> DEFINE r == n % 2
               x == n \div 2
    <3>3. from(i) = (2 * p + r) * w + x
      OBVIOUS
    <3> HIDE DEF p, n, r, x, from
    <3>4. 2 * p + r \in 0..(h - 1)
      BY <2>1, <3>1, <3>2 DEF p, r
    <3> QED
      BY <2>1, <3>2, <3>3, <3>4, RowsMakePlace DEF x
  <2>4. ASSUME NEW j \in 0..(w * h - 1) PROVE \E i \in 0..(w * h - 1) : from(i) = j
    <3> DEFINE y == j \div w
               x == j % w
               p == y \div 2
               r == y % 2
               i == d * p + (2 * x + r)
    <3>1. y \in 0..(h - 1) /\ x \in 0..(w - 1) /\ j = w * y + x
      BY <2>1, PlaceInRows
    <3>2. p \in 0..(k - 1) /\ r \in 0..1 /\ y = 2 * p + r
      BY <2>1, <3>1
    <3> HIDE DEF y, x, p, r
    <3>3. 2 * x + r \in 0..(d - 1) /\ (2 * x + r) % 2 = r /\ (2 * x + r) \div 2 = x
      BY <2>1, <3>1, <3>2, Parities
    <3>4. i \in 0..(w * h - 1)
      BY <2>1, <2>2, <3>2, <3>3, RowsMakePlace
    <3>5. i \div d = p /\ i % d = 2 * x + r
      <4> DEFINE m == 2 * x + r
      <4>1. m \in 0..(d - 1) /\ p \in Nat /\ d \in Nat \ {0}
        BY <2>1, <3>2, <3>3
      <4> HIDE DEF m, d
      <4>2. (d * p + m) \div d = p /\ (d * p + m) % d = m
        BY <4>1, DivisionOnly
      <4> QED
        BY <4>2 DEF m
    <3>6. from(i) = (2 * p + r) * w + x
      BY <3>3, <3>5
    <3>7. from(i) = j
      BY <2>1, <3>1, <3>2, <3>6
    <3> QED
      BY <3>4, <3>7
  <2> HIDE DEF from
  <2>5. \A i \in 0..(w * h - 1) : out[i] = from(i)
    BY <1>1, <2>3
  <2>6. DOMAIN out = 0..(w * h - 1)
    BY <1>1
  <2> QED
    BY <2>3, <2>4, <2>5, <2>6
<1> QED
  BY <1>2, <1>3

\* A least element is the minimum.
LEMMA MinOnly ==
  ASSUME NEW T \in SUBSET Nat, NEW m \in T, \A y \in T : m <= y
  PROVE  Pixel!Min(T) = m
<1>1. Pixel!Min(T) \in T /\ Pixel!Min(T) <= m
  BY MinIs
<1>2. Pixel!Min(T) \in Nat /\ m \in Nat /\ m <= Pixel!Min(T)
  BY <1>1
<1> QED
  BY <1>1, <1>2

\* A greatest element is the maximum.
LEMMA MaxOnly ==
  ASSUME NEW T \in SUBSET Nat, NEW m \in T, \A y \in T : y <= m
  PROVE  Pixel!Max(T) = m
<1>1. Pixel!Max(T) \in T /\ Pixel!Max(T) >= m
  BY MaxIs
<1>2. Pixel!Max(T) \in Nat /\ m \in Nat /\ Pixel!Max(T) <= m
  BY <1>1
<1> QED
  BY <1>1, <1>2

\* The minimum of one element more.
LEMMA MinGrows ==
  ASSUME NEW T \in SUBSET Nat, T # {}, NEW x \in Nat
  PROVE  Pixel!Min(T \cup {x}) = Pixel!Min({Pixel!Min(T), x})
<1> DEFINE m == Pixel!Min(T)
<1>1. m \in T /\ m \in Nat /\ \A y \in T : m <= y
  BY MinIs
<1> HIDE DEF m
<1>2. CASE m <= x
  <2>1. Pixel!Min({m, x}) = m
    BY <1>1, <1>2, MinOnly
  <2>2. Pixel!Min(T \cup {x}) = m
    BY <1>1, <1>2, MinOnly
  <2> QED
    BY <2>1, <2>2 DEF m
<1>3. CASE ~(m <= x)
  <2>1. Pixel!Min({m, x}) = x
    BY <1>1, <1>3, MinOnly
  <2>2. \A y \in T \cup {x} : x <= y
    BY <1>1, <1>3
  <2>3. Pixel!Min(T \cup {x}) = x
    BY <2>2, MinOnly
  <2> QED
    BY <2>1, <2>3 DEF m
<1> QED
  BY <1>2, <1>3

\* The maximum of one element more.
LEMMA MaxGrows ==
  ASSUME NEW T \in SUBSET Nat, T # {}, NEW n \in Nat, \A y \in T : y <= n, NEW x \in Nat
  PROVE  Pixel!Max(T \cup {x}) = Pixel!Max({Pixel!Max(T), x})
<1> DEFINE m == Pixel!Max(T)
<1>1. m \in T /\ m \in Nat /\ \A y \in T : y <= m
  BY MaxIs
<1> HIDE DEF m
<1>2. CASE x <= m
  <2>1. Pixel!Max({m, x}) = m
    BY <1>1, <1>2, MaxOnly
  <2>2. Pixel!Max(T \cup {x}) = m
    BY <1>1, <1>2, MaxOnly
  <2> QED
    BY <2>1, <2>2 DEF m
<1>3. CASE ~(x <= m)
  <2>1. Pixel!Max({m, x}) = x
    BY <1>1, <1>3, MaxOnly
  <2>2. \A y \in T \cup {x} : y <= x
    BY <1>1, <1>3
  <2>3. Pixel!Max(T \cup {x}) = x
    BY <2>2, MaxOnly
  <2> QED
    BY <2>1, <2>3 DEF m
<1> QED
  BY <1>2, <1>3

\* What one pass has measured after the changed positions C.
Measured(C, p, c, w, h) ==
  [changed |-> Cardinality(C),
   lighter |-> Cardinality({i \in C : c[i] > p[i]}),
   darker  |-> Cardinality({i \in C : ~(c[i] > p[i])}),
   left    |-> Pixel!Min({w} \cup {i % w : i \in C}),
   top     |-> Pixel!Min({h} \cup {i \div w : i \in C}),
   right   |-> Pixel!Max({0} \cup {(i % w) + 1 : i \in C}),
   bottom  |-> Pixel!Max({0} \cup {(i \div w) + 1 : i \in C})]

Counted(delta, p, c, i) ==
  [delta EXCEPT !.changed = @ + 1,
                !.lighter = @ + (IF c[i] > p[i] THEN 1 ELSE 0),
                !.darker = @ + (IF c[i] > p[i] THEN 0 ELSE 1)]

\* Without a change the box is empty.
LEMMA MeasuredNothing ==
  ASSUME NEW w \in Nat, NEW h \in Nat, NEW p, NEW c
  PROVE  Measured({}, p, c, w, h) = Pixel!NoChange(w, h)
<1>1. Cardinality({}) = 0
  BY FS_EmptySet
<1>2. Pixel!Min({w}) = w /\ Pixel!Min({h}) = h /\ Pixel!Max({0}) = 0
  BY MinOnly, MaxOnly
<1> QED
  BY <1>1, <1>2 DEF Measured, Pixel!NoChange

\* One changed place more is one step of the pass.
LEMMA MeasuredGrows ==
  ASSUME NEW w \in Nat \ {0}, NEW h \in Nat, NEW p, NEW c,
         NEW C \in SUBSET (0..(w * h - 1)), NEW i \in 0..(w * h - 1), i \notin C
  PROVE  Measured(C \cup {i}, p, c, w, h)
           = Pixel!Widen(Counted(Measured(C, p, c, w, h), p, c, i), i % w, i \div w)
<1> DEFINE D == C \cup {i}
           L(S) == {j \in S : c[j] > p[j]}
           K(S) == {j \in S : ~(c[j] > p[j])}
           X(S) == {j % w : j \in S}
           Y(S) == {j \div w : j \in S}
           R(S) == {(j % w) + 1 : j \in S}
           B(S) == {(j \div w) + 1 : j \in S}
           x == i % w
           y == i \div w
<1>1. IsFiniteSet(C) /\ IsFiniteSet(L(C)) /\ IsFiniteSet(K(C))
  <2>1. w * h \in Nat
    OBVIOUS
  <2>2. IsFiniteSet(0..(w * h - 1))
    BY <2>1, FS_Interval
  <2> QED
    BY <2>2, FS_Subset
<1>2. \A j \in D : j % w \in 0..(w - 1) /\ j \div w \in 0..(h - 1)
  <2>1. D \subseteq 0..(w * h - 1)
    OBVIOUS
  <2> QED
    BY <2>1, PlaceInRows
<1>3. Cardinality(D) = Cardinality(C) + 1
  BY <1>1, FS_AddElement
<1>4. Cardinality(L(D)) = Cardinality(L(C)) + (IF c[i] > p[i] THEN 1 ELSE 0)
  <2>1. Cardinality(L(C)) \in Nat
    BY <1>1, FS_CardinalityType
  <2>2. CASE c[i] > p[i]
    <3>1. L(D) = L(C) \cup {i} /\ i \notin L(C)
      BY <2>2
    <3> HIDE DEF L
    <3>2. Cardinality(L(D)) = Cardinality(L(C)) + 1
      BY <1>1, <3>1, FS_AddElement
    <3> QED
      BY <2>2, <3>2
  <2>3. CASE ~(c[i] > p[i])
    <3>1. L(D) = L(C)
      BY <2>3
    <3> HIDE DEF L
    <3> QED
      BY <2>1, <2>3, <3>1
  <2> QED
    BY <2>2, <2>3
<1>5. Cardinality(K(D)) = Cardinality(K(C)) + (IF c[i] > p[i] THEN 0 ELSE 1)
  <2>1. Cardinality(K(C)) \in Nat
    BY <1>1, FS_CardinalityType
  <2>2. CASE ~(c[i] > p[i])
    <3>1. K(D) = K(C) \cup {i} /\ i \notin K(C)
      BY <2>2
    <3> HIDE DEF K
    <3>2. Cardinality(K(D)) = Cardinality(K(C)) + 1
      BY <1>1, <3>1, FS_AddElement
    <3> QED
      BY <2>2, <3>2
  <2>3. CASE c[i] > p[i]
    <3>1. K(D) = K(C)
      BY <2>3
    <3> HIDE DEF K
    <3> QED
      BY <2>1, <2>3, <3>1
  <2> QED
    BY <2>2, <2>3
<1>6. X(D) = X(C) \cup {x} /\ Y(D) = Y(C) \cup {y} /\ R(D) = R(C) \cup {x + 1} /\ B(D) = B(C) \cup {y + 1}
  OBVIOUS
<1>7. /\ X(C) \in SUBSET Nat /\ Y(C) \in SUBSET Nat /\ x \in Nat /\ y \in Nat
      /\ R(C) \in SUBSET Nat /\ \A r \in R(C) : r <= w
      /\ B(C) \in SUBSET Nat /\ \A b \in B(C) : b <= h
  BY <1>2
<1> HIDE DEF X, Y, R, B, x, y, L, K
<1>8. Pixel!Min({w} \cup X(D)) = Pixel!Min({Pixel!Min({w} \cup X(C)), x})
  <2>1. {w} \cup X(D) = ({w} \cup X(C)) \cup {x}
    BY <1>6
  <2> QED
    BY <1>7, <2>1, MinGrows
<1>9. Pixel!Min({h} \cup Y(D)) = Pixel!Min({Pixel!Min({h} \cup Y(C)), y})
  <2>1. {h} \cup Y(D) = ({h} \cup Y(C)) \cup {y}
    BY <1>6
  <2> QED
    BY <1>7, <2>1, MinGrows
<1>10. Pixel!Max({0} \cup R(D)) = Pixel!Max({Pixel!Max({0} \cup R(C)), x + 1})
  <2>1. {0} \cup R(D) = ({0} \cup R(C)) \cup {x + 1}
    BY <1>6
  <2> DEFINE T == {0} \cup R(C)
  <2>2. T \in SUBSET Nat /\ T # {} /\ (\A r \in T : r <= w) /\ x + 1 \in Nat /\ w \in Nat
    BY <1>7
  <2> HIDE DEF T
  <2>3. Pixel!Max(T \cup {x + 1}) = Pixel!Max({Pixel!Max(T), x + 1})
    BY <2>2, MaxGrows
  <2> QED
    BY <2>1, <2>3 DEF T
<1>11. Pixel!Max({0} \cup B(D)) = Pixel!Max({Pixel!Max({0} \cup B(C)), y + 1})
  <2>1. {0} \cup B(D) = ({0} \cup B(C)) \cup {y + 1}
    BY <1>6
  <2> DEFINE T == {0} \cup B(C)
  <2>2. T \in SUBSET Nat /\ T # {} /\ (\A b \in T : b <= h) /\ y + 1 \in Nat /\ h \in Nat
    BY <1>7
  <2> HIDE DEF T
  <2>3. Pixel!Max(T \cup {y + 1}) = Pixel!Max({Pixel!Max(T), y + 1})
    BY <2>2, MaxGrows
  <2> QED
    BY <2>1, <2>3 DEF T
<1>12. \A S : Measured(S, p, c, w, h) =
         [changed |-> Cardinality(S), lighter |-> Cardinality(L(S)), darker |-> Cardinality(K(S)),
          left |-> Pixel!Min({w} \cup X(S)), top |-> Pixel!Min({h} \cup Y(S)),
          right |-> Pixel!Max({0} \cup R(S)), bottom |-> Pixel!Max({0} \cup B(S))]
  BY Zenon DEF Measured, X, Y, R, B, L, K
<1> DEFINE m == Measured(C, p, c, w, h)
           n == Counted(m, p, c, i)
           up == IF c[i] > p[i] THEN 1 ELSE 0
           down == IF c[i] > p[i] THEN 0 ELSE 1
<1>13. n = [changed |-> Cardinality(C) + 1,
            lighter |-> Cardinality(L(C)) + (IF c[i] > p[i] THEN 1 ELSE 0),
            darker |-> Cardinality(K(C)) + (IF c[i] > p[i] THEN 0 ELSE 1),
            left |-> Pixel!Min({w} \cup X(C)), top |-> Pixel!Min({h} \cup Y(C)),
            right |-> Pixel!Max({0} \cup R(C)), bottom |-> Pixel!Max({0} \cup B(C))]
  <2> DEFINE a1 == [m EXCEPT !.changed = m.changed + 1]
             a2 == [a1 EXCEPT !.lighter = a1.lighter + (IF c[i] > p[i] THEN 1 ELSE 0)]
             a3 == [a2 EXCEPT !.darker = a2.darker + (IF c[i] > p[i] THEN 0 ELSE 1)]
  <2>1. n = a3
    BY Zenon DEF Counted
  <2>2. m = [changed |-> Cardinality(C), lighter |-> Cardinality(L(C)), darker |-> Cardinality(K(C)),
          left |-> Pixel!Min({w} \cup X(C)), top |-> Pixel!Min({h} \cup Y(C)),
          right |-> Pixel!Max({0} \cup R(C)), bottom |-> Pixel!Max({0} \cup B(C))]
    BY <1>12
  <2> HIDE DEF m
  <2> QED
    BY <2>1, <2>2
<1> HIDE DEF n
<1>14. Pixel!Widen(n, x, y) =
         [changed |-> Cardinality(C) + 1,
          lighter |-> Cardinality(L(C)) + (IF c[i] > p[i] THEN 1 ELSE 0),
          darker |-> Cardinality(K(C)) + (IF c[i] > p[i] THEN 0 ELSE 1),
          left |-> Pixel!Min({Pixel!Min({w} \cup X(C)), x}),
          top |-> Pixel!Min({Pixel!Min({h} \cup Y(C)), y}),
          right |-> Pixel!Max({Pixel!Max({0} \cup R(C)), x + 1}),
          bottom |-> Pixel!Max({Pixel!Max({0} \cup B(C)), y + 1})]
  <2> DEFINE b1 == [n EXCEPT !.left = Pixel!Min({n.left, x})]
             b2 == [b1 EXCEPT !.top = Pixel!Min({b1.top, y})]
             b3 == [b2 EXCEPT !.right = Pixel!Max({b2.right, x + 1})]
             b4 == [b3 EXCEPT !.bottom = Pixel!Max({b3.bottom, y + 1})]
  <2>1. Pixel!Widen(n, x, y) = b4
    BY Zenon DEF Pixel!Widen
  <2>2. n.left = Pixel!Min({w} \cup X(C)) /\ n.top = Pixel!Min({h} \cup Y(C))
        /\ n.right = Pixel!Max({0} \cup R(C)) /\ n.bottom = Pixel!Max({0} \cup B(C))
    BY <1>13
  <2>3. b4 = [n EXCEPT !.left = Pixel!Min({n.left, x}), !.top = Pixel!Min({n.top, y}),
                   !.right = Pixel!Max({n.right, x + 1}), !.bottom = Pixel!Max({n.bottom, y + 1})]
    BY Zenon
  <2>4. Pixel!Widen(n, x, y) =
         [n EXCEPT !.left = Pixel!Min({Pixel!Min({w} \cup X(C)), x}),
                   !.top = Pixel!Min({Pixel!Min({h} \cup Y(C)), y}),
                   !.right = Pixel!Max({Pixel!Max({0} \cup R(C)), x + 1}),
                   !.bottom = Pixel!Max({Pixel!Max({0} \cup B(C)), y + 1})]
    BY <2>1, <2>2, <2>3, Zenon
  <2> DEFINE wl == Pixel!Min({w} \cup X(C))
             ht == Pixel!Min({h} \cup Y(C))
             wr == Pixel!Max({0} \cup R(C))
             hb == Pixel!Max({0} \cup B(C))
  <2> HIDE DEF wl, ht, wr, hb
  <2> QED
    BY <1>13, <2>4
<1>15. Measured(D, p, c, w, h) = Pixel!Widen(n, x, y)
  BY <1>3, <1>4, <1>5, <1>8, <1>9, <1>10, <1>11, <1>12, <1>14, Zenon
<1> QED
  BY <1>15 DEF n, x, y

ChangedIn(s, p, c, w, h) == {i \in 0..(w * h - 1) : i + 1 \in s /\ p[i] # c[i]}
Changed(p, c, w, h) == {i \in 0..(w * h - 1) : p[i] # c[i]}

\* The pass over the pixels measures what changed: what its fold must satisfy has one solution.
LEMMA PassMeasures ==
  ASSUME NEW w \in Nat, NEW h \in Nat, NEW p, NEW c
  PROVE  LET m == Measured(Changed(p, c, w, h), p, c, w, h)
         IN Pixel!MeasureGrayscaleDelta(p, c, w, h)
              = IF m.changed = 0 THEN [m EXCEPT !.left = 0, !.top = 0] ELSE m
<1> DEFINE N == w * h
           seq == [i \in 1..(w * h) |-> i - 1]
           Step(delta, i) ==
             IF p[i] = c[i] THEN delta
             ELSE LET one == [delta EXCEPT
                   !.changed = @ + 1,
                   !.lighter = @ + (IF c[i] > p[i] THEN 1 ELSE 0),
                   !.darker = @ + (IF c[i] > p[i] THEN 0 ELSE 1)]
                  IN Pixel!Widen(one, i % w, i \div w)
           Is(g) == g = [s \in SUBSET (DOMAIN seq) |->
                           IF s = {} THEN Pixel!NoChange(w, h)
                           ELSE Step(g[s \ {Pixel!Max(s)}], seq[Pixel!Max(s)])]
           pass == CHOOSE g : Is(g)
           M(s) == Measured(ChangedIn(s, p, c, w, h), p, c, w, h)
           G == [s \in SUBSET (DOMAIN seq) |-> M(s)]
<1>1. Pixel!FoldLeft(Step, Pixel!NoChange(w, h), seq) = pass[DOMAIN seq]
  BY Zenon DEF Pixel!FoldLeft, Pixel!MapThenFoldSet
<1>2. Pixel!MeasureGrayscaleDelta(p, c, w, h)
        = IF pass[DOMAIN seq].changed = 0
            THEN [pass[DOMAIN seq] EXCEPT !.left = 0, !.top = 0] ELSE pass[DOMAIN seq]
  BY <1>1, Zenon DEF Pixel!MeasureGrayscaleDelta
<1>3. N \in Nat /\ DOMAIN seq = 1..N /\ \A x \in 1..N : seq[x] = x - 1
  OBVIOUS
<1>4. \A delta, i : Step(delta, i) =
        IF p[i] = c[i] THEN delta ELSE Pixel!Widen(Counted(delta, p, c, i), i % w, i \div w)
  BY Zenon DEF Counted
<1> HIDE DEF Step, seq, N
<1>5. ASSUME NEW s \in SUBSET (1..N), s # {}
      PROVE  Pixel!Max(s) \in s /\ \A y \in s : y <= Pixel!Max(s)
  <2>1. s \in SUBSET Nat /\ \A y \in s : y <= N
    BY <1>3
  <2>2. Pixel!Max(s) \in s /\ \A y \in s : Pixel!Max(s) >= y
    BY <1>3, <1>5, <2>1, MaxIs
  <2> QED
    BY <1>3, <2>2
<1>6. M({}) = Pixel!NoChange(w, h)
  <2>1. ChangedIn({}, p, c, w, h) = {}
    BY DEF ChangedIn
  <2> QED
    BY <2>1, MeasuredNothing
<1>7. ASSUME NEW s \in SUBSET (1..N), NEW x \in s
      PROVE  M(s) = Step(M(s \ {x}), x - 1)
  <2> DEFINE i == x - 1
             C == ChangedIn(s \ {x}, p, c, w, h)
  <2>1. i \in 0..(N - 1) /\ x \in 1..N /\ i + 1 = x
    BY <1>3
  <2>2. N = w * h
    BY DEF N
  <2>3. C \in SUBSET (0..(w * h - 1)) /\ i \notin C
    BY <2>1 DEF ChangedIn
  <2>4. CASE p[i] = c[i]
    <3>1. ChangedIn(s, p, c, w, h) = C
      BY <2>1, <2>4 DEF ChangedIn
    <3> QED
      BY <1>4, <2>4, <3>1
  <2>5. CASE p[i] # c[i]
    <3>1. ChangedIn(s, p, c, w, h) = C \cup {i}
      BY <2>1, <2>2, <2>5 DEF ChangedIn
    <3>2. w # 0
      BY <2>1, <2>2
    <3>3. Measured(C \cup {i}, p, c, w, h)
            = Pixel!Widen(Counted(Measured(C, p, c, w, h), p, c, i), i % w, i \div w)
      <4> HIDE DEF C, i
      <4> QED
        BY <2>1, <2>2, <2>3, <3>2, MeasuredGrows
    <3> QED
      BY <1>4, <2>5, <3>1, <3>3
  <2> QED
    BY <2>4, <2>5
<1> HIDE DEF M
<1>8. Is(G)
  <2>1. ASSUME NEW s \in SUBSET (1..N), s # {}
        PROVE  M(s) = Step(G[s \ {Pixel!Max(s)}], seq[Pixel!Max(s)])
    <3> DEFINE x == Pixel!Max(s)
    <3>1. x \in s /\ s \ {x} \in SUBSET (1..N)
      BY <1>5, <2>1
    <3> HIDE DEF x
    <3>2. seq[x] = x - 1 /\ G[s \ {x}] = M(s \ {x})
      BY <1>3, <3>1
    <3>3. M(s) = Step(M(s \ {x}), x - 1)
      BY <1>7, <3>1
    <3> QED
      BY <3>2, <3>3 DEF x
  <2>2. \A s \in SUBSET (DOMAIN seq) :
          M(s) = IF s = {} THEN Pixel!NoChange(w, h)
                 ELSE Step(G[s \ {Pixel!Max(s)}], seq[Pixel!Max(s)])
    BY <1>3, <1>6, <2>1
  <2> QED
    BY <2>2, Zenon
<1>9. Is(pass)
  <2> HIDE DEF G, Is
  <2> QED
    BY <1>8, Zenon
<1> HIDE DEF pass, G
<1>10. ASSUME NEW g, Is(g)
       PROVE  /\ g[1..0] = Pixel!NoChange(w, h)
              /\ \A k \in 1..N : g[1..k] = Step(g[1..(k - 1)], k - 1)
  <2>1. \A s \in SUBSET (1..N) : g[s] = IF s = {} THEN Pixel!NoChange(w, h)
                           ELSE Step(g[s \ {Pixel!Max(s)}], seq[Pixel!Max(s)])
    BY <1>3, <1>10, Zenon
  <2>2. 1..0 = {}
    OBVIOUS
  <2>3. ASSUME NEW k \in 1..N PROVE g[1..k] = Step(g[1..(k - 1)], k - 1)
    <3>1. 1..k \in SUBSET (1..N) /\ 1..k # {} /\ (1..k) \ {k} = 1..(k - 1)
      BY <1>3
    <3>2. Pixel!Max(1..k) = k
      <4> DEFINE T == 1..k
      <4>1. T \in SUBSET Nat /\ k \in T /\ \A y \in T : y <= k
        BY <1>3
      <4> HIDE DEF T
      <4>2. Pixel!Max(T) = k
        BY <4>1, MaxOnly
      <4> QED
        BY <4>2 DEF T
    <3> QED
      BY <1>3, <2>1, <3>1, <3>2
  <2> QED
    BY <2>1, <2>2, <2>3
<1>11. \A k \in 0..N : pass[1..k] = G[1..k]
  <2> DEFINE T == {k \in 0..N : pass[1..k] # G[1..k]}
  <2> SUFFICES ASSUME T # {} PROVE FALSE
    OBVIOUS
  <2>1. PICK k \in T : \A j \in T : k <= j
    <3>1. T \in SUBSET Nat
      BY <1>3
    <3> HIDE DEF T
    <3> QED
      BY <3>1, LeastExists
  <2>2. CASE k = 0
    BY <1>8, <1>9, <1>10, <2>2
  <2>3. CASE k # 0
    <3>1. k \in 1..N /\ k - 1 \in 0..N /\ ~(k <= k - 1)
      BY <1>3, <2>3
    <3>2. pass[1..(k - 1)] = G[1..(k - 1)]
      BY <2>1, <3>1
    <3>3. pass[1..k] = Step(pass[1..(k - 1)], k - 1)
      BY <1>9, <1>10, <3>1
    <3>4. G[1..k] = Step(G[1..(k - 1)], k - 1)
      BY <1>8, <1>10, <3>1
    <3> QED
      BY <2>1, <3>2, <3>3, <3>4
  <2> QED
    BY <2>2, <2>3
<1>12. pass[DOMAIN seq] = M(1..N)
  <2>1. N \in 0..N /\ 1..N \in SUBSET (DOMAIN seq)
    BY <1>3
  <2> QED
    BY <1>3, <1>11, <2>1 DEF G
<1>13. ChangedIn(1..N, p, c, w, h) = Changed(p, c, w, h)
  BY <1>3 DEF ChangedIn, Changed, N
<1>14. pass[DOMAIN seq] = Measured(Changed(p, c, w, h), p, c, w, h)
  BY <1>12, <1>13 DEF M
<1> QED
  BY <1>2, <1>14, Zenon

\* The instance of PixelPolicies has a Cardinality of its own: the same one.
LEMMA SameCardinality ==
  ASSUME NEW S PROVE Pixel!Cardinality(S) = Cardinality(S)
BY Zenon DEF Pixel!Cardinality, Cardinality

\* The bound of the empty box does not move the box of a change.
LEMMA MinOfShifted ==
  ASSUME NEW T \in SUBSET Nat, T # {}, NEW w \in Nat, \A y \in T : y <= w - 1
  PROVE  /\ Pixel!Min({w} \cup T) = Pixel!Min(T)
         /\ Pixel!Max({0} \cup {y + 1 : y \in T}) = Pixel!Max(T) + 1
         /\ Pixel!Max(T) \in T /\ Pixel!Min(T) \in T
         /\ \A y \in T : Pixel!Min(T) <= y /\ y <= Pixel!Max(T)
<1>1. Pixel!Min(T) \in T /\ \A y \in T : Pixel!Min(T) <= y
  BY MinIs
<1>2. Pixel!Max(T) \in T /\ \A y \in T : Pixel!Max(T) >= y
  <2>1. \A y \in T : y <= w
    OBVIOUS
  <2> QED
    BY <2>1, MaxIs
<1> DEFINE m == Pixel!Min(T)
           n == Pixel!Max(T)
<1>0. m \in T /\ (\A y \in T : m <= y) /\ n \in T /\ (\A y \in T : y <= n)
  BY <1>1, <1>2
<1> HIDE DEF m, n
<1>3. Pixel!Min({w} \cup T) = m
  <2> DEFINE U == {w} \cup T
  <2>1. U \in SUBSET Nat /\ m \in U /\ \A y \in U : m <= y
    BY <1>0
  <2> HIDE DEF U
  <2>2. Pixel!Min(U) = m
    BY <2>1, MinOnly
  <2> QED
    BY <2>2 DEF U
<1>4. Pixel!Max({0} \cup {y + 1 : y \in T}) = n + 1
  <2> DEFINE U == {0} \cup {y + 1 : y \in T}
  <2>1. U \in SUBSET Nat /\ n + 1 \in U /\ \A y \in U : y <= n + 1
    BY <1>0
  <2> HIDE DEF U
  <2>2. Pixel!Max(U) = n + 1
    BY <2>1, MaxOnly
  <2> QED
    BY <2>2 DEF U
<1>5. \A y \in T : y <= n
  BY <1>2 DEF n
<1> QED
  BY <1>1, <1>2, <1>3, <1>4, <1>5 DEF m, n

\* The two comparisons of gray frames agree on the change and its box.
THEOREM ChangeIsExact ==
  \A w, h \in Nat : \A previous, current \in Pixel!Frames(w, h) :
    Pixel!DeltaIsExact(previous, current, w, h)
<1> SUFFICES ASSUME NEW w \in Nat, NEW h \in Nat,
                    NEW p \in Pixel!Frames(w, h),
                    NEW c \in Pixel!Frames(w, h)
             PROVE  Pixel!DeltaIsExact(p, c, w, h)
  OBVIOUS
<1> DEFINE C == Changed(p, c, w, h)
           L == {i \in C : c[i] > p[i]}
           K == {i \in C : ~(c[i] > p[i])}
           X == {i % w : i \in C}
           Y == {i \div w : i \in C}
           m == Measured(C, p, c, w, h)
           delta == Pixel!MeasureGrayscaleDelta(p, c, w, h)
           f == Pixel!CompareGrayscaleFidelity(p, c, w, h)
<1>1. delta = IF m.changed = 0 THEN [m EXCEPT !.left = 0, !.top = 0] ELSE m
  BY PassMeasures, Zenon
<1>2. IsFiniteSet(C) /\ IsFiniteSet(L) /\ IsFiniteSet(K)
  <2>1. w * h \in Nat
    OBVIOUS
  <2>2. IsFiniteSet(0..(w * h - 1))
    BY <2>1, FS_Interval
  <2>3. C \subseteq 0..(w * h - 1)
    BY DEF Changed
  <2> QED
    BY <2>2, <2>3, FS_Subset
<1>3. C \subseteq 0..(w * h - 1) /\ \A i \in C : p[i] # c[i]
  BY DEF Changed
<1>4. Cardinality(C) \in Nat /\ (Cardinality(C) = 0 <=> C = {})
  BY <1>2, FS_CardinalityType, FS_EmptySet
<1>5. /\ m.changed = Cardinality(C) /\ m.lighter = Cardinality(L) /\ m.darker = Cardinality(K)
      /\ m.left = Pixel!Min({w} \cup X) /\ m.top = Pixel!Min({h} \cup Y)
      /\ m.right = Pixel!Max({0} \cup {y + 1 : y \in X})
      /\ m.bottom = Pixel!Max({0} \cup {y + 1 : y \in Y})
      /\ m = [changed |-> m.changed, lighter |-> m.lighter, darker |-> m.darker,
              left |-> m.left, top |-> m.top, right |-> m.right, bottom |-> m.bottom]
  <2>1. {y + 1 : y \in X} = {(i % w) + 1 : i \in C} /\ {y + 1 : y \in Y} = {(i \div w) + 1 : i \in C}
    OBVIOUS
  <2> HIDE DEF C
  <2> QED
    BY <2>1 DEF Measured
<1>6. f = [exact |-> C = {}, differing |-> Cardinality(C),
           left |-> IF C = {} THEN 0 ELSE Pixel!Min(X),
           top |-> IF C = {} THEN 0 ELSE Pixel!Min(Y),
           right |-> IF C = {} THEN 0 ELSE Pixel!Max(X) + 1,
           bottom |-> IF C = {} THEN 0 ELSE Pixel!Max(Y) + 1]
  <2> QED
    BY SameCardinality, Zenon DEF Pixel!CompareGrayscaleFidelity, Changed
<1>7. f.differing = Cardinality(C)
      /\ f.left = (IF C = {} THEN 0 ELSE Pixel!Min(X))
      /\ f.top = (IF C = {} THEN 0 ELSE Pixel!Min(Y))
      /\ f.right = (IF C = {} THEN 0 ELSE Pixel!Max(X) + 1)
      /\ f.bottom = (IF C = {} THEN 0 ELSE Pixel!Max(Y) + 1)
  <2> HIDE DEF f, C, X, Y
  <2> QED
    BY <1>6
<1>8. Cardinality(L) + Cardinality(K) = Cardinality(C)
  <2>1. L \cup K = C /\ L \cap K = {}
    OBVIOUS
  <2> HIDE DEF C, L, K
  <2>2. Cardinality(L \cup K) = Cardinality(L) + Cardinality(K) - Cardinality(L \cap K)
    BY <1>2, FS_Union
  <2>3. Cardinality(L \cap K) = 0 /\ Cardinality(L) \in Nat /\ Cardinality(K) \in Nat
    BY <1>2, <2>1, FS_EmptySet, FS_CardinalityType
  <2>4. Cardinality(L \cup K) = Cardinality(C)
    BY <2>1
  <2> QED
    BY <2>2, <2>3, <2>4
<1>9. Cardinality(L) = Cardinality(C) => L = C
  <2>1. L \in SUBSET C
    OBVIOUS
  <2> HIDE DEF C, L
  <2> QED
    BY <1>2, <2>1, FS_Subset
<1>10. CASE C = {}
  <2>1. delta = [m EXCEPT !.left = 0, !.top = 0]
    BY <1>1, <1>4, <1>5, <1>10
  <2>2. X = {} /\ Y = {}
    BY <1>10
  <2>3. m.right = 0 /\ m.bottom = 0
    <3>1. {0} \cup {y + 1 : y \in {}} = {0}
      OBVIOUS
    <3>2. Pixel!Max({0}) = 0
      BY MaxOnly
    <3> QED
      BY <1>5, <2>2, <3>1, <3>2
  <2> HIDE DEF m, delta, f, C, X, Y
  <2>4. delta.changed = 0 /\ delta.left = 0 /\ delta.top = 0 /\ delta.right = 0 /\ delta.bottom = 0
    BY <1>4, <1>5, <1>10, <2>1, <2>3
  <2>5. Pixel!ClassifyDeltaDirection(delta) = "unavailable"
    BY <2>4 DEF Pixel!ClassifyDeltaDirection
  <2>6. \A side \in {"left", "top", "right", "bottom"} : delta[side] = f[side]
    BY <1>7, <1>10, <2>4
  <2>7. /\ delta.changed = Cardinality(C) /\ delta.changed = f.differing
        /\ \A side \in {"left", "top", "right", "bottom"} : delta[side] = f[side]
        /\ \A i \in C : <<i % w, i \div w>> \in Pixel!Pixels(delta)
        /\ Pixel!ClassifyDeltaDirection(delta) = "lighter" => \A i \in C : c[i] > p[i]
        /\ C # {} => Pixel!ClassifyDeltaDirection(delta) # "unavailable"
    BY <1>4, <1>7, <1>10, <2>4, <2>5, <2>6
  <2> USE DEF delta, f, C
  <2> QED
    BY <2>7, SameCardinality, Zenon DEF Pixel!DeltaIsExact, Changed
<1>11. CASE C # {}
  <2>1. delta = m
    BY <1>1, <1>4, <1>5, <1>11
  <2>2. w \in Nat \ {0}
    <3>1. PICK i \in C : TRUE
      BY <1>11
    <3>2. w = 0 => w * h = 0
      OBVIOUS
    <3> QED
      BY <1>3, <3>1, <3>2
  <2>3. \A i \in C : i % w \in 0..(w - 1) /\ i \div w \in 0..(h - 1)
    BY <1>3, <2>2, PlaceInRows
  <2>4. /\ X \in SUBSET Nat /\ X # {} /\ \A y \in X : y <= w - 1
        /\ Y \in SUBSET Nat /\ Y # {} /\ \A y \in Y : y <= h - 1
    BY <1>11, <2>3
  <2>5. \A i \in C : i % w \in X /\ i \div w \in Y
    OBVIOUS
  <2> HIDE DEF X, Y, C, m, delta, f, L, K
  <2>6. /\ Pixel!Min({w} \cup X) = Pixel!Min(X)
        /\ Pixel!Max({0} \cup {y + 1 : y \in X}) = Pixel!Max(X) + 1
        /\ Pixel!Max(X) \in X /\ Pixel!Min(X) \in X
        /\ \A y \in X : Pixel!Min(X) <= y /\ y <= Pixel!Max(X)
    BY <2>4, MinOfShifted
  <2>7. /\ Pixel!Min({h} \cup Y) = Pixel!Min(Y)
        /\ Pixel!Max({0} \cup {y + 1 : y \in Y}) = Pixel!Max(Y) + 1
        /\ Pixel!Max(Y) \in Y /\ Pixel!Min(Y) \in Y
        /\ \A y \in Y : Pixel!Min(Y) <= y /\ y <= Pixel!Max(Y)
    BY <2>4, MinOfShifted
  <2>8. \A side \in {"left", "top", "right", "bottom"} : delta[side] = f[side]
    BY <1>5, <1>7, <1>11, <2>1, <2>6, <2>7
  <2>9. \A i \in C : <<i % w, i \div w>> \in Pixel!Pixels(delta)
    <3> SUFFICES ASSUME NEW i \in C PROVE <<i % w, i \div w>> \in Pixel!Pixels(delta)
      OBVIOUS
    <3>1. \A a, l, r \in Nat : l <= a /\ a <= r => a \in l..((r + 1) - 1)
      OBVIOUS
    <3>2. i % w \in Nat /\ Pixel!Min(X) \in Nat /\ Pixel!Max(X) \in Nat
          /\ Pixel!Min(X) <= i % w /\ i % w <= Pixel!Max(X)
      BY <2>4, <2>5, <2>6
    <3>3. i \div w \in Nat /\ Pixel!Min(Y) \in Nat /\ Pixel!Max(Y) \in Nat
          /\ Pixel!Min(Y) <= i \div w /\ i \div w <= Pixel!Max(Y)
      BY <2>4, <2>5, <2>7
    <3>4. i % w \in delta.left..(delta.right - 1) /\ i \div w \in delta.top..(delta.bottom - 1)
      BY <1>5, <2>1, <2>6, <2>7, <3>1, <3>2, <3>3
    <3> DEFINE x == i % w
               y == i \div w
    <3> HIDE DEF x, y
    <3>5. x \in delta.left..(delta.right - 1) /\ y \in delta.top..(delta.bottom - 1)
      BY <3>4 DEF x, y
    <3>6. <<x, y>> \in Pixel!Pixels(delta)
      BY <3>5 DEF Pixel!Pixels
    <3> QED
      BY <3>6 DEF x, y
  <2>10. /\ Pixel!ClassifyDeltaDirection(delta) = "lighter" => L = C
         /\ Pixel!ClassifyDeltaDirection(delta) # "unavailable"
    BY <1>4, <1>5, <1>8, <1>9, <1>11, <2>1 DEF Pixel!ClassifyDeltaDirection
  <2>11. L = C => \A i \in C : c[i] > p[i]
    BY DEF L
  <2>12. delta.changed = Cardinality(C) /\ delta.changed = f.differing
    BY <1>5, <1>7, <2>1
  <2>13. /\ delta.changed = Cardinality(C) /\ delta.changed = f.differing
         /\ \A side \in {"left", "top", "right", "bottom"} : delta[side] = f[side]
         /\ \A i \in C : <<i % w, i \div w>> \in Pixel!Pixels(delta)
         /\ Pixel!ClassifyDeltaDirection(delta) = "lighter" => \A i \in C : c[i] > p[i]
         /\ C # {} => Pixel!ClassifyDeltaDirection(delta) # "unavailable"
    BY <2>8, <2>9, <2>10, <2>11, <2>12
  <2> USE DEF delta, f, C
  <2> QED
    BY <2>13, SameCardinality, Zenon DEF Pixel!DeltaIsExact, Changed
<1> QED
  BY <1>10, <1>11

\* The samples a run chooses from are inputs, so what holds of every input holds
\* of the one it takes.
THEOREM ArithmeticIsRight == LibrarySpec => []PixelsAgree
<1> DEFINE SampleInv == sample = NoSample \/ sample \in Samples
<1>1. LibraryInit => SampleInv
  BY DEF LibraryInit
<1>2. SampleInv /\ [LibraryNext]_libraryVars => SampleInv'
  BY DEF LibraryNext, Only, ChooseSample, libraryVars
<1>3. SampleInv => PixelsAgree
  <2> SUFFICES ASSUME SampleInv PROVE PixelsAgree
    OBVIOUS
  <2>1. CASE sample = NoSample
    BY <2>1 DEF NoSample, PixelsAgree
  <2>2. CASE sample \in Samples
    <3>1. IsInput(sample)
      BY <2>2, SamplesAssumption
    <3>2. CASE sample.kind = "tone"
      <4>1. DOMAIN sample.block # {} /\ sample.block \in [DOMAIN sample.block -> Pixel!Colour]
        BY <3>1, <3>2 DEF IsInput
      <4>2. Pixel!TonesAgree(sample.block)
        BY <4>1, TonesAlwaysAgree
      <4> QED
        BY <3>2, <4>2 DEF PixelsAgree
    <3>3. CASE sample.kind = "sides"
      <4>1. sample.w \in Nat /\ sample.h \in Nat /\ sample.rotation \in Pixel!Rotations
        BY <3>1, <3>3 DEF IsInput
      <4>2. /\ Pixel!DamageFollowsPixels(sample.w, sample.h, sample.rotation)
            /\ Pixel!InterleaveLosesNothing(sample.w, sample.h)
        BY <4>1, DamageIsExact, RowPairsKeepThePixels
      <4> QED
        BY <3>3, <4>2 DEF PixelsAgree
    <3>4. CASE sample.kind = "delta"
      <4>1. /\ sample.w \in Nat /\ sample.h \in Nat
            /\ sample.previous \in Pixel!Frames(sample.w, sample.h)
            /\ sample.current \in Pixel!Frames(sample.w, sample.h)
        BY <3>1, <3>4 DEF IsInput
      <4>2. Pixel!DeltaIsExact(sample.previous, sample.current, sample.w, sample.h)
        BY <4>1, ChangeIsExact
      <4> QED
        BY <3>4, <4>2 DEF PixelsAgree
    <3> QED
      BY <3>1, <3>2, <3>3, <3>4 DEF IsInput
  <2> QED
    BY <2>1, <2>2
<1> QED
  BY <1>1, <1>2, <1>3, PTL DEF LibrarySpec

=============================================================================
