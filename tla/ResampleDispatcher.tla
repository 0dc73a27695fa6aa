------------------------- MODULE ResampleDispatcher -------------------------
(***************************************************************************)
(* MainThreadResampleDispatcher: conversion workers ask for one action on  *)
(* the main thread.  A request is admitted under the mutex, but handed to  *)
(* the executor after the mutex is released: until the executor answers,   *)
(* the session may stop, other workers may ask, and the task itself may    *)
(* already run.  The executor is the platform's: it takes a task or        *)
(* refuses it, and runs what it took in any order, also after Stop; that   *)
(* there is one (post_task is not empty) is the caller's business.         *)
(***************************************************************************)
EXTENDS Naturals, FiniteSets

CONSTANTS Workers, MaxRequests

VARIABLES stopped, outstanding, sequence,
          counts,   \* Diagnostics
          asking,   \* per worker: what its Request is doing, and the task it posts
          tasks,    \* the sequences of the tasks the executor holds
          acting    \* the main thread is inside the action

dispatcherVars == <<stopped, outstanding, sequence, counts, asking, tasks, acting>>

Counters == {"requested", "posted", "coalesced", "rejected", "dispatched", "cancelled",
             "stoppedRequests"}
NotAsking == [at |-> "idle", task |-> 0]

Init ==
  /\ stopped = FALSE /\ outstanding = FALSE /\ sequence = 0
  /\ counts = [c \in Counters |-> 0]
  /\ asking = [w \in Workers |-> NotAsking]
  /\ tasks = {} /\ acting = FALSE

Count(c) == [counts EXCEPT !.requested = @ + 1, ![c] = @ + 1]

RequestStopped(w) ==
  /\ stopped
  /\ counts' = Count("stoppedRequests")
  /\ UNCHANGED <<stopped, outstanding, sequence, asking, tasks, acting>>

RequestCoalesced(w) ==
  /\ ~stopped /\ outstanding
  /\ counts' = Count("coalesced")
  /\ UNCHANGED <<stopped, outstanding, sequence, asking, tasks, acting>>

RequestAdmitted(w) ==
  /\ ~stopped /\ ~outstanding
  /\ outstanding' = TRUE
  /\ sequence' = sequence + 1
  /\ counts' = [counts EXCEPT !.requested = @ + 1]
  /\ asking' = [asking EXCEPT ![w] = [at |-> "posting", task |-> sequence + 1]]
  /\ UNCHANGED <<stopped, tasks, acting>>

Request(w) ==
  /\ asking[w] = NotAsking /\ counts.requested < MaxRequests
  /\ RequestStopped(w) \/ RequestCoalesced(w) \/ RequestAdmitted(w)

\* The executor's answer, outside the mutex.
ExecutorAccepts(w) ==
  /\ asking[w].at = "posting"
  /\ asking' = [asking EXCEPT ![w].at = "accepted"]
  /\ tasks' = tasks \cup {asking[w].task}
  /\ UNCHANGED <<stopped, outstanding, sequence, counts, acting>>

ExecutorRefuses(w) ==
  /\ asking[w].at = "posting"
  /\ asking' = [asking EXCEPT ![w].at = "refused"]
  /\ UNCHANGED <<stopped, outstanding, sequence, counts, tasks, acting>>

RequestPosted(w) ==
  /\ asking[w].at = "accepted"
  /\ counts' = [counts EXCEPT !.posted = @ + 1]
  /\ asking' = [asking EXCEPT ![w] = NotAsking]
  /\ UNCHANGED <<stopped, outstanding, sequence, tasks, acting>>

\* Mistaken: the refused request is counted, and the slot kept.
KeepsSlot(w) ==
  /\ asking[w].at = "refused"
  /\ counts' = [counts EXCEPT !.rejected = @ + 1]
  /\ asking' = [asking EXCEPT ![w] = NotAsking]
  /\ UNCHANGED <<stopped, outstanding, sequence, tasks, acting>>

\* A Stop in between has already counted the request as cancelled.
RequestRejected(w) ==
  /\ asking[w].at = "refused"
  /\ IF outstanding /\ sequence = asking[w].task
       THEN outstanding' = FALSE /\ counts' = [counts EXCEPT !.rejected = @ + 1]
       ELSE UNCHANGED <<outstanding, counts>>
  /\ asking' = [asking EXCEPT ![w] = NotAsking]
  /\ UNCHANGED <<stopped, sequence, tasks, acting>>

Stop ==
  /\ ~stopped
  /\ stopped' = TRUE
  /\ outstanding' = FALSE
  /\ counts' = IF outstanding THEN [counts EXCEPT !.cancelled = @ + 1] ELSE counts
  /\ UNCHANGED <<sequence, asking, tasks, acting>>

TaskIsCurrent(t) == ~stopped /\ outstanding /\ sequence = t

RunPostedTask(t) ==
  /\ t \in tasks /\ ~acting
  /\ tasks' = tasks \ {t}
  /\ IF TaskIsCurrent(t)
       THEN /\ outstanding' = FALSE
            /\ counts' = [counts EXCEPT !.dispatched = @ + 1]
            /\ acting' = TRUE
       ELSE UNCHANGED <<outstanding, counts, acting>>
  /\ UNCHANGED <<stopped, sequence, asking>>

ActionReturns ==
  /\ acting
  /\ acting' = FALSE
  /\ UNCHANGED <<stopped, outstanding, sequence, counts, asking, tasks>>

MainThread == ActionReturns \/ \E t \in 1..MaxRequests : RunPostedTask(t)
Answering(w) == ExecutorAccepts(w) \/ ExecutorRefuses(w) \/ RequestPosted(w) \/ RequestRejected(w)
Next == Stop \/ MainThread \/ \E w \in Workers : Request(w) \/ Answering(w)

\* A Request under way returns; the main thread runs what it holds.
Fairness == WF_dispatcherVars(MainThread) /\ \A w \in Workers : WF_dispatcherVars(Answering(w))
Spec == Init /\ [][Next]_dispatcherVars /\ Fairness

-----------------------------------------------------------------------------
DispatcherTypeOK ==
  /\ stopped \in BOOLEAN /\ outstanding \in BOOLEAN /\ acting \in BOOLEAN
  /\ sequence \in Nat /\ counts \in [Counters -> Nat] /\ tasks \in SUBSET Nat
  /\ asking \in [Workers -> [at : {"idle", "posting", "accepted", "refused"}, task : Nat]]

\* Every admitted request ends exactly once: dispatched, cancelled by Stop,
\* refused by the executor, or still outstanding, with a task or a Request that
\* will settle it; no task serves a later request than its own.
AdmittedOnce ==
  /\ sequence = counts.dispatched + counts.cancelled + counts.rejected
                + (IF outstanding THEN 1 ELSE 0)
  /\ outstanding => \/ sequence \in tasks
                    \/ \E w \in Workers : asking[w].task = sequence /\ asking[w].at # "accepted"
=============================================================================
