--------------------------- MODULE SleepImageManager ---------------------------
(***************************************************************************)
(* Neo2SleepImageManagerService, the system server's owner of the sleep    *)
(* image, between four parties: the power controller of the default        *)
(* display, which announces that it will turn off; the display listener,   *)
(* through which the manager learns that it did, or turned on again; the   *)
(* catalog provider, an application process that answers one-way requests; *)
(* and SurfaceFlinger (module SleepSession).                               *)
(*                                                                         *)
(* Every manager action is one hold of mStateLock.  Requests carry a       *)
(* generation, and every event that makes an answer worthless increments   *)
(* mRequestGeneration; as the code only ever compares the two, a request   *)
(* and its answer carry `current` here, which such an event clears.        *)
(* A catalog is what the provider built: [store, mode], the store     *)
(* generation it read and the mode it was asked for.  Of the modes, keep   *)
(* shows no sleep image; the cover mode differs from image only in what    *)
(* the provider builds.                                                    *)
(***************************************************************************)
EXTENDS SleepSession, Sequences

CONSTANTS
  SleepModes,      \* sleep image modes in use, a subset of AllSleepModes
  PromptListener,  \* TRUE: every edge of the display is observed in time
  MaxStore,        \* bound: changes of the provider's store
  MaxOffs,         \* bound: requests to turn the display off
  MaxUpsets        \* bound: mode and property changes, losses, deaths, restarts

AllSleepModes == {"keep", "image", "overlay"}

ASSUME ManagerAssumption ==
  /\ SleepModes \subseteq AllSleepModes /\ "image" \in SleepModes
  /\ PromptListener \in BOOLEAN
  /\ {MaxStore, MaxOffs, MaxUpsets} \subseteq Nat

VARIABLES
  target, reported, display, powerOffPending,  \* the power controller
  mDefaultDisplayState,        \* the state the listener observed last
  mScreenOff, mSleepPresentationRequested,
  guard,                       \* mPowerOffGuard: none, settling, elapsed
  setting,                     \* Settings.Global neo2_sleep_image_mode
  mSleepImageMode,
  mEpoch,
  mRequestInFlight, mRequestsThisConnection,
  mUserAvailable, mProvider,   \* mProvider # null and its uid resolved
  mPendingStoreGeneration,     \* of mPendingRefreshCallback, 0 without one
  mRetainedCatalog,
  worker,                      \* the handler thread: "idle", or about to "request"
  alive,                       \* the provider process
  store,                       \* the generation of its store
  requests, answers,           \* one-way calls and posted callbacks, in order
  refused,                     \* history: since the last wake the provider had no
                               \* catalog, or the screen was turning off when the
                               \* manager had a request to make or an answer to take
  restarts,                    \* history: restarts of the system server
  offs, upsets

powerVars == <<target, reported, display, powerOffPending, offs>>
screenVars == <<mScreenOff, mSleepPresentationRequested, guard>>
modeVars == <<setting, mSleepImageMode>>
requestVars == <<mRequestInFlight, mRequestsThisConnection, requests, answers>>
linkVars == <<mUserAvailable, mProvider>>
refreshVars == <<mPendingStoreGeneration>>
providerVars == <<alive, store>>
historyVars == <<refused, restarts, upsets>>
managerVars == <<screenVars, modeVars, mEpoch, requestVars, linkVars, refreshVars,
                 mRetainedCatalog, worker, mDefaultDisplayState>>
vars == <<sessionVars, powerVars, managerVars, providerVars, historyVars>>

MAXIMUM_REQUESTS_PER_CONNECTION == 2

Init ==
  /\ SessionInit
  /\ target = "on" /\ reported = "on" /\ display = "on" /\ powerOffPending = FALSE
  /\ mDefaultDisplayState = "on"
  /\ mScreenOff = FALSE /\ mSleepPresentationRequested = FALSE /\ guard = "none"
  /\ setting = "image" /\ mSleepImageMode = "image"
  /\ mEpoch = 0
  /\ mRequestInFlight = FALSE /\ mRequestsThisConnection = 0
  /\ mUserAvailable = FALSE /\ mProvider = FALSE
  /\ mPendingStoreGeneration = 0
  /\ mRetainedCatalog = NoCatalog
  /\ worker = "idle"
  /\ alive = FALSE /\ store = 1 /\ requests = <<>> /\ answers = <<>>
  /\ refused = FALSE /\ restarts = 0 /\ offs = 0 /\ upsets = 0

Upset == upsets < MaxUpsets /\ upsets' = upsets + 1

(* Mistakes the code could make, never part of the specification. *)
NeverRetries == FALSE
WithdrawsNothing == FALSE

----------------------------------------------------------------------------
(* Requests to the provider.  These are expressions and conditions of the  *)
(* actions below.                                                          *)

MayRequest(off, sent) ==
  /\ ~off /\ mUserAvailable /\ mProvider
  /\ sent < MAXIMUM_REQUESTS_PER_CONNECTION

Outdated(queue) == [i \in DOMAIN queue |-> [queue[i] EXCEPT !.current = FALSE]]

\* requestRetainedCatalog when nothing is in flight and `sent` requests have
\* been made on this connection: a new generation.  A call to a dead provider
\* fails at once.
RequestAfter(sent, mode) ==
  /\ mRequestsThisConnection' = sent + 1
  /\ mRequestInFlight' = alive
  /\ requests' = IF alive THEN Append(Outdated(requests), [current |-> TRUE, mode |-> mode])
                 ELSE Outdated(requests)
  /\ answers' = Outdated(answers)

\* What every event does that makes the answers underway worthless.
Invalidate ==
  /\ mRequestInFlight' = FALSE /\ mRequestsThisConnection' = 0
  /\ requests' = Outdated(requests) /\ answers' = Outdated(answers)

\* The same, followed by a request if one may be made.
InvalidateAndRequest(off, mode) ==
  IF MayRequest(off, 0) THEN RequestAfter(0, mode) ELSE Invalidate

----------------------------------------------------------------------------
(* The power intent, on the power controller's thread *)

NextEpoch == mEpoch + 1

SessionMode == IF mSleepImageMode = "overlay" THEN "overlay" ELSE "opaque"

\* sendCatalog of the retained catalog, under the next epoch.
Republish(retained) ==
  /\ mEpoch' = NextEpoch
  /\ PublishSleepImageCatalog(mEpoch', [images |-> retained, mode |-> SessionMode])

ShowsImage == mSleepImageMode # "keep"

\* beginScreenOffLocked, on a manager that does not think the screen is off.
Begin ==
  /\ mScreenOff' = TRUE
  /\ IF ShowsImage
     THEN /\ mSleepPresentationRequested' = PresentAccepted(mEpoch)
          /\ guard' = IF PresentAccepted(mEpoch) THEN "settling" ELSE guard
          /\ PresentSleepImage(mEpoch)
     ELSE /\ mSleepPresentationRequested' = FALSE
          /\ DisarmSleepCycle(mEpoch)
          /\ UNCHANGED guard

\* What ending the screen-off state does to the presentation it requested.
Withdraws == mSleepPresentationRequested

Withdraw ==
  /\ IF Withdraws THEN DisarmSleepCycle(mEpoch) ELSE UNCHANGED latchVars
  /\ mSleepPresentationRequested' = FALSE
  /\ guard' = "none"
  /\ mScreenOff' = FALSE

\* cancelScreenOffLocked: no OFF edge will follow, so the epoch just consumed
\* is renewed from the retained catalog, without asking the provider.
Cancel ==
  IF mScreenOff
  THEN /\ Withdraw
       /\ IF mSleepPresentationRequested /\ mRetainedCatalog # NoCatalog
          THEN Republish(mRetainedCatalog)
          ELSE UNCHANGED <<mEpoch, catalogVars>>
  ELSE UNCHANGED <<screenVars, mEpoch, catalogVars, latchVars>>

\* Left alone by every action of the power controller.
PowerRest == UNCHANGED <<setupVars, armed, modeVars, requestVars, linkVars, refreshVars,
                         mRetainedCatalog, worker, mDefaultDisplayState, providerVars,
                         historyVars>>

RequestOff ==
  /\ target = "on" /\ display = "on" /\ reported = "on"
  /\ offs < MaxOffs
  /\ offs' = offs + 1
  /\ target' = "off"
  /\ UNCHANGED <<reported, display, powerOffPending, screenVars, mEpoch, catalogVars, latchVars>>
  /\ PowerRest

\* animateScreenStateChange: a quick wake cancels a power-off still settling.
RequestOn ==
  /\ target = "off"
  /\ target' = "on"
  /\ powerOffPending' = FALSE
  /\ IF powerOffPending THEN Cancel
     ELSE UNCHANGED <<screenVars, mEpoch, catalogVars, latchVars>>
  /\ UNCHANGED <<reported, display, offs>>
  /\ PowerRest

\* The listener of a prompt instance has observed the display's last edge.
Observed == PromptListener => mDefaultDisplayState = display

\* The display is powered off unless the panel is given time to settle.
PowerOff(settling) ==
  /\ powerOffPending' = settling
  /\ display' = IF settling THEN display ELSE "off"
  /\ reported' = IF settling THEN "turning_off" ELSE "off"
  /\ UNCHANGED <<target, offs>>

\* setScreenState(OFF), first with the handoff to the manager, then again when
\* the settling delay is over.
TurnOff ==
  /\ target = "off" /\ display = "on" /\ reported = "on"
  /\ Observed
  /\ IF mScreenOff THEN UNCHANGED <<screenVars, latchVars>> ELSE Begin
  /\ PowerOff(guard' = "settling")
  /\ UNCHANGED <<mEpoch, catalogVars>>
  /\ PowerRest

RetryOff ==
  /\ target = "off" /\ powerOffPending
  /\ guard # "settling"
  /\ PowerOff(FALSE)
  /\ UNCHANGED <<screenVars, mEpoch, catalogVars, latchVars>>
  /\ PowerRest

GuardElapses ==
  /\ guard = "settling"
  /\ guard' = "elapsed"
  /\ UNCHANGED <<mScreenOff, mSleepPresentationRequested, mEpoch, catalogVars, latchVars,
                 powerVars>>
  /\ PowerRest

\* setScreenState(ON): the intent was abandoned before OFF, or the display
\* comes back.
AbandonOff ==
  /\ target = "on" /\ reported = "turning_off"
  /\ reported' = "off"
  /\ Cancel
  /\ UNCHANGED <<target, display, powerOffPending, offs>>
  /\ PowerRest

TurnOn ==
  /\ target = "on" /\ reported = "off"
  /\ Observed
  /\ reported' = "on" /\ display' = "on"
  /\ UNCHANGED <<target, powerOffPending, offs, screenVars, mEpoch, catalogVars, latchVars>>
  /\ PowerRest

Power == RequestOff \/ RequestOn \/ TurnOff \/ RetryOff \/ GuardElapses \/ AbandonOff \/ TurnOn

----------------------------------------------------------------------------
(* The manager's handler thread *)

HandlerFree == worker = "idle"

HandlerRest == UNCHANGED <<sessionVars, powerVars, historyVars, alive, store>>

\* For a request the screen's state may forbid.
AskingRest ==
  /\ refused' = (refused \/ mScreenOff)
  /\ UNCHANGED <<sessionVars, powerVars, restarts, upsets, alive, store>>

\* observeDefaultDisplayState on an OFF edge: reconcileScreenOffLocked.
ObserveOff ==
  /\ HandlerFree
  /\ display = "off" /\ mDefaultDisplayState = "on"
  /\ mDefaultDisplayState' = "off"
  /\ mScreenOff' = TRUE
  /\ UNCHANGED <<mSleepPresentationRequested, guard, modeVars, mEpoch, requestVars, linkVars,
                 refreshVars, mRetainedCatalog, worker>>
  /\ HandlerRest

\* On an ON edge: handleScreenOnLocked.  The catalog is requested after the
\* lock is released.
ObserveOn ==
  /\ HandlerFree
  /\ display = "on" /\ mDefaultDisplayState = "off"
  /\ mDefaultDisplayState' = "on"
  /\ IF mScreenOff
     THEN Withdraw /\ Invalidate /\ worker' = "request" /\ refused' = FALSE
     ELSE UNCHANGED <<screenVars, latchVars, requestVars, worker, refused>>
  /\ UNCHANGED <<modeVars, mEpoch, linkVars, refreshVars, mRetainedCatalog,
                 catalogVars, setupVars, armed, powerVars, restarts, upsets, alive, store>>

WorkerRequest ==
  /\ worker = "request"
  /\ worker' = "idle"
  /\ IF MayRequest(mScreenOff, mRequestsThisConnection) /\ ~mRequestInFlight
     THEN /\ RequestAfter(mRequestsThisConnection, mSleepImageMode)
          /\ mPendingStoreGeneration' = IF alive THEN mPendingStoreGeneration ELSE 0
     ELSE UNCHANGED <<requestVars, mPendingStoreGeneration>>
  /\ UNCHANGED <<screenVars, modeVars, mEpoch, linkVars, mRetainedCatalog,
                 mDefaultDisplayState>>
  /\ AskingRest

\* ACTION_USER_UNLOCKED: the provider is bound, and started if it is not.
UserUnlocked ==
  /\ HandlerFree /\ ~mUserAvailable
  /\ mUserAvailable' = TRUE
  /\ UNCHANGED <<screenVars, modeVars, mEpoch, requestVars, mProvider, refreshVars,
                 mRetainedCatalog, worker, mDefaultDisplayState>>
  /\ HandlerRest

ServiceConnected ==
  /\ HandlerFree /\ mUserAvailable /\ alive /\ ~mProvider
  /\ mProvider' = TRUE
  /\ IF mScreenOff \/ mRequestInFlight
     THEN /\ mRequestsThisConnection' = 0
          /\ UNCHANGED <<mRequestInFlight, requests, answers>>
     ELSE RequestAfter(0, mSleepImageMode)
  /\ UNCHANGED <<screenVars, modeVars, mEpoch, mUserAvailable, refreshVars, mRetainedCatalog,
                 worker, mDefaultDisplayState>>
  /\ AskingRest

ServiceDisconnected ==
  /\ HandlerFree /\ mProvider /\ ~alive
  /\ mProvider' = FALSE
  /\ Invalidate
  /\ mPendingStoreGeneration' = 0
  /\ UNCHANGED <<screenVars, modeVars, mEpoch, mUserAvailable, mRetainedCatalog, worker,
                 mDefaultDisplayState>>
  /\ HandlerRest

\* The content observer: a catalog built for another mode is dropped here, but
\* not in SurfaceFlinger.
RefreshSleepImageMode ==
  /\ HandlerFree
  /\ setting # mSleepImageMode
  /\ mSleepImageMode' = setting
  /\ mRetainedCatalog' = NoCatalog
  /\ IF setting = "keep" THEN Invalidate ELSE InvalidateAndRequest(mScreenOff, setting)
  /\ mPendingStoreGeneration' = IF setting # "keep" /\ MayRequest(mScreenOff, 0) /\ ~alive
                                THEN 0 ELSE mPendingStoreGeneration
  /\ UNCHANGED <<screenVars, setting, mEpoch, linkVars, worker, mDefaultDisplayState>>
  /\ AskingRest

Retries == MayRequest(mScreenOff, mRequestsThisConnection)

\* handleRequestTimeout: one more request, until the connection has had two.
\* The timeout of an earlier generation returns at once and is not a step.  One
\* that beats the answer underway, a provider slower than 5 s, is an upset.
Underway == \E queue \in {requests, answers} : \E i \in DOMAIN queue : queue[i].current

RequestTimeout ==
  /\ HandlerFree /\ mRequestInFlight
  /\ refused' = (refused \/ mScreenOff)
  /\ IF Underway THEN Upset ELSE UNCHANGED upsets
  /\ IF Retries
     THEN /\ RequestAfter(mRequestsThisConnection, mSleepImageMode)
          /\ mPendingStoreGeneration' = IF alive THEN mPendingStoreGeneration ELSE 0
     ELSE /\ mRequestInFlight' = FALSE
          /\ mPendingStoreGeneration' = 0
          /\ UNCHANGED <<mRequestsThisConnection, requests, answers>>
  /\ UNCHANGED <<screenVars, modeVars, mEpoch, linkVars, mRetainedCatalog, worker,
                 mDefaultDisplayState, sessionVars, powerVars, restarts, alive, store>>

\* handleProviderCallback.  While a refresh is pending, only an answer built
\* from the store generation that asked for it is taken.
Wanted(answer) ==
  /\ answer.result = "ok"
  /\ mPendingStoreGeneration \in {0, answer.catalog.store}

Retain(catalog) ==
  /\ mRetainedCatalog' = catalog
  /\ IF ShowsImage THEN Republish(catalog) ELSE UNCHANGED <<mEpoch, catalogVars>>

Drop == UNCHANGED <<mRetainedCatalog, mEpoch, catalogVars>>

ProviderCallback ==
  /\ HandlerFree
  /\ answers # <<>>
  /\ answers' = Tail(answers)
  /\ IF Head(answers).current
     THEN /\ mRequestInFlight' = FALSE
          /\ mPendingStoreGeneration' = 0
          /\ refused' = (refused \/ mScreenOff)
          /\ IF ~mScreenOff /\ Wanted(Head(answers)) THEN Retain(Head(answers).catalog) ELSE Drop
     ELSE /\ Drop
          /\ UNCHANGED <<mRequestInFlight, mPendingStoreGeneration, refused>>
  /\ UNCHANGED <<screenVars, modeVars, mRequestsThisConnection, linkVars,
                 worker, mDefaultDisplayState, requests, latchVars, setupVars, armed,
                 powerVars, restarts, upsets, alive, store>>

Handler ==
  \/ ObserveOff \/ ObserveOn \/ WorkerRequest \/ UserUnlocked \/ ServiceConnected
  \/ ServiceDisconnected \/ RefreshSleepImageMode \/ RequestTimeout \/ ProviderCallback

----------------------------------------------------------------------------
(* The provider, and who uses it *)

OutsideRest == UNCHANGED <<sessionVars, powerVars, screenVars, mSleepImageMode, mEpoch, linkVars,
                           mRetainedCatalog, worker, mDefaultDisplayState>>

\* Bound with BIND_AUTO_CREATE: started, and restarted when it dies.
ProviderStarts ==
  /\ mUserAvailable /\ ~alive /\ ~mProvider
  /\ alive' = TRUE
  /\ UNCHANGED <<store, setting, requestVars, refreshVars, historyVars>>
  /\ OutsideRest

\* The requests it had not answered die with it.
ProviderDies ==
  /\ alive /\ Upset
  /\ alive' = FALSE /\ requests' = <<>>
  /\ UNCHANGED <<store, answers, setting, mRequestInFlight, mRequestsThisConnection,
                 refreshVars, refused, restarts>>
  /\ OutsideRest

Results == {"ok", "unavailable", "lost"}

\* publishResult on the provider's worker.  An answer that is malformed, or
\* without images, is "unavailable" to the manager; one whose transaction
\* fails, or which the manager refuses because its provider is gone, is lost.
ProviderAnswers(result) ==
  /\ alive /\ requests # <<>>
  /\ IF result = "ok" THEN UNCHANGED upsets ELSE Upset
  /\ refused' = (refused \/ result = "unavailable")
  /\ requests' = Tail(requests)
  /\ answers' = IF result = "lost" \/ ~mProvider THEN answers
                ELSE Append(answers,
                       [current |-> Head(requests).current, result |-> result,
                        catalog |-> [store |-> store, mode |-> Head(requests).mode]])
  /\ UNCHANGED <<alive, store, setting, mRequestInFlight, mRequestsThisConnection,
                 refreshVars, restarts>>
  /\ OutsideRest

\* A commit on the provider's worker, followed by its CONTROL_REFRESH_CATALOG
\* call.  A pending refresh is answered before it is replaced.
CommitAndRefresh ==
  /\ alive /\ store < MaxStore
  /\ store' = store + 1
  /\ IF ~mScreenOff /\ mUserAvailable /\ mProvider
     THEN /\ mPendingStoreGeneration' = store'
          /\ InvalidateAndRequest(mScreenOff, mSleepImageMode)
     ELSE UNCHANGED <<mPendingStoreGeneration, requestVars>>
  /\ UNCHANGED <<alive, setting, historyVars>>
  /\ OutsideRest

SetMode(mode) ==
  /\ mode # setting /\ Upset
  /\ setting' = mode
  /\ UNCHANGED <<providerVars, requestVars, refreshVars, refused, restarts>>
  /\ OutsideRest

\* The system server dies: everything of the manager and of the power
\* controller is lost, the settings and SurfaceFlinger survive.
SystemServerRestarts ==
  /\ Upset /\ restarts = 0 /\ mEpoch > 0
  /\ restarts' = 1
  /\ target' = "on" /\ reported' = "on" /\ display' = "on" /\ powerOffPending' = FALSE
  /\ mDefaultDisplayState' = "on"
  /\ mScreenOff' = FALSE /\ mSleepPresentationRequested' = FALSE /\ guard' = "none"
  /\ mSleepImageMode' = setting
  /\ mEpoch' = 0
  /\ mRequestInFlight' = FALSE /\ mRequestsThisConnection' = 0
  /\ mUserAvailable' = FALSE /\ mProvider' = FALSE
  /\ mPendingStoreGeneration' = 0 /\ mRetainedCatalog' = NoCatalog /\ worker' = "idle"
  /\ requests' = <<>> /\ answers' = <<>>
  /\ UNCHANGED <<sessionVars, offs, setting, alive, store, refused>>

SurfaceFlinger ==
  /\ display = "on" /\ Composition
  /\ UNCHANGED <<powerVars, managerVars, providerVars, historyVars>>

PropertyChanges ==
  /\ IF armed THEN Upset ELSE UNCHANGED upsets
  /\ SetProperty
  /\ UNCHANGED <<powerVars, managerVars, providerVars, refused, restarts>>

Outside ==
  \/ ProviderStarts \/ ProviderDies \/ (\E result \in Results : ProviderAnswers(result))
  \/ CommitAndRefresh \/ (\E mode \in SleepModes : SetMode(mode))
  \/ SystemServerRestarts \/ SurfaceFlinger \/ PropertyChanges

Next == Power \/ Handler \/ Outside

Spec == Init /\ [][Next]_vars

\* The threads of the system server and SurfaceFlinger run, the delay elapses,
\* a bound provider is started and answers.
FairSpec ==
  /\ Spec
  /\ WF_vars(Handler)
  /\ WF_vars(TurnOff \/ RetryOff \/ GuardElapses \/ AbandonOff \/ TurnOn)
  /\ WF_vars(ProviderStarts)
  /\ WF_vars(\E result \in Results : ProviderAnswers(result))

----------------------------------------------------------------------------
(* Properties *)

Catalogs == [store : 1..MaxStore, mode : SleepModes]
Published == [images : Catalogs, mode : {"opaque", "overlay"}]

\* Every variable holds a value of its type.
TypeOK ==
  /\ {armed, enabled, background, powerOffPending, mScreenOff,
      mSleepPresentationRequested, mRequestInFlight, mUserAvailable, mProvider, alive,
      refused} \subseteq BOOLEAN
  /\ setup \in {"none", "published", "running", "failed"}
  /\ {catalog_epoch, pipe_epoch, last_armed_epoch, active_epoch, mEpoch, mRequestsThisConnection,
      mPendingStoreGeneration, restarts, offs, upsets} \subseteq Nat
  /\ pipe_catalog \in Published \cup {NoCatalog}
  /\ panel \in Published \cup {Page}
  /\ {pending.catalog, replay.catalog} \subseteq Published \cup {NoCatalog}
  /\ {target, display, mDefaultDisplayState} \subseteq {"on", "off"}
  /\ reported \in {"on", "turning_off", "off"}
  /\ guard \in {"none", "settling", "elapsed"}
  /\ {setting, mSleepImageMode} \subseteq SleepModes
  /\ mRetainedCatalog \in Catalogs \cup {NoCatalog}
  /\ worker \in {"idle", "request"} /\ store \in 1..MaxStore

\* A system server that has not restarted.
Unbroken == restarts = 0

\* While a cycle is active in SurfaceFlinger, which then shows no page, the
\* manager knows the epoch it has to disarm and that it has to.
ActiveIsOwed ==
  Unbroken /\ active_epoch # 0 =>
    mScreenOff /\ mSleepPresentationRequested /\ active_epoch = mEpoch

\* A sleep image comes from the catalog the manager retains, if it retains
\* one: never from one the application has replaced since.
ShownIsRetained ==
  [][ active_epoch = 0 /\ active_epoch' # 0 /\ Unbroken /\ mRetainedCatalog # NoCatalog
      => panel'.images = mRetainedCatalog ]_vars

\* The catalog is renewed: with the screen on, the provider connected and a
\* mode that shows images, the next screen-off has an epoch of its own, or
\* the provider refused.  One lost answer does not prevent it.
CatalogRenewed ==
  (~mScreenOff /\ mProvider /\ Unbroken /\ mSleepImageMode # "keep") ~>
    \/ mEpoch > last_armed_epoch /\ mRetainedCatalog # NoCatalog
    \/ mScreenOff \/ ~mProvider \/ ~Unbroken \/ mSleepImageMode = "keep"
    \/ refused

\* Once the listener has seen the display off, turning it on gives the panel
\* back to the pages.
WakeReleasesPanel ==
  (mDefaultDisplayState = "off" /\ display = "on" /\ Unbroken) ~>
    (active_epoch = 0 \/ target = "off" \/ ~Unbroken)
=============================================================================
