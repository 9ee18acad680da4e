---------------------------- MODULE RTJLifecycle ----------------------------
(***************************************************************************)
(* The run-attempt lifecycle of one ResumableTrainingJob (RTJ): the        *)
(* reconciler of internal/controller, the API server it writes to with     *)
(* optimistic concurrency, the informer cache it reads from, the child     *)
(* JobSets and their control ConfigMaps, the trainer that polls the        *)
(* control file and writes checkpoints, and the object store the           *)
(* controller reads checkpoints back from.                                 *)
(*                                                                         *)
(* One call of Reconcile is several steps here, cut where the code makes   *)
(* an API or storage call, so users, Kueue, the trainer and crashes act in *)
(* between.  ctl.pc is the call the reconcile makes next:                  *)
(*   "control"  writePauseControl        "observe"  deadline, ObservePause *)
(*   "delete"   cleanupActiveJobSet      "expire"   the same, on timeout   *)
(*   "create"   createRunAttemptResources           "commit" Status.Update *)
(*                                                                         *)
(* Not in this module: finalizer and RTJ deletion, launch gates, DRA,      *)
(* elasticity, priority shaping and the MultiKueue manager mode, all of    *)
(* which are off in the configuration modelled here.                       *)
(***************************************************************************)
EXTENDS Integers, FiniteSets

CONSTANTS
    Idents,       \* values of spec.identity (image, code version): what compatibility compares
    Ident0,       \* the identity the RTJ is created with
    MaxAttempts,  \* bound: run attempts
    MaxCkpts,     \* bound: checkpoints ever started
    MaxClock,     \* bound: seconds that the recorded timestamps tell apart
    MaxUser,      \* bound: spec edits by the user
    MaxKueue,     \* bound: suspensions and admissions by Kueue
    MaxFault      \* bound: crashes, failed calls, restarted or deleted runtimes

ASSUME IdentsAssumption == Ident0 \in Idents
ASSUME BoundsAssumption ==
    /\ MaxAttempts \in Nat \ {0} /\ MaxCkpts \in Nat \ {0} /\ MaxClock \in Nat
    /\ MaxUser \in Nat /\ MaxKueue \in Nat /\ MaxFault \in Nat

Attempts == 1 .. MaxAttempts
Ckpts    == 1 .. MaxCkpts
None     == 0             \* the nil checkpoint, the empty request ID, no attempt

VARIABLES
    rtj,         \* the RTJ in the API server
    seen,        \* the RTJ in the controller's informer cache
    seenFresh,   \* seen has the resourceVersion of rtj
    queued,      \* the RTJ's key is in the work queue
    ctl,         \* the reconcile in progress
    jobSets,     \* child JobSet of each attempt
    controlMaps, \* request ID in the control ConfigMap of each attempt, None for desiredState Running
    trainers,    \* the training process of each attempt
    store,       \* checkpoints in the object store
    markers,     \* yield-complete marker of each attempt
    clock,       \* wall-clock second of the last recorded timestamp
    budget       \* what the environment may still do

vars == <<rtj, seen, seenFresh, queued, ctl, jobSets, controlMaps, trainers, store, markers, clock, budget>>
runtimeVars == <<jobSets, controlMaps, trainers, store, markers>>

-----------------------------------------------------------------------------
\* State

Phases == {"None", "Pending", "Queued", "Starting", "Running", "YieldRequested",
           "Draining", "Paused", "Restoring", "Failed"}

(* An attempt number stands for currentRunAttempt, activeJobSetName and
   activeControlConfigMapName, which the code only ever sets together.  A request ID is
   the attempt it was minted for: an ID is minted at most once per attempt.  observed is
   "observedGeneration = metadata.generation". *)
RTJs == [desired : {"Running", "Paused"}, suspend : BOOLEAN, ident : Idents,
         observed : BOOLEAN, phase : Phases, attempt : 0 .. MaxAttempts,
         pauseRequestID : 0 .. MaxAttempts, yieldRequestedAt : 0 .. MaxClock,
         lastCompleted : 0 .. MaxCkpts, selected : 0 .. MaxCkpts]

PCs == {"idle", "control", "observe", "delete", "expire", "create", "commit"}

(* job is the reconcile's in-memory copy, fresh says that its resourceVersion is still
   the API server's, restore is the checkpoint to launch from. *)
Ctls == [pc : PCs, job : RTJs, fresh : BOOLEAN, restore : 0 .. MaxCkpts]

JobSets == [state : {"absent", "live", "deleting"}, restore : 0 .. MaxCkpts, ident : Idents]

Trainers == [state : {"none", "training", "saving", "saved", "exited", "rejected"},
             req : 0 .. MaxAttempts, ckpt : 0 .. MaxCkpts]

(* attempt = None: the checkpoint ID is unused; manifest: the manifest was uploaded, which
   the SDK does after every artifact. *)
Manifests == [attempt : 0 .. MaxAttempts, ident : Idents, at : 0 .. MaxClock, manifest : BOOLEAN]

YieldMarkers == [req : 0 .. MaxAttempts, ckpt : 0 .. MaxCkpts]

Budgets == [user : 0 .. MaxUser, kueue : 0 .. MaxKueue, fault : 0 .. MaxFault]

TypeOK ==
    /\ rtj \in RTJs
    /\ seen \in RTJs
    /\ seenFresh \in BOOLEAN
    /\ queued \in BOOLEAN
    /\ ctl \in Ctls
    /\ jobSets \in [Attempts -> JobSets]
    /\ controlMaps \in [Attempts -> 0 .. MaxAttempts]
    /\ trainers \in [Attempts -> Trainers]
    /\ store \in [Ckpts -> Manifests]
    /\ markers \in [Attempts -> YieldMarkers]
    /\ clock \in 0 .. MaxClock
    /\ budget \in Budgets

NoTrainer == [state |-> "none", req |-> None, ckpt |-> None]

(* A new RTJ: the webhook's defaulter has suspended it for its queue. *)
NewRTJ(d) ==
    [desired |-> d, suspend |-> TRUE, ident |-> Ident0, observed |-> FALSE, phase |-> "None",
     attempt |-> None, pauseRequestID |-> None, yieldRequestedAt |-> 0,
     lastCompleted |-> None, selected |-> None]

Idle == [pc |-> "idle", job |-> NewRTJ("Running"), fresh |-> FALSE, restore |-> None]

Init ==
    /\ \E d \in {"Running", "Paused"} : rtj = NewRTJ(d)
    /\ seen = rtj /\ seenFresh = TRUE
    /\ queued = TRUE
    /\ ctl = Idle
    /\ jobSets = [a \in Attempts |-> [state |-> "absent", restore |-> None, ident |-> Ident0]]
    /\ controlMaps = [a \in Attempts |-> None]
    /\ trainers = [a \in Attempts |-> NoTrainer]
    /\ store = [c \in Ckpts |-> [attempt |-> None, ident |-> Ident0, at |-> 0, manifest |-> FALSE]]
    /\ markers = [a \in Attempts |-> [req |-> None, ckpt |-> None]]
    /\ clock = 0
    /\ budget = [user |-> MaxUser, kueue |-> MaxKueue, fault |-> MaxFault]

-----------------------------------------------------------------------------
\* Status transitions (status_helpers.go): functions of the in-memory RTJ

SetPhase(j, p) == [j EXCEPT !.phase = p, !.observed = TRUE]

InitializePhase1Status(j) ==
    [j EXCEPT !.phase = IF j.phase = "None" THEN "Pending" ELSE j.phase, !.observed = TRUE]

markPendingPaused(j)      == SetPhase(j, "Pending")
markQueuedForAdmission(j) == SetPhase(j, "Queued")
markRunning(j)            == SetPhase(j, "Running")
markDraining(j)           == SetPhase(j, "Draining")
markPaused(j)             == SetPhase(j, "Paused")
markFailed(j)             == SetPhase(j, "Failed")

(* The pause request ID survives a plain launch. *)
markStarting(j, a) == [SetPhase(j, "Starting") EXCEPT !.attempt = a]

markRestoring(j, a, c) ==
    [SetPhase(j, "Restoring") EXCEPT !.attempt = a, !.pauseRequestID = None, !.selected = c]

(* Mutant: the deadline is stamped where the time of the request belongs. *)
markStopRequested_Deadline(j, now) ==
    [SetPhase(j, "YieldRequested") EXCEPT
        !.pauseRequestID = IF j.pauseRequestID = None THEN j.attempt ELSE j.pauseRequestID,
        !.yieldRequestedAt = now + 1]

(* Mutant: the time of the first request is kept for later ones. *)
markStopRequested_FirstTime(j, now) ==
    [SetPhase(j, "YieldRequested") EXCEPT
        !.pauseRequestID = IF j.pauseRequestID = None THEN j.attempt ELSE j.pauseRequestID,
        !.yieldRequestedAt = IF j.yieldRequestedAt # 0 THEN j.yieldRequestedAt ELSE now]

(* yieldRequestedAt is stamped only on the transition into YieldRequested. *)
markStopRequested(j, now) ==
    [SetPhase(j, "YieldRequested") EXCEPT
        !.pauseRequestID = IF j.pauseRequestID = None THEN j.attempt ELSE j.pauseRequestID,
        !.yieldRequestedAt = IF j.phase = "YieldRequested" THEN j.yieldRequestedAt ELSE now]

(* syncSuspensionStatus stamps currentSuspension.observedAt with the current time, so a
   suspended RTJ, or one held before its first attempt, changes on every pass. *)
SuspensionStamped(j) == j.suspend \/ (j.desired = "Paused" /\ j.attempt = None)

-----------------------------------------------------------------------------
\* The checkpoint catalog (internal/checkpoints)

(* CheckManifestCompatibility on the dimensions a spec edit can change. *)
CheckManifestCompatibility(c, i) == store[c].ident = i

(* Mutant: a checkpoint counts as soon as its upload has begun. *)
SelectLatestCompatible_Unpublished(i) ==
    LET candidates == {c \in Ckpts : store[c].attempt # None /\ CheckManifestCompatibility(c, i)}
    IN  {c \in candidates : \A d \in candidates : c >= d}

(* The candidate with the newest completion time, on a tie with the larger manifest URI:
   a set of one checkpoint, empty if there is no candidate. *)
SelectLatestCompatible(i) ==
    LET candidates == {c \in Ckpts : store[c].manifest /\ CheckManifestCompatibility(c, i)}
        Newer(c, d) == store[c].at > store[d].at \/ (store[c].at = store[d].at /\ c >= d)
    IN  {c \in candidates : \A d \in candidates : Newer(c, d)}

(* ObservePause: the marker of this attempt answers this request, and it and its manifest
   carry a completion time strictly after the request. *)
PauseObserved(j) ==
    LET m == markers[j.attempt] IN
    /\ m.ckpt # None
    /\ m.req = j.pauseRequestID
    /\ store[m.ckpt].manifest
    /\ store[m.ckpt].at > j.yieldRequestedAt

-----------------------------------------------------------------------------
\* Reconcile, part 1: read the cached RTJ, look up its JobSet, choose a branch

(* Mutant: a JobSet counts as active only while its pods run. *)
getActiveJobSet_PodsRunning(j) ==
    j.attempt # None /\ jobSets[j.attempt].state = "live" /\ trainers[j.attempt].state # "exited"

getActiveJobSet(j) == j.attempt # None /\ jobSets[j.attempt].state = "live"

requestedStopSource(j) == getActiveJobSet(j) /\ (j.suspend \/ j.desired # "Running")

StopAlreadyRequested(j) ==
    j.pauseRequestID # None /\ j.phase \in {"YieldRequested", "Draining"}

shouldResume(j) ==
    \/ j.phase = "Restoring" /\ j.selected # None
    \/ j.lastCompleted # None /\ j.phase \in {"Paused", "Queued"}

(* Mutant: every resume reuses the attempt it resumes. *)
TargetAttempt_Reused(j) == IF shouldResume(j) /\ j.attempt # None THEN j.attempt ELSE j.attempt + 1

TargetAttempt(j) == IF j.phase = "Restoring" /\ shouldResume(j) /\ j.attempt # None
                    THEN j.attempt ELSE j.attempt + 1

(* A reconcile starts by taking the key off the queue. *)
Dequeue == ctl.pc = "idle" /\ queued

Go(pc, j, restore) ==
    ctl' = [pc |-> pc, job |-> j, fresh |-> IF ctl.pc = "idle" THEN seenFresh ELSE ctl.fresh,
            restore |-> restore]

Return == ctl' = Idle

(* Status().Update follows if the new status differs from the old one. *)
Changed(old, new) == new # old \/ SuspensionStamped(new)

UpdateIfChanged(old, new) ==
    IF Changed(old, new) THEN Go("commit", new, None) ELSE Return

(* Mutant: the reconcile only asks to be requeued when it wrote something. *)
UpdateOrRequeue_WhenChanged(old, new) == UpdateIfChanged(old, new) /\ UNCHANGED queued

(* The same where the branch asks to be requeued in any case. *)
UpdateOrRequeue(old, new) ==
    IF Changed(old, new) THEN Go("commit", new, None) /\ UNCHANGED queued
                         ELSE Return /\ queued' = TRUE

ReconcileFrame == UNCHANGED <<rtj, seen, seenFresh, runtimeVars>>

InitializeStatus ==
    /\ Dequeue
    /\ seen.phase = "None" \/ ~seen.observed
    /\ Go("commit", InitializePhase1Status(seen), None)
    /\ queued' = FALSE
    /\ ReconcileFrame /\ UNCHANGED <<clock, budget>>

Initialized == Dequeue /\ seen.phase # "None" /\ seen.observed

ensureStopRequested ==
    /\ Initialized
    /\ requestedStopSource(seen)
    /\ ~StopAlreadyRequested(seen)
    /\ clock' \in clock .. clock + 1 /\ clock' <= MaxClock
    /\ Go("commit", markStopRequested(seen, clock'), None)
    /\ queued' = FALSE
    /\ ReconcileFrame /\ UNCHANGED budget

ContinueStopFlow ==
    /\ Initialized
    /\ requestedStopSource(seen)
    /\ StopAlreadyRequested(seen)
    /\ Go("control", seen, None)
    /\ queued' = FALSE
    /\ ReconcileFrame /\ UNCHANGED <<clock, budget>>

(* Mutant: a paused RTJ is held without asking whether its JobSet is gone. *)
reconcileManualHold_Unchecked ==
    /\ Initialized
    /\ seen.desired # "Running"
    /\ UpdateIfChanged(seen, markPendingPaused(seen))
    /\ queued' = FALSE
    /\ ReconcileFrame /\ UNCHANGED <<clock, budget>>

reconcileManualHold ==
    /\ Initialized
    /\ ~getActiveJobSet(seen)
    /\ seen.desired # "Running"
    /\ IF seen.lastCompleted # None /\ seen.pauseRequestID # None
       THEN UpdateIfChanged(seen, markPaused(seen))
       ELSE IF seen.phase = "Failed" THEN Return
       ELSE UpdateIfChanged(seen, markPendingPaused(seen))
    /\ queued' = FALSE
    /\ ReconcileFrame /\ UNCHANGED <<clock, budget>>

DeferUntilAdmitted ==
    /\ Initialized
    /\ ~getActiveJobSet(seen)
    /\ seen.desired = "Running" /\ seen.suspend
    /\ UpdateIfChanged(seen, markQueuedForAdmission(seen))
    /\ queued' = FALSE
    /\ ReconcileFrame /\ UNCHANGED <<clock, budget>>

ObserveActive ==
    /\ Initialized
    /\ getActiveJobSet(seen)
    /\ seen.desired = "Running" /\ ~seen.suspend
    /\ UpdateIfChanged(seen, markRunning(seen))
    /\ queued' = FALSE
    /\ ReconcileFrame /\ UNCHANGED <<clock, budget>>

Launchable(j) == ~getActiveJobSet(j) /\ j.desired = "Running" /\ ~j.suspend

reconcileLaunch ==
    /\ Initialized
    /\ Launchable(seen)
    /\ ~shouldResume(seen)
    /\ TargetAttempt(seen) <= MaxAttempts
    /\ Go("create", seen, seen.selected)
    /\ queued' = FALSE
    /\ ReconcileFrame /\ UNCHANGED <<clock, budget>>

(* A restore already recorded keeps its checkpoint; otherwise the catalog chooses. *)
resumeCheckpointForAttempt(j) ==
    IF j.phase = "Restoring" /\ j.selected # None THEN {j.selected}
    ELSE SelectLatestCompatible(j.ident)

reconcileResume ==
    /\ Initialized
    /\ Launchable(seen)
    /\ shouldResume(seen)
    /\ \/ /\ resumeCheckpointForAttempt(seen) = {}
          /\ UpdateIfChanged(seen, markFailed(seen))
       \/ /\ TargetAttempt(seen) <= MaxAttempts
          /\ \E c \in resumeCheckpointForAttempt(seen) : Go("create", seen, c)
    /\ queued' = FALSE
    /\ ReconcileFrame /\ UNCHANGED <<clock, budget>>

-----------------------------------------------------------------------------
\* Reconcile, part 2: the calls a branch makes

writePauseControl ==
    /\ ctl.pc = "control"
    /\ controlMaps' = [controlMaps EXCEPT ![ctl.job.attempt] = ctl.job.pauseRequestID]
    /\ Go("observe", ctl.job, None)
    /\ UNCHANGED <<rtj, seen, seenFresh, queued, jobSets, trainers, store, markers, clock, budget>>

(* maxDrainTime has passed since yieldRequestedAt: any pass may be the one that sees it. *)
DrainTimedOut ==
    /\ ctl.pc = "observe"
    /\ Go("expire", ctl.job, None)
    /\ ReconcileFrame /\ UNCHANGED <<queued, clock, budget>>

ObserveNotReady ==
    /\ ctl.pc = "observe"
    /\ ~PauseObserved(ctl.job)
    /\ UpdateOrRequeue(ctl.job, markDraining(ctl.job))
    /\ ReconcileFrame /\ UNCHANGED <<clock, budget>>

ObserveRecord ==
    /\ ctl.pc = "observe"
    /\ PauseObserved(ctl.job)
    /\ LET c == markers[ctl.job.attempt].ckpt IN
       /\ ctl.job.lastCompleted # c
       /\ Go("commit", [ctl.job EXCEPT !.lastCompleted = c, !.selected = c], None)
    /\ ReconcileFrame /\ UNCHANGED <<queued, clock, budget>>

(* Mutant: the JobSet is deleted as soon as the marker is seen. *)
ObserveComplete_Unrecorded ==
    /\ ctl.pc = "observe"
    /\ PauseObserved(ctl.job)
    /\ Go("delete", ctl.job, None)
    /\ ReconcileFrame /\ UNCHANGED <<queued, clock, budget>>

ObserveComplete ==
    /\ ctl.pc = "observe"
    /\ PauseObserved(ctl.job)
    /\ ctl.job.lastCompleted = markers[ctl.job.attempt].ckpt
    /\ Go("delete", ctl.job, None)
    /\ ReconcileFrame /\ UNCHANGED <<queued, clock, budget>>

(* The Delete call; on the timeout path the RTJ is then marked Failed. *)
cleanupActiveJobSet ==
    /\ ctl.pc \in {"delete", "expire"}
    /\ jobSets' = [jobSets EXCEPT ![ctl.job.attempt].state = IF @ = "live" THEN "deleting" ELSE @]
    /\ IF ctl.pc = "expire"
       THEN Go("commit", markFailed(ctl.job), None) /\ UNCHANGED queued
       ELSE Return /\ queued' = TRUE
    /\ UNCHANGED <<rtj, seen, seenFresh, controlMaps, trainers, store, markers, clock, budget>>

(* A trainer checks the manifest it restores from against its own identity and exits with
   an error if they differ (_validate_restore_manifest). *)
StartTrainer(restore, i) ==
    [NoTrainer EXCEPT !.state = IF restore # None /\ store[restore].ident # i
                                THEN "rejected" ELSE "training"]

(* createIfMissing for the JobSet: nothing happens if an object of that name exists, which
   one that is being deleted does. *)
createIfMissing(a, restore, i) ==
    IF jobSets[a].state = "absent"
    THEN /\ jobSets' = [jobSets EXCEPT ![a] = [state |-> "live", restore |-> restore, ident |-> i]]
         /\ trainers' = [trainers EXCEPT ![a] = StartTrainer(restore, i)]
    ELSE UNCHANGED <<jobSets, trainers>>

(* The control ConfigMap, then the JobSet, then the status that records them.  A ConfigMap
   that does not exist yet is not told apart from one that says Running. *)
createRunAttemptResources ==
    /\ ctl.pc = "create"
    /\ LET j == ctl.job
           a == TargetAttempt(j)
       IN  /\ createIfMissing(a, ctl.restore, j.ident)
           /\ UpdateOrRequeue(j, IF shouldResume(j) THEN markRestoring(j, a, ctl.restore)
                                 ELSE markStarting(j, a))
    /\ UNCHANGED <<rtj, seen, seenFresh, controlMaps, store, markers, clock, budget>>

(* The API server accepts the write if the resourceVersion is current.  The watch event
   that follows, or the requeue the branch asked for, puts the key back. *)
StatusUpdate ==
    /\ ctl.pc = "commit"
    /\ ctl.fresh
    /\ rtj' = ctl.job
    /\ seenFresh' = FALSE
    /\ queued' = TRUE
    /\ Return
    /\ UNCHANGED <<seen, runtimeVars, clock, budget>>

(* A conflict: the reconcile returns the error and is retried. *)
StatusConflict ==
    /\ ctl.pc = "commit"
    /\ ~ctl.fresh
    /\ queued' = TRUE
    /\ Return
    /\ ReconcileFrame /\ UNCHANGED <<clock, budget>>

-----------------------------------------------------------------------------
\* Failures of the controller's calls, and of the controller

Spend(kind) == budget[kind] > 0 /\ budget' = [budget EXCEPT ![kind] = @ - 1]

(* failLaunch: a failed lookup, control write, observation, selection or creation marks the
   RTJ Failed, whatever is running, and returns an error, so the key is retried. *)
failLaunch ==
    /\ \/ Initialized /\ Go("commit", markFailed(seen), None) /\ queued' = FALSE
       \/ /\ ctl.pc \in {"control", "observe", "create"}
          /\ Go("commit", markFailed(ctl.job), None) /\ UNCHANGED queued
    /\ Spend("fault")
    /\ ReconcileFrame /\ UNCHANGED clock

(* The JobSet is created, but the call times out and the launch is taken for failed. *)
CreateReplyLost ==
    /\ ctl.pc = "create"
    /\ createIfMissing(TargetAttempt(ctl.job), ctl.restore, ctl.job.ident)
    /\ Go("commit", markFailed(ctl.job), None)
    /\ Spend("fault")
    /\ UNCHANGED <<rtj, seen, seenFresh, queued, controlMaps, store, markers, clock>>

(* Mutant: the error is swallowed, so nothing retries the key. *)
CallFails_Swallowed ==
    /\ ctl.pc \in {"commit", "delete", "expire"}
    /\ Spend("fault")
    /\ Return
    /\ ReconcileFrame /\ UNCHANGED <<queued, clock>>

(* Status().Update or Delete fails without effect. *)
CallFails ==
    /\ ctl.pc \in {"commit", "delete", "expire"}
    /\ Spend("fault")
    /\ queued' = TRUE
    /\ Return
    /\ ReconcileFrame /\ UNCHANGED clock

(* The operator restarts: the reconcile is forgotten, the cache is listed anew. *)
Crash ==
    /\ Spend("fault")
    /\ Return
    /\ seen' = rtj /\ seenFresh' = TRUE /\ queued' = TRUE
    /\ UNCHANGED <<rtj, runtimeVars, clock>>

(* The informer receives the current RTJ and enqueues its key. *)
Deliver ==
    /\ ~seenFresh
    /\ seen' = rtj /\ seenFresh' = TRUE /\ queued' = TRUE
    /\ UNCHANGED <<rtj, ctl, runtimeVars, clock, budget>>

-----------------------------------------------------------------------------
\* Writers of the RTJ spec

SpecWrite(new) ==
    /\ rtj' = [new EXCEPT !.observed = FALSE]
    /\ seenFresh' = FALSE
    /\ ctl' = [ctl EXCEPT !.fresh = FALSE]
    /\ UNCHANGED <<seen, queued, runtimeVars, clock>>

UserSetDesiredState ==
    /\ Spend("user")
    /\ \E d \in {"Running", "Paused"} \ {rtj.desired} : SpecWrite([rtj EXCEPT !.desired = d])

(* No webhook keeps spec.identity from changing. *)
UserEditIdentity ==
    /\ Spend("user")
    /\ \E i \in Idents \ {rtj.ident} : SpecWrite([rtj EXCEPT !.ident = i])

(* RTJGenericJob.IsActive and Finished, which Kueue asks before it acts. *)
IsActive(j) == j.phase \in {"Starting", "Running", "YieldRequested", "Draining", "Restoring"}
Finished(j) == j.phase = "Failed"

KueueSuspend ==
    /\ Spend("kueue")
    /\ ~rtj.suspend
    /\ SpecWrite([rtj EXCEPT !.suspend = TRUE])

(* Kueue readmits once the job is no longer active, and never a finished one. *)
KueueRunWithPodSetsInfo ==
    /\ Spend("kueue")
    /\ rtj.suspend /\ ~IsActive(rtj) /\ ~Finished(rtj)
    /\ SpecWrite([rtj EXCEPT !.suspend = FALSE])

-----------------------------------------------------------------------------
\* The runtime: JobSets and the trainer (fixtures/pytorch_ddp_counter, yield_sdk)

RuntimeFrame == UNCHANGED <<rtj, seen, seenFresh, queued, ctl>>

(* Foreground or background deletion has removed the pods and the object. *)
JobSetGone(a) ==
    /\ jobSets[a].state = "deleting"
    /\ jobSets' = [jobSets EXCEPT ![a].state = "absent", ![a].restore = None]
    /\ trainers' = [trainers EXCEPT ![a] = NoTrainer]
    /\ RuntimeFrame /\ UNCHANGED <<controlMaps, store, markers, clock, budget>>

(* Someone else deletes the JobSet.  The controller does not watch JobSets. *)
JobSetDeletedExternally(a) ==
    /\ jobSets[a].state = "live"
    /\ Spend("fault")
    /\ jobSets' = [jobSets EXCEPT ![a].state = "deleting"]
    /\ RuntimeFrame /\ UNCHANGED <<controlMaps, trainers, store, markers, clock>>

(* save_checkpoint begins: periodically (no request), or because the control file asks the
   trainer to yield; the request ID is the one read then. *)
StartSave(a, req) ==
    /\ trainers[a].state = "training"
    /\ req = None \/ req = controlMaps[a]
    /\ \E c \in Ckpts :
        /\ \A d \in Ckpts : store[d].attempt = None <=> d >= c
        /\ store' = [store EXCEPT ![c] = [attempt |-> a, ident |-> jobSets[a].ident,
                                          at |-> 0, manifest |-> FALSE]]
        /\ trainers' = [trainers EXCEPT ![a] = [state |-> "saving", req |-> req, ckpt |-> c]]
    /\ RuntimeFrame /\ UNCHANGED <<jobSets, controlMaps, markers, clock, budget>>

(* Every artifact is uploaded; the manifest, with its completion timestamp, comes last. *)
PublishManifest(a) ==
    /\ trainers[a].state = "saving"
    /\ clock' \in clock .. clock + 1 /\ clock' <= MaxClock
    /\ store' = [store EXCEPT ![trainers[a].ckpt].manifest = TRUE, ![trainers[a].ckpt].at = clock']
    /\ trainers' = [trainers EXCEPT ![a] =
            IF @.req = None THEN [NoTrainer EXCEPT !.state = "training"]
            ELSE [@ EXCEPT !.state = "saved"]]
    /\ RuntimeFrame /\ UNCHANGED <<jobSets, controlMaps, markers, budget>>

(* The yield marker names the checkpoint and the request; then the trainer exits. *)
PublishMarker(a) ==
    /\ trainers[a].state = "saved"
    /\ markers' = [markers EXCEPT ![a] = [req |-> trainers[a].req, ckpt |-> trainers[a].ckpt]]
    /\ trainers' = [trainers EXCEPT ![a].state = "exited"]
    /\ RuntimeFrame /\ UNCHANGED <<jobSets, controlMaps, store, clock, budget>>

(* The last step is done: the trainer exits without having yielded. *)
TrainingComplete(a) ==
    /\ trainers[a].state = "training"
    /\ trainers' = [trainers EXCEPT ![a].state = "exited"]
    /\ RuntimeFrame /\ UNCHANGED <<jobSets, controlMaps, store, markers, clock, budget>>

(* A pod fails and the JobSet restarts it from the checkpoint it was created with. *)
TrainerRestarts(a) ==
    /\ trainers[a].state \in {"training", "saving", "saved"}
    /\ jobSets[a].state = "live"
    /\ Spend("fault")
    /\ trainers' = [trainers EXCEPT ![a] = StartTrainer(jobSets[a].restore, jobSets[a].ident)]
    /\ RuntimeFrame /\ UNCHANGED <<jobSets, controlMaps, store, markers, clock>>

-----------------------------------------------------------------------------
Reconcile ==
    \/ InitializeStatus \/ ensureStopRequested \/ ContinueStopFlow
    \/ reconcileManualHold \/ DeferUntilAdmitted \/ ObserveActive
    \/ reconcileLaunch \/ reconcileResume
    \/ writePauseControl \/ ObserveNotReady \/ ObserveRecord \/ ObserveComplete
    \/ cleanupActiveJobSet \/ createRunAttemptResources
    \/ StatusUpdate \/ StatusConflict

Trainer(a) ==
    \/ StartSave(a, None)
    \/ controlMaps[a] # None /\ StartSave(a, controlMaps[a])
    \/ PublishManifest(a) \/ PublishMarker(a) \/ TrainingComplete(a)

Next ==
    \/ Reconcile \/ DrainTimedOut \/ Deliver
    \/ failLaunch \/ CreateReplyLost \/ CallFails \/ Crash
    \/ UserSetDesiredState \/ UserEditIdentity \/ KueueSuspend \/ KueueRunWithPodSetsInfo
    \/ \E a \in Attempts : \/ Trainer(a) \/ TrainerRestarts(a)
                           \/ JobSetGone(a) \/ JobSetDeletedExternally(a)

Spec == Init /\ [][Next]_vars

(* The work queue retries, the informer delivers, and time passes: a request that is
   observed again and again is eventually past its deadline. *)
Fairness == WF_vars(Reconcile) /\ WF_vars(Deliver) /\ SF_vars(DrainTimedOut)

FairSpec == Spec /\ Fairness

-----------------------------------------------------------------------------
Live(a) == jobSets[a].state = "live"

(* At most one JobSet of the RTJ runs at any time, through retries, conflicts, stale cache
   reads, restarts and calls whose reply is lost. *)
SingleLiveJobSet == \A a, b \in Attempts : Live(a) /\ Live(b) => a = b

(* A runtime is never told to restore from a checkpoint whose manifest is not published. *)
ResumeFromComplete ==
    \A a \in Attempts : jobSets[a].restore # None => store[jobSets[a].restore].manifest

(* While the RTJ is reported Pending, Queued or Paused - the phases in which Kueue may give
   its quota away - the JobSet its status names does not run. *)
HeldPhaseTracksNoRuntime ==
    rtj.phase \in {"Pending", "Queued", "Paused"} => ~getActiveJobSet(rtj)

(* The controller deletes a running JobSet outside the timeout path only when the API
   server already holds, as lastCompletedCheckpoint, a complete checkpoint that this very
   attempt published after the stop was requested. *)
DeleteOnlyRecorded ==
    [][\A a \in Attempts :
        ctl.pc = "delete" /\ ctl' # ctl /\ Live(a) /\ jobSets'[a].state = "deleting" =>
            /\ rtj.attempt = a
            /\ rtj.lastCompleted # None
            /\ store[rtj.lastCompleted].manifest
            /\ store[rtj.lastCompleted].attempt = a
            /\ store[rtj.lastCompleted].at > rtj.yieldRequestedAt]_vars

(* lastCompletedCheckpoint only ever moves to a checkpoint completed later. *)
LastCompletedAdvances ==
    [][rtj'.lastCompleted # rtj.lastCompleted /\ rtj.lastCompleted # None =>
        rtj'.lastCompleted # None /\ store[rtj'.lastCompleted].at > store[rtj.lastCompleted].at]_vars

(* A new runtime never starts on a control ConfigMap that still carries a stop request. *)
NoInheritedStop ==
    [][\A a \in Attempts : ~Live(a) /\ jobSets'[a].state = "live" => controlMaps[a] = None]_vars

StopWanted(j) == j.suspend \/ j.desired # "Running"

(* A recorded runtime that Kueue or the user wants stopped is not left running forever:
   it is drained, or it is deleted at the deadline. *)
StopCompletes == []<>~(getActiveJobSet(rtj) /\ StopWanted(rtj))

(* An admitted RTJ that is wanted does not stay in a phase that waits for admission or
   resume: no conflict, crash or failed call loses the wake-up. *)
AdmittedLeavesQueue ==
    []<>~(/\ Launchable(rtj) /\ rtj.attempt < MaxAttempts
          /\ rtj.phase \in {"Pending", "Queued", "Paused"})

-----------------------------------------------------------------------------
(* Why SingleLiveJobSet, HeldPhaseTracksNoRuntime and NoInheritedStop hold: what the
   versions of the RTJ that the controller may act on - the cached one and the one a
   reconcile holds - can differ in from the API server's, and which JobSets can run. *)

LiveSet == {a \in Attempts : Live(a)}

(* A reconcile of this version would recreate the JobSet of the recorded attempt. *)
Reuse(j) == j.phase = "Restoring" /\ j.selected # None /\ j.attempt # None

Wanted(j) == j.desired = "Running" /\ ~j.suspend

HeldPhases == {"Pending", "Queued", "Paused"}

(* j is an older version of k or k itself.  At most one recorded launch lies between them;
   an attempt is a restore from its first version on or never. *)
Older(j, k) ==
    \/ /\ j.attempt = k.attempt
       /\ Reuse(k) => Reuse(j)
       /\ Reuse(j) /\ k.phase \in HeldPhases => ~Wanted(j)
    \/ /\ j.attempt + 1 = k.attempt
       /\ ~Reuse(j)
       /\ k.phase \in {"Starting", "Restoring"}

(* If acting on j can recreate the recorded attempt, then the next one does not run and the
   recorded one was never asked to stop. *)
SafeToRecreate(j) ==
    j.attempt # rtj.attempt \/ Reuse(j) =>
        /\ rtj.attempt + 1 \notin LiveSet
        /\ rtj.attempt # None => controlMaps[rtj.attempt] = None

Mid  == {"control", "observe", "delete", "expire", "create"}
Stop == {"control", "observe", "delete", "expire"}

CacheInv ==
    /\ seenFresh => seen = rtj
    /\ ctl.fresh => ctl.pc # "idle" /\ seenFresh
    /\ Older(seen, rtj)
    /\ SafeToRecreate(seen)

RuntimeInv ==
    /\ LiveSet \subseteq {rtj.attempt, rtj.attempt + 1}
    /\ ~(rtj.attempt \in LiveSet /\ rtj.attempt + 1 \in LiveSet)
    /\ rtj.phase \in HeldPhases => rtj.attempt \notin LiveSet
    /\ rtj.phase = "None" => rtj.attempt = None
    /\ \A a \in Attempts : controlMaps[a] # None => a <= rtj.attempt
    /\ SafeToRecreate(rtj)

MidInv ==
    ctl.pc \in Mid =>
        /\ Older(ctl.job, seen)
        /\ Older(ctl.job, rtj)
        /\ ctl.fresh => ctl.job = rtj

StopInv ==
    ctl.pc \in Stop => ctl.job.attempt # None /\ ctl.job.phase \in {"YieldRequested", "Draining"}

CreateInv ==
    ctl.pc = "create" =>
        /\ TargetAttempt(ctl.job) <= MaxAttempts
        /\ shouldResume(ctl.job) => ctl.restore # None
        /\ ctl.job.attempt \notin LiveSet
        /\ Wanted(ctl.job)
        /\ SafeToRecreate(ctl.job)

CommitInv ==
    ctl.pc = "commit" /\ ctl.fresh =>
        /\ \/ /\ ctl.job.attempt = rtj.attempt
              /\ Reuse(ctl.job) => Reuse(rtj)
              /\ Reuse(rtj) /\ ctl.job.phase \in HeldPhases => ~Wanted(rtj)
           \/ /\ ctl.job.attempt = rtj.attempt + 1
              /\ ~Reuse(rtj)
              /\ ctl.job.phase \in {"Starting", "Restoring"}
              /\ rtj.attempt \notin LiveSet
        /\ ctl.job.phase \in HeldPhases => ctl.job.attempt \notin LiveSet
        /\ ctl.job.phase # "None"

Coherent == CacheInv /\ RuntimeInv /\ MidInv /\ StopInv /\ CreateInv /\ CommitInv

(* The inductive invariant of the lifecycle: the cache and the reconcile in progress lag
   behind the API server by at most one launch, and the running JobSet, if any, is the
   recorded attempt's or the next one's. *)
IInv == TypeOK /\ Coherent
=============================================================================
