-------------------------- MODULE CheckpointProofs --------------------------
(* Which checkpoints the lifecycle trusts.  Three facts carry the proofs: a published checkpoint
   and a yield marker never change again; every version of the RTJ that the controller holds
   names published checkpoints only; and the API server is at most one status write ahead of
   the version a reconcile works on. *)
EXTENDS RTJLifecycleProofs

USE IdentsAssumption, BoundsAssumption

-----------------------------------------------------------------------------
\* The inductive invariant

(* What a trainer has begun to save is its own and not published yet; a marker is the last thing
   an attempt writes, and only an attempt that was asked to stop writes one. *)
SavedInv ==
    /\ \A c \in Ckpts : store[c].manifest => store[c].attempt # None /\ store[c].at <= clock
    /\ \A a \in Attempts : trainers[a].state \in {"saving", "saved"} =>
        /\ trainers[a].ckpt # None
        /\ store[trainers[a].ckpt].attempt = a
        /\ store[trainers[a].ckpt].manifest <=> trainers[a].state = "saved"
        /\ trainers[a].state = "saved" => trainers[a].req # None
        /\ trainers[a].req # None => controlMaps[a] # None
    /\ \A a \in Attempts : markers[a].ckpt # None =>
        /\ store[markers[a].ckpt].manifest /\ store[markers[a].ckpt].attempt = a
        /\ trainers[a].state \in {"none", "exited"}
        /\ controlMaps[a] # None

Published(c, st) == c # None => st[c].manifest

(* The checkpoints of a version of the RTJ are published in the store st.  While it is being
   stopped, the last one is older than the request or is the answer to it. *)
Sound(j, st, marks) ==
    /\ Published(j.selected, st) /\ Published(j.lastCompleted, st)
    /\ j.phase \in {"YieldRequested", "Draining"} =>
        /\ j.attempt # None /\ j.pauseRequestID # None
        /\ j.lastCompleted # None => \/ st[j.lastCompleted].at <= j.yieldRequestedAt
                                     \/ marks[j.attempt].ckpt = j.lastCompleted

(* What one status write may make of version j. *)
Follows(j, k, st, marks) ==
    /\ \/ k.lastCompleted = j.lastCompleted
       \/ /\ k.lastCompleted # None /\ k.attempt # None
          /\ marks[k.attempt].ckpt = k.lastCompleted
          /\ j.lastCompleted # None => st[k.lastCompleted].at > st[j.lastCompleted].at
    /\ StopAlreadyRequested(j) /\ k.attempt = j.attempt => k.yieldRequestedAt = j.yieldRequestedAt

VersionsInv ==
    /\ Sound(rtj, store, markers) /\ Sound(seen, store, markers)
    /\ Follows(seen, rtj, store, markers)

RestoresInv == \A a \in Attempts : Published(jobSets[a].restore, store)

(* The same of the reconcile in progress; it deletes only what it has seen recorded. *)
HeldInv ==
    /\ Sound(ctl.job, store, markers) /\ Published(ctl.restore, store)
    /\ ctl.pc \in Mid => Follows(ctl.job, rtj, store, markers)
    /\ ctl.pc = "commit" /\ ctl.fresh => Follows(rtj, ctl.job, store, markers)
    /\ ctl.pc \in Stop => StopAlreadyRequested(ctl.job)
    /\ ctl.pc = "delete" => /\ PauseObserved(ctl.job)
                            /\ ctl.job.lastCompleted = markers[ctl.job.attempt].ckpt

CkptInv == SavedInv /\ VersionsInv /\ RestoresInv /\ HeldInv

-----------------------------------------------------------------------------
\* Checkpoints and markers

(* Once published, a checkpoint is not written again, nor is a marker. *)
Stable ==
    /\ \A c \in Ckpts : store[c].manifest => store'[c] = store[c]
    /\ \A a \in Attempts : markers[a].ckpt # None => markers'[a] = markers[a]

(* The steps that concern trainers, checkpoints, markers and control ConfigMaps. *)
LEMMA StorageCases ==
  ASSUME IInv, [Next]_vars
  PROVE  \/ UNCHANGED <<controlMaps, trainers, store, markers>> /\ clock <= clock'
         \/ writePauseControl
         \/ /\ ctl.pc = "create" /\ createIfMissing(TargetAttempt(ctl.job), ctl.restore, ctl.job.ident)
            /\ UNCHANGED <<controlMaps, store, markers, clock>>
         \/ \E a \in Attempts :
                \/ JobSetGone(a) \/ TrainerRestarts(a)
                \/ StartSave(a, None) \/ (controlMaps[a] # None /\ StartSave(a, controlMaps[a]))
                \/ PublishManifest(a) \/ PublishMarker(a) \/ TrainingComplete(a)
<1>0. clock \in Nat
  BY DEF IInv, TypeOK
<1>1. CASE InitializeStatus \/ ContinueStopFlow \/ reconcileManualHold \/ DeferUntilAdmitted
           \/ ObserveActive \/ reconcileLaunch \/ reconcileResume \/ ObserveNotReady
           \/ ObserveRecord \/ ObserveComplete \/ DrainTimedOut \/ StatusUpdate \/ StatusConflict
  <2>1. ReconcileFrame \/ UNCHANGED runtimeVars
    BY <1>1 DEF InitializeStatus, ContinueStopFlow, reconcileManualHold, DeferUntilAdmitted, ObserveActive,
       reconcileLaunch, reconcileResume, ObserveNotReady, ObserveRecord, ObserveComplete, DrainTimedOut,
       StatusUpdate, StatusConflict
  <2>2. UNCHANGED clock
    BY <1>1 DEF InitializeStatus, ContinueStopFlow, reconcileManualHold, DeferUntilAdmitted, ObserveActive,
       reconcileLaunch, reconcileResume, ObserveNotReady, ObserveRecord, ObserveComplete, DrainTimedOut,
       StatusUpdate, StatusConflict
  <2> QED
    BY <1>0, <2>1, <2>2 DEF ReconcileFrame, runtimeVars
<1>2. CASE ensureStopRequested
  BY <1>0, <1>2 DEF ensureStopRequested, ReconcileFrame, runtimeVars
<1>3. CASE failLaunch \/ CallFails \/ Crash \/ Deliver \/ cleanupActiveJobSet
  BY <1>0, <1>3 DEF failLaunch, CallFails, Crash, Deliver, cleanupActiveJobSet, ReconcileFrame, runtimeVars
<1>4. CASE UserSetDesiredState \/ UserEditIdentity \/ KueueSuspend \/ KueueRunWithPodSetsInfo
  <2>1. \E new : SpecWrite(new)
    BY <1>4 DEF UserSetDesiredState, UserEditIdentity, KueueSuspend, KueueRunWithPodSetsInfo
  <2> QED
    BY <1>0, <2>1 DEF SpecWrite, runtimeVars
<1>5. CASE createRunAttemptResources \/ CreateReplyLost
  BY <1>5 DEF createRunAttemptResources, CreateReplyLost
<1>6. ASSUME NEW a \in Attempts, JobSetDeletedExternally(a)
      PROVE  UNCHANGED <<controlMaps, trainers, store, markers>> /\ clock <= clock'
  BY <1>0, <1>6 DEF JobSetDeletedExternally
<1>7. CASE UNCHANGED vars
  BY <1>0, <1>7 DEF vars
<1> QED
  BY <1>1, <1>2, <1>3, <1>4, <1>5, <1>6, <1>7 DEF Next, Reconcile, Trainer

(* A JobSet is only ever started while its control ConfigMap asks for nothing. *)
LEMMA StartIsFresh ==
  ASSUME IInv, ctl.pc = "create"
  PROVE  /\ TargetAttempt(ctl.job) \in Attempts
         /\ controlMaps[TargetAttempt(ctl.job)] = None
<1> DEFINE a == TargetAttempt(ctl.job)
<1>1. a \in Attempts /\ (a # rtj.attempt + 1 => controlMaps[a] = None)
  BY CreateCases
<1>2. CASE a = rtj.attempt + 1
  BY <1>1, <1>2 DEF IInv, Coherent, RuntimeInv, TypeOK, RTJs
<1> QED
  BY <1>1, <1>2

LEMMA SavedStep ==
  ASSUME IInv, SavedInv, HeldInv, [Next]_vars
  PROVE  SavedInv' /\ Stable
<1> USE DEF None
<1>0. /\ trainers \in [Attempts -> Trainers] /\ store \in [Ckpts -> Manifests]
      /\ markers \in [Attempts -> YieldMarkers] /\ controlMaps \in [Attempts -> 0 .. MaxAttempts]
      /\ clock \in Nat
  BY DEF IInv, TypeOK
<1>a. \A a \in Attempts : trainers[a].ckpt # 0 => trainers[a].ckpt \in Ckpts
  BY <1>0 DEF Trainers, Ckpts
<1>b. \A a \in Attempts : markers[a].ckpt # 0 => markers[a].ckpt \in Ckpts
  BY <1>0 DEF YieldMarkers, Ckpts
<1>c. \A c \in Ckpts : store[c].at \in Nat
  BY <1>0 DEF Manifests
<1>1. CASE UNCHANGED <<controlMaps, trainers, store, markers>> /\ clock <= clock'
  <2>1. clock' \in Nat
    BY NextInv DEF IInv, TypeOK
  <2> QED
    BY <1>0, <1>1, <1>c, <2>1 DEF SavedInv, Stable
<1>2. CASE writePauseControl
  <2>1. ctl.job.pauseRequestID # 0 /\ UNCHANGED <<trainers, store, markers, clock>>
        /\ controlMaps' = [controlMaps EXCEPT ![ctl.job.attempt] = ctl.job.pauseRequestID]
    BY <1>2 DEF writePauseControl, HeldInv, Stop, StopAlreadyRequested
  <2>2. \A a \in Attempts : controlMaps[a] # 0 => controlMaps'[a] # 0
    BY <1>0, <2>1
  <2> QED
    BY <2>1, <2>2 DEF SavedInv, Stable
<1>3. CASE ctl.pc = "create" /\ createIfMissing(TargetAttempt(ctl.job), ctl.restore, ctl.job.ident)
           /\ UNCHANGED <<controlMaps, store, markers, clock>>
  <2> DEFINE b == TargetAttempt(ctl.job)
  <2>1. b \in Attempts /\ controlMaps[b] = 0
    BY <1>3, StartIsFresh
  <2>2. \A a \in Attempts : trainers'[a] = trainers[a] \/ (a = b /\ trainers'[a].state \in {"training", "rejected"})
    BY <1>0, <1>3, <2>1 DEF createIfMissing, StartTrainer, NoTrainer
  <2>3. \A a \in Attempts : markers[a].ckpt # 0 => a # b
    BY <2>1 DEF SavedInv
  <2> HIDE DEF b
  <2> QED
    BY <1>3, <2>2, <2>3 DEF SavedInv, Stable
<1>4. ASSUME NEW b \in Attempts, JobSetGone(b) \/ TrainingComplete(b) \/ TrainerRestarts(b)
      PROVE  SavedInv' /\ Stable
  <2>1. UNCHANGED <<controlMaps, store, markers, clock>>
    BY <1>4 DEF JobSetGone, TrainingComplete, TrainerRestarts
  <2>2. \A a \in Attempts : trainers'[a] = trainers[a] \/ (a = b /\ trainers'[a].state \notin {"saving", "saved"})
    BY <1>0, <1>4 DEF JobSetGone, TrainingComplete, TrainerRestarts, NoTrainer, StartTrainer, Trainers
  <2>3. markers[b].ckpt # 0 => trainers'[b].state \in {"none", "exited"}
    BY <1>0, <1>4 DEF JobSetGone, TrainingComplete, TrainerRestarts, NoTrainer, Trainers, SavedInv
  <2> QED
    BY <2>1, <2>2, <2>3 DEF SavedInv, Stable
<1>5. ASSUME NEW b \in Attempts, NEW req \in 0 .. MaxAttempts, StartSave(b, req), req # 0 => controlMaps[b] # 0
      PROVE  SavedInv' /\ Stable
  <2>1. PICK c \in Ckpts :
           /\ \A d \in Ckpts : store[d].attempt = 0 <=> d >= c
           /\ store' = [store EXCEPT ![c] = [attempt |-> b, ident |-> jobSets[b].ident,
                                             at |-> 0, manifest |-> FALSE]]
           /\ trainers' = [trainers EXCEPT ![b] = [state |-> "saving", req |-> req, ckpt |-> c]]
    BY <1>5 DEF StartSave
  <2>2. UNCHANGED <<controlMaps, markers, clock>> /\ trainers[b].state = "training"
    BY <1>5 DEF StartSave
  <2>a. store[c].attempt = 0 /\ c # 0 /\ b # 0
    <3>1. c \in Nat /\ c >= c
      BY DEF Ckpts
    <3> QED
      BY <2>1, <3>1 DEF Ckpts, Attempts
  <2>3. ~store[c].manifest
    BY <2>a DEF SavedInv
  <2>4. \A d \in Ckpts : d # c => store'[d] = store[d]
    BY <1>0, <2>1
  <2>5. store'[c].attempt = b /\ ~store'[c].manifest
    BY <1>0, <2>1
  <2>6. Stable
    BY <2>2, <2>3, <2>4 DEF Stable
  <2>7. trainers'[b].state = "saving" /\ trainers'[b].req = req /\ trainers'[b].ckpt = c
    BY <1>0, <2>1
  <2>8. \A a \in Attempts : a # b => trainers'[a] = trainers[a]
    BY <1>0, <2>1
  <2>9. \A a \in Attempts : a # b /\ trainers[a].state \in {"saving", "saved"} =>
           trainers[a].ckpt # c /\ store'[trainers[a].ckpt] = store[trainers[a].ckpt]
    BY <1>a, <2>a, <2>4 DEF SavedInv, Attempts
  <2>10. \A a \in Attempts : markers[a].ckpt # 0 => a # b /\ store'[markers[a].ckpt] = store[markers[a].ckpt]
    BY <1>b, <2>2, <2>3, <2>4 DEF SavedInv
  <2>11. \A d \in Ckpts : store'[d].manifest => store'[d].attempt # 0 /\ store'[d].at <= clock'
    BY <2>2, <2>a, <2>4, <2>5 DEF SavedInv
  <2>12. \A a \in Attempts : trainers'[a].state \in {"saving", "saved"} =>
        /\ trainers'[a].ckpt # 0
        /\ store'[trainers'[a].ckpt].attempt = a
        /\ store'[trainers'[a].ckpt].manifest <=> trainers'[a].state = "saved"
        /\ trainers'[a].state = "saved" => trainers'[a].req # 0
        /\ trainers'[a].req # 0 => controlMaps'[a] # 0
    BY <1>5, <2>2, <2>a, <2>5, <2>7, <2>8, <2>9 DEF SavedInv
  <2>13. \A a \in Attempts : markers'[a].ckpt # 0 =>
        /\ store'[markers'[a].ckpt].manifest /\ store'[markers'[a].ckpt].attempt = a
        /\ trainers'[a].state \in {"none", "exited"}
        /\ controlMaps'[a] # 0
    BY <2>2, <2>8, <2>10 DEF SavedInv
  <2> QED
    BY <2>6, <2>11, <2>12, <2>13 DEF SavedInv
<1>6. ASSUME NEW b \in Attempts, PublishManifest(b)
      PROVE  SavedInv' /\ Stable
  <2> DEFINE c == trainers[b].ckpt
  <2>1. /\ UNCHANGED <<controlMaps, markers>> /\ trainers[b].state = "saving"
        /\ clock' \in Nat /\ clock <= clock'
        /\ store' = [store EXCEPT ![c].manifest = TRUE, ![c].at = clock']
        /\ trainers' = [trainers EXCEPT ![b] = IF @.req = None THEN [NoTrainer EXCEPT !.state = "training"]
                                               ELSE [@ EXCEPT !.state = "saved"]]
    BY <1>0, <1>6 DEF PublishManifest
  <2>2. c \in Ckpts /\ c # 0 /\ ~store[c].manifest /\ store[c].attempt = b /\ b # 0
    BY <1>a, <2>1 DEF SavedInv, Attempts
  <2>13. c = trainers[b].ckpt
    OBVIOUS
  <2> HIDE DEF c
  <2>3. \A d \in Ckpts : d # c => store'[d] = store[d]
    BY <1>0, <2>1
  <2>4. store'[c].attempt = b /\ store'[c].manifest /\ store'[c].at = clock'
    BY <1>0, <2>1, <2>2 DEF Manifests
  <2>5. Stable
    BY <2>1, <2>2, <2>3 DEF Stable
  <2>6. \A a \in Attempts : a # b => trainers'[a] = trainers[a]
    BY <1>0, <2>1
  <2>7. \/ trainers'[b].state = "training"
        \/ trainers[b].req # 0 /\ trainers'[b].state = "saved" /\ trainers'[b].req = trainers[b].req
           /\ trainers'[b].ckpt = trainers[b].ckpt
    BY <1>0, <2>1 DEF NoTrainer, Trainers
  <2>8. \A a \in Attempts : a # b /\ trainers[a].state \in {"saving", "saved"} =>
           store'[trainers[a].ckpt] = store[trainers[a].ckpt]
    BY <1>a, <2>2, <2>3 DEF SavedInv
  <2>9. \A a \in Attempts : markers[a].ckpt # 0 => a # b /\ store'[markers[a].ckpt] = store[markers[a].ckpt]
    BY <1>b, <2>1, <2>2, <2>3 DEF SavedInv
  <2>10. \A d \in Ckpts : store'[d].manifest => store'[d].attempt # 0 /\ store'[d].at <= clock'
    BY <1>0, <1>c, <2>1, <2>2, <2>3, <2>4 DEF SavedInv
  <2>11. \A a \in Attempts : trainers'[a].state \in {"saving", "saved"} =>
        /\ trainers'[a].ckpt # 0
        /\ store'[trainers'[a].ckpt].attempt = a
        /\ store'[trainers'[a].ckpt].manifest <=> trainers'[a].state = "saved"
        /\ trainers'[a].state = "saved" => trainers'[a].req # 0
        /\ trainers'[a].req # 0 => controlMaps'[a] # 0
    <3> TAKE a \in Attempts
    <3>1. CASE a = b
      <4> SUFFICES ASSUME trainers'[b].state = "saved", trainers[b].req # 0,
                          trainers'[b].req = trainers[b].req, trainers'[b].ckpt = c
                   PROVE  c # 0 /\ store'[c].attempt = b /\ store'[c].manifest /\ controlMaps[b] # 0
        BY <2>1, <2>7, <2>13, <3>1
      <4> QED
        BY <2>1, <2>2, <2>4 DEF SavedInv
    <3>2. CASE a # b
      <4> SUFFICES ASSUME trainers[a].state \in {"saving", "saved"}
                   PROVE  /\ trainers[a].ckpt # 0
                          /\ store[trainers[a].ckpt].attempt = a
                          /\ store[trainers[a].ckpt].manifest <=> trainers[a].state = "saved"
                          /\ trainers[a].state = "saved" => trainers[a].req # 0
                          /\ trainers[a].req # 0 => controlMaps[a] # 0
        BY <2>1, <2>6, <2>8, <3>2
      <4> QED
        BY DEF SavedInv
    <3> QED
      BY <3>1, <3>2
  <2>12. \A a \in Attempts : markers'[a].ckpt # 0 =>
        /\ store'[markers'[a].ckpt].manifest /\ store'[markers'[a].ckpt].attempt = a
        /\ trainers'[a].state \in {"none", "exited"}
        /\ controlMaps'[a] # 0
    <3> SUFFICES ASSUME NEW a \in Attempts, markers[a].ckpt # 0
                 PROVE  /\ store'[markers[a].ckpt].manifest /\ store'[markers[a].ckpt].attempt = a
                        /\ trainers'[a].state \in {"none", "exited"}
                        /\ controlMaps[a] # 0
      BY <2>1
    <3>1. a # b /\ store'[markers[a].ckpt] = store[markers[a].ckpt] /\ trainers'[a] = trainers[a]
      BY <2>6, <2>9
    <3> QED
      BY <3>1 DEF SavedInv
  <2> QED
    BY <2>5, <2>10, <2>11, <2>12 DEF SavedInv
<1>7. ASSUME NEW b \in Attempts, PublishMarker(b)
      PROVE  SavedInv' /\ Stable
  <2>1. /\ UNCHANGED <<controlMaps, store, clock>> /\ trainers[b].state = "saved"
        /\ markers' = [markers EXCEPT ![b] = [req |-> trainers[b].req, ckpt |-> trainers[b].ckpt]]
        /\ trainers' = [trainers EXCEPT ![b].state = "exited"]
    BY <1>7 DEF PublishMarker
  <2>2. markers[b].ckpt = 0 /\ markers'[b].ckpt = trainers[b].ckpt /\ trainers'[b].state = "exited"
    BY <1>0, <2>1 DEF SavedInv, Trainers
  <2>3. \A a \in Attempts : a # b => markers'[a] = markers[a] /\ trainers'[a] = trainers[a]
    BY <1>0, <2>1
  <2> QED
    BY <2>1, <2>2, <2>3 DEF SavedInv, Stable
<1>8. \A b \in Attempts : StartSave(b, None) => SavedInv' /\ Stable
  <2>1. None \in 0 .. MaxAttempts
    OBVIOUS
  <2> QED
    BY <1>5, <2>1
<1>9. \A b \in Attempts : controlMaps[b] # None /\ StartSave(b, controlMaps[b]) => SavedInv' /\ Stable
  <2>1. \A b \in Attempts : controlMaps[b] \in 0 .. MaxAttempts
    BY <1>0
  <2> QED
    BY <1>5, <2>1
<1> QED
  BY <1>1, <1>2, <1>3, <1>4, <1>6, <1>7, <1>8, <1>9, StorageCases

-----------------------------------------------------------------------------
\* Versions of the RTJ

LEMMA SoundStable ==
  ASSUME IInv, Stable, NEW j \in RTJs, Sound(j, store, markers)
  PROVE  Sound(j, store', markers')
<1>1. /\ j.selected # None => j.selected \in Ckpts
      /\ j.lastCompleted # None => j.lastCompleted \in Ckpts
      /\ j.attempt # None => j.attempt \in Attempts
  BY DEF RTJs, Ckpts, Attempts, None
<1>2. Published(j.selected, store') /\ Published(j.lastCompleted, store')
  BY <1>1 DEF Sound, Published, Stable
<1>3. j.lastCompleted # None => store'[j.lastCompleted] = store[j.lastCompleted]
  BY <1>1 DEF Sound, Published, Stable
<1>4. j.lastCompleted # None /\ j.attempt # None /\ markers[j.attempt].ckpt = j.lastCompleted =>
         markers'[j.attempt] = markers[j.attempt]
  BY <1>1 DEF Stable
<1> QED
  BY <1>2, <1>3, <1>4 DEF Sound

LEMMA FollowsStable ==
  ASSUME IInv, Stable, NEW j \in RTJs, NEW k \in RTJs,
         Sound(j, store, markers), Sound(k, store, markers), Follows(j, k, store, markers)
  PROVE  Follows(j, k, store', markers')
<1>1. /\ j.lastCompleted # None => j.lastCompleted \in Ckpts
      /\ k.lastCompleted # None => k.lastCompleted \in Ckpts
      /\ k.attempt # None => k.attempt \in Attempts
  BY DEF RTJs, Ckpts, Attempts, None
<1>2. /\ j.lastCompleted # None => store'[j.lastCompleted] = store[j.lastCompleted]
      /\ k.lastCompleted # None => store'[k.lastCompleted] = store[k.lastCompleted]
  BY <1>1 DEF Sound, Published, Stable
<1>3. k.lastCompleted # None /\ k.attempt # None /\ markers[k.attempt].ckpt = k.lastCompleted =>
         markers'[k.attempt] = markers[k.attempt]
  BY <1>1 DEF Stable
<1> QED
  BY <1>2, <1>3 DEF Follows

(* A version that keeps the checkpoints and the request of another, and is being stopped only if
   that one is. *)
LEMMA SameRequest ==
  ASSUME NEW j, NEW k, NEW st, NEW marks, Sound(j, st, marks),
         k.selected = j.selected, k.lastCompleted = j.lastCompleted,
         k.yieldRequestedAt = j.yieldRequestedAt,
         k.phase \in {"YieldRequested", "Draining"} =>
            /\ j.phase \in {"YieldRequested", "Draining"}
            /\ k.attempt = j.attempt /\ k.pauseRequestID = j.pauseRequestID
  PROVE  Sound(k, st, marks) /\ Follows(j, k, st, marks)
  BY DEF Sound, Follows

LEMMA FollowsSelf == \A j, st, marks : Follows(j, j, st, marks)
  BY DEF Follows

LEMMA SoundIdle == \A st, marks : Sound(Idle.job, st, marks) /\ Published(Idle.restore, st)
  BY DEF Idle, NewRTJ, Sound, Published, None

(* What a reconcile may rely on between its calls. *)
LEMMA HeldFacts ==
  ASSUME IInv, CkptInv, ctl.pc = "idle" \/ ctl.pc \in Mid
  PROVE  /\ Held \in RTJs
         /\ Sound(Held, store, markers) /\ Follows(Held, rtj, store, markers)
         /\ (IF ctl.pc = "idle" THEN seenFresh ELSE ctl.fresh) => Held = rtj
         /\ ctl.pc \in Stop => StopAlreadyRequested(Held)
<1>1. CASE ctl.pc = "idle"
  BY <1>1 DEF IInv, TypeOK, Coherent, CacheInv, CkptInv, VersionsInv, Held, Stop
<1>2. CASE ctl.pc \in Mid
  <2>1. Held = ctl.job /\ ctl.pc # "idle"
    BY <1>2 DEF Held, Mid
  <2> QED
    BY <1>2, <2>1 DEF IInv, TypeOK, Ctls, Coherent, MidInv, CkptInv, HeldInv
<1> QED
  BY <1>1, <1>2

(* The reconcile goes on to its next call. *)
LEMMA GoHeld ==
  ASSUME IInv, CkptInv, UNCHANGED <<rtj, store, markers>>, ctl.pc = "idle" \/ ctl.pc \in Mid,
         NEW pc, NEW j, NEW c, Go(pc, j, c),
         Sound(j, store, markers), Published(c, store),
         pc \in Mid => j = Held,
         pc = "commit" => Follows(Held, j, store, markers),
         pc \in Stop => StopAlreadyRequested(j),
         pc = "delete" => PauseObserved(j) /\ j.lastCompleted = markers[j.attempt].ckpt
  PROVE  HeldInv'
<1>1. ctl' = [pc |-> pc, job |-> j, restore |-> c,
              fresh |-> IF ctl.pc = "idle" THEN seenFresh ELSE ctl.fresh]
  BY DEF Go
<1>2. ctl'.pc = pc /\ ctl'.job = j /\ ctl'.restore = c /\ (ctl'.fresh => Held = rtj)
  BY <1>1, HeldFacts
<1>3. pc \in Mid => Follows(j, rtj, store, markers)
  BY HeldFacts
<1>4. pc = "delete" => PauseObserved(ctl.job)'
  BY <1>2 DEF PauseObserved
<1> QED
  BY <1>2, <1>3, <1>4 DEF HeldInv

LEMMA ReturnHeld ==
  ASSUME Return
  PROVE  HeldInv'
<1>1. ctl'.pc = "idle" /\ ctl'.job = Idle.job /\ ctl'.restore = Idle.restore
  BY DEF Return, Idle
<1> QED
  BY <1>1, SoundIdle DEF HeldInv, Mid, Stop

-----------------------------------------------------------------------------
\* Every step keeps what concerns the reconcile in progress

LEMMA NonePublished == Published(None, store)
  BY DEF Published

LEMMA PhaseHeld ==
  ASSUME IInv, CkptInv, UNCHANGED <<rtj, store, markers>>, ctl.pc = "idle" \/ ctl.pc \in Mid,
         NEW p \in Phases,
         p = "YieldRequested" \/ p = "Draining" => StopAlreadyRequested(Held),
         Go("commit", SetPhase(Held, p), None) \/ Return
  PROVE  HeldInv'
<1> DEFINE k == SetPhase(Held, p)
<1>1. Held \in RTJs /\ Sound(Held, store, markers)
  BY HeldFacts
<1>2. /\ k.phase = p /\ k.selected = Held.selected /\ k.lastCompleted = Held.lastCompleted
      /\ k.yieldRequestedAt = Held.yieldRequestedAt /\ k.attempt = Held.attempt
      /\ k.pauseRequestID = Held.pauseRequestID
  BY <1>1 DEF SetPhase, RTJs
<1>3. Sound(k, store, markers) /\ Follows(Held, k, store, markers)
  <2> HIDE DEF k
  <2> QED
    BY <1>1, <1>2, SameRequest DEF StopAlreadyRequested
<1> HIDE DEF k
<1>4. CASE Go("commit", k, None)
  BY <1>3, <1>4, GoHeld, NonePublished DEF Mid, Stop
<1> QED
  BY <1>4, ReturnHeld DEF k

LEMMA CachedHeld ==
  ASSUME IInv, CkptInv,
         \/ InitializeStatus \/ ContinueStopFlow \/ reconcileManualHold \/ DeferUntilAdmitted
         \/ ObserveActive \/ reconcileLaunch \/ reconcileResume
  PROVE  HeldInv'
<1>1. ctl.pc = "idle" /\ Held = seen /\ UNCHANGED <<rtj, store, markers>>
  BY DEF InitializeStatus, ContinueStopFlow, reconcileManualHold, DeferUntilAdmitted, ObserveActive,
     reconcileLaunch, reconcileResume, Initialized, Dequeue, ReconcileFrame, runtimeVars, Held
<1>2. seen \in RTJs /\ Sound(seen, store, markers)
  BY <1>1, HeldFacts
<1>3. CASE InitializeStatus
  <2> DEFINE k == InitializePhase1Status(seen)
  <2>1. /\ k.phase = IF seen.phase = "None" THEN "Pending" ELSE seen.phase
        /\ k.selected = seen.selected /\ k.lastCompleted = seen.lastCompleted
        /\ k.yieldRequestedAt = seen.yieldRequestedAt /\ k.attempt = seen.attempt
        /\ k.pauseRequestID = seen.pauseRequestID
    BY <1>2 DEF InitializePhase1Status, RTJs
  <2>2. Go("commit", k, None)
    BY <1>3 DEF InitializeStatus
  <2> HIDE DEF k
  <2>3. Sound(k, store, markers) /\ Follows(seen, k, store, markers)
    BY <1>2, <2>1, SameRequest
  <2> QED
    BY <1>1, <2>2, <2>3, GoHeld, NonePublished DEF Mid, Stop
<1>4. CASE ContinueStopFlow
  <2>1. Go("control", seen, None) /\ StopAlreadyRequested(seen)
    BY <1>4 DEF ContinueStopFlow
  <2> QED
    BY <1>1, <1>2, <2>1, GoHeld, NonePublished
<1>5. CASE reconcileManualHold
  <2>1. \/ Return
        \/ Go("commit", SetPhase(seen, "Paused"), None)
        \/ Go("commit", SetPhase(seen, "Pending"), None)
    BY <1>5, UpdateCases DEF reconcileManualHold, markPaused, markPendingPaused
  <2> QED
    BY <1>1, <2>1, PhaseHeld, ReturnHeld DEF Phases
<1>6. CASE DeferUntilAdmitted
  <2>1. Go("commit", SetPhase(seen, "Queued"), None) \/ Return
    BY <1>6, UpdateCases DEF DeferUntilAdmitted, markQueuedForAdmission
  <2> QED
    BY <1>1, <2>1, PhaseHeld DEF Phases
<1>7. CASE ObserveActive
  <2>1. Go("commit", SetPhase(seen, "Running"), None) \/ Return
    BY <1>7, UpdateCases DEF ObserveActive, markRunning
  <2> QED
    BY <1>1, <2>1, PhaseHeld DEF Phases
<1>8. CASE reconcileLaunch
  <2>1. Go("create", seen, seen.selected) /\ Published(seen.selected, store)
    BY <1>2, <1>8 DEF reconcileLaunch, Sound
  <2> QED
    BY <1>1, <1>2, <2>1, GoHeld DEF Stop
<1>9. CASE reconcileResume
  <2>1. CASE UpdateIfChanged(seen, markFailed(seen))
    BY <1>1, <2>1, PhaseHeld, UpdateCases DEF markFailed, Phases
  <2>2. ASSUME NEW c \in resumeCheckpointForAttempt(seen), Go("create", seen, c) PROVE HeldInv'
    <3>1. Published(c, store)
      BY <1>2, <2>2 DEF resumeCheckpointForAttempt, SelectLatestCompatible, Published, Sound
    <3> QED
      BY <1>1, <1>2, <2>2, <3>1, GoHeld DEF Stop
  <2> QED
    BY <1>9, <2>1, <2>2 DEF reconcileResume
<1> QED
  BY <1>3, <1>4, <1>5, <1>6, <1>7, <1>8, <1>9

(* A request is stamped with a time at which every published checkpoint is complete. *)
LEMMA ensureStopRequestedHeld ==
  ASSUME IInv, CkptInv, ensureStopRequested
  PROVE  HeldInv'
<1> DEFINE k == markStopRequested(seen, clock')
<1>1. /\ ctl.pc = "idle" /\ Held = seen /\ UNCHANGED <<rtj, store, markers>>
      /\ Go("commit", k, None) /\ ~StopAlreadyRequested(seen)
      /\ clock' \in Nat /\ clock <= clock' /\ clock \in Nat /\ seen.attempt # None
  BY DEF ensureStopRequested, Initialized, Dequeue, ReconcileFrame, runtimeVars, Held, IInv, TypeOK,
     requestedStopSource, getActiveJobSet
<1>2. seen \in RTJs /\ Sound(seen, store, markers)
  BY <1>1, HeldFacts
<1>3. seen.phase # "YieldRequested"
  BY <1>1, <1>2 DEF Sound, StopAlreadyRequested
<1>4. /\ k.phase = "YieldRequested" /\ k.selected = seen.selected /\ k.lastCompleted = seen.lastCompleted
      /\ k.yieldRequestedAt = clock' /\ k.attempt = seen.attempt
      /\ k.pauseRequestID = IF seen.pauseRequestID = None THEN seen.attempt ELSE seen.pauseRequestID
  BY <1>2, <1>3 DEF markStopRequested, SetPhase, RTJs
<1>5. seen.lastCompleted # None => store[seen.lastCompleted].at <= clock'
  <2> SUFFICES ASSUME seen.lastCompleted # None PROVE store[seen.lastCompleted].at <= clock'
    OBVIOUS
  <2>1. seen.lastCompleted \in Ckpts /\ store[seen.lastCompleted].manifest
    BY <1>2 DEF Sound, Published, RTJs, Ckpts, None
  <2>2. store[seen.lastCompleted].at \in Nat /\ store[seen.lastCompleted].at <= clock
    BY <2>1 DEF CkptInv, SavedInv, IInv, TypeOK, Manifests
  <2> QED
    BY <1>1, <2>2
<1> HIDE DEF k
<1>6. Sound(k, store, markers)
  BY <1>1, <1>2, <1>4, <1>5 DEF Sound
<1>7. Follows(seen, k, store, markers)
  BY <1>1, <1>4 DEF Follows
<1> QED
  BY <1>1, <1>6, <1>7, GoHeld, NonePublished DEF Mid, Stop

LEMMA StopFlowHeld ==
  ASSUME IInv, CkptInv,
         writePauseControl \/ DrainTimedOut \/ ObserveNotReady \/ ObserveComplete \/ cleanupActiveJobSet
  PROVE  HeldInv'
<1>1. /\ ctl.pc \in Stop /\ ctl.pc \in Mid /\ Held = ctl.job
      /\ UNCHANGED <<rtj, store, markers>>
  BY DEF writePauseControl, DrainTimedOut, ObserveNotReady, ObserveComplete, cleanupActiveJobSet, Mid, Stop,
     ReconcileFrame, runtimeVars, Held
<1>2. Sound(ctl.job, store, markers) /\ StopAlreadyRequested(ctl.job)
  BY <1>1, HeldFacts
<1>3. CASE writePauseControl \/ DrainTimedOut
  <2>1. Go("observe", ctl.job, None) \/ Go("expire", ctl.job, None)
    BY <1>3 DEF writePauseControl, DrainTimedOut
  <2> QED
    BY <1>1, <1>2, <2>1, GoHeld, NonePublished
<1>4. CASE ObserveNotReady
  <2>1. Go("commit", SetPhase(Held, "Draining"), None) \/ Return
    BY <1>1, <1>4 DEF ObserveNotReady, UpdateOrRequeue, markDraining
  <2> QED
    BY <1>1, <1>2, <2>1, PhaseHeld DEF Phases
<1>5. CASE ObserveComplete
  <2>1. Go("delete", ctl.job, None) /\ PauseObserved(ctl.job)
        /\ ctl.job.lastCompleted = markers[ctl.job.attempt].ckpt
    BY <1>5 DEF ObserveComplete
  <2> QED
    BY <1>1, <1>2, <2>1, GoHeld, NonePublished
<1>6. CASE cleanupActiveJobSet
  <2>1. Go("commit", SetPhase(Held, "Failed"), None) \/ Return
    BY <1>1, <1>6 DEF cleanupActiveJobSet, markFailed
  <2> QED
    BY <1>1, <2>1, PhaseHeld DEF Phases
<1> QED
  BY <1>3, <1>4, <1>5, <1>6

(* The checkpoint that answers the request is newer than the one recorded before it. *)
LEMMA ObserveRecordHeld ==
  ASSUME IInv, CkptInv, ObserveRecord
  PROVE  HeldInv'
<1> DEFINE j == ctl.job
           c == markers[ctl.job.attempt].ckpt
           k == [ctl.job EXCEPT !.lastCompleted = c, !.selected = c]
<1>1. /\ ctl.pc = "observe" /\ ctl.pc \in Mid /\ Held = j /\ UNCHANGED <<rtj, store, markers>>
      /\ PauseObserved(j) /\ j.lastCompleted # c /\ Go("commit", k, None)
  BY DEF ObserveRecord, ReconcileFrame, runtimeVars, Held, Mid
<1>2. j \in RTJs /\ Sound(j, store, markers) /\ StopAlreadyRequested(j)
  BY <1>1, HeldFacts DEF Stop
<1>3. /\ c # None /\ store[c].manifest /\ store[c].at > j.yieldRequestedAt
      /\ j.phase \in {"YieldRequested", "Draining"} /\ j.attempt # None /\ j.pauseRequestID # None
  BY <1>1, <1>2 DEF PauseObserved, StopAlreadyRequested, Sound
<1>4. /\ k.lastCompleted = c /\ k.selected = c /\ k.phase = j.phase /\ k.attempt = j.attempt
      /\ k.pauseRequestID = j.pauseRequestID /\ k.yieldRequestedAt = j.yieldRequestedAt
  BY <1>2 DEF RTJs
<1>5. j.lastCompleted # None => store[c].at > store[j.lastCompleted].at
  <2> SUFFICES ASSUME j.lastCompleted # None PROVE store[c].at > store[j.lastCompleted].at
    OBVIOUS
  <2>1. store[j.lastCompleted].at <= j.yieldRequestedAt
    BY <1>1, <1>2, <1>3 DEF Sound
  <2>2. j.attempt \in Attempts /\ j.lastCompleted \in Ckpts /\ j.yieldRequestedAt \in Nat
    BY <1>2, <1>3 DEF RTJs, Attempts, Ckpts, None
  <2>3. c \in Ckpts
    BY <1>3, <2>2 DEF IInv, TypeOK, YieldMarkers, Ckpts, None
  <2>4. store[c].at \in Nat /\ store[j.lastCompleted].at \in Nat
    BY <2>2, <2>3 DEF IInv, TypeOK, Manifests
  <2> QED
    BY <1>3, <2>1, <2>2, <2>4
<1>6. markers[k.attempt].ckpt = k.lastCompleted
  BY <1>4
<1> HIDE DEF j, c, k
<1>7. Sound(k, store, markers)
  BY <1>3, <1>4, <1>6 DEF Sound, Published
<1>8. Follows(j, k, store, markers)
  BY <1>3, <1>4, <1>5, <1>6 DEF Follows
<1> QED
  BY <1>1, <1>7, <1>8, GoHeld, NonePublished DEF Mid, Stop

LEMMA CreateHeld ==
  ASSUME IInv, CkptInv, createRunAttemptResources
  PROVE  HeldInv'
<1> DEFINE j == ctl.job
           a == TargetAttempt(ctl.job)
           k == IF shouldResume(j) THEN markRestoring(j, a, ctl.restore) ELSE markStarting(j, a)
<1>1. /\ ctl.pc = "create" /\ ctl.pc \in Mid /\ Held = j /\ UNCHANGED <<rtj, store, markers>>
      /\ Go("commit", k, None) \/ Return
  BY DEF createRunAttemptResources, UpdateOrRequeue, Held, Mid
<1>2. j \in RTJs /\ Sound(j, store, markers) /\ Published(ctl.restore, store)
  BY <1>1, HeldFacts DEF CkptInv, HeldInv
<1>3. ASSUME shouldResume(j) PROVE Sound(k, store, markers) /\ Follows(j, k, store, markers)
  <2>1. /\ k.lastCompleted = j.lastCompleted /\ k.selected = ctl.restore /\ k.phase = "Restoring"
        /\ k.yieldRequestedAt = j.yieldRequestedAt
    BY <1>2, <1>3 DEF RTJs, markRestoring, SetPhase
  <2> HIDE DEF k
  <2> QED
    BY <1>2, <2>1 DEF Sound, Follows
<1>4. ASSUME ~shouldResume(j) PROVE Sound(k, store, markers) /\ Follows(j, k, store, markers)
  <2>1. /\ k.lastCompleted = j.lastCompleted /\ k.selected = j.selected /\ k.phase = "Starting"
        /\ k.yieldRequestedAt = j.yieldRequestedAt
    BY <1>2, <1>4 DEF RTJs, markStarting, SetPhase
  <2> HIDE DEF k
  <2> QED
    BY <1>2, <2>1 DEF Sound, Follows
<1>5. Sound(k, store, markers) /\ Follows(Held, k, store, markers)
  BY <1>1, <1>3, <1>4
<1> HIDE DEF k
<1>6. CASE Go("commit", k, None)
  BY <1>1, <1>5, <1>6, GoHeld, NonePublished DEF Stop, Mid
<1> QED
  BY <1>1, <1>6, ReturnHeld

LEMMA FailureHeld ==
  ASSUME IInv, CkptInv,
         failLaunch \/ CreateReplyLost \/ CallFails \/ Crash \/ StatusConflict \/ StatusUpdate
  PROVE  HeldInv'
<1>1. CASE CallFails \/ Crash \/ StatusConflict \/ StatusUpdate
  BY <1>1, ReturnHeld DEF CallFails, Crash, StatusConflict, StatusUpdate
<1>2. CASE failLaunch \/ CreateReplyLost
  <2>1. UNCHANGED <<rtj, store, markers>> /\ (ctl.pc = "idle" \/ ctl.pc \in Mid)
    BY <1>2 DEF failLaunch, CreateReplyLost, ReconcileFrame, runtimeVars, Initialized, Dequeue, Mid
  <2>2. Go("commit", SetPhase(Held, "Failed"), None)
    BY <1>2 DEF failLaunch, CreateReplyLost, Initialized, Dequeue, Held, markFailed
  <2> QED
    BY <2>1, <2>2, PhaseHeld DEF Phases
<1> QED
  BY <1>1, <1>2

(* Steps that leave the reconcile alone, but for the resourceVersion it holds. *)
LEMMA OthersHeld ==
  ASSUME IInv, CkptInv, Stable, rtj' \in RTJs,
         UNCHANGED ctl \/ ctl' = [ctl EXCEPT !.fresh = FALSE],
         UNCHANGED rtj \/ ~ctl'.fresh,
         /\ rtj'.attempt = rtj.attempt
         /\ rtj'.lastCompleted = rtj.lastCompleted
         /\ rtj'.yieldRequestedAt = rtj.yieldRequestedAt
  PROVE  HeldInv'
<1>1. ctl \in Ctls /\ ctl.job \in RTJs /\ rtj \in RTJs /\ ctl.restore \in 0 .. MaxCkpts
  BY DEF IInv, TypeOK, Ctls
<1>2. ctl'.pc = ctl.pc /\ ctl'.job = ctl.job /\ ctl'.restore = ctl.restore /\ (ctl'.fresh => ctl.fresh)
  BY <1>1 DEF Ctls
<1>3. Sound(ctl.job, store', markers') /\ Sound(rtj, store, markers) /\ HeldInv
  BY <1>1, SoundStable DEF CkptInv, HeldInv, VersionsInv
<1>4. Published(ctl.restore, store')
  BY <1>1 DEF CkptInv, HeldInv, Published, Stable, Ckpts, None
<1>5. ctl.pc \in Mid => Follows(ctl.job, rtj', store', markers')
  <2>1. ctl.pc \in Mid => Follows(ctl.job, rtj, store', markers')
    BY <1>1, <1>3, FollowsStable DEF HeldInv
  <2> QED
    BY <2>1 DEF Follows
<1>6. ctl.pc = "commit" /\ ctl'.fresh => Follows(rtj', ctl.job, store', markers')
  BY <1>1, <1>2, <1>3, FollowsStable DEF HeldInv
<1>7. ctl.pc = "delete" => /\ PauseObserved(ctl.job)'
                           /\ ctl.job.lastCompleted = markers'[ctl.job.attempt].ckpt
  <2> SUFFICES ASSUME ctl.pc = "delete"
               PROVE  PauseObserved(ctl.job)' /\ ctl.job.lastCompleted = markers'[ctl.job.attempt].ckpt
    OBVIOUS
  <2>1. PauseObserved(ctl.job) /\ ctl.job.attempt # None
    BY <1>3 DEF HeldInv, Stop, Sound, StopAlreadyRequested
  <2>a. ctl.job.attempt \in Attempts /\ markers[ctl.job.attempt].ckpt # None
    BY <1>1, <2>1 DEF PauseObserved, RTJs, Attempts, None
  <2>2. markers[ctl.job.attempt].ckpt \in Ckpts
    BY <2>a DEF IInv, TypeOK, YieldMarkers, Ckpts, None
  <2>3. /\ markers'[ctl.job.attempt] = markers[ctl.job.attempt]
        /\ store'[markers[ctl.job.attempt].ckpt] = store[markers[ctl.job.attempt].ckpt]
    BY <2>1, <2>2, <2>a DEF Stable, PauseObserved
  <2> QED
    BY <1>2, <1>3, <2>1, <2>3 DEF PauseObserved, HeldInv
<1> QED
  BY <1>2, <1>3, <1>4, <1>5, <1>6, <1>7 DEF HeldInv

-----------------------------------------------------------------------------
\* The induction

(* Spec writes leave the status alone and outdate every version that is held. *)
LEMMA SpecWriteFrame ==
  ASSUME IInv, UserSetDesiredState \/ UserEditIdentity \/ KueueSuspend \/ KueueRunWithPodSetsInfo
  PROVE  /\ UNCHANGED <<seen, runtimeVars>>
         /\ ctl' = [ctl EXCEPT !.fresh = FALSE] /\ ~ctl'.fresh
         /\ rtj'.attempt = rtj.attempt /\ rtj'.phase = rtj.phase
         /\ rtj'.pauseRequestID = rtj.pauseRequestID /\ rtj'.yieldRequestedAt = rtj.yieldRequestedAt
         /\ rtj'.lastCompleted = rtj.lastCompleted /\ rtj'.selected = rtj.selected
<1>1. rtj \in RTJs /\ ctl \in Ctls
  BY DEF IInv, TypeOK
<1>2. PICK new : /\ SpecWrite(new)
                 /\ \/ \E d : new = [rtj EXCEPT !.desired = d]
                    \/ \E i : new = [rtj EXCEPT !.ident = i]
                    \/ \E s : new = [rtj EXCEPT !.suspend = s]
  BY DEF UserSetDesiredState, UserEditIdentity, KueueSuspend, KueueRunWithPodSetsInfo
<1>3. /\ rtj' = [new EXCEPT !.observed = FALSE] /\ ctl' = [ctl EXCEPT !.fresh = FALSE]
      /\ UNCHANGED <<seen, runtimeVars>>
  BY <1>2 DEF SpecWrite
<1>4. ~ctl'.fresh
  BY <1>1, <1>3 DEF Ctls
<1> QED
  BY <1>1, <1>2, <1>3, <1>4 DEF RTJs

LEMMA HeldStep ==
  ASSUME IInv, CkptInv, Stable, [Next]_vars
  PROVE  HeldInv'
<1>0. rtj' \in RTJs
  BY NextInv DEF IInv, TypeOK
<1>1. CASE InitializeStatus \/ ContinueStopFlow \/ reconcileManualHold \/ DeferUntilAdmitted
           \/ ObserveActive \/ reconcileLaunch \/ reconcileResume
  BY <1>1, CachedHeld
<1>2. CASE ensureStopRequested
  BY <1>2, ensureStopRequestedHeld
<1>3. CASE writePauseControl \/ DrainTimedOut \/ ObserveNotReady \/ ObserveComplete \/ cleanupActiveJobSet
  BY <1>3, StopFlowHeld
<1>4. CASE ObserveRecord
  BY <1>4, ObserveRecordHeld
<1>5. CASE createRunAttemptResources
  BY <1>5, CreateHeld
<1>6. CASE failLaunch \/ CreateReplyLost \/ CallFails \/ Crash \/ StatusConflict \/ StatusUpdate
  BY <1>6, FailureHeld
<1>7. CASE UserSetDesiredState \/ UserEditIdentity \/ KueueSuspend \/ KueueRunWithPodSetsInfo
  BY <1>0, <1>7, SpecWriteFrame, OthersHeld
<1>8. CASE Deliver \/ UNCHANGED vars
  BY <1>0, <1>8, OthersHeld DEF Deliver, vars
<1>9. ASSUME NEW a \in Attempts,
             Trainer(a) \/ TrainerRestarts(a) \/ JobSetGone(a) \/ JobSetDeletedExternally(a)
      PROVE  HeldInv'
  <2>1. UNCHANGED <<rtj, ctl>>
    BY <1>9 DEF Trainer, StartSave, PublishManifest, PublishMarker, TrainingComplete, TrainerRestarts,
       JobSetGone, JobSetDeletedExternally, RuntimeFrame
  <2> QED
    BY <1>0, <2>1, OthersHeld
<1> QED
  BY <1>1, <1>2, <1>3, <1>4, <1>5, <1>6, <1>7, <1>8, <1>9 DEF Next, Reconcile

LEMMA VersionsStep ==
  ASSUME IInv, CkptInv, Stable, [Next]_vars
  PROVE  VersionsInv'
<1>0. rtj \in RTJs /\ seen \in RTJs /\ VersionsInv
  BY DEF IInv, TypeOK, CkptInv
<1>1. /\ Sound(rtj, store', markers') /\ Sound(seen, store', markers')
      /\ Follows(seen, rtj, store', markers')
  BY <1>0, SoundStable, FollowsStable DEF VersionsInv
<1>2. CASE UNCHANGED <<rtj, seen>>
  BY <1>1, <1>2 DEF VersionsInv
<1>3. CASE Crash \/ Deliver
  <2>1. seen' = rtj /\ UNCHANGED rtj
    BY <1>3 DEF Crash, Deliver
  <2> QED
    BY <1>1, <2>1, FollowsSelf DEF VersionsInv
<1>4. CASE StatusUpdate
  <2>1. /\ rtj' = ctl.job /\ UNCHANGED <<seen, store, markers>>
        /\ ctl.pc = "commit" /\ ctl.fresh
    BY <1>4 DEF StatusUpdate, runtimeVars
  <2>2. seen = rtj
    BY <2>1 DEF IInv, Coherent, CacheInv
  <2>3. Sound(ctl.job, store, markers) /\ Follows(rtj, ctl.job, store, markers)
    BY <2>1 DEF CkptInv, HeldInv
  <2> QED
    BY <1>0, <2>1, <2>2, <2>3 DEF VersionsInv
<1>5. CASE UserSetDesiredState \/ UserEditIdentity \/ KueueSuspend \/ KueueRunWithPodSetsInfo
  <2>1. /\ UNCHANGED seen
        /\ rtj'.attempt = rtj.attempt /\ rtj'.phase = rtj.phase
        /\ rtj'.pauseRequestID = rtj.pauseRequestID /\ rtj'.yieldRequestedAt = rtj.yieldRequestedAt
        /\ rtj'.lastCompleted = rtj.lastCompleted /\ rtj'.selected = rtj.selected
    BY <1>5, SpecWriteFrame
  <2>2. Sound(rtj', store', markers')
    BY <1>1, <2>1 DEF Sound
  <2>3. Follows(seen, rtj', store', markers')
    BY <1>1, <2>1 DEF Follows
  <2> QED
    BY <1>1, <2>1, <2>2, <2>3 DEF VersionsInv
<1>6. CASE InitializeStatus \/ ensureStopRequested \/ ContinueStopFlow \/ reconcileManualHold
           \/ DeferUntilAdmitted \/ ObserveActive \/ reconcileLaunch \/ reconcileResume
           \/ writePauseControl \/ DrainTimedOut \/ ObserveNotReady \/ ObserveRecord \/ ObserveComplete
           \/ cleanupActiveJobSet \/ createRunAttemptResources \/ StatusConflict
           \/ failLaunch \/ CreateReplyLost \/ CallFails
  BY <1>2, <1>6 DEF InitializeStatus, ensureStopRequested, ContinueStopFlow, reconcileManualHold,
     DeferUntilAdmitted, ObserveActive, reconcileLaunch, reconcileResume, writePauseControl,
     DrainTimedOut, ObserveNotReady, ObserveRecord, ObserveComplete, cleanupActiveJobSet,
     createRunAttemptResources, StatusConflict, failLaunch, CreateReplyLost, CallFails, ReconcileFrame
<1>7. ASSUME NEW a \in Attempts,
             Trainer(a) \/ TrainerRestarts(a) \/ JobSetGone(a) \/ JobSetDeletedExternally(a)
      PROVE  UNCHANGED <<rtj, seen>>
  BY <1>7 DEF Trainer, StartSave, PublishManifest, PublishMarker, TrainingComplete, TrainerRestarts,
     JobSetGone, JobSetDeletedExternally, RuntimeFrame
<1>8. CASE UNCHANGED vars
  BY <1>2, <1>8 DEF vars
<1> QED
  BY <1>2, <1>3, <1>4, <1>5, <1>6, <1>7, <1>8 DEF Next, Reconcile

(* The JobSets that are not created by a step keep their checkpoint, or lose it. *)
LEMMA RestoreCases ==
  ASSUME IInv, [Next]_vars, NEW a \in Attempts
  PROVE  \/ jobSets'[a].restore = jobSets[a].restore
         \/ jobSets'[a].restore = None
         \/ jobSets'[a].restore = ctl.restore
<1>1. jobSets \in [Attempts -> JobSets]
  BY DEF IInv, TypeOK
<1>2. CASE createRunAttemptResources \/ CreateReplyLost
  <2>1. createIfMissing(TargetAttempt(ctl.job), ctl.restore, ctl.job.ident)
    BY <1>2 DEF createRunAttemptResources, CreateReplyLost
  <2> QED
    BY <1>1, <2>1 DEF createIfMissing
<1>3. CASE cleanupActiveJobSet
  BY <1>1, <1>3 DEF cleanupActiveJobSet, JobSets
<1>4. ASSUME NEW b \in Attempts, JobSetGone(b) \/ JobSetDeletedExternally(b)
      PROVE  jobSets'[a].restore \in {jobSets[a].restore, None}
  BY <1>1, <1>4 DEF JobSetGone, JobSetDeletedExternally, JobSets
<1>5. ASSUME NEW b \in Attempts, Trainer(b) \/ TrainerRestarts(b) PROVE UNCHANGED jobSets
  BY <1>5 DEF Trainer, TrainerRestarts, StartSave, PublishManifest, PublishMarker, TrainingComplete
<1>6. CASE InitializeStatus \/ ensureStopRequested \/ ContinueStopFlow \/ reconcileManualHold \/ DeferUntilAdmitted
           \/ ObserveActive \/ reconcileLaunch \/ reconcileResume \/ writePauseControl \/ ObserveNotReady
           \/ ObserveRecord \/ ObserveComplete \/ DrainTimedOut \/ StatusUpdate \/ StatusConflict
  BY <1>6 DEF InitializeStatus, ensureStopRequested, ContinueStopFlow, reconcileManualHold,
     DeferUntilAdmitted, ObserveActive, reconcileLaunch, reconcileResume, writePauseControl, ObserveNotReady,
     ObserveRecord, ObserveComplete, DrainTimedOut, StatusUpdate, StatusConflict, ReconcileFrame, runtimeVars
<1>7. CASE failLaunch \/ CallFails \/ Crash \/ Deliver
  BY <1>7 DEF failLaunch, CallFails, Crash, Deliver, ReconcileFrame, runtimeVars
<1>8. CASE UserSetDesiredState \/ UserEditIdentity \/ KueueSuspend \/ KueueRunWithPodSetsInfo
  BY <1>8, SpecWriteFrame DEF runtimeVars
<1>9. CASE UNCHANGED vars
  BY <1>9 DEF vars
<1> QED
  BY <1>2, <1>3, <1>4, <1>5, <1>6, <1>7, <1>8, <1>9 DEF Next, Reconcile

LEMMA RestoresStep ==
  ASSUME IInv, CkptInv, Stable, [Next]_vars
  PROVE  RestoresInv'
<1> SUFFICES ASSUME NEW a \in Attempts PROVE Published(jobSets'[a].restore, store')
  BY DEF RestoresInv
<1>1. jobSets[a].restore \in 0 .. MaxCkpts /\ ctl.restore \in 0 .. MaxCkpts
  BY DEF IInv, TypeOK, JobSets, Ctls
<1>2. Published(jobSets[a].restore, store) /\ Published(ctl.restore, store)
  BY DEF CkptInv, RestoresInv, HeldInv
<1>3. Published(jobSets[a].restore, store') /\ Published(ctl.restore, store')
  BY <1>1, <1>2 DEF Published, Stable, Ckpts, None
<1> QED
  BY <1>3, RestoreCases DEF Published

LEMMA InitCkptInv == Init => CkptInv
<1> SUFFICES ASSUME Init PROVE CkptInv
  OBVIOUS
<1>1. SavedInv
  BY DEF Init, SavedInv, NoTrainer, None
<1>2. /\ rtj.selected = None /\ rtj.lastCompleted = None /\ rtj.phase = "None" /\ seen = rtj
      /\ ctl = Idle
  BY DEF Init, NewRTJ
<1>3. VersionsInv
  BY <1>2, FollowsSelf DEF VersionsInv, Sound, Published
<1>4. RestoresInv
  BY DEF Init, RestoresInv, Published
<1>5. HeldInv
  BY <1>2, SoundIdle DEF HeldInv, Idle, Mid, Stop
<1> QED
  BY <1>1, <1>3, <1>4, <1>5 DEF CkptInv

LEMMA CkptInductive == Spec => [](IInv /\ CkptInv)
<1>1. IInv /\ CkptInv /\ [Next]_vars => CkptInv'
  <2> SUFFICES ASSUME IInv, CkptInv, [Next]_vars PROVE CkptInv'
    OBVIOUS
  <2>1. SavedInv' /\ Stable
    BY SavedStep DEF CkptInv
  <2> QED
    BY <2>1, HeldStep, VersionsStep, RestoresStep DEF CkptInv
<1> QED
  BY <1>1, InitCkptInv, Inductive, PTL DEF Spec

-----------------------------------------------------------------------------
\* What follows

(* A runtime restores from published manifests only, whatever version of the RTJ it was launched
   from, and whatever the trainers of other attempts are uploading (checkpoints/selector.go,
   resume_flow.go). *)
THEOREM RestoresAreComplete == Spec => []ResumeFromComplete
<1>1. CkptInv => ResumeFromComplete
  BY DEF CkptInv, RestoresInv, ResumeFromComplete, Published
<1> QED
  BY <1>1, CkptInductive, PTL

LEMMA OnlyStatusUpdateRecords ==
  ASSUME IInv, [Next]_vars, rtj'.lastCompleted # rtj.lastCompleted
  PROVE  StatusUpdate
<1>1. CASE UserSetDesiredState \/ UserEditIdentity \/ KueueSuspend \/ KueueRunWithPodSetsInfo
  BY <1>1, SpecWriteFrame
<1>2. CASE InitializeStatus \/ ensureStopRequested \/ ContinueStopFlow \/ reconcileManualHold
           \/ DeferUntilAdmitted \/ ObserveActive \/ reconcileLaunch \/ reconcileResume
           \/ writePauseControl \/ DrainTimedOut \/ ObserveNotReady \/ ObserveRecord \/ ObserveComplete
           \/ cleanupActiveJobSet \/ createRunAttemptResources \/ StatusConflict
           \/ failLaunch \/ CreateReplyLost \/ CallFails \/ Crash \/ Deliver
  BY <1>2 DEF InitializeStatus, ensureStopRequested, ContinueStopFlow, reconcileManualHold,
     DeferUntilAdmitted, ObserveActive, reconcileLaunch, reconcileResume, writePauseControl,
     DrainTimedOut, ObserveNotReady, ObserveRecord, ObserveComplete, cleanupActiveJobSet,
     createRunAttemptResources, StatusConflict, failLaunch, CreateReplyLost, CallFails, Crash, Deliver,
     ReconcileFrame
<1>3. ASSUME NEW a \in Attempts,
             Trainer(a) \/ TrainerRestarts(a) \/ JobSetGone(a) \/ JobSetDeletedExternally(a)
      PROVE  UNCHANGED rtj
  BY <1>3 DEF Trainer, StartSave, PublishManifest, PublishMarker, TrainingComplete, TrainerRestarts,
     JobSetGone, JobSetDeletedExternally, RuntimeFrame
<1>4. CASE UNCHANGED vars
  BY <1>4 DEF vars
<1> QED
  BY <1>1, <1>2, <1>3, <1>4 DEF Next, Reconcile

(* lastCompletedCheckpoint is replaced only by a checkpoint completed later, although drains are
   withdrawn, repeated and observed on old copies (ObservePause compares with the time of the
   request alone, never with the checkpoint recorded before). *)
THEOREM LastCompletedMovesForward == Spec => LastCompletedAdvances
<1> DEFINE A == rtj'.lastCompleted # rtj.lastCompleted /\ rtj.lastCompleted # None =>
                  /\ rtj'.lastCompleted # None
                  /\ store[rtj'.lastCompleted].at > store[rtj.lastCompleted].at
<1>1. IInv /\ CkptInv /\ [Next]_vars => A
  <2> SUFFICES ASSUME IInv, CkptInv, [Next]_vars,
                      rtj'.lastCompleted # rtj.lastCompleted, rtj.lastCompleted # None
               PROVE  /\ rtj'.lastCompleted # None
                      /\ store[rtj'.lastCompleted].at > store[rtj.lastCompleted].at
    OBVIOUS
  <2>1. rtj' = ctl.job /\ ctl.pc = "commit" /\ ctl.fresh
    BY OnlyStatusUpdateRecords DEF StatusUpdate
  <2> QED
    BY <2>1 DEF CkptInv, HeldInv, Follows
<1> QED
  BY <1>1, CkptInductive, PTL DEF Spec, LastCompletedAdvances

(* The steps in which a reconcile about to delete a JobSet does so. *)
LEMMA OnlyCleanupDeletes ==
  ASSUME IInv, [Next]_vars, NEW a \in Attempts, Live(a), jobSets'[a].state = "deleting",
         ctl.pc = "delete", ctl' # ctl
  PROVE  a = ctl.job.attempt
<1>1. jobSets \in [Attempts -> JobSets] /\ jobSets[a].state = "live" /\ jobSets' # jobSets
  BY DEF IInv, TypeOK, Live
<1>2. CASE cleanupActiveJobSet
  BY <1>1, <1>2 DEF cleanupActiveJobSet
<1>3. ASSUME NEW b \in Attempts,
             Trainer(b) \/ TrainerRestarts(b) \/ JobSetGone(b) \/ JobSetDeletedExternally(b)
      PROVE  FALSE
  BY <1>3 DEF Trainer, StartSave, PublishManifest, PublishMarker, TrainingComplete, TrainerRestarts,
     JobSetGone, JobSetDeletedExternally, RuntimeFrame
<1>4. CASE InitializeStatus \/ ensureStopRequested \/ ContinueStopFlow \/ reconcileManualHold \/ DeferUntilAdmitted
           \/ ObserveActive \/ reconcileLaunch \/ reconcileResume \/ writePauseControl \/ ObserveNotReady
           \/ ObserveRecord \/ ObserveComplete \/ DrainTimedOut \/ StatusUpdate \/ StatusConflict
  BY <1>1, <1>4 DEF InitializeStatus, ensureStopRequested, ContinueStopFlow, reconcileManualHold,
     DeferUntilAdmitted, ObserveActive, reconcileLaunch, reconcileResume, writePauseControl, ObserveNotReady,
     ObserveRecord, ObserveComplete, DrainTimedOut, StatusUpdate, StatusConflict, ReconcileFrame, runtimeVars
<1>5. CASE failLaunch \/ CallFails \/ Crash \/ Deliver
  BY <1>1, <1>5 DEF failLaunch, CallFails, Crash, Deliver, ReconcileFrame, runtimeVars
<1>6. CASE createRunAttemptResources \/ CreateReplyLost
  BY <1>6 DEF createRunAttemptResources, CreateReplyLost
<1>7. CASE UserSetDesiredState \/ UserEditIdentity \/ KueueSuspend \/ KueueRunWithPodSetsInfo
  BY <1>1, <1>7, SpecWriteFrame DEF runtimeVars
<1>8. CASE UNCHANGED vars
  BY <1>1, <1>8 DEF vars
<1> QED
  BY <1>2, <1>3, <1>4, <1>5, <1>6, <1>7, <1>8 DEF Next, Reconcile

(* Outside the timeout path a running JobSet is deleted only once the API server records a
   complete checkpoint that this attempt published after the request, although the reconcile
   decides on a copy that may be old by the time of the call (reconcileStopFlow). *)
THEOREM DeletesOnlyRecorded == Spec => DeleteOnlyRecorded
<1> DEFINE A == \A a \in Attempts :
                  ctl.pc = "delete" /\ ctl' # ctl /\ Live(a) /\ jobSets'[a].state = "deleting" =>
                    /\ rtj.attempt = a
                    /\ rtj.lastCompleted # None
                    /\ store[rtj.lastCompleted].manifest
                    /\ store[rtj.lastCompleted].attempt = a
                    /\ store[rtj.lastCompleted].at > rtj.yieldRequestedAt
<1>1. IInv /\ CkptInv /\ [Next]_vars => A
  <2> SUFFICES ASSUME IInv, CkptInv, [Next]_vars, NEW a \in Attempts,
                      ctl.pc = "delete", ctl' # ctl, Live(a), jobSets'[a].state = "deleting"
               PROVE  /\ rtj.attempt = a
                      /\ rtj.lastCompleted # None
                      /\ store[rtj.lastCompleted].manifest
                      /\ store[rtj.lastCompleted].attempt = a
                      /\ store[rtj.lastCompleted].at > rtj.yieldRequestedAt
    OBVIOUS
  <2>1. a = ctl.job.attempt
    BY OnlyCleanupDeletes
  <2>2. rtj.attempt = a
    <3>1. a \in {rtj.attempt, rtj.attempt + 1}
      BY DEF IInv, Coherent, RuntimeInv, LiveSet
    <3>2. Older(ctl.job, rtj)
      BY DEF IInv, Coherent, MidInv, Mid
    <3>3. rtj.attempt \in Nat /\ ctl.job.attempt \in Nat
      BY DEF IInv, TypeOK, RTJs, Ctls
    <3> QED
      BY <2>1, <3>1, <3>2, <3>3 DEF Older
  <2> DEFINE c == markers[a].ckpt
  <2>3. /\ PauseObserved(ctl.job) /\ ctl.job.lastCompleted = c /\ StopAlreadyRequested(ctl.job)
        /\ Follows(ctl.job, rtj, store, markers)
    BY <2>1 DEF CkptInv, HeldInv, Stop, Mid
  <2>4. rtj.lastCompleted = c /\ rtj.yieldRequestedAt = ctl.job.yieldRequestedAt
    BY <2>1, <2>2, <2>3 DEF Follows
  <2>5. c # None /\ store[c].manifest /\ store[c].at > ctl.job.yieldRequestedAt
    BY <2>1, <2>3 DEF PauseObserved
  <2>6. store[c].attempt = a
    BY <2>5 DEF CkptInv, SavedInv
  <2> HIDE DEF c
  <2> QED
    BY <2>2, <2>4, <2>5, <2>6
<1> QED
  BY <1>1, CkptInductive, PTL DEF Spec, DeleteOnlyRecorded
=============================================================================
