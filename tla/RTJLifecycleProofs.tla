------------------------- MODULE RTJLifecycleProofs -------------------------
EXTENDS RTJLifecycle, TLAPS

USE IdentsAssumption, BoundsAssumption

-----------------------------------------------------------------------------
\* Types of the status transitions

LEMMA NewRTJType == \A d \in {"Running", "Paused"} : NewRTJ(d) \in RTJs
  BY DEF NewRTJ, RTJs, Phases, None

LEMMA IdleType == Idle \in Ctls
  BY NewRTJType DEF Idle, Ctls, PCs, None

LEMMA SetPhaseType ==
  ASSUME NEW j \in RTJs, NEW p \in Phases
  PROVE  /\ SetPhase(j, p) \in RTJs
         /\ SetPhase(j, p).phase = p
         /\ SetPhase(j, p).attempt = j.attempt
         /\ SetPhase(j, p).selected = j.selected
         /\ SetPhase(j, p).desired = j.desired
         /\ SetPhase(j, p).suspend = j.suspend
  BY DEF SetPhase, RTJs

LEMMA InitializeType ==
  ASSUME NEW j \in RTJs
  PROVE  /\ InitializePhase1Status(j) \in RTJs
         /\ InitializePhase1Status(j).phase = IF j.phase = "None" THEN "Pending" ELSE j.phase
         /\ InitializePhase1Status(j).attempt = j.attempt
         /\ InitializePhase1Status(j).selected = j.selected
  BY DEF InitializePhase1Status, RTJs, Phases

LEMMA StopRequestedType ==
  ASSUME NEW j \in RTJs, NEW now \in 0 .. MaxClock
  PROVE  /\ markStopRequested(j, now) \in RTJs
         /\ markStopRequested(j, now).phase = "YieldRequested"
         /\ markStopRequested(j, now).attempt = j.attempt
  BY DEF markStopRequested, SetPhase, RTJs, Phases, None

LEMMA StartingType ==
  ASSUME NEW j \in RTJs, NEW a \in 0 .. MaxAttempts
  PROVE  /\ markStarting(j, a) \in RTJs
         /\ markStarting(j, a).phase = "Starting"
         /\ markStarting(j, a).attempt = a
  BY DEF markStarting, SetPhase, RTJs, Phases

LEMMA RestoringType ==
  ASSUME NEW j \in RTJs, NEW a \in 0 .. MaxAttempts, NEW c \in 0 .. MaxCkpts
  PROVE  /\ markRestoring(j, a, c) \in RTJs
         /\ markRestoring(j, a, c).phase = "Restoring"
         /\ markRestoring(j, a, c).attempt = a
         /\ markRestoring(j, a, c).selected = c
<1>1. SetPhase(j, "Restoring") \in RTJs /\ SetPhase(j, "Restoring").phase = "Restoring"
  BY SetPhaseType DEF Phases
<1> DEFINE s == SetPhase(j, "Restoring")
           t == [s EXCEPT !.attempt = a]
           u == [t EXCEPT !.pauseRequestID = None]
           v == [u EXCEPT !.selected = c]
<1> HIDE DEF s
<1>2. t \in RTJs /\ t.phase = "Restoring" /\ t.attempt = a
  BY <1>1 DEF RTJs, s
<1> HIDE DEF t
<1>3. u \in RTJs /\ u.phase = "Restoring" /\ u.attempt = a
  BY <1>2 DEF RTJs, None
<1> HIDE DEF u
<1>4. v \in RTJs /\ v.phase = "Restoring" /\ v.attempt = a /\ v.selected = c
  BY <1>3 DEF RTJs
<1>5. markRestoring(j, a, c) = v
  BY <1>1 DEF markRestoring, RTJs, s, t, u
<1> QED
  BY <1>4, <1>5

LEMMA RecordType ==
  ASSUME NEW j \in RTJs, NEW c \in 0 .. MaxCkpts
  PROVE  /\ [j EXCEPT !.lastCompleted = c, !.selected = c] \in RTJs
         /\ [j EXCEPT !.lastCompleted = c, !.selected = c].phase = j.phase
         /\ [j EXCEPT !.lastCompleted = c, !.selected = c].attempt = j.attempt
  BY DEF RTJs

LEMMA TargetType ==
  ASSUME NEW j \in RTJs
  PROVE  /\ Reuse(j) => TargetAttempt(j) = j.attempt
         /\ ~Reuse(j) => TargetAttempt(j) = j.attempt + 1
         /\ TargetAttempt(j) \in Nat \ {0}
  BY DEF RTJs, TargetAttempt, Reuse, shouldResume, None

-----------------------------------------------------------------------------
\* Reusable steps of the induction

LEMMA InitIInv == Init => IInv
<1> SUFFICES ASSUME Init PROVE IInv
  OBVIOUS
<1>1. TypeOK
  BY NewRTJType, IdleType DEF Init, TypeOK, JobSets, Trainers, NoTrainer, Manifests, YieldMarkers, Budgets, Attempts, None
<1>2. LiveSet = {}
  BY DEF Init, LiveSet, Live
<1>3. ctl.pc = "idle" /\ ~ctl.fresh /\ rtj.attempt = 0 /\ rtj.phase = "None" /\ seen = rtj
  BY DEF Init, Idle, NewRTJ, None
<1>4. CacheInv
  BY <1>1, <1>2, <1>3 DEF Init, CacheInv, Older, SafeToRecreate, Reuse, None, HeldPhases
<1>5. RuntimeInv
  BY <1>1, <1>2, <1>3 DEF Init, RuntimeInv, SafeToRecreate, Reuse, None, HeldPhases
<1> QED
  BY <1>1, <1>3, <1>4, <1>5 DEF IInv, Coherent, MidInv, StopInv, CreateInv, CommitInv, Mid, Stop

(* A reconcile that returns leaves nothing to hold about the version it had. *)
LEMMA ReturnInv ==
  ASSUME Return
  PROVE  /\ ctl' \in Ctls
         /\ ctl'.pc = "idle" /\ ~ctl'.fresh
         /\ MidInv' /\ StopInv' /\ CreateInv' /\ CommitInv'
<1>1. ctl' \in Ctls
  BY IdleType DEF Return
<1>2. ctl'.pc = "idle" /\ ~ctl'.fresh
  BY DEF Return, Idle
<1> QED
  BY <1>1, <1>2 DEF MidInv, StopInv, CreateInv, CommitInv, Mid, Stop

(* A step that moves the reconcile on, and at most ends JobSets, keeps what concerns the
   cache and the runtime. *)
LEMMA FrameInv ==
  ASSUME IInv, UNCHANGED <<rtj, seen, seenFresh, controlMaps>>, LiveSet' \subseteq LiveSet,
         ctl'.fresh => ctl'.pc # "idle" /\ seenFresh
  PROVE  CacheInv' /\ RuntimeInv'
<1>1. CacheInv'
  BY DEF IInv, Coherent, CacheInv, Older, SafeToRecreate, Reuse, Wanted
<1>2. RuntimeInv'
  BY DEF IInv, Coherent, RuntimeInv, SafeToRecreate, Reuse
<1> QED
  BY <1>1, <1>2

LEMMA SameLive == UNCHANGED jobSets => LiveSet' = LiveSet
  BY DEF LiveSet, Live

LEMMA OlderSelf == \A j : Older(j, j)
  BY DEF Older, Reuse, HeldPhases

(* The version a step of the reconcile works on. *)
Held == IF ctl.pc = "idle" THEN seen ELSE ctl.job

(* Going on to Status().Update with a status that keeps the attempt, is Restoring only if
   it was, and is Pending, Queued or Paused only without a recorded runtime. *)
LEMMA GoCommit ==
  ASSUME IInv, UNCHANGED <<rtj, seen, seenFresh, controlMaps>>, LiveSet' \subseteq LiveSet,
         ctl.pc = "idle" \/ ctl.pc \in Mid,
         NEW j \in RTJs, Go("commit", j, None),
         j.attempt = Held.attempt,
         j.phase # "None",
         Reuse(j) => Reuse(Held),
         Held = rtj /\ j.phase \in HeldPhases => Held.attempt \notin LiveSet,
         j.phase \in HeldPhases /\ Reuse(Held) => ~Wanted(Held)
  PROVE  ctl' \in Ctls /\ Coherent'
<1>1. ctl' = [pc |-> "commit", job |-> j, restore |-> None,
              fresh |-> IF ctl.pc = "idle" THEN seenFresh ELSE ctl.fresh]
  BY DEF Go
<1>2. ctl'.pc = "commit" /\ ctl'.job = j /\ (ctl'.fresh => seenFresh)
  BY <1>1 DEF IInv, Coherent, CacheInv
<1>3. ctl' \in Ctls
  BY <1>1 DEF IInv, TypeOK, Ctls, PCs, None
<1>4. CacheInv' /\ RuntimeInv'
  BY <1>2, FrameInv
<1>5. MidInv' /\ StopInv' /\ CreateInv'
  BY <1>2 DEF MidInv, StopInv, CreateInv, Mid, Stop
<1>6. ctl'.fresh => Held = rtj
  <2>1. CASE ctl.pc = "idle"
    BY <1>1, <2>1 DEF Held, IInv, Coherent, CacheInv
  <2>2. CASE ctl.pc \in Mid
    BY <1>1, <2>2 DEF Held, IInv, Coherent, MidInv, Mid
  <2> QED
    BY <2>1, <2>2
<1>7. CommitInv'
  <2> SUFFICES ASSUME ctl'.fresh PROVE CommitInv'
    BY DEF CommitInv
  <2>1. rtj' = Held /\ Held = rtj /\ ctl'.job = j
    BY <1>2, <1>6
  <2>2. Reuse(ctl'.job) = Reuse(j) /\ Reuse(rtj') = Reuse(Held) /\ Wanted(rtj') = Wanted(Held)
    BY <2>1
  <2> QED
    BY <2>1, <2>2 DEF CommitInv
<1> QED
  BY <1>3, <1>4, <1>5, <1>7 DEF Coherent

(* The same when the reconcile may find nothing changed and return. *)
LEMMA UpdateInv ==
  ASSUME IInv, UNCHANGED <<rtj, seen, seenFresh, controlMaps>>, LiveSet' \subseteq LiveSet,
         ctl.pc = "idle" \/ ctl.pc \in Mid,
         NEW j \in RTJs, Go("commit", j, None) \/ Return,
         j.attempt = Held.attempt,
         j.phase # "None",
         Reuse(j) => Reuse(Held),
         Held = rtj /\ j.phase \in HeldPhases => Held.attempt \notin LiveSet,
         j.phase \in HeldPhases /\ Reuse(Held) => ~Wanted(Held)
  PROVE  ctl' \in Ctls /\ Coherent'
<1>1. CASE Return
  BY <1>1, ReturnInv, FrameInv DEF Coherent
<1>2. CASE Go("commit", j, None)
  BY <1>2, GoCommit
<1> QED
  BY <1>1, <1>2

(* Going on to a call with the cached version. *)
LEMMA GoMid ==
  ASSUME IInv, UNCHANGED <<rtj, seen, seenFresh, controlMaps, jobSets>>,
         ctl.pc = "idle", NEW pc \in Mid, NEW c \in 0 .. MaxCkpts, Go(pc, seen, c),
         pc \in Stop => seen.attempt # None /\ seen.phase \in {"YieldRequested", "Draining"},
         pc = "create" => /\ TargetAttempt(seen) <= MaxAttempts
                          /\ shouldResume(seen) => c # None
                          /\ seen.attempt \notin LiveSet
                          /\ Wanted(seen)
  PROVE  ctl' \in Ctls /\ Coherent'
<1>1. ctl' = [pc |-> pc, job |-> seen, fresh |-> seenFresh, restore |-> c]
  BY DEF Go
<1>2. ctl' \in Ctls
  BY <1>1 DEF IInv, TypeOK, Ctls, PCs, Mid
<1>3. ctl'.pc = pc /\ ctl'.job = seen /\ ctl'.fresh = seenFresh /\ ctl'.restore = c
  BY <1>1
<1>4. LiveSet' = LiveSet
  BY SameLive
<1>5. CacheInv' /\ RuntimeInv'
  BY <1>3, <1>4, FrameInv DEF Mid
<1>6. MidInv'
  BY <1>3, <1>5, OlderSelf DEF MidInv, CacheInv
<1>7. StopInv'
  BY <1>3 DEF StopInv
<1>8. CreateInv'
  BY <1>3, <1>4, <1>5 DEF CreateInv, CacheInv, TargetAttempt, shouldResume, Wanted
<1>9. CommitInv'
  BY <1>3 DEF CommitInv, Mid
<1> QED
  BY <1>2, <1>5, <1>6, <1>7, <1>8, <1>9 DEF Coherent

(* Going on within the stop flow. *)
LEMMA StayInStop ==
  ASSUME IInv, UNCHANGED <<rtj, seen, seenFresh>>, CacheInv', RuntimeInv',
         ctl.pc \in Stop, NEW pc \in Stop, Go(pc, ctl.job, None)
  PROVE  ctl' \in Ctls /\ Coherent'
<1>1. ctl' = [pc |-> pc, job |-> ctl.job, fresh |-> ctl.fresh, restore |-> None]
  BY DEF Go, Stop
<1>2. ctl' \in Ctls
  BY <1>1 DEF IInv, TypeOK, Ctls, PCs, Stop, None
<1>3. ctl'.pc = pc /\ ctl'.job = ctl.job /\ ctl'.fresh = ctl.fresh
  BY <1>1
<1>4. MidInv' /\ StopInv'
  BY <1>3 DEF IInv, Coherent, MidInv, StopInv, Stop, Mid, Older, Reuse, Wanted
<1>5. CreateInv' /\ CommitInv'
  BY <1>3 DEF CreateInv, CommitInv, Stop
<1> QED
  BY <1>2, <1>4, <1>5 DEF Coherent

(* The trainer and JobSets that end leave the controller's view as it is. *)
LEMMA ShrinkInv ==
  ASSUME IInv, UNCHANGED <<rtj, seen, seenFresh, ctl, controlMaps>>, LiveSet' \subseteq LiveSet
  PROVE  Coherent'
<1>1. CacheInv' /\ RuntimeInv'
  BY FrameInv DEF IInv, Coherent, CacheInv
<1>2. MidInv' /\ StopInv'
  BY DEF IInv, Coherent, MidInv, StopInv, Older, Reuse, Wanted
<1>3. CreateInv'
  BY DEF IInv, Coherent, CreateInv, SafeToRecreate, Reuse, Wanted, TargetAttempt, shouldResume
<1>4. CommitInv'
  BY DEF IInv, Coherent, CommitInv, Reuse, Wanted
<1> QED
  BY <1>1, <1>2, <1>3, <1>4 DEF Coherent

(* Types of a step that only moves the reconcile on. *)
LEMMA TypeFrame ==
  ASSUME TypeOK, UNCHANGED <<rtj, seen, seenFresh, runtimeVars>>,
         ctl' \in Ctls, queued' \in BOOLEAN, clock' \in 0 .. MaxClock, budget' \in Budgets
  PROVE  TypeOK'
  BY DEF TypeOK, runtimeVars

LEMMA SpendType ==
  ASSUME TypeOK, NEW kind \in {"user", "kueue", "fault"}, Spend(kind)
  PROVE  budget' \in Budgets
  BY DEF TypeOK, Spend, Budgets

LEMMA ActiveLive ==
  ASSUME TypeOK, NEW j \in RTJs
  PROVE  getActiveJobSet(j) <=> j.attempt \in LiveSet
  BY DEF getActiveJobSet, LiveSet, Live, RTJs, Attempts, None

LEMMA UpdateCases ==
  ASSUME NEW old, NEW new, UpdateIfChanged(old, new)
  PROVE  Go("commit", new, None) \/ Return
  BY DEF UpdateIfChanged

LEMMA RequeueCases ==
  ASSUME TypeOK, NEW old, NEW new, UpdateOrRequeue(old, new)
  PROVE  /\ Go("commit", new, None) \/ Return
         /\ queued' \in BOOLEAN
  BY DEF UpdateOrRequeue, TypeOK

-----------------------------------------------------------------------------
\* Reconcile, part 1

LEMMA InitializeStatusInv ==
  ASSUME IInv, InitializeStatus
  PROVE  IInv'
<1>1. TypeOK /\ seen \in RTJs /\ LiveSet' = LiveSet /\ Held = seen /\ ctl.pc = "idle"
  BY SameLive DEF IInv, TypeOK, InitializeStatus, Dequeue, ReconcileFrame, runtimeVars, Held
<1> DEFINE j == InitializePhase1Status(seen)
<1>2. j \in RTJs /\ j.attempt = seen.attempt /\ j.selected = seen.selected
      /\ j.phase = IF seen.phase = "None" THEN "Pending" ELSE seen.phase
  BY <1>1, InitializeType
<1>3. Go("commit", j, None)
  BY DEF InitializeStatus
<1> HIDE DEF j
<1>4. Reuse(j) => Reuse(seen)
  BY <1>2 DEF Reuse
<1>5. seen = rtj /\ j.phase \in HeldPhases => seen.attempt \notin LiveSet
  BY <1>1, <1>2 DEF IInv, Coherent, RuntimeInv, HeldPhases, LiveSet, Attempts, None
<1>6. ~(j.phase \in HeldPhases /\ Reuse(seen))
  BY <1>2 DEF Reuse, HeldPhases
<1>7. ctl' \in Ctls /\ Coherent'
  BY <1>1, <1>2, <1>3, <1>4, <1>5, <1>6, GoCommit DEF InitializeStatus, ReconcileFrame, runtimeVars
<1>8. TypeOK'
  BY <1>1, <1>7, TypeFrame DEF InitializeStatus, ReconcileFrame, TypeOK
<1> QED
  BY <1>7, <1>8 DEF IInv

(* The branches that set a phase and change nothing else of the RTJ. *)
LEMMA PhaseInv ==
  ASSUME IInv, NEW p \in Phases \ {"None", "Restoring"},
         UNCHANGED <<rtj, seen, seenFresh, runtimeVars, clock>>,
         queued' \in BOOLEAN, budget' \in Budgets,
         ctl.pc = "idle" \/ ctl.pc \in Mid,
         Go("commit", SetPhase(Held, p), None) \/ Return,
         p \in HeldPhases => ~getActiveJobSet(Held) /\ ~Wanted(Held)
  PROVE  IInv'
<1>1. TypeOK /\ Held \in RTJs /\ LiveSet' = LiveSet
  BY SameLive DEF IInv, TypeOK, Ctls, runtimeVars, Held
<1> DEFINE j == SetPhase(Held, p)
<1>2. j \in RTJs /\ j.attempt = Held.attempt /\ j.phase = p
  BY <1>1, SetPhaseType
<1> HIDE DEF j
<1>3. ~Reuse(j)
  BY <1>2 DEF Reuse
<1>4. p \in HeldPhases => Held.attempt \notin LiveSet
  BY <1>1, ActiveLive
<1>5. ctl' \in Ctls /\ Coherent'
  BY <1>1, <1>2, <1>3, <1>4, UpdateInv DEF runtimeVars, j
<1>6. TypeOK'
  BY <1>1, <1>5, TypeFrame DEF TypeOK
<1> QED
  BY <1>5, <1>6 DEF IInv

LEMMA reconcileManualHoldInv ==
  ASSUME IInv, reconcileManualHold
  PROVE  IInv'
<1>1. TypeOK /\ Held = seen /\ ctl.pc = "idle" /\ queued' \in BOOLEAN /\ budget' \in Budgets
  BY DEF IInv, TypeOK, reconcileManualHold, Initialized, Dequeue, Held
<1>2. UNCHANGED <<rtj, seen, seenFresh, runtimeVars, clock>> /\ ~getActiveJobSet(seen) /\ ~Wanted(seen)
  BY DEF reconcileManualHold, ReconcileFrame, Wanted
<1>3. CASE UpdateIfChanged(seen, markPaused(seen))
  BY <1>1, <1>2, <1>3, UpdateCases, PhaseInv DEF markPaused, Phases
<1>4. CASE UpdateIfChanged(seen, markPendingPaused(seen))
  BY <1>1, <1>2, <1>4, UpdateCases, PhaseInv DEF markPendingPaused, Phases
<1>5. CASE Return
  BY <1>1, <1>2, <1>5, PhaseInv DEF Phases, HeldPhases
<1> QED
  BY <1>3, <1>4, <1>5 DEF reconcileManualHold

LEMMA DeferUntilAdmittedInv ==
  ASSUME IInv, DeferUntilAdmitted
  PROVE  IInv'
<1>1. TypeOK /\ Held = seen /\ ctl.pc = "idle" /\ queued' \in BOOLEAN /\ budget' \in Budgets
  BY DEF IInv, TypeOK, DeferUntilAdmitted, Initialized, Dequeue, Held
<1>2. UNCHANGED <<rtj, seen, seenFresh, runtimeVars, clock>> /\ ~getActiveJobSet(seen) /\ ~Wanted(seen)
  BY DEF DeferUntilAdmitted, ReconcileFrame, Wanted
<1>3. UpdateIfChanged(seen, SetPhase(seen, "Queued"))
  BY DEF DeferUntilAdmitted, markQueuedForAdmission
<1> QED
  BY <1>1, <1>2, <1>3, UpdateCases, PhaseInv DEF Phases

LEMMA ObserveActiveInv ==
  ASSUME IInv, ObserveActive
  PROVE  IInv'
<1>1. TypeOK /\ Held = seen /\ ctl.pc = "idle" /\ queued' \in BOOLEAN /\ budget' \in Budgets
  BY DEF IInv, TypeOK, ObserveActive, Initialized, Dequeue, Held
<1>2. UNCHANGED <<rtj, seen, seenFresh, runtimeVars, clock>>
  BY DEF ObserveActive, ReconcileFrame
<1>3. UpdateIfChanged(seen, SetPhase(seen, "Running"))
  BY DEF ObserveActive, markRunning
<1> QED
  BY <1>1, <1>2, <1>3, UpdateCases, PhaseInv DEF Phases, HeldPhases

LEMMA ensureStopRequestedInv ==
  ASSUME IInv, ensureStopRequested
  PROVE  IInv'
<1>1. TypeOK /\ seen \in RTJs /\ LiveSet' = LiveSet /\ Held = seen /\ ctl.pc = "idle" /\ clock' \in 0 .. MaxClock
  BY SameLive DEF IInv, TypeOK, ensureStopRequested, Initialized, Dequeue, ReconcileFrame, runtimeVars, Held
<1> DEFINE j == markStopRequested(seen, clock')
<1>2. j \in RTJs /\ j.attempt = seen.attempt /\ j.phase = "YieldRequested"
  BY <1>1, StopRequestedType
<1>3. Go("commit", j, None)
  BY DEF ensureStopRequested
<1> HIDE DEF j
<1>4. ~Reuse(j) /\ j.phase \notin HeldPhases /\ j.phase # "None"
  BY <1>2 DEF Reuse, HeldPhases
<1>5. ctl' \in Ctls /\ Coherent'
  BY <1>1, <1>2, <1>3, <1>4, GoCommit DEF ensureStopRequested, ReconcileFrame, runtimeVars
<1>6. TypeOK'
  BY <1>1, <1>5, TypeFrame DEF ensureStopRequested, ReconcileFrame, TypeOK
<1> QED
  BY <1>5, <1>6 DEF IInv

LEMMA ContinueStopFlowInv ==
  ASSUME IInv, ContinueStopFlow
  PROVE  IInv'
<1>1. TypeOK /\ ctl.pc = "idle" /\ seen.attempt # None /\ seen.phase \in {"YieldRequested", "Draining"}
  BY DEF IInv, ContinueStopFlow, Initialized, Dequeue, requestedStopSource, getActiveJobSet, StopAlreadyRequested
<1>2. "control" \in Mid /\ None \in 0 .. MaxCkpts /\ Go("control", seen, None)
  BY DEF ContinueStopFlow, Mid, None
<1>3. ctl' \in Ctls /\ Coherent'
  BY <1>1, <1>2, GoMid DEF ContinueStopFlow, ReconcileFrame, runtimeVars
<1>4. TypeOK'
  BY <1>1, <1>3, TypeFrame DEF ContinueStopFlow, ReconcileFrame, TypeOK
<1> QED
  BY <1>3, <1>4 DEF IInv

LEMMA reconcileLaunchInv ==
  ASSUME IInv, reconcileLaunch
  PROVE  IInv'
<1>1. TypeOK /\ seen \in RTJs /\ ctl.pc = "idle" /\ ~getActiveJobSet(seen)
  BY DEF IInv, TypeOK, reconcileLaunch, Initialized, Dequeue, Launchable
<1>2. seen.attempt \notin LiveSet
  BY <1>1, ActiveLive
<1>3. "create" \in Mid /\ "create" \notin Stop /\ seen.selected \in 0 .. MaxCkpts
  BY <1>1 DEF Mid, Stop, RTJs
<1>4. Go("create", seen, seen.selected) /\ TargetAttempt(seen) <= MaxAttempts /\ ~shouldResume(seen) /\ Wanted(seen)
  BY DEF reconcileLaunch, Launchable, Wanted
<1>5. ctl' \in Ctls /\ Coherent'
  BY <1>1, <1>2, <1>3, <1>4, GoMid DEF reconcileLaunch, ReconcileFrame, runtimeVars
<1>6. TypeOK'
  BY <1>1, <1>5, TypeFrame DEF reconcileLaunch, ReconcileFrame, TypeOK
<1> QED
  BY <1>5, <1>6 DEF IInv

LEMMA ResumeCheckpointType ==
  ASSUME NEW j \in RTJs, NEW c \in resumeCheckpointForAttempt(j)
  PROVE  c \in 0 .. MaxCkpts /\ c # None
<1>1. CASE j.phase = "Restoring" /\ j.selected # None
  BY <1>1 DEF resumeCheckpointForAttempt, RTJs
<1>2. CASE ~(j.phase = "Restoring" /\ j.selected # None)
  BY <1>2 DEF resumeCheckpointForAttempt, SelectLatestCompatible, Ckpts, None
<1> QED
  BY <1>1, <1>2

LEMMA reconcileResumeInv ==
  ASSUME IInv, reconcileResume
  PROVE  IInv'
<1>1. TypeOK /\ seen \in RTJs /\ Held = seen /\ ctl.pc = "idle" /\ ~getActiveJobSet(seen) /\ Wanted(seen)
  BY DEF IInv, TypeOK, reconcileResume, Initialized, Dequeue, Launchable, Wanted, Held
<1>2. queued' \in BOOLEAN /\ budget' \in Budgets /\ UNCHANGED <<rtj, seen, seenFresh, runtimeVars, clock>>
  BY <1>1 DEF TypeOK, reconcileResume, ReconcileFrame
<1>3. CASE UpdateIfChanged(seen, markFailed(seen))
  BY <1>1, <1>2, <1>3, UpdateCases, PhaseInv DEF markFailed, Phases, HeldPhases
<1>4. ASSUME TargetAttempt(seen) <= MaxAttempts,
             NEW c \in resumeCheckpointForAttempt(seen), Go("create", seen, c)
      PROVE  IInv'
  <2>1. seen.attempt \notin LiveSet
    BY <1>1, ActiveLive
  <2>2. "create" \in Mid /\ "create" \notin Stop /\ c \in 0 .. MaxCkpts /\ c # None
    BY <1>1, ResumeCheckpointType DEF Mid, Stop
  <2>3. ctl' \in Ctls /\ Coherent'
    BY <1>1, <1>2, <1>4, <2>1, <2>2, GoMid DEF runtimeVars
  <2>4. TypeOK'
    BY <1>1, <1>2, <2>3, TypeFrame DEF TypeOK
  <2> QED
    BY <2>3, <2>4 DEF IInv
<1> QED
  BY <1>3, <1>4 DEF reconcileResume

-----------------------------------------------------------------------------
\* Reconcile, part 2

(* In the stop flow the version held is of a recorded attempt that nothing recreates: the
   cache and the API server are at most one launch ahead of it. *)
LEMMA StopFlowFacts ==
  ASSUME IInv, ctl.pc \in Stop
  PROVE  /\ ctl.job \in RTJs
         /\ ctl.job.attempt \in Attempts
         /\ ctl.job.attempt <= rtj.attempt
         /\ ~Reuse(ctl.job)
         /\ Held = ctl.job
         /\ ctl.job.attempt = rtj.attempt => seen.attempt = rtj.attempt /\ ~Reuse(seen) /\ ~Reuse(rtj)
<1>1. ctl.job \in RTJs /\ rtj \in RTJs /\ seen \in RTJs /\ ctl.pc \in Mid /\ Held = ctl.job
  BY DEF IInv, TypeOK, Ctls, Stop, Mid, Held
<1>2. ctl.job.attempt # None /\ ctl.job.phase \in {"YieldRequested", "Draining"}
  BY DEF IInv, Coherent, StopInv
<1>3. Older(ctl.job, seen) /\ Older(ctl.job, rtj) /\ Older(seen, rtj)
  BY <1>1 DEF IInv, Coherent, MidInv, CacheInv
<1>4. ctl.job.attempt \in 0 .. MaxAttempts /\ rtj.attempt \in 0 .. MaxAttempts /\ seen.attempt \in 0 .. MaxAttempts
  BY <1>1 DEF RTJs
<1>5. ~Reuse(ctl.job)
  BY <1>2 DEF Reuse
<1>6. ctl.job.attempt \in Attempts /\ ctl.job.attempt <= rtj.attempt
  BY <1>2, <1>3, <1>4 DEF Older, Attempts, None
<1>7. ASSUME ctl.job.attempt = rtj.attempt PROVE seen.attempt = rtj.attempt /\ ~Reuse(seen) /\ ~Reuse(rtj)
  BY <1>3, <1>4, <1>5, <1>7 DEF Older
<1> QED
  BY <1>1, <1>5, <1>6, <1>7

LEMMA writePauseControlInv ==
  ASSUME IInv, writePauseControl
  PROVE  IInv'
<1>1. TypeOK /\ ctl.pc = "control" /\ ctl.pc \in Stop /\ "observe" \in Stop /\ LiveSet' = LiveSet
  BY SameLive DEF IInv, writePauseControl, Stop
<1> DEFINE a == ctl.job.attempt
<1>2. /\ ctl.job \in RTJs /\ a \in Attempts /\ a <= rtj.attempt
      /\ a = rtj.attempt => seen.attempt = rtj.attempt /\ ~Reuse(seen) /\ ~Reuse(rtj)
  BY <1>1, StopFlowFacts
<1>3. controlMaps' = [controlMaps EXCEPT ![a] = ctl.job.pauseRequestID] /\ Go("observe", ctl.job, None)
      /\ UNCHANGED <<rtj, seen, seenFresh, queued, jobSets, trainers, store, markers, clock, budget>>
  BY DEF writePauseControl
<1> HIDE DEF a
<1>4. controlMaps' \in [Attempts -> 0 .. MaxAttempts]
  BY <1>1, <1>2, <1>3 DEF TypeOK, RTJs
<1>5. \A b \in Attempts : b # a => controlMaps'[b] = controlMaps[b]
  BY <1>1, <1>3 DEF TypeOK
<1>6. rtj.attempt # None /\ rtj.attempt # a => controlMaps'[rtj.attempt] = controlMaps[rtj.attempt]
  BY <1>1, <1>5 DEF TypeOK, RTJs, Attempts, None
<1>7. SafeToRecreate(seen)' /\ SafeToRecreate(rtj)'
  <2>1. SafeToRecreate(seen) /\ SafeToRecreate(rtj)
    BY DEF IInv, Coherent, CacheInv, RuntimeInv
  <2>2. rtj' = rtj /\ seen' = seen
    BY <1>3
  <2>3. Reuse(seen') = Reuse(seen) /\ Reuse(rtj') = Reuse(rtj)
    BY <2>2
  <2> QED
    BY <1>1, <1>2, <1>6, <2>1, <2>2, <2>3 DEF SafeToRecreate
<1>8. CacheInv'
  <2>1. ctl'.fresh = ctl.fresh /\ ctl'.pc = "observe"
    BY <1>1, <1>3 DEF Go
  <2>2. Older(seen, rtj)'
    BY <1>3 DEF IInv, Coherent, CacheInv, Older, Reuse, Wanted
  <2> QED
    BY <1>3, <1>7, <2>1, <2>2 DEF IInv, Coherent, CacheInv
<1>9. RuntimeInv'
  <2>1. \A b \in Attempts : controlMaps'[b] # None => b <= rtj.attempt
    BY <1>2, <1>5 DEF IInv, Coherent, RuntimeInv
  <2> QED
    BY <1>1, <1>3, <1>7, <2>1 DEF IInv, Coherent, RuntimeInv
<1>10. ctl' \in Ctls /\ Coherent'
  BY <1>1, <1>3, <1>8, <1>9, StayInStop
<1>11. TypeOK'
  BY <1>1, <1>3, <1>4, <1>10 DEF TypeOK
<1> QED
  BY <1>10, <1>11 DEF IInv

(* Going on within the stop flow without a call that changes anything. *)
LEMMA StopStepInv ==
  ASSUME IInv, ctl.pc = "observe", NEW pc \in Stop, Go(pc, ctl.job, None),
         UNCHANGED <<rtj, seen, seenFresh, runtimeVars, queued, clock, budget>>
  PROVE  IInv'
<1>1. TypeOK /\ ctl.pc \in Stop /\ LiveSet' = LiveSet
  BY SameLive DEF IInv, Stop, runtimeVars
<1>2. ctl'.fresh = ctl.fresh /\ ctl'.pc # "idle"
  BY DEF Go, Stop
<1>3. CacheInv' /\ RuntimeInv'
  BY <1>1, <1>2, FrameInv DEF runtimeVars, IInv, Coherent, CacheInv
<1>4. ctl' \in Ctls /\ Coherent'
  BY <1>1, <1>3, StayInStop
<1>5. TypeOK'
  BY <1>1, <1>4, TypeFrame DEF TypeOK
<1> QED
  BY <1>4, <1>5 DEF IInv

LEMMA DrainTimedOutInv == ASSUME IInv, DrainTimedOut PROVE IInv'
  BY StopStepInv DEF DrainTimedOut, ReconcileFrame, Stop

LEMMA ObserveCompleteInv == ASSUME IInv, ObserveComplete PROVE IInv'
  BY StopStepInv DEF ObserveComplete, ReconcileFrame, Stop

LEMMA ObserveNotReadyInv ==
  ASSUME IInv, ObserveNotReady
  PROVE  IInv'
<1>1. TypeOK /\ ctl.pc \in Mid /\ Held = ctl.job /\ UNCHANGED <<rtj, seen, seenFresh, runtimeVars, clock>>
  BY DEF IInv, ObserveNotReady, ReconcileFrame, Mid, Held
<1>2. UpdateOrRequeue(ctl.job, SetPhase(ctl.job, "Draining")) /\ budget' \in Budgets
  BY <1>1 DEF ObserveNotReady, markDraining, TypeOK
<1>3. (Go("commit", SetPhase(ctl.job, "Draining"), None) \/ Return) /\ queued' \in BOOLEAN
  BY <1>1, <1>2, RequeueCases
<1> QED
  BY <1>1, <1>2, <1>3, PhaseInv DEF Phases, HeldPhases

LEMMA ObserveRecordInv ==
  ASSUME IInv, ObserveRecord
  PROVE  IInv'
<1>1. TypeOK /\ ctl.pc \in Stop /\ ctl.pc \in Mid /\ LiveSet' = LiveSet
  BY SameLive DEF IInv, ObserveRecord, ReconcileFrame, runtimeVars, Mid, Stop
<1>2. ctl.job \in RTJs /\ ctl.job.attempt \in Attempts /\ Held = ctl.job
  BY <1>1, StopFlowFacts
<1> DEFINE c == markers[ctl.job.attempt].ckpt
           j == [ctl.job EXCEPT !.lastCompleted = c, !.selected = c]
<1>3. c \in 0 .. MaxCkpts /\ Go("commit", j, None)
  BY <1>1, <1>2 DEF TypeOK, YieldMarkers, ObserveRecord
<1> HIDE DEF c
<1>4. j \in RTJs /\ j.phase = ctl.job.phase /\ j.attempt = ctl.job.attempt
  BY <1>2, <1>3, RecordType
<1> HIDE DEF j
<1>5. ~Reuse(j) /\ j.phase \notin HeldPhases /\ j.phase # "None"
  BY <1>1, <1>4 DEF IInv, Coherent, StopInv, Reuse, HeldPhases
<1>6. ctl' \in Ctls /\ Coherent'
  BY <1>1, <1>2, <1>3, <1>4, <1>5, GoCommit DEF ObserveRecord, ReconcileFrame, runtimeVars
<1>7. TypeOK'
  BY <1>1, <1>6, TypeFrame DEF ObserveRecord, ReconcileFrame, TypeOK
<1> QED
  BY <1>6, <1>7 DEF IInv

LEMMA cleanupActiveJobSetInv ==
  ASSUME IInv, cleanupActiveJobSet
  PROVE  IInv'
<1>1. TypeOK /\ ctl.pc \in Stop /\ ctl.pc \in Mid
  BY DEF IInv, cleanupActiveJobSet, Mid, Stop
<1>2. ctl.job \in RTJs /\ ctl.job.attempt \in Attempts /\ Held = ctl.job
  BY <1>1, StopFlowFacts
<1>3. jobSets' \in [Attempts -> JobSets] /\ LiveSet' \subseteq LiveSet
  BY <1>1, <1>2 DEF TypeOK, JobSets, cleanupActiveJobSet, LiveSet, Live
<1> DEFINE j == SetPhase(ctl.job, "Failed")
<1>4. (Go("commit", j, None) \/ Return) /\ queued' \in BOOLEAN
  BY <1>1 DEF cleanupActiveJobSet, markFailed, TypeOK
<1>5. j \in RTJs /\ j.attempt = Held.attempt /\ j.phase = "Failed"
  BY <1>2, SetPhaseType DEF Phases
<1> HIDE DEF j
<1>6. ~Reuse(j) /\ j.phase \notin HeldPhases /\ j.phase # "None"
  BY <1>5 DEF Reuse, HeldPhases
<1>7. ctl' \in Ctls /\ Coherent'
  BY <1>1, <1>3, <1>4, <1>5, <1>6, UpdateInv DEF cleanupActiveJobSet
<1>8. TypeOK'
  BY <1>1, <1>3, <1>4, <1>7 DEF TypeOK, cleanupActiveJobSet
<1> QED
  BY <1>7, <1>8 DEF IInv

(* What createRunAttemptResources can find: the attempt it creates is the next one, and
   then the recorded one does not run; or it is the recorded one, whose creation is being
   repeated, and then the next one does not run and no stop was ever requested of it. *)
LEMMA CreateCases ==
  ASSUME IInv, ctl.pc = "create"
  PROVE  LET a == TargetAttempt(ctl.job) IN
         /\ a \in Attempts
         /\ \/ /\ a = rtj.attempt + 1
               /\ rtj.attempt \notin LiveSet
               /\ ctl.job.attempt = rtj.attempt /\ ~Reuse(ctl.job)
               /\ seen.attempt = rtj.attempt /\ ~Reuse(seen) /\ ~Reuse(rtj)
            \/ /\ a = rtj.attempt
               /\ rtj.attempt + 1 \notin LiveSet
               /\ controlMaps[a] = None
               /\ rtj.phase \notin HeldPhases
               /\ ctl.job.attempt = rtj.attempt => Reuse(ctl.job)
<1> DEFINE j == ctl.job
           a == TargetAttempt(j)
<1>1. j \in RTJs /\ rtj \in RTJs /\ seen \in RTJs
  BY DEF IInv, TypeOK, Ctls
<1>2. j.attempt \in 0 .. MaxAttempts /\ rtj.attempt \in 0 .. MaxAttempts /\ seen.attempt \in 0 .. MaxAttempts
  BY <1>1 DEF RTJs
<1>3. Older(j, seen) /\ Older(j, rtj) /\ Older(seen, rtj)
  BY DEF IInv, Coherent, MidInv, CacheInv, Mid
<1>4. a <= MaxAttempts /\ j.attempt \notin LiveSet /\ Wanted(j) /\ SafeToRecreate(j)
  BY DEF IInv, Coherent, CreateInv
<1>5. /\ Reuse(j) => a = j.attempt /\ j.attempt # None
      /\ ~Reuse(j) => a = j.attempt + 1
      /\ a \in Nat \ {0}
  BY <1>1, TargetType DEF Reuse
<1> HIDE DEF j, a
<1>6. a \in Attempts
  BY <1>4, <1>5 DEF Attempts
<1>7. CASE j.attempt = rtj.attempt /\ ~Reuse(j)
  <2>1. ~Reuse(rtj)
    BY <1>2, <1>3, <1>7 DEF Older
  <2>2. seen.attempt = rtj.attempt
    BY <1>2, <1>3, <1>7 DEF Older
  <2>3. ~Reuse(seen)
    BY <1>2, <1>3, <1>7, <2>2 DEF Older
  <2> QED
    BY <1>4, <1>5, <1>6, <1>7, <2>1, <2>2, <2>3 DEF j, a
<1>8. CASE j.attempt = rtj.attempt /\ Reuse(j)
  <2>1. rtj.phase \notin HeldPhases
    BY <1>2, <1>3, <1>4, <1>8 DEF Older
  <2>2. rtj.attempt + 1 \notin LiveSet /\ controlMaps[rtj.attempt] = None
    BY <1>4, <1>5, <1>8 DEF SafeToRecreate
  <2> QED
    BY <1>5, <1>6, <1>8, <2>1, <2>2 DEF j, a
<1>9. CASE j.attempt # rtj.attempt
  <2>1. j.attempt + 1 = rtj.attempt /\ ~Reuse(j) /\ rtj.phase \in {"Starting", "Restoring"}
    BY <1>3, <1>9 DEF Older
  <2>2. rtj.attempt + 1 \notin LiveSet /\ controlMaps[rtj.attempt] = None
    BY <1>2, <1>4, <1>9, <2>1 DEF SafeToRecreate, None
  <2> QED
    BY <1>5, <1>6, <1>9, <2>1, <2>2 DEF j, a, HeldPhases
<1> QED
  BY <1>7, <1>8, <1>9

LEMMA StartTrainerType ==
  \A c, i : StartTrainer(c, i) \in Trainers
  BY DEF StartTrainer, NoTrainer, Trainers, None

LEMMA createIfMissingLive ==
  ASSUME TypeOK, NEW a \in Attempts, NEW c \in 0 .. MaxCkpts, NEW i \in Idents,
         createIfMissing(a, c, i)
  PROVE  /\ jobSets' \in [Attempts -> JobSets]
         /\ trainers' \in [Attempts -> Trainers]
         /\ LiveSet' \subseteq LiveSet \cup {a}
<1>1. CASE jobSets[a].state = "absent"
  <2>1. jobSets' = [jobSets EXCEPT ![a] = [state |-> "live", restore |-> c, ident |-> i]]
        /\ trainers' = [trainers EXCEPT ![a] = StartTrainer(c, i)]
    BY <1>1 DEF createIfMissing
  <2>2. jobSets' \in [Attempts -> JobSets]
    BY <2>1 DEF TypeOK, JobSets
  <2>3. trainers' \in [Attempts -> Trainers]
    BY <2>1, StartTrainerType DEF TypeOK
  <2>4. LiveSet' \subseteq LiveSet \cup {a}
    BY <2>1 DEF TypeOK, LiveSet, Live
  <2> QED
    BY <2>2, <2>3, <2>4
<1>2. CASE jobSets[a].state # "absent"
  BY <1>2, SameLive DEF TypeOK, createIfMissing
<1> QED
  BY <1>1, <1>2

LEMMA CreateRuntime ==
  ASSUME IInv, ctl.pc = "create",
         createIfMissing(TargetAttempt(ctl.job), ctl.restore, ctl.job.ident),
         UNCHANGED <<rtj, seen, seenFresh, controlMaps>>,
         ctl'.fresh => ctl'.pc # "idle" /\ seenFresh
  PROVE  /\ jobSets' \in [Attempts -> JobSets]
         /\ trainers' \in [Attempts -> Trainers]
         /\ LiveSet' \subseteq LiveSet \cup {TargetAttempt(ctl.job)}
         /\ CacheInv' /\ RuntimeInv'
<1> DEFINE a == TargetAttempt(ctl.job)
<1>1. a \in Attempts
  BY CreateCases
<1>2. TypeOK /\ ctl.restore \in 0 .. MaxCkpts /\ ctl.job.ident \in Idents /\ rtj.attempt \in 0 .. MaxAttempts
  BY DEF IInv, TypeOK, Ctls, RTJs
<1>3. /\ jobSets' \in [Attempts -> JobSets]
      /\ trainers' \in [Attempts -> Trainers]
      /\ LiveSet' \subseteq LiveSet \cup {a}
  BY <1>1, <1>2, createIfMissingLive
<1>4. LiveSet \subseteq {rtj.attempt, rtj.attempt + 1}
  BY DEF IInv, Coherent, RuntimeInv
<1>5. rtj' = rtj /\ seen' = seen /\ controlMaps' = controlMaps
  OBVIOUS
<1>6. Reuse(seen') = Reuse(seen) /\ Reuse(rtj') = Reuse(rtj)
  BY <1>5
<1>7. Older(seen, rtj)'
  BY <1>5 DEF IInv, Coherent, CacheInv, Older, Reuse, Wanted
<1>8. CASE a = rtj.attempt + 1
  <2>1. rtj.attempt \notin LiveSet /\ seen.attempt = rtj.attempt /\ ~Reuse(seen) /\ ~Reuse(rtj)
    BY <1>2, <1>8, CreateCases
  <2>2. rtj.attempt \notin LiveSet' /\ LiveSet' \subseteq {rtj.attempt, rtj.attempt + 1}
    BY <1>2, <1>3, <1>4, <1>8, <2>1
  <2>3. SafeToRecreate(seen)' /\ SafeToRecreate(rtj)'
    BY <1>5, <1>6, <2>1 DEF SafeToRecreate
  <2>4. CacheInv'
    BY <1>5, <1>7, <2>3 DEF IInv, Coherent, CacheInv
  <2>5. RuntimeInv'
    BY <1>5, <2>2, <2>3 DEF IInv, Coherent, RuntimeInv
  <2> QED
    BY <1>3, <2>4, <2>5
<1>9. CASE a # rtj.attempt + 1
  <2>1. a = rtj.attempt /\ rtj.attempt + 1 \notin LiveSet /\ controlMaps[rtj.attempt] = None
        /\ rtj.phase \notin HeldPhases
    BY <1>9, CreateCases
  <2>2. rtj.attempt + 1 \notin LiveSet' /\ LiveSet' \subseteq {rtj.attempt, rtj.attempt + 1}
    BY <1>2, <1>3, <1>4, <2>1
  <2>3. SafeToRecreate(seen)' /\ SafeToRecreate(rtj)'
    BY <1>5, <2>1, <2>2 DEF SafeToRecreate
  <2>4. CacheInv'
    BY <1>5, <1>7, <2>3 DEF IInv, Coherent, CacheInv
  <2>5. RuntimeInv'
    BY <1>5, <2>1, <2>2, <2>3 DEF IInv, Coherent, RuntimeInv
  <2> QED
    BY <1>3, <2>4, <2>5
<1> QED
  BY <1>8, <1>9

LEMMA createRunAttemptResourcesInv ==
  ASSUME IInv, createRunAttemptResources
  PROVE  IInv'
<1> DEFINE j == ctl.job
           a == TargetAttempt(j)
           new == IF shouldResume(j) THEN markRestoring(j, a, ctl.restore) ELSE markStarting(j, a)
<1>1. TypeOK /\ ctl.pc = "create" /\ createIfMissing(a, ctl.restore, j.ident) /\ UpdateOrRequeue(j, new)
      /\ UNCHANGED <<rtj, seen, seenFresh, controlMaps, store, markers, clock, budget>>
  BY DEF IInv, createRunAttemptResources
<1>2. (Go("commit", new, None) \/ Return) /\ queued' \in BOOLEAN
  BY <1>1, RequeueCases
<1>3. j \in RTJs /\ ctl.restore \in 0 .. MaxCkpts /\ a \in Attempts /\ rtj.attempt \in 0 .. MaxAttempts
  BY <1>1, CreateCases DEF TypeOK, Ctls, RTJs
<1>4. /\ new \in RTJs /\ new.attempt = a
      /\ new.phase = IF shouldResume(j) THEN "Restoring" ELSE "Starting"
  <2>1. a \in 0 .. MaxAttempts
    BY <1>3 DEF Attempts
  <2>2. CASE shouldResume(j)
    BY <1>3, <2>1, <2>2, RestoringType
  <2>3. CASE ~shouldResume(j)
    BY <1>3, <2>1, <2>3, StartingType
  <2> QED
    BY <2>2, <2>3
<1> HIDE DEF new
<1>5. ctl' \in Ctls /\ (ctl'.fresh => ctl'.pc # "idle" /\ ctl.fresh /\ seenFresh)
  <2>1. CASE Return
    BY <2>1, ReturnInv
  <2>2. CASE Go("commit", new, None)
    BY <1>1, <1>4, <2>2 DEF Go, IInv, Coherent, CacheInv, TypeOK, Ctls, PCs, None
  <2> QED
    BY <1>2, <2>1, <2>2
<1>6. /\ jobSets' \in [Attempts -> JobSets] /\ trainers' \in [Attempts -> Trainers]
      /\ LiveSet' \subseteq LiveSet \cup {a} /\ CacheInv' /\ RuntimeInv'
  BY <1>1, <1>5, CreateRuntime
<1>7. MidInv' /\ StopInv' /\ CreateInv' /\ CommitInv'
  <2>1. CASE Return
    BY <2>1, ReturnInv
  <2>2. CASE Go("commit", new, None)
    <3>1. ctl'.pc = "commit" /\ ctl'.job = new
      BY <2>2 DEF Go
    <3>2. MidInv' /\ StopInv' /\ CreateInv'
      BY <3>1 DEF MidInv, StopInv, CreateInv, Mid, Stop
    <3>3. CommitInv'
      <4> SUFFICES ASSUME ctl'.fresh PROVE CommitInv'
        BY DEF CommitInv
      <4>1. j = rtj /\ rtj' = rtj
        BY <1>1, <1>5 DEF IInv, Coherent, MidInv, Mid
      <4>2. new.phase \notin HeldPhases /\ new.phase # "None" /\ new.phase \in {"Starting", "Restoring"}
        BY <1>4 DEF HeldPhases
      <4>3. Reuse(rtj') = Reuse(rtj) /\ Reuse(ctl'.job) = Reuse(new)
        BY <3>1, <4>1
      <4>4. CASE a = rtj.attempt + 1
        <5>1. rtj.attempt \notin LiveSet /\ ~Reuse(rtj)
          BY <1>1, <1>3, <4>4, CreateCases
        <5>2. rtj.attempt \notin LiveSet'
          BY <1>3, <1>6, <4>4, <5>1
        <5> QED
          BY <1>4, <3>1, <4>1, <4>2, <4>3, <4>4, <5>1, <5>2 DEF CommitInv
      <4>5. CASE a # rtj.attempt + 1
        <5>1. a = rtj.attempt /\ Reuse(rtj)
          BY <1>1, <4>1, <4>5, CreateCases
        <5> QED
          BY <1>4, <3>1, <4>1, <4>2, <4>3, <5>1 DEF CommitInv
      <4> QED
        BY <4>4, <4>5
    <3> QED
      BY <3>2, <3>3
  <2> QED
    BY <1>2, <2>1, <2>2
<1>8. TypeOK'
  BY <1>1, <1>2, <1>5, <1>6 DEF TypeOK
<1> QED
  BY <1>6, <1>7, <1>8 DEF IInv, Coherent

LEMMA CreateReplyLostInv ==
  ASSUME IInv, CreateReplyLost
  PROVE  IInv'
<1> DEFINE new == SetPhase(ctl.job, "Failed")
<1>1. TypeOK /\ ctl.pc = "create" /\ createIfMissing(TargetAttempt(ctl.job), ctl.restore, ctl.job.ident)
      /\ Go("commit", new, None) /\ budget' \in Budgets
      /\ UNCHANGED <<rtj, seen, seenFresh, queued, controlMaps, store, markers, clock>>
  BY SpendType DEF IInv, CreateReplyLost, markFailed
<1>2. ctl.job \in RTJs
  BY <1>1 DEF TypeOK, Ctls
<1>3. new \in RTJs /\ new.attempt = ctl.job.attempt /\ new.phase = "Failed"
  BY <1>2, SetPhaseType DEF Phases
<1> HIDE DEF new
<1>4. ctl' \in Ctls /\ ctl'.pc = "commit" /\ ctl'.job = new /\ (ctl'.fresh => ctl.fresh /\ seenFresh)
  BY <1>1, <1>3 DEF Go, IInv, Coherent, CacheInv, TypeOK, Ctls, PCs, None
<1>5. jobSets' \in [Attempts -> JobSets] /\ trainers' \in [Attempts -> Trainers] /\ CacheInv' /\ RuntimeInv'
  BY <1>1, <1>4, CreateRuntime
<1>6. MidInv' /\ StopInv' /\ CreateInv'
  BY <1>4 DEF MidInv, StopInv, CreateInv, Mid, Stop
<1>7. CommitInv'
  <2> SUFFICES ASSUME ctl'.fresh PROVE CommitInv'
    BY DEF CommitInv
  <2>1. ctl.job = rtj /\ rtj' = rtj
    BY <1>1, <1>4 DEF IInv, Coherent, MidInv, Mid
  <2>2. ~Reuse(ctl'.job)
    BY <1>3, <1>4 DEF Reuse
  <2>3. ctl'.job.attempt = rtj'.attempt /\ ctl'.job.phase \notin HeldPhases /\ ctl'.job.phase # "None"
    BY <1>3, <1>4, <2>1 DEF HeldPhases
  <2> QED
    BY <2>2, <2>3 DEF CommitInv
<1>8. TypeOK'
  BY <1>1, <1>4, <1>5 DEF TypeOK
<1> QED
  BY <1>5, <1>6, <1>7, <1>8 DEF IInv, Coherent

(* The write is accepted only if nobody wrote in between, so the cached version is the one
   that is replaced. *)
LEMMA StatusUpdateInv ==
  ASSUME IInv, StatusUpdate
  PROVE  IInv'
<1> DEFINE k == ctl.job
<1>1. TypeOK /\ ctl.pc = "commit" /\ ctl.fresh /\ rtj' = k /\ seenFresh' = FALSE /\ queued' = TRUE /\ Return
      /\ UNCHANGED <<seen, jobSets, controlMaps, trainers, store, markers, clock, budget>>
  BY DEF IInv, StatusUpdate, runtimeVars
<1>2. seen = rtj /\ seen' = rtj /\ LiveSet' = LiveSet /\ controlMaps' = controlMaps
  BY <1>1, SameLive DEF IInv, Coherent, CacheInv
<1>3. k \in RTJs /\ rtj \in RTJs /\ k.attempt \in 0 .. MaxAttempts /\ rtj.attempt \in 0 .. MaxAttempts
  BY <1>1 DEF TypeOK, Ctls, RTJs
<1>4. CommitInv
  BY DEF IInv, Coherent
<1>5. RuntimeInv
  BY DEF IInv, Coherent
<1>6. /\ k.phase \in HeldPhases => k.attempt \notin LiveSet
      /\ k.phase # "None"
  BY <1>1, <1>4 DEF CommitInv
<1>7. ctl' \in Ctls /\ MidInv' /\ StopInv' /\ CreateInv' /\ CommitInv'
  BY <1>1, ReturnInv
<1>8. TypeOK'
  BY <1>1, <1>3, <1>7 DEF TypeOK
<1> HIDE DEF k
<1>9. Reuse(seen') = Reuse(rtj) /\ Reuse(rtj') = Reuse(k) /\ Wanted(seen') = Wanted(rtj)
  BY <1>1, <1>2
<1>10. CASE k.attempt = rtj.attempt
  <2>1. /\ Reuse(k) => Reuse(rtj)
        /\ Reuse(rtj) /\ k.phase \in HeldPhases => ~Wanted(rtj)
    BY <1>1, <1>3, <1>4, <1>10 DEF CommitInv, k
  <2>2. Older(seen, rtj)'
    BY <1>1, <1>2, <1>9, <1>10, <2>1 DEF Older
  <2>3. SafeToRecreate(seen)' /\ SafeToRecreate(rtj)'
    BY <1>1, <1>2, <1>5, <1>9, <1>10, <2>1 DEF SafeToRecreate, RuntimeInv
  <2>4. RuntimeInv'
    BY <1>1, <1>2, <1>5, <1>6, <1>10, <2>3 DEF RuntimeInv
  <2>5. CacheInv'
    BY <1>1, <2>2, <2>3, ReturnInv DEF CacheInv
  <2> QED
    BY <1>7, <1>8, <2>4, <2>5 DEF IInv, Coherent
<1>11. CASE k.attempt # rtj.attempt
  <2>1. /\ k.attempt = rtj.attempt + 1
        /\ ~Reuse(rtj)
        /\ k.phase \in {"Starting", "Restoring"}
        /\ rtj.attempt \notin LiveSet
    BY <1>1, <1>4, <1>11 DEF CommitInv, k
  <2>2. Older(seen, rtj)'
    BY <1>1, <1>2, <1>9, <2>1 DEF Older
  <2>3. LiveSet \subseteq {k.attempt} /\ k.attempt + 1 \notin LiveSet
    BY <1>3, <1>5, <2>1 DEF RuntimeInv
  <2>4. controlMaps[k.attempt] = None
    BY <1>3, <1>5, <2>1 DEF RuntimeInv, Attempts
  <2>5. SafeToRecreate(seen)' /\ SafeToRecreate(rtj)'
    BY <1>1, <1>2, <2>3, <2>4 DEF SafeToRecreate
  <2>6. \A a \in Attempts : controlMaps[a] # None => a <= k.attempt
    BY <1>3, <1>5, <2>1 DEF RuntimeInv, Attempts
  <2>7. RuntimeInv'
    BY <1>1, <1>2, <1>6, <2>3, <2>5, <2>6 DEF RuntimeInv
  <2>8. CacheInv'
    BY <1>1, <2>2, <2>5, ReturnInv DEF CacheInv
  <2> QED
    BY <1>7, <1>8, <2>7, <2>8 DEF IInv, Coherent
<1> QED
  BY <1>10, <1>11

(* A reconcile that ends in an error changes nothing the invariant speaks of. *)
LEMMA ReturnStep ==
  ASSUME IInv, Return, queued' \in BOOLEAN, budget' \in Budgets,
         UNCHANGED <<rtj, seen, seenFresh, runtimeVars, clock>>
  PROVE  IInv'
<1>1. LiveSet' = LiveSet /\ UNCHANGED controlMaps /\ TypeOK
  BY SameLive DEF runtimeVars, IInv
<1>2. ctl' \in Ctls /\ ~ctl'.fresh /\ MidInv' /\ StopInv' /\ CreateInv' /\ CommitInv'
  BY ReturnInv
<1>3. CacheInv' /\ RuntimeInv'
  BY <1>1, <1>2, FrameInv
<1>4. TypeOK'
  BY <1>1, <1>2, TypeFrame DEF TypeOK
<1> QED
  BY <1>2, <1>3, <1>4 DEF IInv, Coherent

LEMMA StatusConflictInv == ASSUME IInv, StatusConflict PROVE IInv'
  BY ReturnStep DEF StatusConflict, ReconcileFrame, IInv, TypeOK

-----------------------------------------------------------------------------
\* Failures, deliveries, spec writes

LEMMA CallFailsInv ==
  ASSUME IInv, CallFails
  PROVE  IInv'
<1>1. budget' \in Budgets
  BY SpendType DEF IInv, CallFails
<1> QED
  BY <1>1, ReturnStep DEF CallFails, ReconcileFrame

LEMMA failLaunchInv ==
  ASSUME IInv, failLaunch
  PROVE  IInv'
<1>1. TypeOK /\ budget' \in Budgets /\ UNCHANGED <<rtj, seen, seenFresh, runtimeVars, clock>>
  BY SpendType DEF IInv, failLaunch, ReconcileFrame
<1>2. CASE Initialized /\ Go("commit", markFailed(seen), None) /\ queued' = FALSE
  <2>1. ctl.pc = "idle" /\ Held = seen
    BY <1>2 DEF Initialized, Dequeue, Held
  <2> QED
    BY <1>1, <1>2, <2>1, PhaseInv DEF markFailed, Phases, HeldPhases
<1>3. CASE ctl.pc \in {"control", "observe", "create"} /\ Go("commit", markFailed(ctl.job), None) /\ UNCHANGED queued
  <2>1. ctl.pc \in Mid /\ Held = ctl.job /\ queued' \in BOOLEAN
    BY <1>1, <1>3 DEF Mid, Held, TypeOK
  <2> QED
    BY <1>1, <1>3, <2>1, PhaseInv DEF markFailed, Phases, HeldPhases
<1> QED
  BY <1>2, <1>3 DEF failLaunch

LEMMA CrashInv ==
  ASSUME IInv, Crash
  PROVE  IInv'
<1>1. TypeOK /\ budget' \in Budgets /\ LiveSet' = LiveSet
  BY SpendType, SameLive DEF IInv, Crash, runtimeVars
<1>2. Return /\ rtj' = rtj /\ seen' = rtj /\ seenFresh' = TRUE /\ queued' = TRUE
      /\ UNCHANGED <<jobSets, controlMaps, trainers, store, markers, clock>>
  BY DEF Crash, runtimeVars
<1>3. ctl' \in Ctls /\ ctl'.pc = "idle" /\ ~ctl'.fresh /\ MidInv' /\ StopInv' /\ CreateInv' /\ CommitInv'
  BY <1>2, ReturnInv
<1>4. SafeToRecreate(rtj)' /\ SafeToRecreate(seen)'
  BY <1>1, <1>2 DEF IInv, Coherent, RuntimeInv, SafeToRecreate, Reuse
<1>5. RuntimeInv'
  BY <1>1, <1>2, <1>4 DEF IInv, Coherent, RuntimeInv
<1>6. CacheInv'
  BY <1>2, <1>3, <1>4, OlderSelf DEF CacheInv
<1>7. TypeOK'
  BY <1>1, <1>2, <1>3 DEF TypeOK
<1> QED
  BY <1>3, <1>5, <1>6, <1>7 DEF IInv, Coherent

LEMMA DeliverInv ==
  ASSUME IInv, Deliver
  PROVE  IInv'
<1>1. TypeOK /\ LiveSet' = LiveSet /\ ~seenFresh /\ rtj' = rtj /\ seen' = rtj /\ seenFresh' = TRUE /\ queued' = TRUE
      /\ UNCHANGED <<ctl, jobSets, controlMaps, trainers, store, markers, clock, budget>>
  BY SameLive DEF IInv, Deliver, runtimeVars
<1>2. ~ctl.fresh
  BY <1>1 DEF IInv, Coherent, CacheInv
<1>3. SafeToRecreate(rtj)' /\ SafeToRecreate(seen)'
  BY <1>1 DEF IInv, Coherent, RuntimeInv, SafeToRecreate, Reuse
<1>4. RuntimeInv'
  BY <1>1, <1>3 DEF IInv, Coherent, RuntimeInv
<1>5. CacheInv'
  BY <1>1, <1>2, <1>3, OlderSelf DEF CacheInv
<1>6. MidInv' /\ StopInv'
  BY <1>1, <1>2 DEF IInv, Coherent, MidInv, StopInv, Older, Reuse, Wanted
<1>7. CreateInv' /\ CommitInv'
  BY <1>1, <1>2 DEF IInv, Coherent, CreateInv, CommitInv, SafeToRecreate, Reuse, Wanted, TargetAttempt, shouldResume
<1>8. TypeOK'
  BY <1>1 DEF TypeOK
<1> QED
  BY <1>4, <1>5, <1>6, <1>7, <1>8 DEF IInv, Coherent

(* A spec write keeps the status, and outdates the cache and every reconcile's version. *)
LEMMA SpecWriteInv ==
  ASSUME IInv, NEW new \in RTJs, SpecWrite(new), budget' \in Budgets,
         new.attempt = rtj.attempt, new.phase = rtj.phase, new.selected = rtj.selected
  PROVE  IInv'
<1>1. TypeOK /\ LiveSet' = LiveSet /\ rtj' = [new EXCEPT !.observed = FALSE] /\ seenFresh' = FALSE
      /\ ctl' = [ctl EXCEPT !.fresh = FALSE]
      /\ UNCHANGED <<seen, queued, jobSets, controlMaps, trainers, store, markers, clock>>
  BY SameLive DEF IInv, SpecWrite, runtimeVars
<1>2. rtj' \in RTJs /\ rtj'.attempt = rtj.attempt /\ rtj'.phase = rtj.phase /\ rtj'.selected = rtj.selected
  BY <1>1 DEF RTJs
<1>3. ctl' \in Ctls /\ ctl'.pc = ctl.pc /\ ctl'.job = ctl.job /\ ctl'.restore = ctl.restore /\ ~ctl'.fresh
  BY <1>1 DEF TypeOK, Ctls
<1>4. Reuse(rtj') = Reuse(rtj) /\ controlMaps' = controlMaps /\ seen' = seen
  BY <1>1, <1>2 DEF Reuse
<1>5. SafeToRecreate(rtj)' /\ SafeToRecreate(seen)'
  BY <1>1, <1>2, <1>4 DEF IInv, Coherent, CacheInv, RuntimeInv, SafeToRecreate
<1>6. CacheInv'
  BY <1>1, <1>2, <1>3, <1>4, <1>5 DEF IInv, Coherent, CacheInv, Older
<1>7. RuntimeInv'
  BY <1>1, <1>2, <1>5 DEF IInv, Coherent, RuntimeInv
<1>8. MidInv' /\ StopInv'
  BY <1>2, <1>3, <1>4 DEF IInv, Coherent, MidInv, StopInv, Older
<1>9. CreateInv' /\ CommitInv'
  BY <1>1, <1>2, <1>3, <1>4 DEF IInv, Coherent, CreateInv, CommitInv, SafeToRecreate
<1>10. TypeOK'
  BY <1>1, <1>2, <1>3 DEF TypeOK
<1> QED
  BY <1>6, <1>7, <1>8, <1>9, <1>10 DEF IInv, Coherent

LEMMA SpecWritersInv ==
  ASSUME IInv, UserSetDesiredState \/ UserEditIdentity \/ KueueSuspend \/ KueueRunWithPodSetsInfo
  PROVE  IInv'
<1>1. TypeOK /\ rtj \in RTJs
  BY DEF IInv, TypeOK
<1>2. budget' \in Budgets
  BY <1>1, SpendType DEF UserSetDesiredState, UserEditIdentity, KueueSuspend, KueueRunWithPodSetsInfo
<1>3. ASSUME NEW d \in {"Running", "Paused"}, SpecWrite([rtj EXCEPT !.desired = d]) PROVE IInv'
  BY <1>1, <1>2, <1>3, SpecWriteInv DEF RTJs
<1>4. ASSUME NEW i \in Idents, SpecWrite([rtj EXCEPT !.ident = i]) PROVE IInv'
  BY <1>1, <1>2, <1>4, SpecWriteInv DEF RTJs
<1>5. ASSUME NEW b \in BOOLEAN, SpecWrite([rtj EXCEPT !.suspend = b]) PROVE IInv'
  BY <1>1, <1>2, <1>5, SpecWriteInv DEF RTJs
<1> QED
  BY <1>3, <1>4, <1>5 DEF UserSetDesiredState, UserEditIdentity, KueueSuspend, KueueRunWithPodSetsInfo

-----------------------------------------------------------------------------
\* The runtime

(* The types that the trainer and the JobSet controller change. *)
LEMMA RuntimeStep ==
  ASSUME IInv, RuntimeFrame, UNCHANGED controlMaps, LiveSet' \subseteq LiveSet,
         jobSets' \in [Attempts -> JobSets], trainers' \in [Attempts -> Trainers],
         store' \in [Ckpts -> Manifests], markers' \in [Attempts -> YieldMarkers],
         clock' \in 0 .. MaxClock, budget' \in Budgets
  PROVE  IInv'
<1>1. Coherent'
  BY ShrinkInv DEF RuntimeFrame
<1>2. TypeOK'
  BY DEF IInv, TypeOK, RuntimeFrame
<1> QED
  BY <1>1, <1>2 DEF IInv

LEMMA TrainerInv ==
  ASSUME IInv, NEW a \in Attempts, Trainer(a)
  PROVE  IInv'
<1>1. TypeOK
  BY DEF IInv
<1>2. ASSUME NEW req \in 0 .. MaxAttempts, StartSave(a, req) PROVE IInv'
  <2>1. PICK c \in Ckpts :
          /\ store' = [store EXCEPT ![c] = [attempt |-> a, ident |-> jobSets[a].ident, at |-> 0, manifest |-> FALSE]]
          /\ trainers' = [trainers EXCEPT ![a] = [state |-> "saving", req |-> req, ckpt |-> c]]
    BY <1>2 DEF StartSave
  <2>2. jobSets[a].ident \in Idents /\ 0 \in 0 .. MaxClock
    BY <1>1 DEF TypeOK, JobSets
  <2>3. store' \in [Ckpts -> Manifests]
    BY <1>1, <2>1, <2>2 DEF TypeOK, Manifests, Attempts
  <2>4. trainers' \in [Attempts -> Trainers]
    BY <1>1, <2>1 DEF TypeOK, Trainers, Ckpts
  <2>5. RuntimeFrame /\ UNCHANGED <<jobSets, controlMaps, markers, clock, budget>>
    BY <1>2 DEF StartSave
  <2> QED
    BY <1>1, <2>3, <2>4, <2>5, SameLive, RuntimeStep DEF TypeOK
<1>3. CASE StartSave(a, None)
  BY <1>2, <1>3 DEF None
<1>4. CASE StartSave(a, controlMaps[a])
  <2>1. controlMaps[a] \in 0 .. MaxAttempts
    BY <1>1 DEF TypeOK
  <2> QED
    BY <1>2, <1>4, <2>1
<1>5. CASE PublishManifest(a)
  <2>1. /\ RuntimeFrame /\ UNCHANGED <<jobSets, controlMaps, markers, budget>>
        /\ clock' \in 0 .. MaxClock
    BY <1>1, <1>5 DEF PublishManifest, TypeOK
  <2>2. trainers' \in [Attempts -> Trainers]
    BY <1>1, <1>5 DEF PublishManifest, TypeOK, Trainers, NoTrainer, None
  <2> DEFINE c == trainers[a].ckpt
             s == [store EXCEPT ![c].manifest = TRUE]
             t == [s EXCEPT ![c].at = clock']
  <2>3. store' = t
    BY <1>5 DEF PublishManifest
  <2> HIDE DEF c
  <2>4. s \in [Ckpts -> Manifests]
    BY <1>1 DEF TypeOK, Manifests
  <2> HIDE DEF s
  <2>5. t \in [Ckpts -> Manifests]
    BY <2>1, <2>4 DEF Manifests
  <2> QED
    BY <1>1, <2>1, <2>2, <2>3, <2>5, SameLive, RuntimeStep DEF TypeOK
<1>6. CASE PublishMarker(a)
  <2>1. RuntimeFrame /\ UNCHANGED <<jobSets, controlMaps, store, clock, budget>>
    BY <1>6 DEF PublishMarker
  <2>2. trainers' \in [Attempts -> Trainers]
    BY <1>1, <1>6 DEF PublishMarker, TypeOK, Trainers
  <2>3. markers' \in [Attempts -> YieldMarkers]
    BY <1>1, <1>6 DEF PublishMarker, TypeOK, Trainers, YieldMarkers
  <2> QED
    BY <1>1, <2>1, <2>2, <2>3, SameLive, RuntimeStep DEF TypeOK
<1>7. CASE TrainingComplete(a)
  <2>1. RuntimeFrame /\ UNCHANGED <<jobSets, controlMaps, store, markers, clock, budget>>
    BY <1>7 DEF TrainingComplete
  <2>2. trainers' \in [Attempts -> Trainers]
    BY <1>1, <1>7 DEF TrainingComplete, TypeOK, Trainers
  <2> QED
    BY <1>1, <2>1, <2>2, SameLive, RuntimeStep DEF TypeOK
<1> QED
  BY <1>3, <1>4, <1>5, <1>6, <1>7 DEF Trainer

LEMMA EnvironmentInv ==
  ASSUME IInv, NEW a \in Attempts, TrainerRestarts(a) \/ JobSetGone(a) \/ JobSetDeletedExternally(a)
  PROVE  IInv'
<1>1. TypeOK
  BY DEF IInv
<1>2. CASE TrainerRestarts(a)
  <2>1. RuntimeFrame /\ UNCHANGED <<jobSets, controlMaps, store, markers, clock>> /\ budget' \in Budgets
    BY <1>1, <1>2, SpendType DEF TrainerRestarts
  <2>2. trainers' \in [Attempts -> Trainers]
    BY <1>1, <1>2, StartTrainerType DEF TrainerRestarts, TypeOK
  <2> QED
    BY <1>1, <2>1, <2>2, SameLive, RuntimeStep DEF TypeOK
<1>3. CASE JobSetGone(a)
  <2> DEFINE s == [jobSets EXCEPT ![a].state = "absent"]
             t == [s EXCEPT ![a].restore = None]
  <2>1. RuntimeFrame /\ UNCHANGED <<controlMaps, store, markers, clock, budget>> /\ jobSets' = t
    BY <1>3 DEF JobSetGone
  <2>2. trainers' \in [Attempts -> Trainers]
    BY <1>1, <1>3 DEF JobSetGone, TypeOK, NoTrainer, Trainers, None
  <2>3. s \in [Attempts -> JobSets] /\ \A b \in Attempts : s[b].state = "live" => Live(b)
    BY <1>1 DEF TypeOK, JobSets, Live
  <2> HIDE DEF s
  <2>4. t \in [Attempts -> JobSets] /\ \A b \in Attempts : t[b].state = s[b].state
    BY <2>3 DEF JobSets, None
  <2>5. LiveSet' \subseteq LiveSet
    BY <2>1, <2>3, <2>4 DEF LiveSet, Live
  <2> QED
    BY <1>1, <2>1, <2>2, <2>4, <2>5, RuntimeStep DEF TypeOK
<1>4. CASE JobSetDeletedExternally(a)
  <2>1. RuntimeFrame /\ UNCHANGED <<controlMaps, trainers, store, markers, clock>> /\ budget' \in Budgets
    BY <1>1, <1>4, SpendType DEF JobSetDeletedExternally
  <2>2. jobSets' \in [Attempts -> JobSets] /\ LiveSet' \subseteq LiveSet
    BY <1>1, <1>4 DEF JobSetDeletedExternally, TypeOK, JobSets, LiveSet, Live
  <2> QED
    BY <1>1, <2>1, <2>2, RuntimeStep DEF TypeOK
<1> QED
  BY <1>2, <1>3, <1>4

-----------------------------------------------------------------------------
\* The theorems

LEMMA StutterInv ==
  ASSUME IInv, UNCHANGED vars
  PROVE  IInv'
<1>1. UNCHANGED <<rtj, seen, seenFresh, queued, ctl, jobSets, controlMaps, trainers, store, markers, clock, budget>>
  BY DEF vars
<1>2. Coherent'
  BY <1>1, SameLive, ShrinkInv
<1>3. TypeOK'
  BY <1>1 DEF IInv, TypeOK
<1> QED
  BY <1>2, <1>3 DEF IInv

LEMMA NextInv ==
  ASSUME IInv, [Next]_vars
  PROVE  IInv'
<1>1. CASE InitializeStatus
  BY <1>1, InitializeStatusInv
<1>2. CASE ensureStopRequested
  BY <1>2, ensureStopRequestedInv
<1>3. CASE ContinueStopFlow
  BY <1>3, ContinueStopFlowInv
<1>4. CASE reconcileManualHold
  BY <1>4, reconcileManualHoldInv
<1>5. CASE DeferUntilAdmitted
  BY <1>5, DeferUntilAdmittedInv
<1>6. CASE ObserveActive
  BY <1>6, ObserveActiveInv
<1>7. CASE reconcileLaunch
  BY <1>7, reconcileLaunchInv
<1>8. CASE reconcileResume
  BY <1>8, reconcileResumeInv
<1>9. CASE writePauseControl
  BY <1>9, writePauseControlInv
<1>10. CASE ObserveNotReady
  BY <1>10, ObserveNotReadyInv
<1>11. CASE ObserveRecord
  BY <1>11, ObserveRecordInv
<1>12. CASE ObserveComplete
  BY <1>12, ObserveCompleteInv
<1>13. CASE cleanupActiveJobSet
  BY <1>13, cleanupActiveJobSetInv
<1>14. CASE createRunAttemptResources
  BY <1>14, createRunAttemptResourcesInv
<1>15. CASE StatusUpdate
  BY <1>15, StatusUpdateInv
<1>16. CASE StatusConflict
  BY <1>16, StatusConflictInv
<1>17. CASE DrainTimedOut
  BY <1>17, DrainTimedOutInv
<1>18. CASE Deliver
  BY <1>18, DeliverInv
<1>19. CASE failLaunch
  BY <1>19, failLaunchInv
<1>20. CASE CreateReplyLost
  BY <1>20, CreateReplyLostInv
<1>21. CASE CallFails
  BY <1>21, CallFailsInv
<1>22. CASE Crash
  BY <1>22, CrashInv
<1>23. CASE UserSetDesiredState \/ UserEditIdentity \/ KueueSuspend \/ KueueRunWithPodSetsInfo
  BY <1>23, SpecWritersInv
<1>24. ASSUME NEW a \in Attempts, Trainer(a) PROVE IInv'
  BY <1>24, TrainerInv
<1>25. ASSUME NEW a \in Attempts, TrainerRestarts(a) \/ JobSetGone(a) \/ JobSetDeletedExternally(a) PROVE IInv'
  BY <1>25, EnvironmentInv
<1>26. CASE UNCHANGED vars
  BY <1>26, StutterInv
<1> QED
  BY <1>1, <1>2, <1>3, <1>4, <1>5, <1>6, <1>7, <1>8, <1>9, <1>10, <1>11, <1>12, <1>13, <1>14, <1>15,
     <1>16, <1>17, <1>18, <1>19, <1>20, <1>21, <1>22, <1>23, <1>24, <1>25, <1>26 DEF Next, Reconcile

(* The coherence between the API server, the cache, the reconcile in progress and the
   running JobSets holds in every reachable state. *)
THEOREM Inductive == Spec => []IInv
<1>1. Init => IInv
  BY InitIInv
<1>2. IInv /\ [Next]_vars => IInv'
  BY NextInv
<1> QED
  BY <1>1, <1>2, PTL DEF Spec

(* Every variable keeps its type: no reconcile stamps a time, an attempt or a checkpoint
   that does not exist. *)
THEOREM TypeCorrect == Spec => []TypeOK
<1>1. IInv => TypeOK
  BY DEF IInv
<1> QED
  BY <1>1, Inductive, PTL

(* At most one JobSet of the RTJ runs at any time, whatever the interleaving of users, Kueue,
   stale reads, conflicts, lost replies and restarts: createRunAttemptResources never creates
   the next attempt beside a running one. *)
THEOREM SingleRuntime == Spec => []SingleLiveJobSet
<1>1. IInv => SingleLiveJobSet
  BY DEF IInv, Coherent, RuntimeInv, SingleLiveJobSet, LiveSet
<1> QED
  BY <1>1, Inductive, PTL

(* The controller reports Pending, Queued or Paused only while the JobSet that the status
   names does not run. *)
THEOREM HeldPhase == Spec => []HeldPhaseTracksNoRuntime
<1>1. ASSUME IInv PROVE HeldPhaseTracksNoRuntime
  <2>1. TypeOK /\ rtj \in RTJs /\ RuntimeInv
    BY <1>1 DEF IInv, Coherent, TypeOK
  <2>2. getActiveJobSet(rtj) <=> rtj.attempt \in LiveSet
    BY <2>1, ActiveLive
  <2> QED
    BY <2>1, <2>2 DEF RuntimeInv, HeldPhases, HeldPhaseTracksNoRuntime
<1> QED
  BY <1>1, Inductive, PTL

LEMMA OnlyCreateStarts ==
  ASSUME IInv, [Next]_vars, NEW a \in Attempts, ~Live(a), jobSets'[a].state = "live"
  PROVE  ctl.pc = "create" /\ a = TargetAttempt(ctl.job)
<1>1. TypeOK /\ jobSets[a].state # "live"
  BY DEF IInv, Live
<1>2. jobSets' # jobSets
  BY <1>1
<1>3. CASE createRunAttemptResources \/ CreateReplyLost
  <2>1. ctl.pc = "create" /\ createIfMissing(TargetAttempt(ctl.job), ctl.restore, ctl.job.ident)
    BY <1>3 DEF createRunAttemptResources, CreateReplyLost
  <2> QED
    BY <1>1, <1>2, <2>1 DEF createIfMissing, TypeOK
<1>4. CASE cleanupActiveJobSet
  BY <1>1, <1>4 DEF cleanupActiveJobSet, TypeOK, JobSets
<1>5. ASSUME NEW b \in Attempts, JobSetGone(b) \/ JobSetDeletedExternally(b) PROVE FALSE
  BY <1>1, <1>5 DEF JobSetGone, JobSetDeletedExternally, TypeOK, JobSets
<1>6. ASSUME NEW b \in Attempts, Trainer(b) \/ TrainerRestarts(b) PROVE FALSE
  BY <1>2, <1>6 DEF Trainer, TrainerRestarts, StartSave, PublishManifest, PublishMarker, TrainingComplete
<1>7. CASE InitializeStatus \/ ensureStopRequested \/ ContinueStopFlow \/ reconcileManualHold \/ DeferUntilAdmitted
           \/ ObserveActive \/ reconcileLaunch \/ reconcileResume \/ writePauseControl \/ ObserveNotReady
           \/ ObserveRecord \/ ObserveComplete \/ DrainTimedOut \/ StatusUpdate \/ StatusConflict
  BY <1>2, <1>7 DEF InitializeStatus, ensureStopRequested, ContinueStopFlow, reconcileManualHold,
     DeferUntilAdmitted, ObserveActive, reconcileLaunch, reconcileResume, writePauseControl, ObserveNotReady,
     ObserveRecord, ObserveComplete, DrainTimedOut, StatusUpdate, StatusConflict, ReconcileFrame, runtimeVars
<1>8. CASE failLaunch \/ CallFails \/ Crash \/ Deliver
  BY <1>2, <1>8 DEF failLaunch, CallFails, Crash, Deliver, ReconcileFrame, runtimeVars
<1>9. CASE UserSetDesiredState \/ UserEditIdentity \/ KueueSuspend \/ KueueRunWithPodSetsInfo
  BY <1>2, <1>9 DEF UserSetDesiredState, UserEditIdentity, KueueSuspend, KueueRunWithPodSetsInfo,
     SpecWrite, runtimeVars
<1>10. CASE UNCHANGED vars
  BY <1>2, <1>10 DEF vars
<1> QED
  BY <1>3, <1>4, <1>5, <1>6, <1>7, <1>8, <1>9, <1>10 DEF Next, Reconcile

(* A JobSet is only ever started on a control ConfigMap that asks for nothing: a resumed or
   recreated runtime does not obey the stop request of an earlier one. *)
THEOREM FreshControl == Spec => NoInheritedStop
<1>1. ASSUME IInv, [Next]_vars
      PROVE  \A a \in Attempts : ~Live(a) /\ jobSets'[a].state = "live" => controlMaps[a] = None
  <2> SUFFICES ASSUME NEW a \in Attempts, ~Live(a), jobSets'[a].state = "live"
               PROVE  controlMaps[a] = None
    OBVIOUS
  <2>1. ctl.pc = "create" /\ a = TargetAttempt(ctl.job)
    BY <1>1, OnlyCreateStarts
  <2>2. CASE a = rtj.attempt + 1
    BY <1>1, <2>2 DEF IInv, Coherent, RuntimeInv, TypeOK, RTJs
  <2>3. CASE a # rtj.attempt + 1
    BY <1>1, <2>1, <2>3, CreateCases
  <2> QED
    BY <2>2, <2>3
<1> QED
  BY <1>1, Inductive, PTL DEF Spec, NoInheritedStop
=============================================================================
