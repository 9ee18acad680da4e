------------------------- MODULE LaunchGatesProofs -------------------------
(* From admission to JobSet, for every set of admissions and every bound. *)
EXTENDS LaunchGates, FiniteSetTheorems, TLAPS

-----------------------------------------------------------------------------
\* Maps

LEMMA Merged ==
  ASSUME NEW f, NEW g
  PROVE  /\ DOMAIN mergeMapInto(f, g) = DOMAIN f \cup DOMAIN g
         /\ \A x \in DOMAIN g : mergeMapInto(f, g)[x] = g[x]
         /\ \A x \in DOMAIN f \ DOMAIN g : mergeMapInto(f, g)[x] = f[x]
  BY DEF mergeMapInto

LEMMA MergeOne ==
  ASSUME NEW u
  PROVE  LET m == MergePodSetUpdates(<<[p \in PodSets |-> u]>>)
         IN  \A p \in PodSets : DOMAIN m[p] = DOMAIN u /\ \A k \in DOMAIN u : m[p][k] = u[k]
<1> DEFINE sets == <<[p \in PodSets |-> u]>>
<1>1. DOMAIN sets = {1} /\ \A p \in PodSets : sets[1][p] = u
  OBVIOUS
<1> HIDE DEF sets
<1>2. Max({1}) = 1
  BY DEF Max
<1>3. \A p \in PodSets : UNION {DOMAIN sets[i][p] : i \in DOMAIN sets} = DOMAIN u
  BY <1>1
<1>4. \A p \in PodSets, k \in DOMAIN u : {i \in DOMAIN sets : k \in DOMAIN sets[i][p]} = {1}
  BY <1>1
<1> QED
  BY <1>1, <1>2, <1>3, <1>4 DEF MergePodSetUpdates, sets

-----------------------------------------------------------------------------
\* Types

USE BoundsAssumption

RTJFields == {"ref", "topology", "suspend", "counts", "merged", "phase", "attempt", "checkpoint",
              "gate", "domains", "shape", "blocked", "startup", "evictedFor", "timeouts"}

IsRTJ(j) ==
    /\ DOMAIN j = RTJFields
    /\ j.ref \in BOOLEAN /\ j.topology \in BOOLEAN /\ j.suspend \in BOOLEAN
    /\ j.phase \in Phases /\ j.attempt \in 0 .. MaxAttempts /\ j.checkpoint \in Nat
    /\ j.shape \in [world : Nat, mode : {Unset, "Reshard", "SameSize"}]
    /\ j.startup \in StartupStates /\ j.evictedFor \in Rejections
    /\ j.phase = "Restoring" => j.attempt # 0

IsAdmission(a) ==
    /\ DOMAIN a = {"counts", "topology", "delayed", "reserved"}
    /\ a.delayed \in BOOLEAN /\ a.reserved \in BOOLEAN
    /\ a.reserved => a.counts \in {b.counts : b \in Admissions}
    /\ a.reserved /\ ~a.delayed => a \in Admissions

IsWorkload(w) ==
    /\ DOMAIN w = {"admission", "checks", "evicted", "finished"}
    /\ IsAdmission(w.admission)
    /\ DOMAIN w.checks = {"provisioning", "readiness", "message", "updates"}
    /\ w.checks.provisioning \in CheckStates /\ w.checks.readiness \in CheckStates
    /\ w.evicted \in Rejections

(* The controller is about to make the JobSet. *)
AtLaunch == ctl.pc \in {"gated", "launch"}

Types ==
    /\ IsRTJ(rtj) /\ IsRTJ(seen) /\ fresh \in BOOLEAN /\ queued \in BOOLEAN
    /\ IsWorkload(workload) /\ IsWorkload(seenWl)
    /\ DOMAIN request = {"number", "class", "conds"} /\ request.number \in Nat
    /\ jobSet.attempt \in 0 .. MaxAttempts /\ jobSet.world \in Nat
    /\ jobSet.attempt = 0 => jobSet = NoJobSet
    /\ DOMAIN ctl = {"pc", "job", "workload", "fresh"}
    /\ ctl.pc \in {"idle", "evict", "stop", "gated", "launch", "commit"}
    /\ IsRTJ(ctl.job) /\ IsWorkload(ctl.workload) /\ ctl.fresh \in BOOLEAN
    /\ granted \subseteq Admissions
    /\ AtLaunch => ctl.job.attempt < MaxAttempts

-----------------------------------------------------------------------------
\* What a pass of the controller does to its copy of the RTJ

(* A resume that has begun: its attempt is repeated when the JobSet is not there. *)
Rest(j) == j.checkpoint # 0 /\ j.phase = "Restoring"

(* The controller writes the status only. *)
Same(k, j) ==
    /\ k.ref = j.ref /\ k.topology = j.topology /\ k.suspend = j.suspend
    /\ k.counts = j.counts /\ k.merged = j.merged

(* Only a launch starts an attempt. *)
Kept(k, j) == Same(k, j) /\ k.attempt = j.attempt /\ k.shape = j.shape /\ (Rest(k) => Rest(j))

LEMMA NewJob ==
  ASSUME NEW ref \in BOOLEAN, NEW topology \in BOOLEAN
  PROVE  LET j == NewRTJ(ref, topology)
         IN  /\ IsRTJ(j) /\ j.ref = ref /\ j.topology = topology /\ j.suspend = TRUE
             /\ j.attempt = 0 /\ ~Rest(j) /\ j.shape.mode = Unset
<1>1. 0 \in 0 .. MaxAttempts
  OBVIOUS
<1>2. NoShape \in [world : Nat, mode : {Unset, "Reshard", "SameSize"}] /\ NoShape.mode = Unset
  BY DEF NoShape
<1> QED
  BY <1>1, <1>2 DEF NewRTJ, IsRTJ, RTJFields, Phases, StartupStates, Rejections, Rest

LEMMA NewPhase ==
  ASSUME NEW j, IsRTJ(j), NEW phase \in Phases \ {"Restoring"}
  PROVE  LET k == [j EXCEPT !.phase = phase]
         IN  IsRTJ(k) /\ Kept(k, j) /\ k.phase = phase /\ k.checkpoint = j.checkpoint
  BY DEF IsRTJ, RTJFields, Kept, Same, Rest

LEMMA NewCheckpoint ==
  ASSUME NEW j, IsRTJ(j), j.phase # "Restoring", NEW world \in Nat
  PROVE  LET k == [j EXCEPT !.checkpoint = world]
         IN  IsRTJ(k) /\ Kept(k, j)
  BY DEF IsRTJ, RTJFields, Kept, Same, Rest

LEMMA NewGate ==
  ASSUME NEW j, IsRTJ(j), NEW w, NEW reason
  PROVE  LET k == syncLaunchGateStatus(j, w, reason)
         IN  IsRTJ(k) /\ Kept(k, j) /\ Rest(k) = Rest(j)
<1>1. PICK gate : syncLaunchGateStatus(j, w, reason) = [j EXCEPT !.gate = gate]
  BY DEF syncLaunchGateStatus
<1> QED
  BY <1>1 DEF IsRTJ, RTJFields, Kept, Same, Rest

LEMMA NewDomains ==
  ASSUME NEW j, IsRTJ(j), NEW w, NEW k \in syncTopologyStatus(j, w)
  PROVE  IsRTJ(k) /\ Kept(k, j) /\ Rest(k) = Rest(j)
<1>1. PICK d : k = [j EXCEPT !.domains = d]
  BY DEF syncTopologyStatus
<1> QED
  BY <1>1 DEF IsRTJ, RTJFields, Kept, Same, Rest

LEMMA NewStartup ==
  ASSUME NEW wasRunning, NEW reason
  PROVE  ClassifyStartupState(wasRunning, reason) \in StartupStates
  BY Zenon DEF ClassifyStartupState, StartupStates

LEMMA NewEviction ==
  ASSUME NEW j, IsRTJ(j), NEW w, IsWorkload(w)
  PROVE  LET k == detectAndRecordEviction(j, w)
         IN  IsRTJ(k) /\ Kept(k, j) /\ k.phase = j.phase
<1> DEFINE startup == ClassifyStartupState(wasPhaseRunning(j), w.evicted)
           timeouts == setStartupRecoveryConditions(wasPhaseRunning(j), w.evicted)
<1>1. startup \in StartupStates
  BY NewStartup
<1>2. detectAndRecordEviction(j, w) \in
        {j, [j EXCEPT !.startup = startup, !.evictedFor = w.evicted, !.timeouts = timeouts]}
  BY DEF detectAndRecordEviction
<1>3. w.evicted \in Rejections
  BY DEF IsWorkload
<1> HIDE DEF startup, timeouts
<1> DEFINE k == [j EXCEPT !.startup = startup, !.evictedFor = w.evicted, !.timeouts = timeouts]
<1>4. IsRTJ(k) /\ Kept(k, j) /\ k.phase = j.phase
  BY <1>1, <1>3 DEF IsRTJ, RTJFields, Kept, Same, Rest
<1>5. Kept(j, j)
  BY DEF Kept, Same
<1> HIDE DEF k
<1>6. detectAndRecordEviction(j, w) = j \/ detectAndRecordEviction(j, w) = k
  BY <1>2 DEF k
<1> QED
  BY <1>4, <1>5, <1>6

LEMMA NewRunning ==
  ASSUME NEW j, IsRTJ(j)
  PROVE  LET k == syncStartupRecoveryOnRunning([j EXCEPT !.phase = "Running"])
         IN  IsRTJ(k) /\ Kept(k, j)
  BY DEF syncStartupRecoveryOnRunning, IsRTJ, RTJFields, Kept, Same, Rest, Phases, StartupStates

-----------------------------------------------------------------------------
\* What each action of the controller does

(* The pass goes on, to the call pc, with an edited copy of j. *)
To(pc, j, w, isFresh) ==
    /\ ctl' = [pc |-> pc, job |-> ctl'.job, workload |-> w, fresh |-> isFresh]
    /\ IsRTJ(ctl'.job) /\ Kept(ctl'.job, j)

LEMMA ToFields ==
  ASSUME NEW pc, NEW j, NEW w, NEW isFresh, To(pc, j, w, isFresh)
  PROVE  /\ DOMAIN ctl' = {"pc", "job", "workload", "fresh"}
         /\ ctl'.pc = pc /\ ctl'.workload = w /\ ctl'.fresh = isFresh
         /\ IsRTJ(ctl'.job) /\ Kept(ctl'.job, j)
<1> DEFINE job == ctl'.job
<1>1. ctl' = [pc |-> pc, job |-> job, workload |-> w, fresh |-> isFresh] /\ IsRTJ(job) /\ Kept(job, j)
  BY DEF To
<1> HIDE DEF job
<1>2. ctl'.pc = pc /\ ctl'.workload = w /\ ctl'.fresh = isFresh /\ DOMAIN ctl' = {"pc", "job", "workload", "fresh"}
  BY <1>1
<1> QED
  BY <1>1, <1>2 DEF job

LEMMA GoTo ==
  ASSUME NEW pc, NEW j, NEW k, NEW isFresh, Go(pc, k, isFresh), IsRTJ(k), Kept(k, j)
  PROVE  To(pc, j, NewWorkload, isFresh)
<1>1. ctl'.job = k
  BY DEF Go
<1> QED
  BY <1>1 DEF Go, To

LEMMA IdleFields ==
  /\ DOMAIN Idle = {"pc", "job", "workload", "fresh"}
  /\ Idle.pc = "idle" /\ Idle.workload = NewWorkload /\ Idle.fresh = FALSE
  /\ IsRTJ(Idle.job) /\ Idle.job.suspend = TRUE /\ Idle.job.attempt = 0 /\ ~Rest(Idle.job)
  /\ Idle.job.shape.mode = Unset
<1>1. Idle.job = NewRTJ(FALSE, FALSE)
  BY DEF Idle
<1> QED
  BY <1>1, NewJob DEF Idle

LEMMA NewWorkloadFields ==
  /\ IsWorkload(NewWorkload) /\ NewWorkload.admission = NoAdmission /\ NewWorkload.checks = Reset
  /\ NoAdmission.reserved = FALSE /\ NoAdmission.delayed = FALSE
  /\ Reset.provisioning = "Pending" /\ Reset.updates = NoKeys
  /\ NewWorkload.evicted = Unset
  BY DEF NewWorkload, NoAdmission, Reset, IsWorkload, IsAdmission, CheckStates, Rejections

Untouched == UNCHANGED <<rtj, seen, fresh, workload, seenWl, request, granted>>

LEMMA UntouchedReads == ControllerReads => Untouched
  BY DEF ControllerReads, Untouched

(* The stop flow edits the status, or deletes the JobSet and ends the pass. *)
StopStep(j, isFresh) ==
    /\ queued' = TRUE
    /\ \/ jobSet' = jobSet /\ To("commit", j, NewWorkload, isFresh)
       \/ jobSet' = NoJobSet /\ ctl' = Idle

LEMMA StopFields ==
  ASSUME Types, NEW j, IsRTJ(j), NEW isFresh, reconcileStopFlow(j, isFresh)
  PROVE  StopStep(j, isFresh)
<1>1. CASE /\ j.phase \notin {"YieldRequested", "Draining"}
           /\ Go("commit", [j EXCEPT !.phase = "YieldRequested"], isFresh)
           /\ queued' = TRUE /\ UNCHANGED jobSet
  <2>1. IsRTJ([j EXCEPT !.phase = "YieldRequested"]) /\ Kept([j EXCEPT !.phase = "YieldRequested"], j)
    BY NewPhase DEF Phases
  <2> QED
    BY <1>1, <2>1, GoTo DEF StopStep
<1>2. CASE /\ j.phase = "YieldRequested"
           /\ Go("commit", [j EXCEPT !.phase = "Draining"], isFresh)
           /\ queued' = TRUE /\ UNCHANGED jobSet
  <2>1. IsRTJ([j EXCEPT !.phase = "Draining"]) /\ Kept([j EXCEPT !.phase = "Draining"], j)
    BY NewPhase DEF Phases
  <2> QED
    BY <1>2, <2>1, GoTo DEF StopStep
<1>3. CASE /\ j.phase = "Draining" /\ j.checkpoint # jobSet.world
           /\ Go("commit", [j EXCEPT !.checkpoint = jobSet.world], isFresh)
           /\ queued' = TRUE /\ UNCHANGED jobSet
  <2>1. IsRTJ([j EXCEPT !.checkpoint = jobSet.world]) /\ Kept([j EXCEPT !.checkpoint = jobSet.world], j)
    BY <1>3, NewCheckpoint DEF Types
  <2> QED
    BY <1>3, <2>1, GoTo DEF StopStep
<1>4. CASE jobSet' = NoJobSet /\ Done(TRUE)
  BY <1>4 DEF StopStep, Done
<1> QED
  BY <1>1, <1>2, <1>3, <1>4 DEF reconcileStopFlow

LEMMA StopUnrecordedFields ==
  ASSUME Types, StopUnrecorded
  PROVE  ctl.pc = "idle" /\ StopStep(seen, fresh) /\ Untouched /\ getActiveJobSet(seen)
  BY StopFields, UntouchedReads DEF StopUnrecorded, Dequeue, Types

LEMMA RecordEvictionFields ==
  ASSUME Types, RecordEviction
  PROVE  /\ ctl.pc = "idle" /\ To("evict", seen, NewWorkload, fresh) /\ Untouched
         /\ queued' = queued /\ jobSet' = jobSet /\ getActiveJobSet(seen)
<1> DEFINE k == detectAndRecordEviction(seen, seenWl)
<1>1. IsRTJ(k) /\ Kept(k, seen)
  BY NewEviction DEF Types
<1> HIDE DEF k
<1>2. Go("evict", k, fresh)
  BY DEF RecordEviction, k
<1> QED
  BY <1>1, <1>2, GoTo, UntouchedReads DEF RecordEviction, Dequeue

LEMMA StopRecordedFields ==
  ASSUME Types, StopRecorded
  PROVE  ctl.pc = "stop" /\ StopStep(ctl.job, ctl.fresh) /\ Untouched
  BY StopFields, UntouchedReads DEF StopRecorded, Types

LEMMA UpdateFields ==
  ASSUME NEW old, NEW new, NEW requeue, IsRTJ(new), Kept(new, old), UpdateIfChanged(old, new, requeue)
  PROVE  queued' = requeue /\ (ctl' = Idle \/ To("commit", old, NewWorkload, fresh))
  BY GoTo DEF UpdateIfChanged, Done

LEMMA DeferFields ==
  ASSUME Types, DeferUntilAdmitted
  PROVE  /\ ctl.pc = "idle" /\ Untouched /\ jobSet' = jobSet /\ seen.suspend /\ queued' = FALSE
         /\ ctl' = Idle \/ To("commit", seen, NewWorkload, fresh)
<1> DEFINE k == [seen EXCEPT !.phase = "Queued"]
<1>1. IsRTJ(k) /\ Kept(k, seen)
  BY NewPhase DEF Types, Phases
<1> HIDE DEF k
<1>2. UpdateIfChanged(seen, k, FALSE)
  BY DEF DeferUntilAdmitted, k
<1> QED
  BY <1>1, <1>2, UpdateFields, UntouchedReads DEF DeferUntilAdmitted, Dequeue

LEMMA ObserveFields ==
  ASSUME Types, ObserveActive
  PROVE  /\ ctl.pc = "idle" /\ Untouched /\ jobSet' = jobSet /\ getActiveJobSet(seen) /\ queued' = FALSE
         /\ ctl' = Idle \/ To("commit", seen, NewWorkload, fresh)
<1> DEFINE k == syncStartupRecoveryOnRunning([seen EXCEPT !.phase = "Running"])
<1>1. IsRTJ(k) /\ Kept(k, seen)
  BY NewRunning DEF Types
<1> HIDE DEF k
<1>2. UpdateIfChanged(seen, k, FALSE)
  BY DEF ObserveActive, k
<1> QED
  BY <1>1, <1>2, UpdateFields, UntouchedReads DEF ObserveActive, Dequeue

LEMMA GatedFields ==
  ASSUME Types, LaunchGated
  PROVE  /\ ctl.pc = "idle" /\ Untouched /\ jobSet' = jobSet /\ queued' = TRUE
         /\ ctl' = Idle \/ To("commit", seen, NewWorkload, fresh)
<1> DEFINE k == syncLaunchGateStatus(seen, seenWl, evaluateLaunchGates(seen, seenWl))
<1>1. IsRTJ(k) /\ Kept(k, seen)
  BY NewGate DEF Types
<1> HIDE DEF k
<1>2. UpdateIfChanged(seen, k, TRUE)
  BY DEF LaunchGated, k
<1> QED
  BY <1>1, <1>2, UpdateFields, UntouchedReads DEF LaunchGated, AtGates, Dequeue

LEMMA ReadyFields ==
  ASSUME Types, LaunchReady
  PROVE  /\ ctl.pc = "idle" /\ Untouched /\ jobSet' = jobSet /\ queued' = queued
         /\ \E pc \in {"gated", "launch"} : To(pc, seen, seenWl, fresh)
         /\ Rest(ctl'.job) = Rest(seen)
         /\ ~getActiveJobSet(seen) /\ ~seen.suspend /\ seen.attempt < MaxAttempts
         /\ evaluateLaunchGates(seen, seenWl) = "LaunchReady"
<1> DEFINE g == syncLaunchGateStatus(seen, seenWl, "LaunchReady")
<1>1. PICK k \in syncTopologyStatus(g, seenWl) :
        ctl' = [pc |-> IF k = seen THEN "launch" ELSE "gated", job |-> k,
                workload |-> seenWl, fresh |-> fresh]
  BY DEF LaunchReady
<1>2. IsRTJ(g) /\ Kept(g, seen) /\ Rest(g) = Rest(seen)
  BY NewGate DEF Types
<1> HIDE DEF g
<1>3. IsRTJ(k) /\ Kept(k, g) /\ Rest(k) = Rest(g)
  BY <1>2, NewDomains
<1>4. Kept(k, seen)
  BY <1>2, <1>3 DEF Kept, Same
<1>5. ctl'.job = k
  BY <1>1
<1>6. PICK pc \in {"gated", "launch"} : ctl' = [pc |-> pc, job |-> ctl'.job, workload |-> seenWl, fresh |-> fresh]
  BY <1>1, <1>5
<1>7. To(pc, seen, seenWl, fresh)
  BY <1>3, <1>4, <1>5, <1>6 DEF To
<1> QED
  BY <1>2, <1>3, <1>5, <1>7, UntouchedReads DEF LaunchReady, AtGates, Dequeue

LEMMA BlockedFields ==
  ASSUME Types, LaunchBlocked
  PROVE  /\ ctl.pc = "launch" /\ Untouched /\ jobSet' = jobSet
         /\ To("commit", ctl.job, NewWorkload, ctl.fresh)
<1> DEFINE k == [ctl.job EXCEPT !.phase = "Failed", !.blocked = TRUE]
<1>1. IsRTJ(ctl.job)
  BY DEF Types
<1>2. IsRTJ(k) /\ Kept(k, ctl.job)
  BY <1>1 DEF IsRTJ, RTJFields, Kept, Same, Rest, Phases
<1> HIDE DEF k
<1>3. Go("commit", k, ctl.fresh)
  BY DEF LaunchBlocked, k
<1> QED
  BY <1>2, <1>3, GoTo, UntouchedReads DEF LaunchBlocked

LEMMA FailFields ==
  ASSUME Types, NoCheckpoint \/ failLaunch
  PROVE  /\ ctl.pc = "launch" /\ Untouched /\ jobSet' = jobSet /\ (queued' = queued \/ queued' = TRUE)
         /\ To("commit", ctl.job, NewWorkload, ctl.fresh)
<1> DEFINE k == [ctl.job EXCEPT !.phase = "Failed"]
<1>1. IsRTJ(k) /\ Kept(k, ctl.job)
  BY NewPhase DEF Types, Phases
<1> HIDE DEF k
<1>2. Go("commit", k, ctl.fresh)
  BY DEF NoCheckpoint, failLaunch, k
<1> QED
  BY <1>1, <1>2, GoTo, UntouchedReads DEF NoCheckpoint, failLaunch, Launchable

LEMMA ShapeModes ==
  ASSUME NEW j, NEW world
  PROVE  /\ buildEffectiveLaunchShape(j, world).world = world
         /\ buildEffectiveLaunchShape(j, world).mode \in {Unset, "Reshard", "SameSize"}
         /\ buildEffectiveLaunchShape(j, world).mode = "Reshard" => Resumes(j) /\ j.checkpoint # world
         /\ buildEffectiveLaunchShape(j, world) = [world |-> world, mode |-> buildEffectiveLaunchShape(j, world).mode]
  BY DEF buildEffectiveLaunchShape, Unset

(* The next attempt, or that of a resume which lost its JobSet. *)
NextAttempt(j) == IF Resumes(j) /\ j.phase = "Restoring" THEN j.attempt ELSE j.attempt + 1

(* What a launch writes, whether it makes the JobSet or finds it. *)
LEMMA LaunchFields ==
  ASSUME Types, LaunchWithGate
  PROVE  LET n == NextAttempt(ctl.job)
             made == RenderChildJobSet(Plan, n, ctl.job.checkpoint)
         IN  /\ ctl.pc = "launch" /\ Untouched /\ queued' = TRUE
             /\ ~DryRunConflicts /\ ~RenderFails(Plan) /\ (Resumes(ctl.job) => Resumable(ctl.job))
             /\ jobSet' = IF jobSet.attempt = n THEN jobSet ELSE made
             /\ DOMAIN ctl' = {"pc", "job", "workload", "fresh"}
             /\ ctl'.pc = "commit" /\ ctl'.workload = NewWorkload /\ ctl'.fresh = ctl.fresh
             /\ DOMAIN ctl'.job = RTJFields /\ Same(ctl'.job, ctl.job)
             /\ ctl'.job.phase = IF Resumes(ctl.job) THEN "Restoring" ELSE "Starting"
             /\ ctl'.job.attempt = n
             /\ ctl'.job.checkpoint = ctl.job.checkpoint
             /\ ctl'.job.shape = buildEffectiveLaunchShape(ctl.job, made.world)
             /\ ctl'.job.startup = "Starting" /\ ctl'.job.evictedFor = ctl.job.evictedFor
<1> DEFINE j == ctl.job
           n == NextAttempt(j)
           made == RenderChildJobSet(Plan, n, j.checkpoint)
           phase == IF Resumes(j) THEN "Restoring" ELSE "Starting"
           shape == buildEffectiveLaunchShape(j, made.world)
           k == syncStartupRecoveryOnLaunch([j EXCEPT !.phase = phase, !.attempt = n, !.shape = shape])
<1>1. /\ jobSet' = IF jobSet.attempt = n THEN jobSet ELSE made
      /\ Go("commit", k, ctl.fresh)
  BY DEF LaunchWithGate, NextAttempt
<1>2. DOMAIN j = RTJFields
  BY DEF Types, IsRTJ
<1> HIDE DEF n, made, phase, shape, j
<1>3. /\ DOMAIN k = RTJFields /\ Same(k, j)
      /\ k.phase = phase /\ k.attempt = n /\ k.checkpoint = j.checkpoint /\ k.shape = shape
      /\ k.startup = "Starting" /\ k.evictedFor = j.evictedFor
  BY <1>2 DEF syncStartupRecoveryOnLaunch, RTJFields, Same
<1> HIDE DEF k
<1>4. /\ DOMAIN ctl' = {"pc", "job", "workload", "fresh"}
      /\ ctl'.pc = "commit" /\ ctl'.workload = NewWorkload /\ ctl'.fresh = ctl.fresh /\ ctl'.job = k
  BY <1>1 DEF Go
<1>5. /\ ctl.pc = "launch" /\ Untouched /\ queued' = TRUE
      /\ ~DryRunConflicts /\ ~RenderFails(Plan) /\ (Resumes(j) => Resumable(j))
  BY UntouchedReads DEF LaunchWithGate, Launchable, j
<1> QED
  BY <1>1, <1>3, <1>4, <1>5 DEF n, made, phase, shape, j

LEMMA StatusFields ==
  ASSUME Types, StatusUpdate
  PROVE  /\ ctl.fresh /\ StoreRTJ(ctl.job) /\ UNCHANGED <<workload, seenWl, request, jobSet, granted>>
         /\ \/ ctl.pc = "commit" /\ ctl' = Idle
            \/ /\ ctl.pc \in {"evict", "gated"}
               /\ ctl'.pc = IF ctl.pc = "evict" THEN "stop" ELSE "launch"
               /\ DOMAIN ctl' = {"pc", "job", "workload", "fresh"}
               /\ ctl'.job = ctl.job /\ ctl'.workload = ctl.workload /\ ctl'.fresh = ctl.fresh
<1>1. DOMAIN ctl = {"pc", "job", "workload", "fresh"}
  BY DEF Types
<1>2. CASE ctl.pc = "evict"
  <2>1. ctl' = [ctl EXCEPT !.pc = "stop"]
    BY <1>2, Zenon DEF StatusUpdate
  <2> QED
    BY <1>1, <1>2, <2>1 DEF StatusUpdate
<1>3. CASE ctl.pc = "gated"
  <2>1. ctl' = [ctl EXCEPT !.pc = "launch"]
    BY <1>3, Zenon DEF StatusUpdate
  <2> QED
    BY <1>1, <1>3, <2>1 DEF StatusUpdate
<1>4. CASE ctl.pc = "commit"
  <2>1. ctl' = Idle
    BY <1>4, Zenon DEF StatusUpdate
  <2> QED
    BY <1>4, <2>1 DEF StatusUpdate
<1> QED
  BY <1>2, <1>3, <1>4 DEF StatusUpdate

LEMMA ConflictFields ==
  ASSUME StatusConflict
  PROVE  ctl' = Idle /\ queued' = TRUE /\ Untouched /\ jobSet' = jobSet /\ ~ctl.fresh
  BY UntouchedReads DEF StatusConflict, Done

-----------------------------------------------------------------------------
\* What each action of Kueue does

Unmoved == UNCHANGED <<rtj, seen, fresh, jobSet, ctl, queued>>

(* The Workload is written; the cache learns of it, or not yet. *)
Written ==
    /\ Unmoved /\ IsWorkload(workload') /\ seenWl' \in {seenWl, workload'}
    /\ granted' = IF Complete(workload') THEN granted \cup {workload'.admission} ELSE granted

LEMMA WriteFields ==
  ASSUME NEW new, WorkloadWrite(new), ControllerUnmoved, IsWorkload(new)
  PROVE  workload' = new /\ Written
<1>1. workload' = new /\ seenWl' \in {seenWl, new}
  BY DEF WorkloadWrite
<1>2. granted' = IF Complete(new) THEN granted \cup {new.admission} ELSE granted
  BY DEF WorkloadWrite
<1> QED
  BY <1>1, <1>2 DEF ControllerUnmoved, Written, Unmoved

LEMMA AdmissionFields ==
  ASSUME NEW a \in Admissions
  PROVE  /\ DOMAIN a = {"counts", "topology", "delayed", "reserved"}
         /\ a.delayed = FALSE /\ a.reserved = TRUE /\ IsAdmission(a)
<1>1. a = [counts |-> a.counts, topology |-> a.topology, delayed |-> FALSE, reserved |-> TRUE]
  BY AdmissionsAssumption
<1>2. DOMAIN a = {"counts", "topology", "delayed", "reserved"} /\ a.delayed = FALSE /\ a.reserved = TRUE
  BY <1>1
<1> QED
  BY <1>2 DEF IsAdmission

LEMMA ReserveFields ==
  ASSUME Types, KueueReserve
  PROVE  /\ Written /\ rtj.suspend
         /\ workload'.admission.reserved = TRUE /\ workload'.admission.delayed = rtj.topology
         /\ workload'.checks = Reset
         /\ ~rtj.topology => Assigned(workload'.admission) = {}
         /\ DOMAIN request' = {"number", "class", "conds"} /\ request'.number = request.number + 1
<1>1. PICK a \in Admissions :
        /\ (Assigned(a) # {}) = rtj.topology
        /\ WorkloadWrite([NewWorkload EXCEPT !.admission =
                IF rtj.topology THEN [a EXCEPT !.topology = [p \in PodSets |-> NoAssignment], !.delayed = TRUE]
                ELSE a])
  BY DEF KueueReserve
<1> DEFINE ad == IF rtj.topology THEN [a EXCEPT !.topology = [p \in PodSets |-> NoAssignment], !.delayed = TRUE]
                 ELSE a
           new == [NewWorkload EXCEPT !.admission = ad]
<1>2. rtj.topology \in BOOLEAN
  BY DEF Types, IsRTJ
<1>3. IsAdmission(ad) /\ ad.reserved = TRUE /\ ad.delayed = rtj.topology /\ (~rtj.topology => ad = a)
  <2>1. CASE rtj.topology
    <3>1. /\ DOMAIN ad = {"counts", "topology", "delayed", "reserved"}
          /\ ad.reserved = TRUE /\ ad.delayed = TRUE /\ ad.counts = a.counts
      BY <2>1, AdmissionFields
    <3> QED
      BY <1>2, <2>1, <3>1 DEF IsAdmission
  <2>2. CASE ~rtj.topology
    BY <1>2, <2>2, AdmissionFields
  <2> QED
    BY <2>1, <2>2
<1> HIDE DEF ad
<1>4. DOMAIN NewWorkload = {"admission", "checks", "evicted", "finished"}
  BY DEF NewWorkload
<1>5. new.admission = ad /\ new.checks = Reset /\ new.evicted = Unset /\ DOMAIN new = DOMAIN NewWorkload
  BY <1>4, NewWorkloadFields
<1> HIDE DEF new
<1>6. IsWorkload(new)
  BY <1>3, <1>4, <1>5, NewWorkloadFields DEF IsWorkload
<1>7. workload' = new /\ Written
  BY <1>1, <1>6, WriteFields DEF KueueReserve, new, ad
<1>8. PICK class \in Classes : request' = [NewRequest(request.number + 1) EXCEPT !.class = class]
  BY DEF KueueReserve
<1>9. DOMAIN request' = {"number", "class", "conds"} /\ request'.number = request.number + 1
  BY <1>8 DEF NewRequest
<1>10. rtj.suspend
  BY DEF KueueReserve
<1> QED
  BY <1>1, <1>3, <1>5, <1>7, <1>9, <1>10

LEMMA SecondPassFields ==
  ASSUME Types, KueueSecondPass
  PROVE  /\ Written /\ request' = request /\ workload.admission.delayed
         /\ workload'.admission \in Admissions /\ Assigned(workload'.admission) # {}
         /\ workload'.admission.counts = workload.admission.counts
         /\ workload'.checks = workload.checks
<1>1. PICK a \in Admissions : /\ Assigned(a) # {} /\ a.counts = workload.admission.counts
                              /\ WorkloadWrite([workload EXCEPT !.admission = a])
  BY DEF KueueSecondPass
<1> DEFINE new == [workload EXCEPT !.admission = a]
<1>2. IsWorkload(workload)
  BY DEF Types
<1>3. new.admission = a /\ new.checks = workload.checks /\ new.evicted = workload.evicted /\ DOMAIN new = DOMAIN workload
  BY <1>2 DEF IsWorkload
<1> HIDE DEF new
<1>4. IsWorkload(new)
  BY <1>2, <1>3, AdmissionFields DEF IsWorkload
<1> QED
  BY <1>1, <1>3, <1>4, WriteFields DEF KueueSecondPass, new

LEMMA CheckFields ==
  ASSUME Types, KueueProvisioningCheck
  PROVE  /\ Written /\ request' = request /\ workload.admission.reserved
         /\ workload'.admission = workload.admission
         /\ workload'.checks.readiness = workload.checks.readiness
         /\ \/ workload'.checks.provisioning # "Ready" /\ workload'.checks.updates = NoKeys
            \/ /\ workload'.checks.provisioning = "Ready"
               /\ \E nodes \in NodeUpdates :
                    workload'.checks.updates = mergeMapInto(nodes, [request |-> request.number])
<1> DEFINE state == CASE "CapacityRevoked" \in request.conds -> "Rejected"
                      [] "Failed" \in request.conds /\ request.number < MaxRequests -> "Retry"
                      [] "Failed" \in request.conds -> "Rejected"
                      [] "Provisioned" \in request.conds -> "Ready"
                      [] OTHER -> "Pending"
<1>1. state \in CheckStates
  BY Zenon DEF CheckStates
<1>2. PICK nodes \in NodeUpdates :
        WorkloadWrite([workload EXCEPT
                    !.checks.provisioning = state,
                    !.checks.updates = IF state = "Ready" THEN mergeMapInto(nodes, [request |-> request.number])
                                       ELSE NoKeys])
  BY DEF KueueProvisioningCheck
<1> HIDE DEF state
<1> DEFINE ups == IF state = "Ready" THEN mergeMapInto(nodes, [request |-> request.number]) ELSE NoKeys
           new == [workload EXCEPT !.checks.provisioning = state, !.checks.updates = ups]
<1>3. IsWorkload(workload)
  BY DEF Types
<1> HIDE DEF ups
<1>4. /\ new.admission = workload.admission /\ new.evicted = workload.evicted /\ DOMAIN new = DOMAIN workload
      /\ DOMAIN new.checks = DOMAIN workload.checks /\ new.checks.readiness = workload.checks.readiness
      /\ new.checks.provisioning = state /\ new.checks.updates = ups
  BY <1>3 DEF IsWorkload
<1> HIDE DEF new
<1>5. IsWorkload(new)
  BY <1>1, <1>3, <1>4 DEF IsWorkload
<1>6. workload' = new /\ Written
  BY <1>2, <1>5, WriteFields DEF KueueProvisioningCheck, new, ups
<1>7. request' = request /\ workload.admission.reserved
  BY DEF KueueProvisioningCheck
<1> QED
  BY <1>4, <1>6, <1>7 DEF ups

LEMMA ReadinessFields ==
  ASSUME Types, ReadinessCheck
  PROVE  /\ Written /\ request' = request
         /\ workload'.admission = workload.admission
         /\ workload'.checks.provisioning = workload.checks.provisioning
         /\ workload'.checks.updates = workload.checks.updates
<1>1. PICK state \in Verdicts :
        WorkloadWrite([workload EXCEPT !.checks.readiness = state, !.checks.message = TRUE])
  BY DEF ReadinessCheck
<1> DEFINE new == [workload EXCEPT !.checks.readiness = state, !.checks.message = TRUE]
<1>2. IsWorkload(workload) /\ state \in CheckStates
  BY AdmissionsAssumption DEF Types, CheckStates
<1>3. /\ new.admission = workload.admission /\ new.evicted = workload.evicted /\ DOMAIN new = DOMAIN workload
      /\ DOMAIN new.checks = DOMAIN workload.checks /\ new.checks.readiness = state
      /\ new.checks.provisioning = workload.checks.provisioning /\ new.checks.updates = workload.checks.updates
  BY <1>2 DEF IsWorkload
<1> HIDE DEF new
<1>4. IsWorkload(new)
  BY <1>2, <1>3 DEF IsWorkload
<1>5. ControllerUnmoved /\ request' = request /\ WorkloadWrite(new)
  BY <1>1 DEF ReadinessCheck, new
<1>6. workload' = new /\ Written
  BY <1>4, <1>5, WriteFields
<1> QED
  BY <1>3, <1>5, <1>6

LEMMA EvictFields ==
  ASSUME Types, KueueEvict \/ Finished
  PROVE  /\ Written /\ request' = request
         /\ workload'.admission = workload.admission /\ workload'.checks = workload.checks
<1>1. IsWorkload(workload)
  BY DEF Types
<1>2. ASSUME NEW reason \in Rejections, WorkloadWrite([workload EXCEPT !.evicted = reason]), ControllerUnmoved
      PROVE  Written /\ workload'.admission = workload.admission /\ workload'.checks = workload.checks
  <2> DEFINE new == [workload EXCEPT !.evicted = reason]
  <2>1. /\ new.admission = workload.admission /\ new.evicted = reason /\ DOMAIN new = DOMAIN workload
        /\ new.checks = workload.checks
    BY <1>1 DEF IsWorkload
  <2> HIDE DEF new
  <2>2. IsWorkload(new)
    BY <1>1, <2>1 DEF IsWorkload
  <2> QED
    BY <1>2, <2>1, <2>2, WriteFields DEF new
<1>3. CASE KueueEvict
  <2>1. PICK reason \in Rejections : WorkloadWrite([workload EXCEPT !.evicted = reason])
    BY <1>3 DEF KueueEvict, Rejections
  <2> QED
    BY <1>2, <1>3, <2>1 DEF KueueEvict
<1>4. CASE Finished
  <2> DEFINE new == [workload EXCEPT !.finished = TRUE]
  <2>1. /\ new.admission = workload.admission /\ new.evicted = workload.evicted /\ DOMAIN new = DOMAIN workload
        /\ new.checks = workload.checks
    BY <1>1 DEF IsWorkload
  <2> HIDE DEF new
  <2>2. IsWorkload(new)
    BY <1>1, <2>1 DEF IsWorkload
  <2> QED
    BY <1>4, <2>1, <2>2, WriteFields DEF Finished, new
<1> QED
  BY <1>3, <1>4

LEMMA ClearFields ==
  ASSUME Types, KueueClearAdmission
  PROVE  /\ Written /\ request' = request
         /\ workload'.admission = NoAdmission /\ workload'.checks = Reset
<1> DEFINE new == [workload EXCEPT !.admission = NoAdmission, !.checks = Reset]
<1>1. IsWorkload(workload)
  BY DEF Types
<1>2. new.admission = NoAdmission /\ new.evicted = workload.evicted /\ DOMAIN new = DOMAIN workload /\ new.checks = Reset
  BY <1>1 DEF IsWorkload
<1> HIDE DEF new
<1>3. IsWorkload(new)
  BY <1>1, <1>2, NewWorkloadFields DEF IsWorkload
<1> QED
  BY <1>2, <1>3, WriteFields DEF KueueClearAdmission, new

(* Kueue writes the spec of the RTJ: a write of the controller made from an older copy will fail. *)
Respecified(new) ==
    /\ StoreRTJ(new) /\ IsRTJ(new)
    /\ new.ref = rtj.ref /\ new.topology = rtj.topology /\ new.attempt = rtj.attempt
    /\ new.shape = rtj.shape /\ Rest(new) = Rest(rtj)
    /\ UNCHANGED <<workload, seenWl, request, jobSet, granted>>
    /\ DOMAIN ctl' = {"pc", "job", "workload", "fresh"} /\ ctl'.fresh = FALSE
    /\ ctl'.pc = ctl.pc /\ ctl'.job = ctl.job /\ ctl'.workload = ctl.workload

LEMMA SpecFields ==
  ASSUME Types, NEW new, SpecWrite(new)
  PROVE  /\ StoreRTJ(new) /\ UNCHANGED <<workload, seenWl, request, jobSet, granted>>
         /\ DOMAIN ctl' = {"pc", "job", "workload", "fresh"} /\ ctl'.fresh = FALSE
         /\ ctl'.pc = ctl.pc /\ ctl'.job = ctl.job /\ ctl'.workload = ctl.workload
  BY DEF SpecWrite, Types

LEMMA RunFields ==
  ASSUME Types, RunWithPodSetsInfo
  PROVE  \E new : /\ Respecified(new) /\ Complete(workload)
                  /\ new.suspend = FALSE /\ new.counts = workload.admission.counts
                  /\ new.merged = workload.checks.updates
<1> DEFINE new == [rtj EXCEPT !.suspend = FALSE, !.counts = workload.admission.counts,
                              !.merged = workload.checks.updates]
<1>1. IsRTJ(rtj)
  BY DEF Types
<1>2. /\ IsRTJ(new)
      /\ new.ref = rtj.ref /\ new.topology = rtj.topology /\ new.attempt = rtj.attempt
      /\ new.shape = rtj.shape /\ Rest(new) = Rest(rtj)
      /\ new.suspend = FALSE /\ new.counts = workload.admission.counts
      /\ new.merged = workload.checks.updates
  BY <1>1 DEF IsRTJ, RTJFields, Rest
<1> HIDE DEF new
<1>3. SpecWrite(new) /\ Complete(workload)
  BY DEF RunWithPodSetsInfo, new
<1> QED
  BY <1>2, <1>3, SpecFields DEF Respecified

LEMMA SuspendFields ==
  ASSUME Types, Suspend
  PROVE  \E new : Respecified(new) /\ new.suspend = TRUE
<1> DEFINE new == [rtj EXCEPT !.suspend = TRUE, !.merged = NoKeys]
<1>1. IsRTJ(rtj)
  BY DEF Types
<1>2. /\ IsRTJ(new)
      /\ new.ref = rtj.ref /\ new.topology = rtj.topology /\ new.attempt = rtj.attempt
      /\ new.shape = rtj.shape /\ Rest(new) = Rest(rtj) /\ new.suspend = TRUE
  BY <1>1 DEF IsRTJ, RTJFields, Rest
<1> HIDE DEF new
<1>3. SpecWrite(new)
  BY DEF Suspend, new
<1> QED
  BY <1>2, <1>3, SpecFields DEF Respecified

LEMMA StoreFields ==
  ASSUME NEW new, StoreRTJ(new)
  PROVE  /\ rtj' = new
         /\ \/ seen' = new /\ fresh' = fresh /\ fresh /\ queued' = TRUE
            \/ seen' = seen /\ fresh' = FALSE /\ queued' = queued
  BY DEF StoreRTJ

-----------------------------------------------------------------------------
\* The kinds of steps

(* A step of a pass that makes no JobSet: it ends the pass, or edits the copy of the RTJ. *)
Paces ==
    /\ Untouched /\ queued' \in BOOLEAN /\ (jobSet' = jobSet \/ jobSet' = NoJobSet)
    /\ \/ ctl' = Idle
       \/ \E pc \in {"evict", "commit"} : To(pc, seen, NewWorkload, fresh)
       \/ \E pc \in {"gated", "launch"} : To(pc, seen, seenWl, fresh) /\ LaunchReady
       \/ To("commit", ctl.job, NewWorkload, ctl.fresh) /\ ctl.pc \in {"stop", "launch"}

Pass ==
    \/ StopUnrecorded \/ RecordEviction \/ StopRecorded \/ DeferUntilAdmitted \/ ObserveActive
    \/ LaunchGated \/ LaunchReady \/ LaunchBlocked \/ NoCheckpoint \/ failLaunch \/ StatusConflict

LEMMA PassFields == ASSUME Types, Pass PROVE Paces
<1>1. queued \in BOOLEAN
  BY DEF Types
<1>2. CASE StopUnrecorded
  BY <1>2, StopUnrecordedFields DEF StopStep, Paces
<1>3. CASE RecordEviction
  BY <1>1, <1>3, RecordEvictionFields DEF Paces
<1>4. CASE StopRecorded
  BY <1>4, StopRecordedFields DEF StopStep, Paces
<1>5. CASE DeferUntilAdmitted
  BY <1>5, DeferFields DEF Paces
<1>6. CASE ObserveActive
  BY <1>6, ObserveFields DEF Paces
<1>7. CASE LaunchGated
  BY <1>7, GatedFields DEF Paces
<1>8. CASE LaunchReady
  BY <1>1, <1>8, ReadyFields DEF Paces
<1>9. CASE LaunchBlocked
  <2>1. queued' = TRUE
    BY <1>9 DEF LaunchBlocked
  <2> QED
    BY <1>9, <2>1, BlockedFields DEF Paces
<1>10. CASE NoCheckpoint \/ failLaunch
  BY <1>1, <1>10, FailFields DEF Paces
<1>11. CASE StatusConflict
  BY <1>11, ConflictFields DEF Paces
<1> QED
  BY <1>2, <1>3, <1>4, <1>5, <1>6, <1>7, <1>8, <1>9, <1>10, <1>11 DEF Pass

(* The steps of Kueue that write the Workload. *)
Writes ==
    \/ KueueReserve \/ KueueSecondPass \/ KueueProvisioningCheck \/ ReadinessCheck
    \/ KueueEvict \/ KueueClearAdmission \/ Finished

Specifies == RunWithPodSetsInfo \/ Suspend

LEMMA WritesFields ==
  ASSUME Types, Writes
  PROVE  Written /\ request'.number \in Nat /\ DOMAIN request' = {"number", "class", "conds"}
<1>1. request.number \in Nat /\ DOMAIN request = {"number", "class", "conds"}
  BY DEF Types
<1>2. CASE KueueReserve
  BY <1>1, <1>2, ReserveFields
<1>3. CASE KueueSecondPass
  BY <1>1, <1>3, SecondPassFields
<1>4. CASE KueueProvisioningCheck
  BY <1>1, <1>4, CheckFields
<1>5. CASE ReadinessCheck
  BY <1>1, <1>5, ReadinessFields
<1>6. CASE KueueEvict \/ Finished
  BY <1>1, <1>6, EvictFields
<1>7. CASE KueueClearAdmission
  BY <1>1, <1>7, ClearFields
<1> QED
  BY <1>2, <1>3, <1>4, <1>5, <1>6, <1>7 DEF Writes

LEMMA SpecifiesFields == ASSUME Types, Specifies PROVE \E new : Respecified(new)
  BY RunFields, SuspendFields DEF Specifies

Delivered == rtj' = rtj /\ seen' = rtj /\ fresh' = TRUE /\ queued' = TRUE
             /\ UNCHANGED <<workload, seenWl, request, jobSet, ctl, granted>>

WorkloadDelivered == seenWl' = workload /\ Unmoved /\ UNCHANGED <<workload, request, granted>>

LEMMA DeliverFields ==
  /\ Deliver => Delivered
  /\ DeliverWorkload => WorkloadDelivered
  BY DEF Deliver, DeliverWorkload, Delivered, WorkloadDelivered, Unmoved

Provisions ==
    /\ Unmoved /\ UNCHANGED <<workload, seenWl, granted>>
    /\ request'.number = request.number /\ DOMAIN request' = DOMAIN request

LEMMA ProvisionerFields == ASSUME Types, FakeProvisioner PROVE Provisions
<1>1. DOMAIN request = {"number", "class", "conds"}
  BY DEF Types
<1>2. PICK conds : request' = [request EXCEPT !.conds = conds]
  BY DEF FakeProvisioner
<1> QED
  BY <1>1, <1>2 DEF FakeProvisioner, ControllerUnmoved, Provisions, Unmoved

LEMMA NextKinds ==
  Next => \/ Pass \/ LaunchWithGate \/ StatusUpdate \/ Writes \/ Specifies
          \/ FakeProvisioner \/ Deliver \/ DeliverWorkload
  BY DEF Next, Reconcile, Kueue, Pass, Writes, Specifies

-----------------------------------------------------------------------------
\* What is launched was granted

(* Complete admissions are on record, and only an RTJ with topology has a second pass. *)
GrantedWl(w, topology, grants) ==
    /\ w.admission.delayed => w.admission.reserved /\ topology
    /\ Complete(w) => w.admission \in grants

(* An RTJ runs with the counts of some complete admission. *)
GrantedJob(j, grants) == ~j.suspend => \E a \in grants : a.counts = j.counts

(* The copies of the RTJ: what nobody changes, and what the cache may say. *)
CopiesInv ==
    /\ fresh => seen = rtj
    /\ ctl.fresh => ctl.pc # "idle"
    /\ seen.ref = rtj.ref /\ seen.topology = rtj.topology
    /\ ctl.pc # "idle" => ctl.job.ref = rtj.ref /\ ctl.job.topology = rtj.topology

GrantedInv ==
    /\ GrantedWl(workload, rtj.topology, granted) /\ GrantedWl(seenWl, rtj.topology, granted)
    /\ GrantedWl(ctl.workload, rtj.topology, granted)
    /\ GrantedJob(rtj, granted) /\ GrantedJob(seen, granted) /\ GrantedJob(ctl.job, granted)
    /\ workload.admission.reserved /\ ~workload.admission.delayed
        => (Assigned(workload.admission) # {}) = rtj.topology
    /\ \A a \in granted : (Assigned(a) # {}) = rtj.topology
    /\ AtLaunch => ~ctl.job.suspend
    /\ AtLaunch /\ ctl.job.ref => Complete(ctl.workload)
    /\ AtLaunch /\ ~ctl.job.ref => ~ctl.job.topology

(* Closed gates, whichever it is. *)
LEMMA GatesOpen ==
  ASSUME NEW j, IsRTJ(j), NEW w, IsWorkload(w), w.admission.delayed => j.topology,
         evaluateLaunchGates(j, w) = "LaunchReady"
  PROVE  (j.ref => Complete(w)) /\ (~j.ref => ~j.topology)
<1> DEFINE view == BuildView(w, j.ref, j.topology)
           closed == CASE view.provisioning \in {"Pending", "Retry"} -> "ProvisioningInProgress"
                      [] view.provisioning = "Rejected" -> "ProvisioningFailed"
                      [] evaluateReadinessCheck(w) \in {"Pending", "Retry"} -> "WaitingForReadinessGate"
                      [] evaluateReadinessCheck(w) = "Rejected" -> "ReadinessGateRejected"
                      [] OTHER -> "AdmissionCheckPending"
<1>1. closed # "LaunchReady"
  <2>1. closed \in {"ProvisioningInProgress", "ProvisioningFailed", "WaitingForReadinessGate",
                    "ReadinessGateRejected", "AdmissionCheckPending"}
    BY Zenon
  <2> HIDE DEF closed
  <2> QED
    BY <2>1
<1>2. evaluateLaunchGates(j, w) =
        IF j.ref /\ ~view.quotaReserved THEN "QuotaNotReserved"
        ELSE IF j.ref /\ ~view.allReady THEN closed
        ELSE IF j.topology /\ view.secondPassPending THEN "TopologyPendingSecondPass"
        ELSE IF j.topology /\ (~j.ref \/ ~w.admission.reserved) THEN "WaitingForTopologyAssignment"
        ELSE IF j.topology /\ ParseFails(w.admission) THEN "TopologyNotRepresentable"
        ELSE IF j.topology /\ Assigned(w.admission) = {} THEN "WaitingForTopologyAssignment"
        ELSE "LaunchReady"
  BY Zenon DEF evaluateLaunchGates
<1> HIDE DEF closed
<1>3. CASE j.ref
  <2>1. view.quotaReserved /\ view.allReady /\ ~(j.topology /\ view.secondPassPending)
    <3> HIDE DEF view
    <3> QED
      BY <1>1, <1>2, <1>3
  <2>2. w.admission.reserved
    BY <1>3, <2>1 DEF BuildView
  <2>3. view.allReady = AllChecksReady(w) /\ (j.topology => view.secondPassPending = (Assigned(w.admission) = {} \/ w.admission.delayed))
    BY <1>3, <2>2 DEF BuildView, ParseTopologyFromAssignments
  <2> HIDE DEF view
  <2> QED
    BY <1>3, <2>1, <2>2, <2>3 DEF Complete
<1>4. CASE ~j.ref
  <2> HIDE DEF view
  <2> QED
    BY <1>1, <1>2, <1>4
<1> QED
  BY <1>3, <1>4

LEMMA GrantedMore ==
  ASSUME NEW grants, NEW more, grants \subseteq more
  PROVE  /\ \A w, t : GrantedWl(w, t, grants) => GrantedWl(w, t, more)
         /\ \A j : GrantedJob(j, grants) => GrantedJob(j, more)
  BY DEF GrantedWl, GrantedJob

LEMMA GrantedKept ==
  ASSUME NEW j, NEW k, Same(k, j), NEW grants, GrantedJob(j, grants)
  PROVE  GrantedJob(k, grants)
  BY DEF GrantedJob, Same

LEMMA NewGranted ==
  ASSUME NEW topology, NEW grants
  PROVE  GrantedWl(NewWorkload, topology, grants) /\ GrantedJob(Idle.job, grants)
  BY NewWorkloadFields, IdleFields DEF GrantedWl, GrantedJob, Complete

(* The world size of a launch is that of an admission. *)
LEMMA WorldSizes ==
  ASSUME NEW a \in Admissions
  PROVE  /\ totalAdmittedCount(a.counts) \in Nat \ {0}
         /\ computeEffectiveWorldSize(a.counts) = totalAdmittedCount(a.counts)
<1>1. totalAdmittedCount(a.counts) \in Nat \ {0}
  BY AdmissionsAssumption
<1> QED
  BY <1>1 DEF computeEffectiveWorldSize

LEMMA PlanFields ==
  /\ Plan.counts = IF ctl.job.ref THEN ctl.workload.admission.counts ELSE ctl.job.counts
  /\ Plan.topology = IF ctl.job.topology THEN ParseFromAdmission(ctl.workload.admission) ELSE NoKeys
  /\ Plan.templates = [p \in PodSets |-> ctl.job.merged]
  BY DEF Plan, buildLaunchPlan

LEMMA PlannedCounts ==
  ASSUME Types, GrantedInv, AtLaunch
  PROVE  \E a \in granted : /\ Plan.counts = a.counts
                            /\ ctl.job.ref => a = ctl.workload.admission
<1>1. CASE ctl.job.ref
  BY <1>1, PlanFields DEF GrantedInv, GrantedWl
<1>2. CASE ~ctl.job.ref
  BY <1>2, PlanFields DEF GrantedInv, GrantedJob
<1> QED
  BY <1>1, <1>2

LEMMA MadeWorld ==
  ASSUME Types, GrantedInv, AtLaunch, NEW n, NEW restore
  PROVE  LET made == RenderChildJobSet(Plan, n, restore)
         IN  /\ made.attempt = n /\ made.restore = restore
             /\ made.world = computeEffectiveWorldSize(Plan.counts) /\ made.world \in Nat
<1> DEFINE made == RenderChildJobSet(Plan, n, restore)
<1>1. PICK a \in Admissions : Plan.counts = a.counts
  BY PlannedCounts DEF Types
<1>2. computeEffectiveWorldSize(Plan.counts) \in Nat
  BY <1>1, WorldSizes
<1>3. made.attempt = n /\ made.restore = restore /\ made.world = computeEffectiveWorldSize(Plan.counts)
  BY DEF RenderChildJobSet
<1> QED
  BY <1>2, <1>3

-----------------------------------------------------------------------------
\* Types are preserved

LEMMA TypesInit == Init => Types
<1> SUFFICES ASSUME Init PROVE Types
  OBVIOUS
<1>1. PICK ref, topology \in BOOLEAN : rtj = NewRTJ(ref, topology)
  BY DEF Init
<1>2. IsRTJ(rtj) /\ IsRTJ(seen)
  BY <1>1, NewJob DEF Init
<1>3. IsWorkload(workload) /\ IsWorkload(seenWl)
  BY NewWorkloadFields DEF Init
<1>7. /\ DOMAIN ctl = {"pc", "job", "workload", "fresh"} /\ ctl.pc = "idle"
      /\ IsRTJ(ctl.job) /\ IsWorkload(ctl.workload) /\ ctl.fresh \in BOOLEAN
  BY IdleFields, NewWorkloadFields DEF Init
<1>4. 0 \in 0 .. MaxAttempts
  OBVIOUS
<1>5. jobSet = NoJobSet /\ jobSet.attempt = 0 /\ jobSet.world \in Nat
  BY DEF Init, NoJobSet
<1>6. DOMAIN request = {"number", "class", "conds"} /\ request.number \in Nat
  BY DEF Init, NewRequest
<1>8. fresh \in BOOLEAN /\ queued \in BOOLEAN /\ granted \subseteq Admissions
  BY DEF Init
<1> QED
  BY <1>2, <1>3, <1>4, <1>5, <1>6, <1>7, <1>8 DEF Types, AtLaunch

LEMMA TypesPass == ASSUME Types, Paces PROVE Types'
<1>1. jobSet'.attempt \in 0 .. MaxAttempts /\ jobSet'.world \in Nat /\ (jobSet'.attempt = 0 => jobSet' = NoJobSet)
  <2>1. 0 \in 0 .. MaxAttempts
    OBVIOUS
  <2>2. NoJobSet.attempt = 0 /\ NoJobSet.world = 0
    BY DEF NoJobSet
  <2> QED
    BY <2>1, <2>2 DEF Types, Paces
<1>2. UNCHANGED <<rtj, seen, fresh, workload, seenWl, request, granted>> /\ queued' \in BOOLEAN
  BY DEF Paces, Untouched
<1>3. /\ DOMAIN ctl' = {"pc", "job", "workload", "fresh"}
      /\ ctl'.pc \in {"idle", "evict", "stop", "gated", "launch", "commit"}
      /\ IsRTJ(ctl'.job) /\ IsWorkload(ctl'.workload) /\ ctl'.fresh \in BOOLEAN
      /\ ctl'.pc \in {"gated", "launch"} => ctl'.job.attempt < MaxAttempts
  <2>1. CASE ctl' = Idle
    BY <2>1, IdleFields, NewWorkloadFields
  <2>2. CASE \E pc \in {"evict", "commit"} : To(pc, seen, NewWorkload, fresh)
    BY <2>2, ToFields, NewWorkloadFields DEF Types
  <2>3. CASE \E pc \in {"gated", "launch"} : To(pc, seen, seenWl, fresh) /\ LaunchReady
    <3>1. seen.attempt < MaxAttempts
      BY <2>3, ReadyFields
    <3>2. PICK pc \in {"gated", "launch"} : To(pc, seen, seenWl, fresh)
      BY <2>3
    <3>3. ctl'.job.attempt = seen.attempt
      BY <3>2, ToFields DEF Kept
    <3> QED
      BY <3>1, <3>2, <3>3, ToFields DEF Types
  <2>4. CASE To("commit", ctl.job, NewWorkload, ctl.fresh)
    BY <2>4, ToFields, NewWorkloadFields DEF Types
  <2> QED
    BY <2>1, <2>2, <2>3, <2>4 DEF Paces
<1> QED
  BY <1>1, <1>2, <1>3 DEF Types, AtLaunch

LEMMA LaunchedJob ==
  ASSUME Types, GrantedInv, LaunchWithGate
  PROVE  /\ IsRTJ(ctl'.job) /\ jobSet'.attempt \in 1 .. MaxAttempts /\ jobSet'.world \in Nat
         /\ jobSet'.attempt = NextAttempt(ctl.job)
<1> DEFINE n == NextAttempt(ctl.job)
           made == RenderChildJobSet(Plan, n, ctl.job.checkpoint)
           shape == buildEffectiveLaunchShape(ctl.job, made.world)
<1>1. AtLaunch /\ IsRTJ(ctl.job)
  BY LaunchFields DEF AtLaunch, Types
<1>2. made.attempt = n /\ made.world \in Nat
  BY <1>1, MadeWorld
<1>3. n \in 1 .. MaxAttempts
  <2>1. ctl.job.attempt \in 0 .. MaxAttempts /\ ctl.job.attempt < MaxAttempts
    BY <1>1 DEF IsRTJ, Types
  <2>2. ctl.job.phase = "Restoring" => ctl.job.attempt # 0
    BY <1>1 DEF IsRTJ
  <2> QED
    BY <2>1, <2>2 DEF NextAttempt
<1>4. shape \in [world : Nat, mode : {Unset, "Reshard", "SameSize"}]
  BY <1>2, ShapeModes
<1>5. /\ DOMAIN ctl'.job = RTJFields /\ Same(ctl'.job, ctl.job) /\ ctl'.job.phase \in {"Restoring", "Starting"}
      /\ ctl'.job.attempt = n /\ ctl'.job.checkpoint = ctl.job.checkpoint /\ ctl'.job.shape = shape
      /\ ctl'.job.startup = "Starting" /\ ctl'.job.evictedFor = ctl.job.evictedFor
      /\ jobSet' = IF jobSet.attempt = n THEN jobSet ELSE made
  BY LaunchFields
<1> HIDE DEF n, made, shape
<1>6. IsRTJ(ctl'.job)
  BY <1>1, <1>3, <1>4, <1>5 DEF IsRTJ, Same, Phases, StartupStates
<1>7. jobSet'.attempt = n /\ jobSet'.world \in Nat
  BY <1>2, <1>5 DEF Types
<1> QED
  BY <1>3, <1>6, <1>7 DEF n

LEMMA TypesLaunch == ASSUME Types, GrantedInv, LaunchWithGate PROVE Types'
<1>1. /\ IsRTJ(ctl'.job) /\ jobSet'.attempt \in 0 .. MaxAttempts /\ jobSet'.world \in Nat
      /\ jobSet'.attempt # 0
  BY LaunchedJob
<1>2. /\ UNCHANGED <<rtj, seen, fresh, workload, seenWl, request, granted>> /\ queued' \in BOOLEAN
      /\ DOMAIN ctl' = {"pc", "job", "workload", "fresh"}
      /\ ctl'.pc = "commit" /\ IsWorkload(ctl'.workload) /\ ctl'.fresh \in BOOLEAN
  BY LaunchFields, NewWorkloadFields DEF Untouched, Types
<1> QED
  BY <1>1, <1>2 DEF Types, AtLaunch

LEMMA StoredTypes ==
  ASSUME Types, NEW new, StoreRTJ(new), IsRTJ(new)
  PROVE  IsRTJ(rtj') /\ IsRTJ(seen') /\ fresh' \in BOOLEAN /\ queued' \in BOOLEAN
<1>1. rtj' = new /\ (seen' = new \/ seen' = seen)
  BY StoreFields
<1>2. (fresh' = fresh \/ fresh' = FALSE) /\ (queued' = TRUE \/ queued' = queued)
  BY StoreFields
<1> QED
  BY <1>1, <1>2 DEF Types

LEMMA TypesStatus == ASSUME Types, StatusUpdate PROVE Types'
<1>1. IsRTJ(rtj') /\ IsRTJ(seen') /\ fresh' \in BOOLEAN /\ queued' \in BOOLEAN
  <2>1. StoreRTJ(ctl.job) /\ IsRTJ(ctl.job)
    BY StatusFields DEF Types
  <2> QED
    BY <2>1, StoredTypes
<1>2. UNCHANGED <<workload, seenWl, request, jobSet, granted>>
  BY StatusFields
<1>3. /\ DOMAIN ctl' = {"pc", "job", "workload", "fresh"}
      /\ ctl'.pc \in {"idle", "stop", "launch"}
      /\ IsRTJ(ctl'.job) /\ IsWorkload(ctl'.workload) /\ ctl'.fresh \in BOOLEAN
      /\ ctl'.pc \in {"gated", "launch"} => ctl'.job.attempt < MaxAttempts
  <2>1. CASE ctl' = Idle
    BY <2>1, IdleFields, NewWorkloadFields
  <2>2. CASE ctl' # Idle
    BY <2>2, StatusFields DEF Types, AtLaunch
  <2> QED
    BY <2>1, <2>2
<1> QED
  BY <1>1, <1>2, <1>3 DEF Types, AtLaunch

LEMMA TypesSpecifies == ASSUME Types, Specifies PROVE Types'
<1>1. PICK new : Respecified(new)
  BY SpecifiesFields
<1>2. IsRTJ(rtj') /\ IsRTJ(seen') /\ fresh' \in BOOLEAN /\ queued' \in BOOLEAN
  BY <1>1, StoredTypes DEF Respecified
<1>3. /\ UNCHANGED <<workload, seenWl, request, jobSet, granted>>
      /\ DOMAIN ctl' = {"pc", "job", "workload", "fresh"} /\ ctl'.fresh = FALSE
      /\ ctl'.pc = ctl.pc /\ ctl'.job = ctl.job /\ ctl'.workload = ctl.workload
  BY <1>1 DEF Respecified
<1> QED
  BY <1>2, <1>3 DEF Types, AtLaunch

LEMMA TypesWrites == ASSUME Types, Writes PROVE Types'
<1>1. Written /\ request'.number \in Nat /\ DOMAIN request' = {"number", "class", "conds"}
  BY WritesFields
<1>2. IsWorkload(workload') /\ IsWorkload(seenWl') /\ UNCHANGED <<rtj, seen, fresh, jobSet, ctl, queued>>
  BY <1>1 DEF Written, Unmoved, Types
<1>3. granted' \subseteq Admissions
  <2>1. Complete(workload') => workload'.admission \in Admissions
    BY <1>2 DEF IsWorkload, IsAdmission, Complete
  <2> QED
    BY <1>1, <2>1 DEF Written, Types
<1> QED
  BY <1>1, <1>2, <1>3 DEF Types, AtLaunch

LEMMA TypesRest ==
  ASSUME Types, Provisions \/ Delivered \/ WorkloadDelivered \/ UNCHANGED vars
  PROVE  Types'
<1>1. CASE Provisions
  BY <1>1 DEF Types, AtLaunch, Provisions, Unmoved
<1>2. CASE Delivered
  BY <1>2 DEF Types, AtLaunch, Delivered
<1>3. CASE WorkloadDelivered
  BY <1>3 DEF Types, AtLaunch, WorkloadDelivered, Unmoved
<1>4. CASE UNCHANGED vars
  BY <1>4 DEF Types, AtLaunch, vars
<1> QED
  BY <1>1, <1>2, <1>3, <1>4

-----------------------------------------------------------------------------
\* Copies

LEMMA CopiesInit == Init => CopiesInv
<1> SUFFICES ASSUME Init PROVE CopiesInv
  OBVIOUS
<1>1. ctl = Idle /\ seen = rtj
  BY DEF Init
<1> QED
  BY <1>1, IdleFields DEF CopiesInv

LEMMA CopiesPass == ASSUME Types, CopiesInv, Paces \/ LaunchWithGate PROVE CopiesInv'
<1>1. UNCHANGED <<rtj, seen, fresh>>
  BY LaunchFields DEF Paces, Untouched
<1>2. (ctl'.pc = "idle" /\ ctl'.fresh = FALSE) \/ (ctl'.pc # "idle" /\ ctl'.job.ref = rtj.ref /\ ctl'.job.topology = rtj.topology)
  <2>1. CASE ctl' = Idle
    BY <2>1, IdleFields
  <2>2. ASSUME NEW pc \in {"evict", "commit", "gated", "launch"}, NEW w, To(pc, seen, w, fresh)
        PROVE  ctl'.pc # "idle" /\ ctl'.job.ref = rtj.ref /\ ctl'.job.topology = rtj.topology
    BY <2>2, ToFields DEF Kept, Same, CopiesInv
  <2>3. CASE To("commit", ctl.job, NewWorkload, ctl.fresh) /\ ctl.pc \in {"stop", "launch"}
    BY <2>3, ToFields DEF Kept, Same, CopiesInv
  <2>4. CASE LaunchWithGate
    BY <2>4, LaunchFields DEF Same, CopiesInv
  <2> QED
    BY <2>1, <2>2, <2>3, <2>4 DEF Paces
<1> QED
  BY <1>1, <1>2 DEF CopiesInv

LEMMA CopiesStatus == ASSUME Types, CopiesInv, StatusUpdate PROVE CopiesInv'
<1>1. rtj' = ctl.job /\ (fresh' => seen' = rtj') /\ (seen' = ctl.job \/ seen' = seen)
  BY StatusFields, StoreFields
<1>2. ctl.pc # "idle"
  BY StatusFields
<1>3. ctl.job.ref = rtj.ref /\ ctl.job.topology = rtj.topology
  BY <1>2 DEF CopiesInv
<1>4. \/ ctl'.pc = "idle" /\ ctl'.fresh = FALSE
      \/ ctl'.pc # "idle" /\ ctl'.job = ctl.job
  BY StatusFields, IdleFields
<1> QED
  BY <1>1, <1>3, <1>4 DEF CopiesInv

LEMMA CopiesSpecifies == ASSUME Types, CopiesInv, Specifies PROVE CopiesInv'
<1>1. PICK new : Respecified(new)
  BY SpecifiesFields
<1>2. rtj' = new /\ (fresh' => seen' = rtj') /\ (seen' = new \/ seen' = seen)
  BY <1>1, StoreFields DEF Respecified
<1> QED
  BY <1>1, <1>2 DEF CopiesInv, Respecified

LEMMA CopiesRest ==
  ASSUME CopiesInv, Written \/ Provisions \/ Delivered \/ WorkloadDelivered \/ UNCHANGED vars
  PROVE  CopiesInv'
  BY DEF CopiesInv, Written, Provisions, Delivered, WorkloadDelivered, Unmoved, vars

-----------------------------------------------------------------------------
\* The controller at rest

(* A controller at rest has nothing to launch. *)
QuietInv ==
    ctl.pc = "idle" /\ ~queued /\ fresh => rtj.suspend \/ getActiveJobSet(rtj)

LEMMA QuietPass == ASSUME Types, CopiesInv, Pass PROVE QuietInv'
<1>1. CASE queued' = TRUE
  BY <1>1 DEF QuietInv
<1>2. ASSUME NEW pc \in {"evict", "commit", "gated", "launch"}, NEW j, NEW w, NEW isFresh, To(pc, j, w, isFresh)
      PROVE  QuietInv'
  BY <1>2, ToFields DEF QuietInv
<1>3. CASE DeferUntilAdmitted
  <2>1. UNCHANGED <<rtj, seen, fresh>> /\ seen.suspend /\ (fresh => seen = rtj)
    BY <1>3, DeferFields DEF Untouched, CopiesInv
  <2> QED
    BY <2>1 DEF QuietInv
<1>4. CASE ObserveActive
  <2>1. UNCHANGED <<rtj, seen, fresh, jobSet>> /\ getActiveJobSet(seen) /\ (fresh => seen = rtj)
    BY <1>4, ObserveFields DEF Untouched, CopiesInv
  <2> QED
    BY <2>1 DEF QuietInv, getActiveJobSet
<1>5. CASE StopUnrecorded \/ StopRecorded
  BY <1>1, <1>5, StopUnrecordedFields, StopRecordedFields DEF StopStep
<1>6. CASE RecordEviction
  BY <1>2, <1>6, RecordEvictionFields
<1>7. CASE LaunchGated \/ StatusConflict
  BY <1>1, <1>7, GatedFields, ConflictFields
<1>8. CASE LaunchReady
  BY <1>2, <1>8, ReadyFields
<1>9. CASE LaunchBlocked \/ NoCheckpoint \/ failLaunch
  BY <1>2, <1>9, BlockedFields, FailFields
<1> QED
  BY <1>3, <1>4, <1>5, <1>6, <1>7, <1>8, <1>9 DEF Pass

LEMMA QuietLaunch == ASSUME Types, LaunchWithGate PROVE QuietInv'
  BY LaunchFields DEF QuietInv

LEMMA QuietStore == ASSUME NEW new, StoreRTJ(new), QuietInv PROVE fresh' => queued'
  BY StoreFields

LEMMA QuietRest ==
  ASSUME QuietInv, Written \/ Provisions \/ Delivered \/ WorkloadDelivered \/ UNCHANGED vars
  PROVE  QuietInv'
<1>1. CASE Delivered
  BY <1>1 DEF QuietInv, Delivered
<1>2. CASE UNCHANGED <<rtj, fresh, jobSet, ctl, queued>>
  BY <1>2 DEF QuietInv, getActiveJobSet
<1> QED
  BY <1>1, <1>2 DEF Written, Provisions, WorkloadDelivered, Unmoved, vars

LEMMA QuietStep == ASSUME Types, CopiesInv, QuietInv, [Next]_vars PROVE QuietInv'
<1>1. CASE StatusUpdate
  <2>1. fresh' => queued'
    BY <1>1, StatusFields, QuietStore
  <2> QED
    BY <2>1 DEF QuietInv
<1>2. CASE Specifies
  <2>1. fresh' => queued'
    BY <1>2, SpecifiesFields, QuietStore DEF Respecified
  <2> QED
    BY <2>1 DEF QuietInv
<1>3. CASE Writes
  BY <1>3, WritesFields, QuietRest
<1>4. CASE FakeProvisioner \/ Deliver \/ DeliverWorkload \/ UNCHANGED vars
  BY <1>4, ProvisionerFields, DeliverFields, QuietRest
<1> QED
  BY <1>1, <1>2, <1>3, <1>4, QuietPass, QuietLaunch, NextKinds

-----------------------------------------------------------------------------
\* Grants are preserved

LEMMA GrantedInit == Init => GrantedInv
<1> SUFFICES ASSUME Init PROVE GrantedInv
  OBVIOUS
<1>1. PICK ref, topology \in BOOLEAN : rtj = NewRTJ(ref, topology)
  BY DEF Init
<1>2. rtj.suspend = TRUE /\ seen = rtj
  BY <1>1, NewJob DEF Init
<1>3. ctl = Idle /\ workload = NewWorkload /\ seenWl = NewWorkload /\ granted = {}
  BY DEF Init
<1>4. ctl.pc = "idle" /\ ctl.workload = NewWorkload /\ ctl.job = Idle.job
  BY <1>3, IdleFields
<1>5. GrantedJob(rtj, granted) /\ GrantedJob(seen, granted)
  BY <1>2 DEF GrantedJob
<1>6. ~workload.admission.reserved
  BY <1>3, NewWorkloadFields
<1> QED
  BY <1>3, <1>4, <1>5, <1>6, NewGranted DEF GrantedInv, AtLaunch

(* The part of the controller's copies. *)
LEMMA GrantedCtl ==
  ASSUME GrantedInv, UNCHANGED <<rtj, seen, workload, seenWl, granted>>,
         GrantedWl(ctl'.workload, rtj.topology, granted), GrantedJob(ctl'.job, granted),
         \/ ctl'.pc \notin {"gated", "launch"}
         \/ ~ctl'.job.suspend /\ (ctl'.job.ref => Complete(ctl'.workload)) /\ (~ctl'.job.ref => ~ctl'.job.topology)
  PROVE  GrantedInv'
<1>1. /\ GrantedWl(workload, rtj.topology, granted)' /\ GrantedWl(seenWl, rtj.topology, granted)'
      /\ GrantedJob(rtj, granted)' /\ GrantedJob(seen, granted)'
      /\ GrantedWl(ctl.workload, rtj.topology, granted)' /\ GrantedJob(ctl.job, granted)'
  BY DEF GrantedInv
<1>2. /\ (workload.admission.reserved /\ ~workload.admission.delayed
            => (Assigned(workload.admission) # {}) = rtj.topology)'
      /\ (\A a \in granted : (Assigned(a) # {}) = rtj.topology)'
  BY DEF GrantedInv
<1>3. AtLaunch' => ctl'.pc \in {"gated", "launch"}
  BY DEF AtLaunch
<1> QED
  BY <1>1, <1>2, <1>3 DEF GrantedInv

LEMMA GrantedPass == ASSUME Types, CopiesInv, GrantedInv, Paces \/ LaunchWithGate PROVE GrantedInv'
<1>1. UNCHANGED <<rtj, seen, workload, seenWl, granted>>
  BY LaunchFields DEF Paces, Untouched
<1>2. GrantedJob(seen, granted) /\ GrantedJob(ctl.job, granted) /\ GrantedWl(seenWl, rtj.topology, granted)
  BY DEF GrantedInv
<1>3. CASE ctl' = Idle
  <2>1. ctl'.workload = NewWorkload /\ ctl'.pc = "idle" /\ ctl'.job = Idle.job
    BY <1>3, IdleFields
  <2> QED
    BY <1>1, <2>1, NewGranted, GrantedCtl
<1>4. ASSUME NEW j, GrantedJob(j, granted), NEW isFresh, NEW pc \in {"evict", "commit"}, To(pc, j, NewWorkload, isFresh)
      PROVE  GrantedInv'
  <2>1. ctl'.pc \notin {"gated", "launch"} /\ ctl'.workload = NewWorkload /\ Same(ctl'.job, j)
    BY <1>4, ToFields DEF Kept
  <2>2. GrantedJob(ctl'.job, granted)
    BY <1>4, <2>1, GrantedKept
  <2> QED
    BY <1>1, <2>1, <2>2, NewGranted, GrantedCtl
<1>5. CASE \E pc \in {"gated", "launch"} : To(pc, seen, seenWl, fresh) /\ LaunchReady
  <2>1. ctl'.workload = seenWl /\ Same(ctl'.job, seen)
    BY <1>5, ToFields DEF Kept
  <2>2. ~seen.suspend /\ evaluateLaunchGates(seen, seenWl) = "LaunchReady"
    BY <1>5, ReadyFields
  <2>3. IsRTJ(seen) /\ IsWorkload(seenWl) /\ (seenWl.admission.delayed => seen.topology)
    BY <1>2 DEF Types, GrantedWl, CopiesInv
  <2>4. (seen.ref => Complete(seenWl)) /\ (~seen.ref => ~seen.topology)
    BY <2>2, <2>3, GatesOpen
  <2>5. GrantedJob(ctl'.job, granted)
    BY <1>2, <2>1, GrantedKept
  <2>6. /\ ~ctl'.job.suspend /\ (ctl'.job.ref => Complete(ctl'.workload)) /\ (~ctl'.job.ref => ~ctl'.job.topology)
        /\ GrantedWl(ctl'.workload, rtj.topology, granted)
    BY <1>2, <2>1, <2>2, <2>4 DEF Same
  <2> QED
    BY <1>1, <2>5, <2>6, GrantedCtl
<1>6. CASE LaunchWithGate
  <2>1. ctl'.pc = "commit" /\ ctl'.workload = NewWorkload /\ Same(ctl'.job, ctl.job)
    BY <1>6, LaunchFields
  <2>2. GrantedJob(ctl'.job, granted)
    BY <1>2, <2>1, GrantedKept
  <2> QED
    BY <1>1, <2>1, <2>2, NewGranted, GrantedCtl
<1>7. CASE To("commit", ctl.job, NewWorkload, ctl.fresh)
  BY <1>2, <1>4, <1>7
<1> QED
  BY <1>2, <1>3, <1>4, <1>5, <1>6, <1>7 DEF Paces

(* The RTJ is stored. *)
LEMMA GrantedStored ==
  ASSUME GrantedInv, NEW new, StoreRTJ(new), new.topology = rtj.topology, GrantedJob(new, granted),
         UNCHANGED <<workload, seenWl, granted>>,
         GrantedWl(ctl'.workload, rtj.topology, granted), GrantedJob(ctl'.job, granted),
         \/ ctl'.pc \notin {"gated", "launch"}
         \/ ~ctl'.job.suspend /\ (ctl'.job.ref => Complete(ctl'.workload)) /\ (~ctl'.job.ref => ~ctl'.job.topology)
  PROVE  GrantedInv'
<1>1. rtj' = new /\ seen' \in {seen, new} /\ rtj'.topology = rtj.topology
  BY StoreFields
<1>2. /\ GrantedWl(workload, rtj.topology, granted)' /\ GrantedWl(seenWl, rtj.topology, granted)'
      /\ GrantedJob(rtj, granted)' /\ GrantedJob(seen, granted)'
      /\ GrantedWl(ctl.workload, rtj.topology, granted)' /\ GrantedJob(ctl.job, granted)'
  BY <1>1 DEF GrantedInv
<1>3. /\ (workload.admission.reserved /\ ~workload.admission.delayed
            => (Assigned(workload.admission) # {}) = rtj.topology)'
      /\ (\A a \in granted : (Assigned(a) # {}) = rtj.topology)'
  BY <1>1 DEF GrantedInv
<1>4. AtLaunch' => ctl'.pc \in {"gated", "launch"}
  BY DEF AtLaunch
<1> QED
  BY <1>2, <1>3, <1>4 DEF GrantedInv

LEMMA GrantedStatus == ASSUME Types, CopiesInv, GrantedInv, StatusUpdate PROVE GrantedInv'
<1>1. StoreRTJ(ctl.job) /\ UNCHANGED <<workload, seenWl, granted>> /\ ctl.pc # "idle"
  BY StatusFields
<1>2. ctl.job.topology = rtj.topology /\ GrantedJob(ctl.job, granted) /\ GrantedWl(ctl.workload, rtj.topology, granted)
  BY <1>1 DEF CopiesInv, GrantedInv
<1>3. CASE ctl' = Idle
  <2>1. ctl'.workload = NewWorkload /\ ctl'.pc = "idle" /\ ctl'.job = Idle.job
    BY <1>3, IdleFields
  <2> QED
    BY <1>1, <1>2, <2>1, NewGranted, GrantedStored
<1>4. CASE ctl' # Idle
  <2>1. /\ ctl.pc \in {"evict", "gated"} /\ ctl'.pc = IF ctl.pc = "evict" THEN "stop" ELSE "launch"
        /\ ctl'.job = ctl.job /\ ctl'.workload = ctl.workload
    BY <1>4, StatusFields
  <2>2. \/ ctl'.pc \notin {"gated", "launch"}
        \/ ~ctl'.job.suspend /\ (ctl'.job.ref => Complete(ctl'.workload)) /\ (~ctl'.job.ref => ~ctl'.job.topology)
    BY <2>1 DEF GrantedInv, AtLaunch
  <2> QED
    BY <1>1, <1>2, <2>1, <2>2, GrantedStored
<1> QED
  BY <1>3, <1>4

LEMMA GrantedSpecifies == ASSUME Types, CopiesInv, GrantedInv, Specifies PROVE GrantedInv'
<1>1. PICK new : Respecified(new) /\ GrantedJob(new, granted)
  <2>1. CASE RunWithPodSetsInfo
    <3>1. PICK new : /\ Respecified(new) /\ Complete(workload) /\ new.counts = workload.admission.counts
      BY <2>1, RunFields
    <3>2. workload.admission \in granted
      BY <3>1 DEF GrantedInv, GrantedWl
    <3> QED
      BY <3>1, <3>2 DEF GrantedJob
  <2>2. CASE Suspend
    BY <2>2, SuspendFields DEF GrantedJob
  <2> QED
    BY <2>1, <2>2 DEF Specifies
<1>2. /\ StoreRTJ(new) /\ new.topology = rtj.topology /\ UNCHANGED <<workload, seenWl, granted>>
      /\ ctl'.pc = ctl.pc /\ ctl'.job = ctl.job /\ ctl'.workload = ctl.workload
  BY <1>1 DEF Respecified
<1>3. /\ GrantedJob(ctl'.job, granted) /\ GrantedWl(ctl'.workload, rtj.topology, granted)
      /\ \/ ctl'.pc \notin {"gated", "launch"}
         \/ ~ctl'.job.suspend /\ (ctl'.job.ref => Complete(ctl'.workload)) /\ (~ctl'.job.ref => ~ctl'.job.topology)
  BY <1>2 DEF GrantedInv, AtLaunch
<1> QED
  BY <1>1, <1>2, <1>3, GrantedStored

LEMMA GrantedWritten ==
  ASSUME Types, GrantedInv, Written,
         workload'.admission.delayed => workload'.admission.reserved /\ rtj.topology,
         workload'.admission.reserved /\ ~workload'.admission.delayed
            => (Assigned(workload'.admission) # {}) = rtj.topology
  PROVE  GrantedInv'
<1>1. UNCHANGED <<rtj, seen, ctl>> /\ granted \subseteq granted' /\ seenWl' \in {seenWl, workload'}
  BY DEF Written, Unmoved
<1>2. GrantedWl(workload', rtj.topology, granted')
  BY DEF GrantedWl, Written
<1>3. \A w, t : GrantedWl(w, t, granted) => GrantedWl(w, t, granted')
  BY <1>1, GrantedMore
<1>4. \A j : GrantedJob(j, granted) => GrantedJob(j, granted')
  BY <1>1, GrantedMore
<1>5. /\ GrantedWl(workload, rtj.topology, granted)' /\ GrantedWl(seenWl, rtj.topology, granted)'
      /\ GrantedWl(ctl.workload, rtj.topology, granted)'
  BY <1>1, <1>2, <1>3 DEF GrantedInv
<1>6. GrantedJob(rtj, granted)' /\ GrantedJob(seen, granted)' /\ GrantedJob(ctl.job, granted)'
  BY <1>1, <1>4 DEF GrantedInv
<1>7. (\A a \in granted : (Assigned(a) # {}) = rtj.topology)'
  <2>1. Complete(workload') => (Assigned(workload'.admission) # {}) = rtj.topology
    BY DEF Complete
  <2>2. \A a \in granted' : a \in granted \/ (Complete(workload') /\ a = workload'.admission)
    BY DEF Written
  <2> QED
    BY <1>1, <2>1, <2>2 DEF GrantedInv
<1>8. (workload.admission.reserved /\ ~workload.admission.delayed
            => (Assigned(workload.admission) # {}) = rtj.topology)'
  BY <1>1
<1>9. /\ (AtLaunch => ~ctl.job.suspend)' /\ (AtLaunch /\ ctl.job.ref => Complete(ctl.workload))'
      /\ (AtLaunch /\ ~ctl.job.ref => ~ctl.job.topology)'
  BY <1>1 DEF GrantedInv, AtLaunch
<1> QED
  BY <1>5, <1>6, <1>7, <1>8, <1>9 DEF GrantedInv

LEMMA GrantedWrites == ASSUME Types, GrantedInv, Writes PROVE GrantedInv'
<1>1. /\ workload.admission.delayed => workload.admission.reserved /\ rtj.topology
      /\ workload.admission.reserved /\ ~workload.admission.delayed
            => (Assigned(workload.admission) # {}) = rtj.topology
      /\ rtj.topology \in BOOLEAN
  BY DEF GrantedInv, GrantedWl, Types, IsRTJ
<1>2. CASE KueueReserve
  <2>1. /\ Written /\ workload'.admission.reserved = TRUE /\ workload'.admission.delayed = rtj.topology
        /\ ~rtj.topology => Assigned(workload'.admission) = {}
    BY <1>2, ReserveFields
  <2> QED
    BY <1>1, <2>1, GrantedWritten
<1>3. CASE KueueSecondPass
  <2>1. /\ Written /\ workload.admission.delayed
        /\ workload'.admission \in Admissions /\ Assigned(workload'.admission) # {}
    BY <1>3, SecondPassFields
  <2>2. workload'.admission.delayed = FALSE
    BY <2>1, AdmissionFields
  <2> QED
    BY <1>1, <2>1, <2>2, GrantedWritten
<1>4. CASE KueueProvisioningCheck \/ ReadinessCheck \/ KueueEvict \/ Finished
  <2>1. Written /\ workload'.admission = workload.admission
    BY <1>4, CheckFields, ReadinessFields, EvictFields
  <2> QED
    BY <1>1, <2>1, GrantedWritten
<1>5. CASE KueueClearAdmission
  <2>1. Written /\ ~workload'.admission.reserved /\ ~workload'.admission.delayed
    BY <1>5, ClearFields, NewWorkloadFields
  <2> QED
    BY <2>1, GrantedWritten
<1> QED
  BY <1>2, <1>3, <1>4, <1>5 DEF Writes

LEMMA GrantedRest ==
  ASSUME GrantedInv, Provisions \/ Delivered \/ WorkloadDelivered \/ UNCHANGED vars
  PROVE  GrantedInv'
<1>1. UNCHANGED <<rtj, workload, ctl, granted>> /\ seen' \in {seen, rtj} /\ seenWl' \in {seenWl, workload}
  BY DEF Provisions, Delivered, WorkloadDelivered, Unmoved, vars
<1>2. /\ GrantedWl(workload, rtj.topology, granted)' /\ GrantedWl(seenWl, rtj.topology, granted)'
      /\ GrantedWl(ctl.workload, rtj.topology, granted)'
  BY <1>1 DEF GrantedInv
<1>3. GrantedJob(rtj, granted)' /\ GrantedJob(seen, granted)' /\ GrantedJob(ctl.job, granted)'
  BY <1>1 DEF GrantedInv
<1> QED
  BY <1>1, <1>2, <1>3 DEF GrantedInv, AtLaunch

-----------------------------------------------------------------------------
\* Types, open gates

Inv == Types /\ CopiesInv /\ GrantedInv /\ QuietInv

LEMMA InvInit == Init => Inv
<1>1. Init => QuietInv
  BY DEF Init, QuietInv
<1> QED
  BY <1>1, TypesInit, CopiesInit, GrantedInit DEF Inv

LEMMA InvStep == Inv /\ [Next]_vars => Inv'
<1> SUFFICES ASSUME Types, CopiesInv, GrantedInv, QuietInv, [Next]_vars
             PROVE  Types' /\ CopiesInv' /\ GrantedInv'
  BY QuietStep DEF Inv
<1>1. CASE Pass
  <2>1. Paces
    BY <1>1, PassFields
  <2> QED
    BY <2>1, TypesPass, CopiesPass, GrantedPass
<1>2. CASE LaunchWithGate
  BY <1>2, TypesLaunch, CopiesPass, GrantedPass
<1>3. CASE StatusUpdate
  BY <1>3, TypesStatus, CopiesStatus, GrantedStatus
<1>4. CASE Writes
  BY <1>4, WritesFields, TypesWrites, CopiesRest, GrantedWrites
<1>5. CASE Specifies
  BY <1>5, TypesSpecifies, CopiesSpecifies, GrantedSpecifies
<1>6. CASE FakeProvisioner \/ Deliver \/ DeliverWorkload \/ UNCHANGED vars
  <2>1. Provisions \/ Delivered \/ WorkloadDelivered \/ UNCHANGED vars
    BY <1>6, ProvisionerFields, DeliverFields
  <2> QED
    BY <2>1, TypesRest, CopiesRest, GrantedRest
<1> QED
  BY <1>1, <1>2, <1>3, <1>4, <1>5, <1>6, NextKinds

LEMMA InvHolds == Spec => []Inv
  BY InvInit, InvStep, PTL DEF Spec

(* Every state of every run is well typed: what is admitted, started, checked and classified. *)
THEOREM TypeCorrect == Spec => []TypeOK
<1>1. Types => TypeOK
  <2> SUFFICES ASSUME Types PROVE TypeOK
    OBVIOUS
  <2>1. ASSUME NEW j, IsRTJ(j)
        PROVE  /\ j.phase \in Phases /\ j.startup \in StartupStates /\ j.evictedFor \in Rejections
               /\ j.attempt \in 0 .. MaxAttempts /\ j.checkpoint \in Nat /\ j.shape.world \in Nat
    BY <2>1 DEF IsRTJ
  <2>2. ASSUME NEW w, IsWorkload(w)
        PROVE  /\ w.admission.reserved => w.admission.counts \in {a.counts : a \in Admissions}
               /\ w.checks.provisioning \in CheckStates /\ w.checks.readiness \in CheckStates
               /\ w.evicted \in Rejections
    BY <2>2 DEF IsWorkload, IsAdmission
  <2>3. \A j \in {rtj, seen, ctl.job} : IsRTJ(j)
    BY DEF Types
  <2>4. \A w \in {workload, seenWl, ctl.workload} : IsWorkload(w)
    BY DEF Types
  <2>5. {fresh, queued, ctl.fresh} \subseteq BOOLEAN
    BY DEF Types
  <2> QED
    BY <2>1, <2>2, <2>3, <2>4, <2>5 DEF Types, TypeOK
<1>2. Inv => TypeOK
  BY <1>1 DEF Inv
<1> QED
  BY <1>2, InvHolds, PTL

(* No wakeup is lost between the admission and the launch: whatever the caches hold, an RTJ that
   could be launched is being reconciled, is queued, or has an event on its way.  The gates ask to
   be run again, since no Workload event will. *)
THEOREM OpenGatesRevisited == Spec => []OpenGatesAreRevisited
<1>1. QuietInv => OpenGatesAreRevisited
  <2> SUFFICES ASSUME QuietInv, Due, ctl.pc = "idle", ~queued, fresh PROVE FALSE
    BY DEF OpenGatesAreRevisited
  <2>1. jobSet = NoJobSet /\ ~rtj.suspend
    BY DEF Due
  <2>2. NoJobSet.attempt = 0
    BY DEF NoJobSet
  <2> QED
    BY <2>1, <2>2 DEF QuietInv, getActiveJobSet
<1>2. Inv => OpenGatesAreRevisited
  BY <1>1 DEF Inv
<1> QED
  BY <1>2, InvHolds, PTL

-----------------------------------------------------------------------------
\* The annotation and the Workload are of one reservation

(* What ties a copy of the Workload, or what Kueue put into the RTJ, to a reservation: the number
   of its ProvisioningRequest and the admitted counts. *)
Ticket(number, counts) == [number |-> number, counts |-> counts]

Provisioned(w) == w.admission.reserved /\ w.checks.provisioning = "Ready"

OfWorkload(w, t) == Provisioned(w) /\ t = Ticket(w.checks.updates["request"], w.admission.counts)
OfJob(j, t) == ~j.suspend /\ t = Ticket(j.merged["request"], j.counts)
OfRequest(w, number, t) == w.admission.reserved /\ t = Ticket(number, w.admission.counts)

TicketsOf(ws, js, w, number) ==
    {Ticket(v.checks.updates["request"], v.admission.counts) : v \in {u \in ws : Provisioned(u)}}
    \cup {Ticket(j.merged["request"], j.counts) : j \in {i \in js : ~i.suspend}}
    \cup {Ticket(number, v.admission.counts) : v \in {u \in {w} : u.admission.reserved}}

Tickets == TicketsOf({workload, seenWl, ctl.workload}, {rtj, seen, ctl.job}, workload, request.number)

NamesRequest(w) == Provisioned(w) => "request" \in DOMAIN w.checks.updates

MergesRequest(j) == ~j.suspend => "request" \in DOMAIN j.merged

TicketsInv ==
    /\ \A w \in {workload, seenWl, ctl.workload} : NamesRequest(w)
    /\ \A j \in {rtj, seen, ctl.job} : MergesRequest(j)
    /\ \A t \in Tickets : t.number \in 0 .. request.number
    /\ \A s, t \in Tickets : s.number = t.number => s.counts = t.counts

LEMMA TicketsAre ==
  ASSUME NEW ws, NEW js, NEW w, NEW number
  PROVE  \A t : t \in TicketsOf(ws, js, w, number) <=>
                    \/ \E v \in ws : OfWorkload(v, t)
                    \/ \E j \in js : OfJob(j, t)
                    \/ OfRequest(w, number, t)
  BY DEF TicketsOf, OfWorkload, OfJob, OfRequest

Held(t) ==
    \/ OfWorkload(workload, t) \/ OfWorkload(seenWl, t) \/ OfWorkload(ctl.workload, t)
    \/ OfJob(rtj, t) \/ OfJob(seen, t) \/ OfJob(ctl.job, t)
    \/ OfRequest(workload, request.number, t)

LEMMA TicketsHeld == \A t : t \in Tickets <=> Held(t)
  BY TicketsAre DEF Tickets, Held

LEMMA TicketsHeldNext == \A t : t \in Tickets' <=> Held(t)'
<1>1. Tickets' = TicketsOf({workload', seenWl', ctl'.workload}, {rtj', seen', ctl'.job}, workload', request'.number)
  BY DEF Tickets
<1> QED
  BY <1>1, TicketsAre DEF Held

(* A step that makes no new reservation only moves tickets. *)
LEMMA TicketsMoved ==
  ASSUME TicketsInv, request'.number = request.number,
         \A w \in {workload', seenWl', ctl'.workload} : NamesRequest(w),
         \A j \in {rtj', seen', ctl'.job} : MergesRequest(j),
         \A t : Held(t)' => Held(t)
  PROVE  TicketsInv'
<1>1. \A t \in Tickets' : t \in Tickets
  BY TicketsHeld, TicketsHeldNext
<1>2. \A t \in Tickets' : t.number \in 0 .. request'.number
  BY <1>1 DEF TicketsInv
<1>3. \A s, t \in Tickets' : s.number = t.number => s.counts = t.counts
  BY <1>1 DEF TicketsInv
<1> HIDE DEF Tickets
<1> QED
  BY <1>2, <1>3 DEF TicketsInv

LEMMA FreshTickets ==
  /\ \A t : ~OfWorkload(NewWorkload, t) /\ ~OfJob(Idle.job, t)
  /\ NamesRequest(NewWorkload) /\ MergesRequest(Idle.job)
  BY NewWorkloadFields, IdleFields DEF OfWorkload, OfJob, Provisioned, NamesRequest, MergesRequest

LEMMA KeptTickets ==
  ASSUME NEW j, NEW k, Same(k, j)
  PROVE  /\ \A t : OfJob(k, t) => OfJob(j, t)
         /\ MergesRequest(j) => MergesRequest(k)
  BY DEF OfJob, MergesRequest, Same

LEMMA TicketsInit == Init => TicketsInv
<1> SUFFICES ASSUME Init PROVE TicketsInv
  OBVIOUS
<1>1. PICK ref, topology \in BOOLEAN : rtj = NewRTJ(ref, topology)
  BY DEF Init
<1>2. rtj.suspend = TRUE /\ seen = rtj
  BY <1>1, NewJob DEF Init
<1>3. ctl = Idle /\ workload = NewWorkload /\ seenWl = NewWorkload
  BY DEF Init
<1>4. ctl.workload = NewWorkload /\ ctl.job = Idle.job
  BY <1>3, IdleFields
<1>5. \A t : ~Held(t)
  BY <1>2, <1>3, <1>4, FreshTickets, NewWorkloadFields DEF Held, OfJob, OfRequest
<1>6. Tickets = {}
  BY <1>5, TicketsHeld
<1>7. \A w \in {workload, seenWl, ctl.workload} : NamesRequest(w)
  BY <1>3, <1>4, FreshTickets
<1>8. \A j \in {rtj, seen, ctl.job} : MergesRequest(j)
  BY <1>2, <1>4, FreshTickets DEF MergesRequest
<1> QED
  BY <1>6, <1>7, <1>8 DEF TicketsInv

LEMMA TicketsPass == ASSUME Types, TicketsInv, Paces \/ LaunchWithGate PROVE TicketsInv'
<1>1. UNCHANGED <<rtj, seen, workload, seenWl, request>>
  BY LaunchFields DEF Paces, Untouched
<1>2. /\ NamesRequest(workload) /\ NamesRequest(seenWl) /\ NamesRequest(ctl.workload)
      /\ MergesRequest(rtj) /\ MergesRequest(seen) /\ MergesRequest(ctl.job)
  BY DEF TicketsInv
<1>3. ASSUME NEW j \in {seen, ctl.job}, Same(ctl'.job, j) \/ ctl'.job = Idle.job,
             ctl'.workload \in {NewWorkload, seenWl}
      PROVE  TicketsInv'
  <2>1. NamesRequest(ctl'.workload) /\ \A t : OfWorkload(ctl'.workload, t) => OfWorkload(seenWl, t)
    BY <1>2, <1>3, FreshTickets
  <2>2. MergesRequest(ctl'.job) /\ \A t : OfJob(ctl'.job, t) => OfJob(j, t)
    BY <1>2, <1>3, FreshTickets, KeptTickets
  <2>3. \A t : Held(t)' => Held(t)
    BY <1>1, <1>3, <2>1, <2>2 DEF Held
  <2> QED
    BY <1>1, <1>2, <2>1, <2>2, <2>3, TicketsMoved
<1>4. CASE ctl' = Idle
  BY <1>3, <1>4, IdleFields
<1>5. CASE LaunchWithGate
  BY <1>3, <1>5, LaunchFields
<1>6. ASSUME NEW pc, NEW j \in {seen, ctl.job}, NEW w \in {NewWorkload, seenWl}, NEW isFresh, To(pc, j, w, isFresh)
      PROVE  TicketsInv'
  BY <1>3, <1>6, ToFields DEF Kept
<1> QED
  BY <1>4, <1>5, <1>6 DEF Paces

(* The RTJ is stored with a ticket that is around already. *)
LEMMA TicketsStored ==
  ASSUME TicketsInv, NEW new, StoreRTJ(new), MergesRequest(new), \A t : OfJob(new, t) => Held(t),
         UNCHANGED <<workload, seenWl, request>>,
         ctl'.workload \in {NewWorkload, ctl.workload}, ctl'.job \in {Idle.job, ctl.job}
  PROVE  TicketsInv'
<1>1. rtj' = new /\ seen' \in {seen, new}
  BY StoreFields
<1>2. /\ NamesRequest(workload) /\ NamesRequest(seenWl) /\ NamesRequest(ctl.workload)
      /\ MergesRequest(rtj) /\ MergesRequest(seen) /\ MergesRequest(ctl.job)
  BY DEF TicketsInv
<1>3. NamesRequest(ctl'.workload) /\ \A t : OfWorkload(ctl'.workload, t) => OfWorkload(ctl.workload, t)
  BY <1>2, FreshTickets
<1>4. MergesRequest(ctl'.job) /\ \A t : OfJob(ctl'.job, t) => OfJob(ctl.job, t)
  BY <1>2, FreshTickets
<1>5. \A t : Held(t)' => Held(t)
  BY <1>1, <1>3, <1>4 DEF Held
<1>6. \A w \in {workload', seenWl', ctl'.workload} : NamesRequest(w)
  BY <1>2, <1>3
<1>7. \A j \in {rtj', seen', ctl'.job} : MergesRequest(j)
  BY <1>1, <1>2, <1>4
<1> QED
  BY <1>5, <1>6, <1>7, TicketsMoved

LEMMA TicketsStatus == ASSUME Types, TicketsInv, StatusUpdate PROVE TicketsInv'
<1>1. StoreRTJ(ctl.job) /\ UNCHANGED <<workload, seenWl, request>>
  BY StatusFields
<1>2. ctl'.workload \in {NewWorkload, ctl.workload} /\ ctl'.job \in {Idle.job, ctl.job}
  BY StatusFields, IdleFields
<1>3. MergesRequest(ctl.job) /\ \A t : OfJob(ctl.job, t) => Held(t)
  BY DEF TicketsInv, Held
<1> QED
  BY <1>1, <1>2, <1>3, TicketsStored

LEMMA TicketsSpecifies == ASSUME Types, TicketsInv, Specifies PROVE TicketsInv'
<1>1. PICK new : Respecified(new) /\ MergesRequest(new) /\ \A t : OfJob(new, t) => Held(t)
  <2>1. CASE RunWithPodSetsInfo
    <3>1. PICK new : /\ Respecified(new) /\ Complete(workload)
                     /\ new.suspend = FALSE /\ new.counts = workload.admission.counts
                     /\ new.merged = workload.checks.updates
      BY <2>1, RunFields
    <3>2. Provisioned(workload)
      BY <3>1 DEF Complete, AllChecksReady, Provisioned
    <3>3. MergesRequest(new)
      BY <3>1, <3>2 DEF MergesRequest, TicketsInv, NamesRequest
    <3>4. \A t : OfJob(new, t) => OfWorkload(workload, t)
      BY <3>1, <3>2 DEF OfJob, OfWorkload
    <3> QED
      BY <3>1, <3>3, <3>4 DEF Held
  <2>2. CASE Suspend
    BY <2>2, SuspendFields DEF MergesRequest, OfJob
  <2> QED
    BY <2>1, <2>2 DEF Specifies
<1>2. /\ StoreRTJ(new) /\ UNCHANGED <<workload, seenWl, request>>
      /\ ctl'.workload = ctl.workload /\ ctl'.job = ctl.job
  BY <1>1 DEF Respecified
<1> QED
  BY <1>1, <1>2, TicketsStored

(* The Workload is written without a new reservation. *)
LEMMA TicketsWritten ==
  ASSUME TicketsInv, Written, request' = request, NamesRequest(workload'),
         \A t : OfWorkload(workload', t) => Held(t),
         \A t : OfRequest(workload', request.number, t) => Held(t)
  PROVE  TicketsInv'
<1>1. UNCHANGED <<rtj, seen, ctl>> /\ seenWl' \in {seenWl, workload'}
  BY DEF Written, Unmoved
<1>2. /\ NamesRequest(seenWl) /\ NamesRequest(ctl.workload)
      /\ MergesRequest(rtj) /\ MergesRequest(seen) /\ MergesRequest(ctl.job)
  BY DEF TicketsInv
<1>3. \A t : Held(t)' => Held(t)
  BY <1>1 DEF Held
<1> QED
  BY <1>1, <1>2, <1>3, TicketsMoved

(* A reservation has a new number. *)
LEMMA TicketsReserve == ASSUME Types, TicketsInv, KueueReserve PROVE TicketsInv'
<1>1. /\ Written /\ workload'.admission.reserved = TRUE /\ workload'.checks = Reset
      /\ request'.number = request.number + 1
  BY ReserveFields
<1>2. UNCHANGED <<rtj, seen, ctl>> /\ seenWl' \in {seenWl, workload'}
  BY <1>1 DEF Written, Unmoved
<1>3. ~Provisioned(workload')
  BY <1>1, NewWorkloadFields DEF Provisioned
<1> DEFINE fresher == Ticket(request.number + 1, workload'.admission.counts)
<1>4. \A t : Held(t)' => Held(t) \/ t = fresher
  BY <1>1, <1>2, <1>3 DEF Held, OfWorkload, OfRequest
<1>5. fresher.number = request.number + 1
  BY DEF Ticket
<1> HIDE DEF fresher
<1>6. \A t \in Tickets' : t \in Tickets \/ t = fresher
  BY <1>4, TicketsHeld, TicketsHeldNext
<1>7. request.number \in Nat /\ \A t \in Tickets : t.number \in 0 .. request.number
  BY DEF Types, TicketsInv
<1>8. \A t \in Tickets' : t.number \in 0 .. request'.number
  BY <1>1, <1>5, <1>6, <1>7
<1>9. \A s, t \in Tickets' : s.number = t.number => s.counts = t.counts
  <2>1. \A s, t \in Tickets : s.number = t.number => s.counts = t.counts
    BY DEF TicketsInv
  <2>2. \A t \in Tickets : t.number # fresher.number
    BY <1>5, <1>7
  <2> QED
    BY <1>6, <2>1, <2>2
<1>10. \A w \in {workload', seenWl', ctl'.workload} : NamesRequest(w)
  BY <1>2, <1>3 DEF TicketsInv, NamesRequest
<1>11. \A j \in {rtj', seen', ctl'.job} : MergesRequest(j)
  BY <1>2 DEF TicketsInv
<1> QED
  BY <1>8, <1>9, <1>10, <1>11 DEF TicketsInv

LEMMA TicketsWrites == ASSUME Types, GrantedInv, TicketsInv, Writes PROVE TicketsInv'
<1>1. NamesRequest(workload)
  BY DEF TicketsInv
<1>2. CASE KueueSecondPass
  <2>1. /\ Written /\ request' = request /\ workload.admission.delayed
        /\ workload'.admission \in Admissions /\ workload'.admission.counts = workload.admission.counts
        /\ workload'.checks = workload.checks
    BY <1>2, SecondPassFields
  <2>2. workload.admission.reserved
    BY <2>1 DEF GrantedInv, GrantedWl
  <2> QED
    BY <1>1, <2>1, <2>2, TicketsWritten DEF NamesRequest, Provisioned, OfWorkload, OfRequest, Held
<1>3. CASE KueueProvisioningCheck
  <2>1. /\ Written /\ request' = request /\ workload.admission.reserved
        /\ workload'.admission = workload.admission
    BY <1>3, CheckFields
  <2>2. CASE workload'.checks.provisioning # "Ready"
    BY <2>1, <2>2, TicketsWritten DEF NamesRequest, Provisioned, OfWorkload, OfRequest, Held
  <2>3. CASE workload'.checks.provisioning = "Ready"
    <3>1. PICK nodes \in NodeUpdates : workload'.checks.updates = mergeMapInto(nodes, [request |-> request.number])
      BY <1>3, <2>3, CheckFields
    <3> DEFINE one == [request |-> request.number]
    <3>2. DOMAIN one = {"request"} /\ one["request"] = request.number
      OBVIOUS
    <3>3. workload'.checks.updates = mergeMapInto(nodes, one)
      BY <3>1
    <3> HIDE DEF one
    <3>4. /\ DOMAIN mergeMapInto(nodes, one) = DOMAIN nodes \cup DOMAIN one
          /\ \A x \in DOMAIN one : mergeMapInto(nodes, one)[x] = one[x]
      BY Merged
    <3>5. "request" \in DOMAIN workload'.checks.updates /\ workload'.checks.updates["request"] = request.number
      BY <3>2, <3>3, <3>4
    <3> QED
      BY <2>1, <2>3, <3>5, TicketsWritten DEF NamesRequest, Provisioned, OfWorkload, OfRequest, Held
  <2> QED
    BY <2>2, <2>3
<1>4. CASE ReadinessCheck \/ KueueEvict \/ Finished
  <2>1. /\ Written /\ request' = request /\ workload'.admission = workload.admission
        /\ workload'.checks.provisioning = workload.checks.provisioning
        /\ workload'.checks.updates = workload.checks.updates
    BY <1>4, ReadinessFields, EvictFields
  <2> QED
    BY <1>1, <2>1, TicketsWritten DEF NamesRequest, Provisioned, OfWorkload, OfRequest, Held
<1>5. CASE KueueClearAdmission
  <2>1. Written /\ request' = request /\ ~workload'.admission.reserved
    BY <1>5, ClearFields, NewWorkloadFields
  <2> QED
    BY <2>1, TicketsWritten DEF NamesRequest, Provisioned, OfWorkload, OfRequest
<1> QED
  BY <1>2, <1>3, <1>4, <1>5, TicketsReserve DEF Writes

LEMMA TicketsRest ==
  ASSUME TicketsInv, Provisions \/ Delivered \/ WorkloadDelivered \/ UNCHANGED vars
  PROVE  TicketsInv'
<1>1. /\ UNCHANGED <<rtj, workload, ctl>> /\ seen' \in {seen, rtj} /\ seenWl' \in {seenWl, workload}
      /\ request'.number = request.number
  BY DEF Provisions, Delivered, WorkloadDelivered, Unmoved, vars
<1>2. \A t : Held(t)' => Held(t)
  BY <1>1 DEF Held
<1>3. \A w \in {workload', seenWl', ctl'.workload} : NamesRequest(w)
  BY <1>1 DEF TicketsInv
<1>4. \A j \in {rtj', seen', ctl'.job} : MergesRequest(j)
  BY <1>1 DEF TicketsInv
<1> QED
  BY <1>1, <1>2, <1>3, <1>4, TicketsMoved

-----------------------------------------------------------------------------
\* A resume keeps its world size

(* A plan without conflicts is made from the admission whose counts are in the annotation. *)
LEMMA OneReservation ==
  ASSUME Types, GrantedInv, TicketsInv, AtLaunch, ~DryRunConflicts
  PROVE  Plan.counts = ctl.job.counts
<1>1. CASE ~ctl.job.ref
  BY <1>1, PlanFields
<1>2. CASE ctl.job.ref
  <2> DEFINE w == ctl.workload
             j == ctl.job
             u == w.checks.updates
             m == MergePodSetUpdates(<<[p \in PodSets |-> u]>>)
  <2>1. Provisioned(w) /\ ~j.suspend
    BY <1>2 DEF GrantedInv, Complete, AllChecksReady, Provisioned
  <2>2. "request" \in DOMAIN u /\ "request" \in DOMAIN j.merged
    BY <2>1 DEF TicketsInv, NamesRequest, MergesRequest
  <2>3. BuildView(w, j.ref, j.topology).updates = u
    BY <1>2 DEF BuildView
  <2>4. Plan.updates = m
    BY <2>3 DEF Plan, buildLaunchPlan
  <2>5. m[Worker]["request"] = u["request"] /\ DOMAIN m[Worker] = DOMAIN u
    BY <2>2, MergeOne
  <2> HIDE DEF m
  <2>6. j.merged["request"] = u["request"]
    <3>1. Plan.templates[Worker] = j.merged /\ Worker \in PodSets
      BY PlanFields
    <3>2. ~Conflicts(Plan.templates, Plan.updates)
      BY DEF DryRunConflicts
    <3>3. "request" \in UNION {DOMAIN Plan.templates[q] : q \in PodSets}
      BY <2>2, <3>1
    <3> QED
      BY <2>2, <2>4, <2>5, <3>1, <3>2, <3>3 DEF Conflicts
  <2> DEFINE s == Ticket(u["request"], w.admission.counts)
             t == Ticket(j.merged["request"], j.counts)
  <2>7. s \in Tickets /\ t \in Tickets
    BY <2>1, TicketsHeld DEF Held, OfWorkload, OfJob
  <2>8. s.number = t.number /\ s.counts = w.admission.counts /\ t.counts = j.counts
    BY <2>6 DEF Ticket
  <2>9. s.counts = t.counts
    <3> HIDE DEF s, t
    <3> QED
      BY <2>7, <2>8 DEF TicketsInv
  <2> QED
    BY <1>2, <2>8, <2>9, PlanFields
<1> QED
  BY <1>1, <1>2

LEMMA TicketsStep ==
  ASSUME Types, GrantedInv, TicketsInv, [Next]_vars
  PROVE  TicketsInv'
<1>1. CASE FakeProvisioner \/ Deliver \/ DeliverWorkload \/ UNCHANGED vars
  BY <1>1, ProvisionerFields, DeliverFields, TicketsRest
<1>2. CASE Pass
  BY <1>2, PassFields, TicketsPass
<1> QED
  BY <1>1, <1>2, NextKinds, TicketsPass, TicketsStatus, TicketsWrites, TicketsSpecifies

LEMMA TicketsHold == Spec => []TicketsInv
<1>1. Inv /\ TicketsInv /\ [Next]_vars => TicketsInv'
  BY TicketsStep DEF Inv
<1> QED
  BY <1>1, TicketsInit, InvHolds, PTL DEF Spec

(* What a launch makes: a selected checkpoint has its world size, or may be resharded. *)
LEMMA ResumeLaunch ==
  ASSUME Types, GrantedInv, TicketsInv, LaunchWithGate, jobSet'.attempt # jobSet.attempt,
         Resumes(ctl.job), ctl.job.phase # "Restoring"
  PROVE  AllowReshard \/ jobSet'.restore = jobSet'.world
<1> DEFINE n == NextAttempt(ctl.job)
           made == RenderChildJobSet(Plan, n, ctl.job.checkpoint)
<1>1. /\ AtLaunch /\ ~DryRunConflicts /\ Resumable(ctl.job)
      /\ jobSet' = IF jobSet.attempt = n THEN jobSet ELSE made
  BY LaunchFields DEF AtLaunch
<1>2. made.restore = ctl.job.checkpoint /\ made.world = computeEffectiveWorldSize(ctl.job.counts)
  BY <1>1, OneReservation, MadeWorld
<1>3. jobSet' = made
  BY <1>1
<1> HIDE DEF made
<1> QED
  BY <1>1, <1>2, <1>3 DEF Resumable, admittedWorldSize

LEMMA ResumeStep ==
  ASSUME Types, GrantedInv, TicketsInv, Next, jobSet'.attempt \notin {0, jobSet.attempt},
         Resumes(ctl.job), ctl.job.phase # "Restoring"
  PROVE  AllowReshard \/ jobSet'.restore = jobSet'.world
<1>1. CASE Pass
  <2>1. jobSet' = jobSet \/ jobSet' = NoJobSet
    BY <1>1, PassFields DEF Paces
  <2> QED
    BY <2>1 DEF NoJobSet
<1>2. CASE StatusUpdate \/ Specifies \/ FakeProvisioner \/ Deliver \/ DeliverWorkload \/ Writes
  <2>1. jobSet' = jobSet
    BY <1>2, StatusFields, SpecifiesFields, ProvisionerFields, DeliverFields, WritesFields
       DEF Respecified, Provisions, Delivered, WorkloadDelivered, Unmoved, Written
  <2> QED
    BY <2>1
<1> QED
  BY <1>1, <1>2, NextKinds, ResumeLaunch

(* A resume that selects its checkpoint runs at the world size of the checkpoint unless
   spec.resume.allowWorldSizeChange, although the checkpoint is chosen by the annotation and the
   JobSet is made from a Workload read from a cache: the number of the ProvisioningRequest, which
   Kueue writes into both, keeps a launch from mixing two admissions, since the dry run would find
   a conflict.  A plain launch is no resume and is not compared (ReshardIsAllowed). *)
THEOREM ResumesKeepWorldSize == Spec => ResumeKeepsWorldSize
<1>1. Inv /\ TicketsInv /\ [Next]_vars =>
        [/\ jobSet'.attempt \notin {0, jobSet.attempt}
         /\ Resumes(ctl.job) /\ ctl.job.phase # "Restoring"
         => AllowReshard \/ jobSet'.restore = jobSet'.world]_vars
  BY ResumeStep DEF Inv
<1> QED
  BY <1>1, InvHolds, TicketsHold, PTL DEF Spec, ResumeKeepsWorldSize

-----------------------------------------------------------------------------
\* One run at a time

(* The controller's copy j is of the recorded attempt, or of the one before the JobSet that runs. *)
Behind(j, attempt, running) ==
    attempt = j.attempt \/ (attempt = j.attempt + 1 /\ running = attempt)

(* r, s and c are the RTJ, the cached one and the controller's copy; running is the attempt of the
   JobSet, and current says that a write of c will succeed. *)
Attempts(r, s, c, running, pc, current) ==
    /\ running # 0 => running \in {r.attempt, r.attempt + 1}
    /\ Behind(s, r.attempt, running)
    /\ current => /\ s.attempt = r.attempt
                  /\ c.attempt = r.attempt \/ (c.attempt = r.attempt + 1 /\ running = c.attempt)
                  /\ \A j \in {r, s} : c.attempt = j.attempt /\ Rest(c) => Rest(j)
    /\ pc \in {"evict", "stop"} => running = c.attempt /\ running = s.attempt /\ running # 0
    /\ pc \in {"gated", "launch"} =>
            /\ Behind(c, r.attempt, running) /\ ~(c.attempt # 0 /\ running = c.attempt)
            /\ \A j \in {r, s} : j.attempt = c.attempt /\ Rest(j) => Rest(c)
    /\ \A j \in {r, s, c} : running = j.attempt + 1 => ~Rest(j)
    /\ r.attempt = s.attempt /\ Rest(r) => Rest(s)

AttemptsInv == Attempts(rtj, seen, ctl.job, jobSet.attempt, ctl.pc, ctl.fresh)

(* The pass goes on with an edited copy of the cached RTJ ... *)
LEMMA AttemptsObserve ==
  ASSUME NEW r, NEW s, NEW c, NEW k, NEW running \in Nat, NEW pc, NEW current,
         r.attempt \in Nat, s.attempt \in Nat, c.attempt \in Nat,
         Attempts(r, s, c, running, pc, current), NEW fresh0, fresh0 => s = r,
         Kept(k, s), NEW pc1, pc1 \in {"evict", "commit"},
         pc1 = "evict" => running = s.attempt /\ s.attempt # 0
  PROVE  Attempts(r, s, k, running, pc1, fresh0)
  BY DEF Attempts, Behind, Kept

(* ... to the launch, when its JobSet is not there ... *)
LEMMA AttemptsReady ==
  ASSUME NEW r, NEW s, NEW c, NEW k, NEW running \in Nat, NEW pc, NEW current,
         r.attempt \in Nat, s.attempt \in Nat, c.attempt \in Nat,
         Attempts(r, s, c, running, pc, current), NEW fresh0, fresh0 => s = r,
         Kept(k, s), Rest(k) = Rest(s), NEW pc1, pc1 \in {"gated", "launch"},
         ~(s.attempt # 0 /\ running = s.attempt)
  PROVE  Attempts(r, s, k, running, pc1, fresh0)
  BY DEF Attempts, Behind, Kept

(* ... or with its own copy. *)
LEMMA AttemptsCommit ==
  ASSUME NEW r, NEW s, NEW c, NEW k, NEW running \in Nat, NEW pc, NEW current,
         r.attempt \in Nat, s.attempt \in Nat, c.attempt \in Nat,
         Attempts(r, s, c, running, pc, current), Kept(k, c)
  PROVE  Attempts(r, s, k, running, "commit", current)
  BY DEF Attempts, Behind, Kept

(* The pass ends, and perhaps the run that it stopped. *)
LEMMA AttemptsIdle ==
  ASSUME NEW r, NEW s, NEW c, NEW running \in Nat, NEW pc, NEW current,
         r.attempt \in Nat, s.attempt \in Nat, c.attempt \in Nat,
         Attempts(r, s, c, running, pc, current), NEW running1 \in {0, running},
         running1 = running \/ (running # 0 /\ running = s.attempt)
  PROVE  Attempts(r, s, Idle.job, running1, "idle", FALSE)
<1>1. ~Rest(Idle.job) /\ Idle.job.attempt = 0
  BY IdleFields
<1> QED
  BY <1>1 DEF Attempts, Behind

(* A launch starts the next attempt or finds it running; otherwise nothing runs. *)
LEMMA AttemptsLaunch ==
  ASSUME NEW r, NEW s, NEW c, NEW k, NEW running \in Nat, NEW current,
         r.attempt \in Nat, s.attempt \in Nat, c.attempt \in Nat,
         Attempts(r, s, c, running, "launch", current),
         k.attempt = IF Rest(c) THEN c.attempt ELSE c.attempt + 1
  PROVE  /\ running \in {0, k.attempt}
         /\ Attempts(r, s, k, k.attempt, "commit", current)
<1>1. running \in {0, k.attempt}
  BY DEF Attempts, Behind
<1>2. k.attempt \in {r.attempt, r.attempt + 1}
  BY DEF Attempts, Behind
<1>3. Behind(s, r.attempt, k.attempt)
  BY <1>1 DEF Attempts, Behind
<1>4. current => s.attempt = r.attempt /\ (k.attempt = r.attempt \/ k.attempt = r.attempt + 1)
  BY <1>2 DEF Attempts
<1>5. current => \A j \in {r, s} : k.attempt = j.attempt /\ Rest(k) => Rest(j)
  <2> SUFFICES ASSUME current, NEW j \in {r, s}, k.attempt = j.attempt PROVE Rest(j)
    OBVIOUS
  <2>1. j.attempt = r.attempt /\ c.attempt = r.attempt
    BY DEF Attempts, Behind
  <2>2. Rest(c)
    BY <2>1
  <2> QED
    BY <2>1, <2>2 DEF Attempts
<1>6. \A j \in {r, s, k} : k.attempt = j.attempt + 1 => ~Rest(j)
  <2> SUFFICES ASSUME NEW j \in {r, s, k}, k.attempt = j.attempt + 1 PROVE ~Rest(j)
    OBVIOUS
  <2>1. k.attempt \in Nat
    OBVIOUS
  <2>2. j \in {r, s}
    BY <2>1
  <2>3. CASE running = k.attempt
    BY <2>2, <2>3 DEF Attempts
  <2>4. CASE running = 0
    <3>1. j.attempt = c.attempt
      BY <2>2, <2>4 DEF Attempts, Behind
    <3> QED
      BY <2>2, <3>1 DEF Attempts
  <2> QED
    BY <1>1, <2>3, <2>4
<1> QED
  BY <1>1, <1>2, <1>3, <1>4, <1>5, <1>6 DEF Attempts

(* The controller's copy is stored; the cache may learn of it later. *)
LEMMA AttemptsStatus ==
  ASSUME NEW r, NEW s, NEW c, NEW running \in Nat, NEW pc,
         r.attempt \in Nat, s.attempt \in Nat, c.attempt \in Nat,
         NEW current, current, Attempts(r, s, c, running, pc, current), NEW s1, s1 = s \/ s1 = c
  PROVE  /\ Attempts(c, s1, Idle.job, running, "idle", FALSE)
         /\ pc = "evict" => Attempts(c, s1, c, running, "stop", current)
         /\ pc = "gated" => Attempts(c, s1, c, running, "launch", current)
<1>1. ~Rest(Idle.job) /\ Idle.job.attempt = 0
  BY IdleFields
<1>2. Attempts(c, s1, Idle.job, running, "idle", FALSE)
  BY <1>1 DEF Attempts, Behind
<1>3. pc = "evict" => Attempts(c, s1, c, running, "stop", current)
  BY DEF Attempts, Behind
<1>4. pc = "gated" => Attempts(c, s1, c, running, "launch", current)
  BY DEF Attempts, Behind
<1> QED
  BY <1>2, <1>3, <1>4

(* The cache catches up. *)
LEMMA AttemptsDeliver ==
  ASSUME NEW r, NEW s, NEW c, NEW running \in Nat, NEW pc, NEW current,
         r.attempt \in Nat, s.attempt \in Nat, c.attempt \in Nat,
         Attempts(r, s, c, running, pc, current)
  PROVE  Attempts(r, r, c, running, pc, current)
  BY DEF Attempts, Behind

LEMMA AttemptsNat ==
  ASSUME Types
  PROVE  rtj.attempt \in Nat /\ seen.attempt \in Nat /\ ctl.job.attempt \in Nat /\ jobSet.attempt \in Nat
  BY DEF Types, IsRTJ

LEMMA AttemptsPass == ASSUME Types, CopiesInv, AttemptsInv, Pass PROVE AttemptsInv'
<1>1. rtj' = rtj /\ seen' = seen /\ (fresh => seen = rtj)
  BY PassFields DEF Paces, Untouched, CopiesInv
<1>2. NoJobSet.attempt = 0
  BY DEF NoJobSet
<1>3. ASSUME ctl' = Idle, jobSet' = jobSet \/ (jobSet' = NoJobSet /\ jobSet.attempt # 0 /\ jobSet.attempt = seen.attempt)
      PROVE  AttemptsInv'
  <2>1. ctl'.job = Idle.job /\ ctl'.pc = "idle" /\ ctl'.fresh = FALSE
    BY <1>3, IdleFields
  <2>2. /\ jobSet'.attempt \in {0, jobSet.attempt}
        /\ jobSet'.attempt = jobSet.attempt \/ (jobSet.attempt # 0 /\ jobSet.attempt = seen.attempt)
    BY <1>2, <1>3
  <2>3. Attempts(rtj, seen, Idle.job, jobSet'.attempt, "idle", FALSE)
    BY <2>2, AttemptsNat, AttemptsIdle DEF AttemptsInv
  <2> QED
    BY <1>1, <2>1, <2>3 DEF AttemptsInv
<1>4. ASSUME NEW pc \in {"evict", "commit"}, To(pc, seen, NewWorkload, fresh), jobSet' = jobSet,
             pc = "evict" => getActiveJobSet(seen)
      PROVE  AttemptsInv'
  <2>1. Kept(ctl'.job, seen) /\ ctl'.pc = pc /\ ctl'.fresh = fresh
    BY <1>4, ToFields
  <2>2. pc = "evict" => jobSet.attempt = seen.attempt /\ seen.attempt # 0
    BY <1>4 DEF getActiveJobSet
  <2>3. Attempts(rtj, seen, ctl'.job, jobSet.attempt, pc, fresh)
    BY <1>1, <2>1, <2>2, AttemptsNat, AttemptsObserve DEF AttemptsInv
  <2> QED
    BY <1>1, <1>4, <2>1, <2>3 DEF AttemptsInv
<1>5. ASSUME To("commit", ctl.job, NewWorkload, ctl.fresh), jobSet' = jobSet
      PROVE  AttemptsInv'
  <2>1. Kept(ctl'.job, ctl.job) /\ ctl'.pc = "commit" /\ ctl'.fresh = ctl.fresh
    BY <1>5, ToFields
  <2>2. Attempts(rtj, seen, ctl'.job, jobSet.attempt, "commit", ctl.fresh)
    BY <2>1, AttemptsNat, AttemptsCommit DEF AttemptsInv
  <2> QED
    BY <1>1, <1>5, <2>1, <2>2 DEF AttemptsInv
<1>6. CASE LaunchReady
  <2>1. PICK pc \in {"gated", "launch"} : To(pc, seen, seenWl, fresh)
    BY <1>6, ReadyFields
  <2>2. Kept(ctl'.job, seen) /\ ctl'.pc = pc /\ ctl'.fresh = fresh
    BY <2>1, ToFields
  <2>3. /\ Rest(ctl'.job) = Rest(seen) /\ jobSet' = jobSet
        /\ ~(seen.attempt # 0 /\ jobSet.attempt = seen.attempt)
    BY <1>6, ReadyFields DEF getActiveJobSet
  <2> DEFINE k == ctl'.job
  <2>4. Kept(k, seen) /\ Rest(k) = Rest(seen)
    BY <2>2, <2>3
  <2> HIDE DEF k
  <2>5. Attempts(rtj, seen, k, jobSet.attempt, pc, fresh)
    <3>1. Attempts(rtj, seen, ctl.job, jobSet.attempt, ctl.pc, ctl.fresh)
      BY DEF AttemptsInv
    <3> QED
      BY <1>1, <2>1, <2>3, <2>4, <3>1, AttemptsNat, AttemptsReady, Zenon
  <2> QED
    BY <1>1, <2>2, <2>3, <2>5 DEF AttemptsInv, k
<1>7. CASE StopUnrecorded
  <2>1. StopStep(seen, fresh) /\ jobSet.attempt = seen.attempt /\ jobSet.attempt # 0
    BY <1>7, StopUnrecordedFields DEF getActiveJobSet
  <2> QED
    BY <1>3, <1>4, <2>1 DEF StopStep
<1>8. CASE StopRecorded
  <2>1. StopStep(ctl.job, ctl.fresh) /\ ctl.pc = "stop"
    BY <1>8, StopRecordedFields
  <2>2. jobSet.attempt = seen.attempt /\ jobSet.attempt # 0
    BY <2>1 DEF AttemptsInv, Attempts
  <2> QED
    BY <1>3, <1>5, <2>1, <2>2 DEF StopStep
<1>9. CASE RecordEviction
  BY <1>4, <1>9, RecordEvictionFields
<1>10. CASE DeferUntilAdmitted \/ ObserveActive \/ LaunchGated
  BY <1>3, <1>4, <1>10, DeferFields, ObserveFields, GatedFields
<1>11. CASE LaunchBlocked \/ NoCheckpoint \/ failLaunch
  BY <1>5, <1>11, BlockedFields, FailFields
<1>12. CASE StatusConflict
  BY <1>3, <1>12, ConflictFields
<1> QED
  BY <1>6, <1>7, <1>8, <1>9, <1>10, <1>11, <1>12 DEF Pass

(* What a launch finds: nothing, or the JobSet that it is about to make. *)
LEMMA LaunchFinds ==
  ASSUME Types, GrantedInv, AttemptsInv, LaunchWithGate
  PROVE  /\ jobSet.attempt \in {0, NextAttempt(ctl.job)}
         /\ AttemptsInv'
<1>1. /\ ctl.pc = "launch" /\ UNCHANGED <<rtj, seen>>
      /\ ctl'.pc = "commit" /\ ctl'.fresh = ctl.fresh /\ ctl'.job.attempt = NextAttempt(ctl.job)
  BY LaunchFields DEF Untouched
<1>2. NextAttempt(ctl.job) = IF Rest(ctl.job) THEN ctl.job.attempt ELSE ctl.job.attempt + 1
  BY DEF NextAttempt, Resumes, Rest
<1>3. Attempts(rtj, seen, ctl.job, jobSet.attempt, "launch", ctl.fresh)
  BY <1>1 DEF AttemptsInv
<1>4. /\ jobSet.attempt \in {0, ctl'.job.attempt}
      /\ Attempts(rtj, seen, ctl'.job, ctl'.job.attempt, "commit", ctl.fresh)
  BY <1>1, <1>2, <1>3, AttemptsNat, AttemptsLaunch
<1>5. jobSet'.attempt = ctl'.job.attempt
  BY <1>1, LaunchedJob
<1> QED
  BY <1>1, <1>4, <1>5 DEF AttemptsInv

LEMMA AttemptsStep ==
  ASSUME Types, CopiesInv, GrantedInv, AttemptsInv, [Next]_vars
  PROVE  AttemptsInv'
<1>1. CASE StatusUpdate
  <2>1. /\ ctl.fresh /\ rtj' = ctl.job /\ seen' \in {seen, ctl.job} /\ jobSet' = jobSet
    BY <1>1, StatusFields, StoreFields
  <2> DEFINE s1 == seen'
  <2>2. s1 = seen \/ s1 = ctl.job
    BY <2>1
  <2> HIDE DEF s1
  <2>3. Attempts(rtj, seen, ctl.job, jobSet.attempt, ctl.pc, ctl.fresh)
    BY DEF AttemptsInv
  <2>4. /\ Attempts(ctl.job, s1, Idle.job, jobSet.attempt, "idle", FALSE)
        /\ ctl.pc = "evict" => Attempts(ctl.job, s1, ctl.job, jobSet.attempt, "stop", ctl.fresh)
        /\ ctl.pc = "gated" => Attempts(ctl.job, s1, ctl.job, jobSet.attempt, "launch", ctl.fresh)
    BY <2>1, <2>2, <2>3, AttemptsNat, AttemptsStatus, Zenon
  <2>5. CASE ctl' = Idle
    <3>1. ctl'.job = Idle.job /\ ctl'.pc = "idle" /\ ctl'.fresh = FALSE
      BY <2>5, IdleFields
    <3> QED
      BY <2>1, <2>4, <3>1 DEF AttemptsInv, s1
  <2>6. CASE ctl' # Idle
    <3>1. /\ ctl.pc \in {"evict", "gated"} /\ ctl'.pc = IF ctl.pc = "evict" THEN "stop" ELSE "launch"
          /\ ctl'.job = ctl.job /\ ctl'.fresh = ctl.fresh
      BY <1>1, <2>6, StatusFields
    <3> QED
      BY <2>1, <2>4, <3>1 DEF AttemptsInv, s1
  <2> QED
    BY <2>5, <2>6
<1>2. CASE Specifies
  <2>1. PICK new : Respecified(new)
    BY <1>2, SpecifiesFields
  <2>2. /\ rtj' = new /\ new.attempt = rtj.attempt /\ Rest(new) = Rest(rtj)
        /\ jobSet' = jobSet /\ ctl'.pc = ctl.pc /\ ctl'.job = ctl.job /\ ctl'.fresh = FALSE
        /\ seen' = seen \/ (seen' = new /\ seen = rtj)
    BY <2>1, StoreFields DEF Respecified, CopiesInv
  <2>3. Attempts(new, seen', ctl.job, jobSet.attempt, ctl.pc, FALSE)
    <3> DEFINE s1 == seen'
    <3>1. s1 = seen \/ (s1 = new /\ seen = rtj)
      BY <2>2
    <3> HIDE DEF s1
    <3>2. Attempts(rtj, seen, ctl.job, jobSet.attempt, ctl.pc, ctl.fresh)
      BY DEF AttemptsInv
    <3>3. Attempts(new, s1, ctl.job, jobSet.attempt, ctl.pc, FALSE)
      BY <2>2, <3>1, <3>2, AttemptsNat DEF Attempts, Behind
    <3> QED
      BY <3>3 DEF s1
  <2> QED
    BY <2>2, <2>3 DEF AttemptsInv
<1>3. CASE Deliver
  <2>1. rtj' = rtj /\ seen' = rtj /\ UNCHANGED <<jobSet, ctl>>
    BY <1>3, DeliverFields DEF Delivered
  <2>2. Attempts(rtj, rtj, ctl.job, jobSet.attempt, ctl.pc, ctl.fresh)
    BY AttemptsNat, AttemptsDeliver DEF AttemptsInv
  <2> QED
    BY <2>1, <2>2 DEF AttemptsInv
<1>4. CASE Writes \/ FakeProvisioner \/ DeliverWorkload \/ UNCHANGED vars
  <2>1. UNCHANGED <<rtj, seen, jobSet, ctl>>
    BY <1>4, WritesFields, ProvisionerFields, DeliverFields
       DEF Written, Provisions, WorkloadDelivered, Unmoved, vars
  <2> QED
    BY <2>1 DEF AttemptsInv
<1> QED
  BY <1>1, <1>2, <1>3, <1>4, NextKinds, AttemptsPass, LaunchFinds

LEMMA AttemptsInit == Init => AttemptsInv
<1> SUFFICES ASSUME Init PROVE AttemptsInv
  OBVIOUS
<1>1. PICK ref, topology \in BOOLEAN : rtj = NewRTJ(ref, topology)
  BY DEF Init
<1>2. rtj.attempt = 0 /\ ~Rest(rtj) /\ seen = rtj /\ ctl = Idle /\ jobSet.attempt = 0
  BY <1>1, NewJob DEF Init, NoJobSet
<1>3. ctl.job.attempt = 0 /\ ~Rest(ctl.job) /\ ctl.pc = "idle" /\ ctl.fresh = FALSE
  BY <1>2, IdleFields
<1> QED
  BY <1>2, <1>3 DEF AttemptsInv, Attempts, Behind

-----------------------------------------------------------------------------
\* What is rendered fits the admission

LEMMA MaxOfTwo ==
  ASSUME NEW x \in Int, NEW y \in Int
  PROVE  Max({x, y}) = IF x >= y THEN x ELSE y
<1>1. \E z \in {x, y} : \A w \in {x, y} : z >= w
  OBVIOUS
<1>2. Max({x, y}) \in {x, y} /\ \A w \in {x, y} : Max({x, y}) >= w
  BY <1>1, Zenon DEF Max
<1> QED
  BY <1>2

LEMMA WholeReplicas ==
  ASSUME NEW count \in Nat, NEW pods \in Nat \ {0}
  PROVE  count \div pods \in Nat /\ pods * (count \div pods) <= count
  OBVIOUS

LEMMA PodsFit ==
  ASSUME NEW p \in PodSets, NEW count \in Nat \ {0}
  PROVE  LET pods == podsPerReplica(p) * applyAdmittedReplicaCount(p, count)
         IN  IF count >= podsPerReplica(p) THEN pods <= count ELSE pods = podsPerReplica(p)
<1>1. Completions[p] \in Nat \ {0} /\ Parallelism[p] \in Nat \ {0}
  BY AdmissionsAssumption
<1> DEFINE n == podsPerReplica(p)
           q == count \div n
<1>2. n \in Nat \ {0}
  BY <1>1 DEF podsPerReplica
<1> HIDE DEF n
<1>3. q \in Nat /\ n * q <= count
  BY <1>2, WholeReplicas
<1>4. applyAdmittedReplicaCount(p, count) = Max({1, q})
  BY DEF applyAdmittedReplicaCount, n
<1> HIDE DEF q
<1>5. Max({1, q}) = IF 1 >= q THEN 1 ELSE q
  BY <1>3, MaxOfTwo
<1>6. n * 1 = n
  BY <1>2
<1>7. IF count >= n THEN n * Max({1, q}) <= count ELSE n * Max({1, q}) = n
  <2>1. CASE 1 >= q
    BY <1>2, <1>5, <1>6, <2>1
  <2>2. CASE ~(1 >= q)
    <3>1. n * Max({1, q}) = n * q
      BY <1>5, <2>2
    <3>2. n * q \in Nat /\ n <= n * q
      BY <1>2, <1>3, <2>2
    <3> QED
      BY <1>2, <1>3, <3>1, <3>2
  <2> QED
    BY <2>1, <2>2
<1> QED
  BY <1>4, <1>7 DEF n

LEMMA QuotaFits ==
  ASSUME NEW a \in Admissions, NEW plan, plan.counts = a.counts, NEW n, NEW restore
  PROVE  WithinQuota(RenderChildJobSet(plan, n, restore), a)
<1> DEFINE r == RenderChildJobSet(plan, n, restore)
<1>1. a.counts \in [PodSets -> Nat \ {0}]
  BY AdmissionsAssumption
<1>2. r.world = totalAdmittedCount(a.counts)
  <2>1. r.world = computeEffectiveWorldSize(plan.counts)
    BY DEF RenderChildJobSet
  <2> QED
    BY <2>1, WorldSizes
<1>3. ASSUME NEW p \in PodSets
      PROVE  IF a.counts[p] >= podsPerReplica(p) THEN r.pods[p] <= a.counts[p]
             ELSE r.pods[p] = podsPerReplica(p)
  <2>1. p \in DOMAIN plan.counts /\ a.counts[p] \in Nat \ {0}
    BY <1>1
  <2>2. r.pods[p] = podsPerReplica(p) * applyAdmittedReplicaCount(p, a.counts[p])
    BY <2>1 DEF RenderChildJobSet
  <2> QED
    BY <2>1, <2>2, PodsFit
<1> HIDE DEF r
<1>4. WithinQuota(r, a)
  BY <1>2, <1>3 DEF WithinQuota
<1> QED
  BY <1>4 DEF r

LEMMA DomainsFit ==
  ASSUME NEW a \in Admissions, NEW plan, NEW n, NEW restore,
         plan.topology = ParseFromAdmission(a), ~RenderFails(plan)
  PROVE  WithinDomains(RenderChildJobSet(plan, n, restore), a)
<1> DEFINE r == RenderChildJobSet(plan, n, restore)
           R == Rendered(plan)
<1>1. ASSUME NEW p \in Assigned(a)
      PROVE  LET C == CommonNodeSelector(parsePodSetAssignment(a.topology[p]))
             IN  \A l \in DOMAIN C : l \in DOMAIN r.templates[p] /\ r.templates[p][l] = C[l]
  <2> DEFINE C == CommonNodeSelector(parsePodSetAssignment(a.topology[p]))
             base == stripKueuePodTemplateLabels(plan.templates[p])
             ups == plan.updates[p]
  <2>1. /\ p \in PodSets /\ p \in DOMAIN plan.topology
        /\ plan.topology[p] = parsePodSetAssignment(a.topology[p])
    BY DEF Assigned, ParseFromAdmission
  <2>2. R[p] = mergeMapInto(base, C)
    BY <2>1 DEF Rendered, InjectTopology
  <2>3. r.templates[p] = mergeMapInto(R[p], ups)
    BY <2>1 DEF RenderChildJobSet, ApplyPodSetUpdates
  <2>4. \A l \in DOMAIN R[p] \cap DOMAIN ups : R[p][l] = ups[l]
    <3>1. ~Conflicts(R, plan.updates)
      BY DEF RenderFails
    <3> HIDE DEF R
    <3> QED
      BY <2>1, <3>1 DEF Conflicts
  <2> HIDE DEF C, base, ups, R, r
  <2>5. DOMAIN R[p] = DOMAIN base \cup DOMAIN C /\ \A l \in DOMAIN C : R[p][l] = C[l]
    BY <2>2 DEF mergeMapInto
  <2>6. /\ DOMAIN r.templates[p] = DOMAIN R[p] \cup DOMAIN ups
        /\ \A l \in DOMAIN ups : r.templates[p][l] = ups[l]
        /\ \A l \in DOMAIN R[p] \ DOMAIN ups : r.templates[p][l] = R[p][l]
    BY <2>3 DEF mergeMapInto
  <2>7. \A l \in DOMAIN C : l \in DOMAIN r.templates[p] /\ r.templates[p][l] = C[l]
    BY <2>4, <2>5, <2>6
  <2> QED
    BY <2>7 DEF C
<1> HIDE DEF r
<1>2. WithinDomains(r, a)
  BY <1>1 DEF WithinDomains
<1> QED
  BY <1>2 DEF r

(* What a launch makes fits a complete admission. *)
LEMMA LaunchFits ==
  ASSUME Types, CopiesInv, GrantedInv, AtLaunch, ~RenderFails(Plan), NEW n, NEW restore
  PROVE  \E a \in granted : Fits(RenderChildJobSet(Plan, n, restore), a)
<1>1. PICK a \in granted : Plan.counts = a.counts /\ (ctl.job.ref => a = ctl.workload.admission)
  BY PlannedCounts
<1>2. a \in Admissions
  BY DEF Types
<1>3. WithinQuota(RenderChildJobSet(Plan, n, restore), a)
  BY <1>1, <1>2, QuotaFits
<1>4. WithinDomains(RenderChildJobSet(Plan, n, restore), a)
  <2>1. ctl.job.topology = rtj.topology
    BY DEF CopiesInv, AtLaunch
  <2>2. CASE ~ctl.job.topology
    <3>1. Assigned(a) = {}
      BY <2>1, <2>2 DEF GrantedInv
    <3> QED
      BY <3>1 DEF WithinDomains
  <2>3. CASE ctl.job.topology
    <3>1. ctl.job.ref
      BY <2>3 DEF GrantedInv
    <3>2. Plan.topology = ParseFromAdmission(a)
      BY <1>1, <2>3, <3>1, PlanFields
    <3> QED
      BY <1>2, <3>2, DomainsFit
  <2> QED
    BY <2>2, <2>3
<1> QED
  BY <1>3, <1>4 DEF Fits

-----------------------------------------------------------------------------
\* The contract

LEMMA ContractStep ==
  ASSUME Types, CopiesInv, GrantedInv, AttemptsInv, [Next]_vars
  PROVE  [Contract!Next]_(Contract!contractVars)
<1>1. CASE Pass
  <2>1. granted' = granted /\ (jobSet' = jobSet \/ jobSet' = NoJobSet)
    BY <1>1, PassFields DEF Paces, Untouched
  <2> QED
    BY <2>1 DEF Contract!Next, Contract!Stop, Contract!contractVars
<1>2. CASE LaunchWithGate
  <2> DEFINE made == RenderChildJobSet(Plan, NextAttempt(ctl.job), ctl.job.checkpoint)
  <2>1. /\ granted' = granted /\ ~RenderFails(Plan) /\ AtLaunch
        /\ jobSet' = IF jobSet.attempt = NextAttempt(ctl.job) THEN jobSet ELSE made
    BY <1>2, LaunchFields DEF Untouched, AtLaunch
  <2>2. \E a \in granted : Fits(made, a)
    BY <2>1, LaunchFits
  <2>3. jobSet.attempt = NextAttempt(ctl.job) \/ jobSet = NoJobSet
    BY <1>2, LaunchFinds DEF Types
  <2> HIDE DEF made
  <2> QED
    BY <2>1, <2>2, <2>3 DEF Contract!Next, Contract!Start, Contract!contractVars
<1>3. CASE Writes
  <2>1. /\ jobSet' = jobSet
        /\ granted' = IF Complete(workload') THEN granted \cup {workload'.admission} ELSE granted
    BY <1>3, WritesFields DEF Written, Unmoved
  <2> QED
    BY <2>1 DEF Contract!Next, Contract!Grant, Contract!contractVars
<1>4. CASE StatusUpdate \/ Specifies \/ FakeProvisioner \/ Deliver \/ DeliverWorkload \/ UNCHANGED vars
  <2>1. UNCHANGED <<granted, jobSet>>
    BY <1>4, StatusFields, SpecifiesFields, ProvisionerFields, DeliverFields
       DEF Respecified, Provisions, Delivered, WorkloadDelivered, Unmoved, vars
  <2> QED
    BY <2>1 DEF Contract!contractVars
<1> QED
  BY <1>1, <1>2, <1>3, <1>4, NextKinds

(* Launching implements the capacity contract: what runs fits one complete admission, and there
   is one run at a time, whatever the caches held, however often a launch was repeated, and
   whatever Kueue granted or took back in between.  To fit is to take no more pods than were
   admitted, or one replica where less than one was (applyAdmittedReplicaCount), to have the
   world size of the admitted counts, and to lie on the levels that the domains share. *)
THEOREM LaunchingFits == Spec => ImplementsContract
<1>1. Init => AttemptsInv /\ Contract!Init
  BY AttemptsInit DEF Init, Contract!Init
<1>2. Inv /\ AttemptsInv /\ [Next]_vars => AttemptsInv'
  BY AttemptsStep DEF Inv
<1>3. Inv /\ AttemptsInv /\ [Next]_vars => [Contract!Next]_(Contract!contractVars)
  BY ContractStep DEF Inv
<1> QED
  BY <1>1, <1>2, <1>3, InvHolds, PTL DEF Spec, ImplementsContract, Contract!Spec
=============================================================================
