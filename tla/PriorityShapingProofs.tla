----------------------- MODULE PriorityShapingProofs -----------------------
(* Priority shaping for every policy, every range of integers and every bound. *)
EXTENDS PriorityShaping, FiniteSetTheorems, TLAPS

USE PriorityAssumption DEF NoTime

-----------------------------------------------------------------------------
\* The decision

LEMMA PickMax ==
  ASSUME NEW x \in Int, NEW T \in SUBSET Int, \A m, n \in T : m = n
  PROVE  /\ Max({x} \cup T) \in {x} \cup T
         /\ \A y \in {x} \cup T : Max({x} \cup T) >= y
<1>1. \E z \in {x} \cup T : \A y \in {x} \cup T : z >= y
  <2>1. CASE T = {}
    BY <2>1
  <2>2. ASSUME NEW m \in T PROVE \E z \in {x} \cup T : \A y \in {x} \cup T : z >= y
    BY <2>2
  <2> QED
    BY <2>1, <2>2
<1> QED
  BY <1>1, Zenon DEF Max

LEMMA PickMin ==
  ASSUME NEW x \in Int, NEW T \in SUBSET Int, \A m, n \in T : m = n
  PROVE  /\ Min({x} \cup T) \in {x} \cup T
         /\ \A y \in {x} \cup T : Min({x} \cup T) <= y
<1>1. \E z \in {x} \cup T : \A y \in {x} \cup T : z <= y
  <2>1. CASE T = {}
    BY <2>1
  <2>2. ASSUME NEW m \in T PROVE \E z \in {x} \cup T : \A y \in {x} \cup T : z <= y
    BY <2>2
  <2> QED
    BY <2>1, <2>2
<1> QED
  BY <1>1, Zenon DEF Min

(* The effective priority is an int32, and an adjustment that raises the base does not end up
   below it, unless the policy's own upper bound is. *)
LEMMA EffectivePriority ==
  ASSUME policy \in Policies, NEW a \in Int
  PROVE  /\ computeEffectivePriority(a) \in MinInt .. MaxInt
         /\ a >= 0 /\ (\A m \in policy.max : m >= Base) => computeEffectivePriority(a) >= Base
<1> DEFINE x == Max({Base + a} \cup policy.min)
           y == Min({x} \cup policy.max)
           z == Max({y} \cup {MinInt})
           w == Min({z} \cup {MaxInt})
<1>1. /\ policy.min \in SUBSET Int /\ policy.max \in SUBSET Int
      /\ \A m, n \in policy.min : m = n
      /\ \A m, n \in policy.max : m = n
      /\ Base \in Int /\ Base + a \in Int
  OBVIOUS
<1>2. x \in {Base + a} \cup policy.min /\ x >= Base + a
  BY <1>1, PickMax
<1>3. x \in Int
  BY <1>1, <1>2
<1> HIDE DEF x
<1>4. y \in {x} \cup policy.max
  BY <1>1, <1>3, PickMin
<1>5. y \in Int
  BY <1>1, <1>3, <1>4
<1> HIDE DEF y
<1>6. z \in {y, MinInt} /\ z >= y /\ z >= MinInt
  <2>1. {MinInt} \in SUBSET Int /\ \A m, n \in {MinInt} : m = n
    OBVIOUS
  <2> QED
    BY <1>5, <2>1, PickMax
<1> HIDE DEF z
<1>7. w \in {z, MaxInt} /\ w <= z /\ w <= MaxInt
  <2>1. {MaxInt} \in SUBSET Int /\ \A m, n \in {MaxInt} : m = n
    OBVIOUS
  <2>2. z \in Int
    BY <1>5, <1>6
  <2> HIDE DEF z
  <2> QED
    BY <2>1, <2>2, PickMin
<1> HIDE DEF w
<1>8. computeEffectivePriority(a) = w
  <2>1. {MinInt, y} = {y} \cup {MinInt} /\ {MaxInt, z} = {z} \cup {MaxInt}
    OBVIOUS
  <2> QED
    BY <2>1 DEF computeEffectivePriority, w, z, y, x
<1>9. a >= 0 /\ (\A m \in policy.max : m >= Base) => w >= Base
  BY <1>1, <1>2, <1>3, <1>4, <1>5, <1>6, <1>7
<1> QED
  BY <1>5, <1>6, <1>7, <1>8, <1>9

(* A decision without an end of the protection is one of the three others. *)
Others == {Decision("Cooldown", policy.cooldown, NoTime), Decision("Active", 0, NoTime),
           Decision("Preemptible", policy.offset, NoTime)}

LEMMA EvaluateCases ==
  ASSUME NEW t, NEW snap
  PROVE  LET window == CheckProtectionWindow(t, snap.runStart, snap.resume)
         IN  \/ window.protected /\ Evaluate(t, snap) = Decision("Protected", policy.boost, window.until)
             \/ ~window.protected /\ Evaluate(t, snap) \in Others
  BY Zenon DEF Evaluate, evaluateTelemetryUnknown, Others

-----------------------------------------------------------------------------
\* Types

Times == NoTime .. MaxTime
Ends == {NoTime} \cup Nat
Shapings == [effective : Int, state : PreemptionStates, until : Ends, checkpoint : Times, age : Int,
             resume : Times, yields : Nat]
Notes == [effective : Int, state : PreemptionStates]
RTJs == [policyRef : BOOLEAN, suspend : BOOLEAN, phase : Phases, attempt : 0 .. MaxAttempts,
         startingAt : Times, restoringAt : Times, runningAt : Times, checkpoint : Times,
         yields : {{}}, shaping : Shapings, notes : Notes, cond : ShapingConditions]
Passes == [pc : {"idle", "patch", "annotate", "status"}, job : RTJs, fresh : BOOLEAN,
           changed : BOOLEAN, until : Ends]
Decisions == [effective : MinInt .. MaxInt, state : PreemptionStates, until : Ends]
Snapshots == [checkpoint : Times, runStart : Times, resume : Times, yields : Nat]

Types ==
    /\ now \in 0 .. MaxTime /\ policy \in Policies /\ store \in Times
    /\ rtj \in RTJs /\ seen \in RTJs /\ fresh \in BOOLEAN /\ queued \in BOOLEAN
    /\ priority \in MinInt .. MaxInt /\ cached \in MinInt .. MaxInt /\ misled \in BOOLEAN
    /\ jobSet \in [attempt : 0 .. MaxAttempts, since : Times]
    /\ ctl \in Passes /\ (ctl.pc = "patch" => effective \in MinInt .. MaxInt)
    /\ wakeAt \in Ends /\ delays \in Nat /\ faults \in Nat

LEMMA InitialJob == ASSUME NEW shaped \in BOOLEAN PROVE NewRTJ(shaped) \in RTJs
<1>1. NoTime \in Times /\ 0 \in 0 .. MaxAttempts /\ NoTime \in Ends /\ 0 \in Nat
  BY DEF Times, Ends
<1>2. NoShaping \in Shapings /\ NoNotes \in Notes
  BY <1>1 DEF NoShaping, NoNotes, Shapings, Notes, PreemptionStates
<1>3. "Queued" \in Phases /\ Unset \in ShapingConditions
  BY DEF Phases, ShapingConditions
<1> QED
  BY <1>1, <1>2, <1>3 DEF NewRTJ, RTJs

LEMMA IdlePass == Idle \in Passes /\ Idle.pc = "idle" /\ ~Idle.fresh
<1>1. NewRTJ(FALSE) \in RTJs
  BY InitialJob
<1> QED
  BY <1>1 DEF Idle, Passes, Ends

LEMMA RunningJob == ASSUME NEW j \in RTJs, now \in 0 .. MaxTime PROVE markRunning(j) \in RTJs
<1>1. "Running" \in Phases /\ now \in Times
  BY DEF Phases, Times
<1> QED
  BY <1>1 DEF markRunning, RTJs

LEMMA TelemetryType ==
  ASSUME NEW j \in RTJs, NEW t \in 0 .. MaxTime, NEW latest \in Times
  PROVE  CollectTelemetry(j, latest, t) \in Snapshots
<1>1. j.yields = {} /\ NoTime \in Times
  BY DEF RTJs, Times
<1>2. {y \in j.yields : y >= t - policy.yieldWindow} = {}
  BY <1>1
<1>3. Cardinality({y \in j.yields : y >= t - policy.yieldWindow}) = 0
  BY <1>2, FS_EmptySet
<1>4. countYieldsInWindow(j, t) \in Nat
  BY <1>3 DEF countYieldsInWindow
<1>5. {j.checkpoint, j.startingAt, j.runningAt} \subseteq Times
  BY DEF RTJs
<1> QED
  BY <1>1, <1>4, <1>5 DEF CollectTelemetry, Snapshots

LEMMA DecisionType ==
  ASSUME policy \in Policies, NEW t \in 0 .. MaxTime, NEW snap \in Snapshots
  PROVE  Evaluate(t, snap) \in Decisions
<1> DEFINE window == CheckProtectionWindow(t, snap.runStart, snap.resume)
<1>1. window.until \in Ends
  <2>1. snap.runStart \in Times /\ snap.resume \in Times
    BY DEF Snapshots
  <2>2. protectionAnchor(snap.runStart, snap.resume) \in Times
    BY <2>1 DEF protectionAnchor
  <2>3. policy.protection \in Nat
    OBVIOUS
  <2> QED
    BY <2>2, <2>3 DEF CheckProtectionWindow, Ends, Times
<1> HIDE DEF window
<1>2. /\ policy.boost \in Int /\ policy.cooldown \in Int /\ policy.offset \in Int
      /\ {"Protected", "Active", "Cooldown", "Preemptible"} \subseteq PreemptionStates
      /\ NoTime \in Ends
  BY DEF PreemptionStates, Ends
<1>3. \A s \in PreemptionStates, a \in Int, u \in Ends : Decision(s, a, u) \in Decisions
  BY EffectivePriority DEF Decision, Decisions
<1>4. Others \subseteq Decisions
  <2>1. /\ Decision("Cooldown", policy.cooldown, NoTime) \in Decisions
        /\ Decision("Active", 0, NoTime) \in Decisions
        /\ Decision("Preemptible", policy.offset, NoTime) \in Decisions
    BY <1>2, <1>3
  <2> QED
    BY <2>1 DEF Others
<1>5. Decision("Protected", policy.boost, window.until) \in Decisions
  BY <1>1, <1>2, <1>3
<1> QED
  BY <1>4, <1>5, EvaluateCases DEF window

LEMMA TimerSet ==
  ASSUME NEW t \in Ends, wakeAt \in Ends, RequeueAt(t)
  PROVE  /\ wakeAt' \in Ends
         /\ t # NoTime \/ wakeAt # NoTime => wakeAt' # NoTime
  BY Zenon DEF RequeueAt

LEMMA DoneType ==
  ASSUME NEW requeue, NEW until \in Ends, wakeAt \in Ends, Done(requeue, until)
  PROVE  /\ ctl' = Idle /\ queued' = requeue /\ wakeAt' \in Ends
         /\ until # NoTime \/ wakeAt # NoTime => wakeAt' # NoTime
<1> DEFINE t == IF until = NoTime THEN NoTime ELSE until + 1
<1>1. t \in Ends /\ (until # NoTime => t # NoTime)
  BY DEF Ends
<1>2. RequeueAt(t)
  BY DEF Done
<1> HIDE DEF t
<1> QED
  BY <1>1, <1>2, TimerSet DEF Done

(* What a write of the RTJ leaves behind: a cache that has it, or one that lags. *)
LEMMA StoreCases ==
  ASSUME fresh \in BOOLEAN, NEW new, StoreRTJ(new)
  PROVE  \/ new = rtj /\ UNCHANGED <<seen, fresh, queued>>
         \/ new # rtj /\ seen' = new /\ queued' = TRUE /\ fresh' = TRUE /\ fresh = TRUE
         \/ new # rtj /\ fresh' = FALSE /\ UNCHANGED <<seen, queued>>
<1>1. CASE new = rtj /\ UNCHANGED <<seen, fresh, queued, delays>>
  BY <1>1
<1>2. CASE new # rtj /\ fresh /\ seen' = new /\ queued' = TRUE /\ UNCHANGED <<fresh, delays>>
  BY <1>2
<1>3. CASE new # rtj /\ fresh /\ Late /\ fresh' = FALSE /\ UNCHANGED <<seen, queued>>
  BY <1>3
<1>4. CASE new # rtj /\ ~fresh /\ UNCHANGED <<seen, fresh, queued, delays>>
  BY <1>4
<1> QED
  BY <1>1, <1>2, <1>3, <1>4 DEF StoreRTJ

LEMMA StoreType ==
  ASSUME Types, NEW new \in RTJs, StoreRTJ(new)
  PROVE  rtj' = new /\ seen' \in RTJs /\ fresh' \in BOOLEAN /\ queued' \in BOOLEAN /\ delays' \in Nat
<1>1. rtj' = new
  BY DEF StoreRTJ
<1>2. seen' \in RTJs /\ fresh' \in BOOLEAN /\ queued' \in BOOLEAN
  BY StoreCases DEF Types
<1>3. delays' = delays \/ Late
  BY DEF StoreRTJ
<1> QED
  BY <1>1, <1>2, <1>3 DEF Types, Late

(* A pass that has a copy to write, or is done. *)
LEMMA ComparedType ==
  ASSUME Types, NEW old, NEW new \in RTJs, NEW requeue \in BOOLEAN, UpdateIfChanged(old, new, requeue)
  PROVE  /\ ctl' \in Passes /\ ctl'.pc # "patch" /\ queued' = requeue /\ wakeAt' \in Ends
         /\ wakeAt # NoTime => wakeAt' # NoTime
<1>0. wakeAt \in Ends /\ NoTime \in Ends /\ fresh \in BOOLEAN
  BY DEF Types, Ends
<1>1. CASE Done(requeue, NoTime)
  BY <1>0, <1>1, DoneType, IdlePass
<1>2. CASE Go("status", new, fresh, TRUE, NoTime) /\ queued' = requeue /\ UNCHANGED wakeAt
  BY <1>0, <1>2 DEF Go, Passes
<1> QED
  BY <1>1, <1>2 DEF UpdateIfChanged

LEMMA InitTypes == ASSUME Init PROVE Types
<1>1. rtj \in RTJs /\ seen \in RTJs
  BY InitialJob DEF Init
<1>2. Idle \in Passes /\ Idle.pc # "patch"
  BY IdlePass
<1>3. Base \in MinInt .. MaxInt /\ NoTime \in Times /\ 0 \in 0 .. MaxTime /\ 0 \in 0 .. MaxAttempts
  BY DEF Times
<1>4. NoJobSet \in [attempt : 0 .. MaxAttempts, since : Times]
  BY <1>3 DEF NoJobSet
<1> QED
  BY <1>1, <1>2, <1>3, <1>4 DEF Init, Types, Ends

(* What a pass has in its copy after the decision. *)
LEMMA DecidedType ==
  ASSUME Types, reconcilePriorityState
  PROVE  /\ ctl' \in Passes /\ ctl'.pc = "patch" /\ ctl'.job.shaping.effective \in MinInt .. MaxInt
         /\ ctl'.fresh = fresh
<1> DEFINE j == markRunning(seen)
           snap == CollectTelemetry(j, store, now)
           d == Evaluate(now, snap)
           told == syncDecisionToStatus(SyncPriorityShapingTelemetry(j.shaping, snap, now), d)
           new == [j EXCEPT !.shaping = told]
<1>1. now \in 0 .. MaxTime /\ store \in Times /\ policy \in Policies /\ fresh \in BOOLEAN
  BY DEF Types
<1>2. j \in RTJs
  BY <1>1, RunningJob DEF Types
<1> HIDE DEF j
<1>3. snap \in Snapshots
  BY <1>1, <1>2, TelemetryType
<1> HIDE DEF snap
<1>4. d \in Decisions
  BY <1>1, <1>3, DecisionType
<1> HIDE DEF d
<1>5. told \in Shapings /\ told.effective \in MinInt .. MaxInt
  <2>1. j.shaping \in Shapings
    BY <1>2 DEF RTJs
  <2>2. SyncPriorityShapingTelemetry(j.shaping, snap, now) \in Shapings
    <3>1. (IF snap.checkpoint = NoTime THEN NoTime ELSE now - snap.checkpoint) \in Int
      BY <1>1, <1>3 DEF Snapshots, Times
    <3> QED
      BY <2>1, <3>1, <1>3 DEF SyncPriorityShapingTelemetry, Shapings, Snapshots
  <2>3. d.effective \in MinInt .. MaxInt /\ d.effective \in Int /\ d.state \in PreemptionStates /\ d.until \in Ends
    BY <1>4 DEF Decisions
  <2> DEFINE tel == SyncPriorityShapingTelemetry(j.shaping, snap, now)
  <2> HIDE DEF tel
  <2>4. told = [tel EXCEPT !.effective = d.effective, !.state = d.state, !.until = d.until]
    BY DEF told, tel, syncDecisionToStatus
  <2>5. tel \in Shapings
    BY <2>2 DEF tel
  <2> HIDE DEF told
  <2> QED
    BY <2>3, <2>4, <2>5 DEF Shapings
<1> HIDE DEF told
<1>6. new \in RTJs /\ new.shaping = told
  BY <1>2, <1>5 DEF RTJs
<1> HIDE DEF new
<1>7. d.until \in Ends
  BY <1>4 DEF Decisions
<1>8. Go("patch", new, fresh, new # seen, d.until)
  BY DEF reconcilePriorityState, new, told, d, snap, j
<1>9. (new # seen) \in BOOLEAN
  OBVIOUS
<1> QED
  BY <1>1, <1>5, <1>6, <1>7, <1>8, <1>9 DEF Go, Passes

LEMMA PatchedType ==
  ASSUME Types, PatchWorkload
  PROVE  /\ ctl' \in Passes /\ ctl'.pc # "patch" /\ queued' = queued /\ wakeAt' \in Ends
         /\ priority' \in MinInt .. MaxInt /\ (wakeAt # NoTime => wakeAt' # NoTime)
<1> DEFINE notes == syncPriorityAnnotations(ctl.job.notes, ctl.job.shaping)
           j == [ctl.job EXCEPT !.cond = "Active", !.notes = notes]
           changed == ctl.changed \/ ctl.job.cond # "Active"
<1>1. ctl.job \in RTJs /\ ctl.fresh \in BOOLEAN /\ ctl.until \in Ends /\ wakeAt \in Ends
  BY DEF Types, Passes
<1>2. notes \in Notes
  BY <1>1 DEF syncPriorityAnnotations, RTJs, Shapings, Notes
<1> HIDE DEF notes
<1>3. j \in RTJs
  BY <1>1, <1>2 DEF RTJs, ShapingConditions
<1>4. changed \in BOOLEAN
  OBVIOUS
<1> HIDE DEF j, changed
<1>5. priority' \in MinInt .. MaxInt
  BY DEF PatchWorkload, patchWorkloadPriority, Types
<1>6. \/ Go("annotate", j, ctl.fresh, changed, ctl.until) /\ UNCHANGED <<queued, wakeAt>>
      \/ Go("status", j, ctl.fresh, changed, ctl.until) /\ UNCHANGED <<queued, wakeAt>>
      \/ Done(queued, ctl.until)
  BY Zenon DEF PatchWorkload, j, changed, notes
<1>7. CASE Go("annotate", j, ctl.fresh, changed, ctl.until) /\ UNCHANGED <<queued, wakeAt>>
  BY <1>1, <1>3, <1>4, <1>5, <1>7 DEF Go, Passes
<1>8. CASE Go("status", j, ctl.fresh, changed, ctl.until) /\ UNCHANGED <<queued, wakeAt>>
  BY <1>1, <1>3, <1>4, <1>5, <1>8 DEF Go, Passes
<1>9. CASE Done(queued, ctl.until)
  BY <1>1, <1>5, <1>9, DoneType, IdlePass
<1> QED
  BY <1>6, <1>7, <1>8, <1>9

LEMMA PatchFailsType ==
  ASSUME Types, PatchFails
  PROVE  /\ ctl' \in Passes /\ ctl'.pc # "patch" /\ queued' = queued /\ wakeAt' \in Ends
         /\ wakeAt # NoTime => wakeAt' # NoTime
<1> DEFINE j == [ctl.job EXCEPT !.cond = "WorkloadPatchFailed"]
<1>1. ctl.fresh \in BOOLEAN /\ wakeAt \in Ends /\ NoTime \in Ends
  BY DEF Types, Passes, Ends
<1>2. j \in RTJs
  BY DEF Types, Passes, RTJs, ShapingConditions
<1> HIDE DEF j
<1>3. \/ Go("status", j, ctl.fresh, TRUE, NoTime) /\ UNCHANGED <<queued, wakeAt>>
      \/ Done(queued, NoTime)
  BY Zenon DEF PatchFails, j
<1>4. CASE Go("status", j, ctl.fresh, TRUE, NoTime) /\ UNCHANGED <<queued, wakeAt>>
  BY <1>1, <1>2, <1>4 DEF Go, Passes
<1>5. CASE Done(queued, NoTime)
  BY <1>1, <1>5, DoneType, IdlePass
<1> QED
  BY <1>3, <1>4, <1>5

LEMMA NextTypes ==
  ASSUME Types, [Next]_vars
  PROVE  Types'
<1> USE DEF World, RTJ, Workload, effective
<1>1. CASE ObserveUnshaped
  <2>1. markRunning(seen) \in RTJs
    BY RunningJob DEF Types
  <2>2. UpdateIfChanged(seen, markRunning(seen), FALSE) /\ UNCHANGED <<World, RTJ, Workload, jobSet, faults>>
    BY <1>1 DEF ObserveUnshaped
  <2>3. ctl' \in Passes /\ ctl'.pc # "patch" /\ queued' = FALSE /\ wakeAt' \in Ends
    BY <2>1, <2>2, ComparedType
  <2> QED
    BY <2>2, <2>3 DEF Types
<1>2. CASE ResolveFails
  <2> DEFINE j == [markRunning(seen) EXCEPT !.cond = "PolicyResolutionFailed"]
  <2>1. markRunning(seen) \in RTJs
    BY RunningJob DEF Types
  <2>2. j \in RTJs
    BY <2>1 DEF RTJs, ShapingConditions
  <2> HIDE DEF j
  <2>3. UpdateIfChanged(seen, j, FALSE) /\ UNCHANGED <<World, RTJ, Workload, jobSet>> /\ Fault
    BY <1>2 DEF ResolveFails, j
  <2>4. ctl' \in Passes /\ ctl'.pc # "patch" /\ queued' = FALSE /\ wakeAt' \in Ends
    BY <2>2, <2>3, ComparedType
  <2>5. faults' \in Nat
    BY <2>3 DEF Types, Fault
  <2> QED
    BY <2>3, <2>4, <2>5 DEF Types
<1>3. CASE reconcilePriorityState
  <2>1. UNCHANGED <<World, RTJ, Workload, jobSet, wakeAt, faults>> /\ queued' = FALSE
    BY <1>3 DEF reconcilePriorityState
  <2>2. ctl' \in Passes /\ ctl'.job.shaping.effective \in MinInt .. MaxInt
    BY <1>3, DecidedType
  <2> QED
    BY <2>1, <2>2 DEF Types
<1>4. CASE PatchWorkload
  <2>1. UNCHANGED <<World, RTJ, cached, jobSet, faults>> /\ misled' \in BOOLEAN
    BY <1>4 DEF PatchWorkload, patchWorkloadPriority
  <2>2. /\ ctl' \in Passes /\ ctl'.pc # "patch" /\ queued' = queued /\ wakeAt' \in Ends
        /\ priority' \in MinInt .. MaxInt
    BY <1>4, PatchedType
  <2> QED
    BY <2>1, <2>2 DEF Types
<1>5. CASE PatchFails
  <2>1. UNCHANGED <<World, RTJ, Workload, jobSet>> /\ Fault
    BY <1>5 DEF PatchFails
  <2> QED
    BY <1>5, <2>1, PatchFailsType DEF Types, Fault
<1>6. CASE UpdateAnnotations
  <2> DEFINE new == [rtj EXCEPT !.notes = ctl.job.notes]
             back == ReadBack(ctl.job, rtj)
  <2>1. ctl.job \in RTJs /\ ctl.changed \in BOOLEAN /\ ctl.until \in Ends /\ rtj \in RTJs
    BY DEF Types, Passes
  <2>2. new \in RTJs
    BY <2>1 DEF RTJs
  <2>3. back \in RTJs
    BY <2>1 DEF RTJs, ReadBack
  <2> HIDE DEF new, back
  <2>4. StoreRTJ(new) /\ Go("status", back, TRUE, ctl.changed, ctl.until)
        /\ UNCHANGED <<World, Workload, jobSet, wakeAt, faults>>
    BY <1>6 DEF UpdateAnnotations, new, back
  <2>5. ctl' \in Passes /\ ctl'.pc # "patch"
    BY <2>1, <2>3, <2>4 DEF Go, Passes
  <2> QED
    BY <2>2, <2>4, <2>5, StoreType DEF Types
<1>7. CASE StatusUpdate
  <2> DEFINE t == IF ctl.until = NoTime THEN NoTime ELSE ctl.until + 1
  <2>1. ctl.job \in RTJs /\ t \in Ends /\ wakeAt \in Ends
    BY DEF Types, Passes, Ends
  <2>2. StoreRTJ(ctl.job) /\ ctl' = Idle /\ RequeueAt(t) /\ UNCHANGED <<World, Workload, jobSet, faults>>
    BY <1>7 DEF StatusUpdate
  <2> HIDE DEF t
  <2>3. wakeAt' \in Ends
    BY <2>1, <2>2, TimerSet
  <2> QED
    BY <2>1, <2>2, <2>3, StoreType, IdlePass DEF Types
<1>8. CASE Conflict
  <2>1. Done(TRUE, NoTime) /\ UNCHANGED <<World, RTJ, Workload, jobSet, faults>> /\ NoTime \in Ends /\ wakeAt \in Ends
    BY <1>8 DEF Conflict, Types, Ends
  <2> QED
    BY <2>1, DoneType, IdlePass DEF Types
<1>9. CASE Launch
  <2> DEFINE n == seen.attempt + 1
             new == [seen EXCEPT !.attempt = n,
                       !.phase = IF seen.checkpoint # NoTime THEN "Restoring" ELSE "Starting",
                       !.startingAt = IF seen.checkpoint # NoTime THEN @ ELSE now,
                       !.restoringAt = IF seen.checkpoint # NoTime THEN now ELSE @]
  <2>1. seen.attempt \in 0 .. MaxAttempts /\ now \in 0 .. MaxTime /\ fresh \in BOOLEAN /\ NoTime \in Ends
    BY DEF Types, RTJs, Ends
  <2>2. n \in 0 .. MaxAttempts
    BY <1>9, <2>1 DEF Launch
  <2>3. new \in RTJs
    <3>1. now \in Times /\ {"Restoring", "Starting"} \subseteq Phases
      BY <2>1 DEF Times, Phases
    <3>2. seen \in RTJs
      BY DEF Types
    <3> HIDE DEF n
    <3> QED
      BY <2>2, <3>1, <3>2 DEF RTJs
  <2>4. jobSet' = IF jobSet.attempt = n THEN jobSet ELSE [attempt |-> n, since |-> now]
    BY <1>9 DEF Launch
  <2>5. jobSet' \in [attempt : 0 .. MaxAttempts, since : Times]
    <3> HIDE DEF n
    <3> QED
      BY <2>1, <2>2, <2>4 DEF Types, Times
  <2>6. Go("status", new, fresh, TRUE, NoTime) /\ queued' = TRUE /\ UNCHANGED <<World, RTJ, Workload, wakeAt, faults>>
    BY <1>9 DEF Launch
  <2> HIDE DEF new
  <2>7. ctl' \in Passes /\ ctl'.pc # "patch"
    BY <2>1, <2>3, <2>6 DEF Go, Passes
  <2> QED
    BY <2>5, <2>6, <2>7 DEF Types
<1>10. CASE Stop
  <2>1. UNCHANGED <<World, RTJ, Workload, faults>>
    BY <1>10 DEF Stop
  <2>2. seen \in RTJs /\ store \in Times /\ fresh \in BOOLEAN /\ NoTime \in Ends /\ wakeAt \in Ends
    BY DEF Types, Ends
  <2>3. CASE seen.phase # "Draining" \/ seen.checkpoint # store
    <3> DEFINE new == IF seen.phase \in {"YieldRequested", "Draining"} /\ store # NoTime
                      THEN [seen EXCEPT !.phase = "Draining", !.checkpoint = store]
                      ELSE [seen EXCEPT !.phase = "YieldRequested"]
    <3>1. Go("status", new, fresh, TRUE, NoTime) /\ queued' = TRUE /\ UNCHANGED <<jobSet, wakeAt>>
      BY <1>10, <2>3 DEF Stop
    <3>2. new \in RTJs
      BY <2>2 DEF RTJs, Phases
    <3> HIDE DEF new
    <3>3. ctl' \in Passes /\ ctl'.pc # "patch"
      BY <2>2, <3>1, <3>2 DEF Go, Passes
    <3> QED
      BY <2>1, <3>1, <3>3 DEF Types
  <2>4. CASE seen.phase = "Draining" /\ seen.checkpoint = store
    <3>1. jobSet' = NoJobSet /\ Done(TRUE, NoTime)
      BY <1>10, <2>4 DEF Stop
    <3>2. jobSet' \in [attempt : 0 .. MaxAttempts, since : Times]
      <4>1. 0 \in 0 .. MaxAttempts /\ NoTime \in Times
        BY DEF Times
      <4> QED
        BY <3>1, <4>1 DEF NoJobSet
    <3> QED
      BY <2>1, <2>2, <3>1, <3>2, DoneType, IdlePass DEF Types
  <2> QED
    BY <2>3, <2>4
<1>11. CASE DeferUntilAdmitted
  <2> DEFINE j == [seen EXCEPT !.phase = "Queued"]
  <2>1. j \in RTJs
    BY DEF Types, RTJs, Phases
  <2>2. UpdateIfChanged(seen, j, FALSE) /\ UNCHANGED <<World, RTJ, Workload, jobSet, faults>>
    BY <1>11 DEF DeferUntilAdmitted
  <2> HIDE DEF j
  <2>3. ctl' \in Passes /\ ctl'.pc # "patch" /\ queued' = FALSE /\ wakeAt' \in Ends
    BY <2>1, <2>2, ComparedType
  <2> QED
    BY <2>2, <2>3 DEF Types
<1>12. ASSUME NEW new \in RTJs, SpecWrite(new) PROVE Types'
  <2>1. StoreRTJ(new) /\ ctl' = [ctl EXCEPT !.fresh = FALSE] /\ UNCHANGED <<World, Workload, jobSet, wakeAt, faults>>
    BY <1>12 DEF SpecWrite
  <2>2. ctl' \in Passes /\ ctl'.pc = ctl.pc /\ ctl'.job = ctl.job
    BY <2>1 DEF Types, Passes
  <2> QED
    BY <2>1, <2>2, StoreType DEF Types
<1>13. CASE KueueUnsuspends
  <2>1. [rtj EXCEPT !.suspend = FALSE] \in RTJs
    BY DEF Types, RTJs
  <2> QED
    BY <1>12, <1>13, <2>1 DEF KueueUnsuspends
<1>14. CASE KueueSuspends
  <2>1. [rtj EXCEPT !.suspend = TRUE] \in RTJs
    BY DEF Types, RTJs
  <2> QED
    BY <1>12, <1>14, <2>1 DEF KueueSuspends
<1>15. CASE TrainerCheckpoints
  BY <1>15 DEF TrainerCheckpoints, Types, Times
<1>16. CASE Tick
  <2>1. now' \in 0 .. MaxTime /\ delays' \in Nat
    BY <1>16 DEF Tick, Types, Late
  <2> QED
    BY <1>16, <2>1 DEF Tick, Types
<1>17. CASE Timer
  BY <1>17 DEF Timer, Types, Ends
<1>18. CASE Deliver
  BY <1>18 DEF Deliver, Types
<1>19. CASE DeliverWorkload
  BY <1>19 DEF DeliverWorkload, Types
<1>20. CASE Restart
  BY <1>20, IdlePass DEF Restart, Types, Fault, Ends
<1>21. CASE UNCHANGED vars
  BY <1>21 DEF vars, Types
<1> QED
  BY <1>1, <1>2, <1>3, <1>4, <1>5, <1>6, <1>7, <1>8, <1>9, <1>10, <1>11, <1>13, <1>14, <1>15,
     <1>16, <1>17, <1>18, <1>19, <1>20, <1>21 DEF Next, Reconcile

(* The effective priority stays an int32 for every base, boost, offset and bound of the policy,
   and the timestamps stay times that have been. *)
THEOREM TypeCorrect == Spec => []TypeOK
<1>1. Types => TypeOK
  BY DEF Types, TypeOK, Passes, RTJs, Shapings, Times, Ends
<1> QED
  BY <1>1, InitTypes, NextTypes, PTL DEF Spec

-----------------------------------------------------------------------------
\* Annotations and status

Agrees(j) == j.notes = [effective |-> j.shaping.effective, state |-> j.shaping.state]

(* Nothing is under way for the controller, and its copy is the RTJ. *)
Quiet == ctl.pc = "idle" /\ ~queued /\ fresh

(* No event is due that the pass has not seen. *)
Alone == ~queued /\ fresh

(* The copies: of one RTJ, and with an active condition only when it refers to a policy. *)
CopiesInv ==
    /\ fresh => seen = rtj
    /\ ctl.fresh => ctl.pc # "idle"
    /\ seen.policyRef = rtj.policyRef
    /\ ctl.pc # "idle" => ctl.job.policyRef = rtj.policyRef
    /\ ctl.pc = "patch" => rtj.policyRef
    /\ ~rtj.policyRef => rtj.cond # "Active" /\ seen.cond # "Active" /\ ctl.job.cond # "Active"

(* What a pass holds, and what it leaves when it is done. *)
NotesInv ==
    /\ Quiet /\ rtj.phase = "Running" /\ rtj.cond = "Active" => Agrees(rtj)
    /\ ctl.pc = "patch" /\ ctl.fresh => ctl.job.notes = rtj.notes
    /\ ctl.pc = "annotate" /\ ctl.fresh => ctl.job.notes # rtj.notes
    /\ ctl.pc = "patch" /\ Alone => ctl.job.cond = rtj.cond /\ (~ctl.changed => ctl.job = rtj)
    /\ ctl.pc \in {"annotate", "status"} /\ Alone /\ ctl.job.phase = "Running" /\ ctl.job.cond = "Active"
        => Agrees(ctl.job)

OtherPriorities == {computeEffectivePriority(a) : a \in {0, policy.cooldown, policy.offset}}

(* A boost comes with a timer, on its way through the pass and after it, or is there because the
   last pass was misled. *)
TimedInv ==
    /\ Quiet /\ rtj.phase = "Running" /\ rtj.policyRef /\ rtj.cond = "Active"
        => wakeAt # NoTime \/ priority \in OtherPriorities \/ misled
    /\ ctl.pc = "patch" => ctl.until # NoTime \/ effective \in OtherPriorities
    /\ ctl.pc = "annotate" => ctl.until # NoTime \/ priority \in OtherPriorities \/ misled
    /\ ctl.pc = "status" /\ ctl.job.phase = "Running" /\ ctl.job.policyRef /\ ctl.job.cond = "Active"
        => ctl.until # NoTime \/ priority \in OtherPriorities \/ misled

(* A copy of a run knows when it was launched. *)
KnowsLaunch(run, j) ==
    j.attempt # 0 /\ run.attempt = j.attempt =>
        \/ j.startingAt >= run.since
        \/ j.restoringAt >= run.since /\ (j.phase = "Running" => j.runningAt >= run.since)

RunsInv ==
    /\ jobSet.attempt # 0 => jobSet.since \in 0 .. now
    /\ KnowsLaunch(jobSet, rtj) /\ KnowsLaunch(jobSet, seen) /\ KnowsLaunch(jobSet, ctl.job)
    /\ rtj.attempt # seen.attempt => rtj.attempt = seen.attempt + 1 /\ jobSet.attempt = rtj.attempt
    /\ ctl.fresh => seen.attempt = rtj.attempt
    /\ ctl.fresh /\ ctl.job.attempt # rtj.attempt
        => ctl.job.attempt = rtj.attempt + 1 /\ jobSet.attempt = ctl.job.attempt
    /\ ctl.pc = "patch" => effective >= Base \/ now >= jobSet.since + policy.protection

LEMMA ComparedCases ==
  ASSUME NEW old, NEW new, NEW requeue, UpdateIfChanged(old, new, requeue)
  PROVE  /\ queued' = requeue
         /\ \/ new = old /\ ctl' = Idle
            \/ new # old /\ UNCHANGED wakeAt
               /\ ctl' = [pc |-> "status", job |-> new, fresh |-> fresh, changed |-> TRUE, until |-> NoTime]
  BY Zenon DEF UpdateIfChanged, Done, Go

LEMMA RunningFields ==
  ASSUME NEW j \in RTJs
  PROVE  LET r == markRunning(j)
         IN  /\ r.policyRef = j.policyRef /\ r.cond = j.cond /\ r.notes = j.notes /\ r.attempt = j.attempt
             /\ r.phase = "Running" /\ r.startingAt = j.startingAt /\ r.restoringAt = j.restoringAt
             /\ r.runningAt = IF j.phase = "Running" THEN j.runningAt ELSE now
             /\ r.shaping = j.shaping
  BY DEF markRunning, RTJs

LEMMA IdleJob ==
  /\ Idle.pc = "idle" /\ ~Idle.fresh /\ Idle.job.cond # "Active" /\ Idle.job.attempt = 0
  BY DEF Idle, NewRTJ, Unset

(* The copy that the pass goes on with after the decision. *)
LEMMA DecidedFields ==
  ASSUME Types, reconcilePriorityState
  PROVE  /\ ctl'.pc = "patch" /\ ctl'.fresh = fresh /\ queued' = FALSE
         /\ ctl'.changed = (ctl'.job # seen)
         /\ ctl'.job.policyRef = seen.policyRef /\ ctl'.job.cond = seen.cond
         /\ ctl'.job.notes = seen.notes /\ ctl'.job.attempt = seen.attempt /\ ctl'.job.phase = "Running"
         /\ ctl'.job.startingAt = seen.startingAt /\ ctl'.job.restoringAt = seen.restoringAt
         /\ ctl'.job.runningAt = IF seen.phase = "Running" THEN seen.runningAt ELSE now
<1> DEFINE j == markRunning(seen)
           snap == CollectTelemetry(j, store, now)
           d == Evaluate(now, snap)
           told == syncDecisionToStatus(SyncPriorityShapingTelemetry(j.shaping, snap, now), d)
           new == [j EXCEPT !.shaping = told]
<1>1. Go("patch", new, fresh, new # seen, d.until) /\ queued' = FALSE
  BY DEF reconcilePriorityState
<1>2. j \in RTJs
  BY RunningJob DEF Types
<1> HIDE DEF j, told, d
<1>3. /\ new.policyRef = j.policyRef /\ new.cond = j.cond /\ new.notes = j.notes /\ new.attempt = j.attempt
      /\ new.phase = j.phase /\ new.startingAt = j.startingAt /\ new.restoringAt = j.restoringAt
      /\ new.runningAt = j.runningAt
  BY <1>2 DEF RTJs
<1> HIDE DEF new
<1>4. ctl' = [pc |-> "patch", job |-> new, fresh |-> fresh, changed |-> new # seen, until |-> d.until]
  BY <1>1 DEF Go
<1>5. seen \in RTJs
  BY DEF Types
<1> QED
  BY <1>1, <1>3, <1>4, <1>5, RunningFields DEF j

(* The copy after the patch. *)
LEMMA PatchedFields ==
  ASSUME Types, PatchWorkload
  PROVE  LET changed == ctl.changed \/ ctl.job.cond # "Active"
         IN  /\ queued' = queued /\ UNCHANGED <<now, policy, store, rtj, seen, fresh, jobSet>>
             /\ \/ /\ ctl'.pc \in {"annotate", "status"} /\ ctl'.fresh = ctl.fresh /\ wakeAt' = wakeAt
                   /\ ctl'.until = ctl.until /\ Agrees(ctl'.job) /\ ctl'.job.policyRef = ctl.job.policyRef
                   /\ ctl'.job.cond = "Active" /\ ctl'.job.phase = ctl.job.phase
                   /\ ctl'.job.attempt = ctl.job.attempt /\ ctl'.job.startingAt = ctl.job.startingAt
                   /\ ctl'.job.restoringAt = ctl.job.restoringAt /\ ctl'.job.runningAt = ctl.job.runningAt
                   /\ ctl'.pc = "annotate" => ctl'.job.notes # ctl.job.notes
                \/ /\ ctl' = Idle /\ Agrees(ctl.job) /\ ~ctl.changed
                   /\ ctl.until # NoTime \/ wakeAt # NoTime => wakeAt' # NoTime
<1> DEFINE notes == syncPriorityAnnotations(ctl.job.notes, ctl.job.shaping)
           j == [ctl.job EXCEPT !.cond = "Active", !.notes = notes]
           changed == ctl.changed \/ ctl.job.cond # "Active"
<1>1. ctl.job \in RTJs /\ ctl.until \in Ends /\ wakeAt \in Ends
  BY DEF Types, Passes
<1>2. notes = [effective |-> ctl.job.shaping.effective, state |-> ctl.job.shaping.state]
  BY DEF syncPriorityAnnotations
<1> HIDE DEF notes
<1>3. /\ j.notes = notes /\ j.cond = "Active" /\ j.shaping = ctl.job.shaping /\ j.policyRef = ctl.job.policyRef
      /\ j.phase = ctl.job.phase /\ j.attempt = ctl.job.attempt /\ j.startingAt = ctl.job.startingAt
      /\ j.restoringAt = ctl.job.restoringAt /\ j.runningAt = ctl.job.runningAt
  BY <1>1 DEF RTJs
<1>4. Agrees(j)
  BY <1>2, <1>3 DEF Agrees
<1> HIDE DEF j
<1>5. queued' = queued /\ UNCHANGED <<now, policy, store, rtj, seen, fresh, jobSet>>
  BY PatchedType DEF PatchWorkload, World, RTJ
<1> HIDE DEF changed
<1>6. \/ notes # ctl.job.notes /\ Go("annotate", j, ctl.fresh, changed, ctl.until) /\ UNCHANGED <<queued, wakeAt>>
      \/ Go("status", j, ctl.fresh, changed, ctl.until) /\ UNCHANGED <<queued, wakeAt>>
      \/ notes = ctl.job.notes /\ ~changed /\ Done(queued, ctl.until)
  BY Zenon DEF PatchWorkload, j, changed, notes
<1>7. CASE notes # ctl.job.notes /\ Go("annotate", j, ctl.fresh, changed, ctl.until) /\ UNCHANGED <<queued, wakeAt>>
  BY <1>3, <1>4, <1>5, <1>7 DEF Go
<1>8. CASE Go("status", j, ctl.fresh, changed, ctl.until) /\ UNCHANGED <<queued, wakeAt>>
  BY <1>3, <1>4, <1>5, <1>8 DEF Go
<1>9. CASE notes = ctl.job.notes /\ ~changed /\ Done(queued, ctl.until)
  <2>1. ctl' = Idle /\ (ctl.until # NoTime \/ wakeAt # NoTime => wakeAt' # NoTime)
    BY <1>1, <1>9, DoneType
  <2>2. Agrees(ctl.job) /\ ~ctl.changed
    BY <1>2, <1>9 DEF Agrees, changed
  <2> QED
    BY <2>1, <2>2, <1>5
<1> QED
  BY <1>6, <1>7, <1>8, <1>9

LEMMA PatchFailsFields ==
  ASSUME Types, PatchFails
  PROVE  /\ queued' = queued /\ UNCHANGED <<now, policy, store, rtj, seen, fresh, jobSet, priority, cached>>
         /\ \/ /\ ctl'.pc = "status" /\ ctl'.fresh = ctl.fresh /\ ctl'.job.cond = "WorkloadPatchFailed"
               /\ ctl'.job.policyRef = ctl.job.policyRef /\ ctl'.job.phase = ctl.job.phase
               /\ ctl'.job.attempt = ctl.job.attempt /\ ctl'.job.startingAt = ctl.job.startingAt
               /\ ctl'.job.restoringAt = ctl.job.restoringAt /\ ctl'.job.runningAt = ctl.job.runningAt
            \/ ctl' = Idle /\ ctl.job.cond = "WorkloadPatchFailed"
<1> DEFINE j == [ctl.job EXCEPT !.cond = "WorkloadPatchFailed"]
<1>1. ctl.job \in RTJs
  BY DEF Types, Passes
<1>2. /\ j.cond = "WorkloadPatchFailed" /\ j.policyRef = ctl.job.policyRef /\ j.phase = ctl.job.phase
      /\ j.attempt = ctl.job.attempt /\ j.startingAt = ctl.job.startingAt
      /\ j.restoringAt = ctl.job.restoringAt /\ j.runningAt = ctl.job.runningAt
  BY <1>1 DEF RTJs
<1> HIDE DEF j
<1>3. \/ Go("status", j, ctl.fresh, TRUE, NoTime)
      \/ j = ctl.job /\ ctl' = Idle
  BY Zenon DEF PatchFails, j, Done
<1>4. queued' = queued /\ UNCHANGED <<now, policy, store, rtj, seen, fresh, jobSet, priority, cached>>
  BY PatchFailsType DEF PatchFails, World, RTJ, Workload
<1> QED
  BY <1>2, <1>3, <1>4 DEF Go

LEMMA LaunchFields ==
  ASSUME Types, Launch
  PROVE  /\ queued' = TRUE /\ UNCHANGED <<now, policy, store, rtj, seen, fresh, priority, cached, wakeAt>>
         /\ jobSet' = IF jobSet.attempt = seen.attempt + 1 THEN jobSet ELSE [attempt |-> seen.attempt + 1, since |-> now]
         /\ ctl'.pc = "status" /\ ctl'.fresh = fresh /\ ctl'.job.policyRef = seen.policyRef
         /\ ctl'.job.cond = seen.cond /\ ctl'.job.attempt = seen.attempt + 1 /\ ctl'.job.phase # "Running"
         /\ ctl'.job.startingAt = now \/ ctl'.job.restoringAt = now
<1> DEFINE new == [seen EXCEPT !.attempt = seen.attempt + 1,
                       !.phase = IF seen.checkpoint # NoTime THEN "Restoring" ELSE "Starting",
                       !.startingAt = IF seen.checkpoint # NoTime THEN @ ELSE now,
                       !.restoringAt = IF seen.checkpoint # NoTime THEN now ELSE @]
<1>1. seen \in RTJs
  BY DEF Types
<1>2. /\ new.policyRef = seen.policyRef /\ new.cond = seen.cond /\ new.attempt = seen.attempt + 1
      /\ new.phase # "Running" /\ (new.startingAt = now \/ new.restoringAt = now)
  BY <1>1 DEF RTJs
<1>3. Go("status", new, fresh, TRUE, NoTime)
  BY DEF Launch
<1> HIDE DEF new
<1>4. ctl' = [pc |-> "status", job |-> new, fresh |-> fresh, changed |-> TRUE, until |-> NoTime]
  BY <1>3 DEF Go
<1>5. /\ queued' = TRUE /\ UNCHANGED <<now, policy, store, rtj, seen, fresh, priority, cached, wakeAt>>
      /\ jobSet' = IF jobSet.attempt = seen.attempt + 1 THEN jobSet ELSE [attempt |-> seen.attempt + 1, since |-> now]
  BY DEF Launch, World, RTJ, Workload
<1> QED
  BY <1>2, <1>4, <1>5

LEMMA StopFields ==
  ASSUME Types, Stop
  PROVE  /\ queued' = TRUE /\ UNCHANGED <<now, policy, store, rtj, seen, fresh, priority, cached>>
         /\ \/ /\ ctl'.pc = "status" /\ ctl'.fresh = fresh /\ jobSet' = jobSet
               /\ ctl'.job.policyRef = seen.policyRef /\ ctl'.job.cond = seen.cond
               /\ ctl'.job.attempt = seen.attempt /\ ctl'.job.phase # "Running"
               /\ ctl'.job.startingAt = seen.startingAt /\ ctl'.job.restoringAt = seen.restoringAt
            \/ ctl' = Idle /\ jobSet' = NoJobSet /\ jobSet.attempt = seen.attempt
<1> DEFINE new == IF seen.phase \in {"YieldRequested", "Draining"} /\ store # NoTime
                  THEN [seen EXCEPT !.phase = "Draining", !.checkpoint = store]
                  ELSE [seen EXCEPT !.phase = "YieldRequested"]
<1>1. seen \in RTJs
  BY DEF Types
<1>2. /\ new.policyRef = seen.policyRef /\ new.cond = seen.cond /\ new.attempt = seen.attempt
      /\ new.phase # "Running" /\ new.startingAt = seen.startingAt /\ new.restoringAt = seen.restoringAt
  BY <1>1 DEF RTJs
<1>3. UNCHANGED <<now, policy, store, rtj, seen, fresh, priority, cached>>
  BY DEF Stop, World, RTJ, Workload
<1>4. \/ Go("status", new, fresh, TRUE, NoTime) /\ queued' = TRUE /\ UNCHANGED jobSet
      \/ jobSet' = NoJobSet /\ ctl' = Idle /\ queued' = TRUE /\ jobSet.attempt = seen.attempt
  BY DEF Stop, Done, getActiveJobSet
<1> HIDE DEF new
<1>5. CASE Go("status", new, fresh, TRUE, NoTime) /\ queued' = TRUE /\ UNCHANGED jobSet
  BY <1>2, <1>3, <1>5 DEF Go
<1>6. CASE jobSet' = NoJobSet /\ ctl' = Idle /\ queued' = TRUE /\ jobSet.attempt = seen.attempt
  BY <1>3, <1>6
<1> QED
  BY <1>4, <1>5, <1>6

LEMMA AnnotatedFields ==
  ASSUME Types, UpdateAnnotations
  PROVE  /\ UNCHANGED <<now, policy, store, priority, cached, misled, jobSet, wakeAt>>
         /\ ctl.pc = "annotate" /\ ctl.fresh /\ StoreRTJ([rtj EXCEPT !.notes = ctl.job.notes])
         /\ ctl'.pc = "status" /\ ctl'.fresh = TRUE /\ ctl'.until = ctl.until
         /\ ctl'.job.policyRef = rtj.policyRef /\ ctl'.job.attempt = rtj.attempt
         /\ ctl'.job.phase = rtj.phase /\ ctl'.job.startingAt = rtj.startingAt
         /\ ctl'.job.restoringAt = rtj.restoringAt
         /\ ctl'.job.cond = IF rtj.cond = Unset THEN ctl.job.cond ELSE rtj.cond
         /\ ctl'.job.runningAt = IF rtj.runningAt = NoTime THEN ctl.job.runningAt ELSE rtj.runningAt
<1> DEFINE back == ReadBack(ctl.job, rtj)
<1>1. rtj \in RTJs
  BY DEF Types
<1>2. /\ back.policyRef = rtj.policyRef /\ back.attempt = rtj.attempt
      /\ back.phase = rtj.phase /\ back.startingAt = rtj.startingAt
      /\ back.restoringAt = rtj.restoringAt
      /\ back.cond = IF rtj.cond = Unset THEN ctl.job.cond ELSE rtj.cond
      /\ back.runningAt = IF rtj.runningAt = NoTime THEN ctl.job.runningAt ELSE rtj.runningAt
  BY <1>1 DEF RTJs, ReadBack
<1> HIDE DEF back
<1>3. ctl' = [pc |-> "status", job |-> back, fresh |-> TRUE, changed |-> ctl.changed, until |-> ctl.until]
  BY DEF UpdateAnnotations, Go, back
<1>4. /\ UNCHANGED <<now, policy, store, priority, cached, misled, jobSet, wakeAt>>
      /\ ctl.pc = "annotate" /\ ctl.fresh /\ StoreRTJ([rtj EXCEPT !.notes = ctl.job.notes])
  BY DEF UpdateAnnotations, World, Workload
<1> QED
  BY <1>2, <1>3, <1>4

LEMMA InitCopies == ASSUME Init PROVE CopiesInv /\ NotesInv
<1>1. ctl.pc = "idle" /\ ~ctl.fresh /\ ctl.job.cond # "Active"
  BY IdleJob DEF Init
<1>2. rtj.cond # "Active" /\ seen = rtj /\ queued = TRUE
  BY DEF Init, NewRTJ, Unset
<1> QED
  BY <1>1, <1>2 DEF CopiesInv, NotesInv, Quiet, Alone

(* Writes of the RTJ keep the cache right, and the policy that the copies refer to. *)
LEMMA StoreCopies ==
  ASSUME Types, CopiesInv, NEW new \in RTJs, StoreRTJ(new), new.policyRef = rtj.policyRef,
         ~rtj.policyRef => new.cond # "Active"
  PROVE  /\ rtj' = new /\ (fresh' => seen' = rtj') /\ seen'.policyRef = rtj'.policyRef
         /\ rtj'.policyRef = rtj.policyRef
         /\ ~rtj'.policyRef => rtj'.cond # "Active" /\ seen'.cond # "Active"
<1>1. rtj' = new /\ fresh \in BOOLEAN
  BY DEF StoreRTJ, Types
<1>2. CASE new = rtj /\ UNCHANGED <<seen, fresh, queued>>
  BY <1>1, <1>2 DEF CopiesInv
<1>3. CASE new # rtj /\ seen' = new
  BY <1>1, <1>3
<1>4. CASE new # rtj /\ fresh' = FALSE /\ UNCHANGED seen
  BY <1>1, <1>4 DEF CopiesInv
<1> QED
  BY <1>1, <1>2, <1>3, <1>4, StoreCases

(* A step that leaves the RTJ and its cache alone, and goes on with a copy of the same RTJ. *)
LEMMA PassCopies ==
  ASSUME Types, CopiesInv, UNCHANGED <<rtj, seen, fresh>>, ctl'.pc # "idle",
         ctl'.job.policyRef = rtj.policyRef, ctl'.pc = "patch" => rtj.policyRef,
         ~rtj.policyRef => ctl'.job.cond # "Active"
  PROVE  CopiesInv'
  BY DEF CopiesInv

LEMMA DoneCopies ==
  ASSUME CopiesInv, UNCHANGED <<rtj, seen, fresh>>, ctl' = Idle
  PROVE  CopiesInv'
  BY IdleJob DEF CopiesInv

LEMMA NextCopies ==
  ASSUME Types, CopiesInv, [Next]_vars
  PROVE  CopiesInv'
<1>0. seen \in RTJs /\ rtj \in RTJs /\ seen.policyRef = rtj.policyRef
  BY DEF Types, CopiesInv
<1>1. CASE ObserveUnshaped
  <2>1. /\ UpdateIfChanged(seen, markRunning(seen), FALSE) /\ UNCHANGED <<rtj, seen, fresh>>
    BY <1>1 DEF ObserveUnshaped, RTJ
  <2>2. markRunning(seen).policyRef = seen.policyRef /\ markRunning(seen).cond = seen.cond
    BY <1>0, RunningFields
  <2>3. CASE ctl' = Idle
    BY <2>1, <2>3, DoneCopies
  <2>4. CASE ctl' = [pc |-> "status", job |-> markRunning(seen), fresh |-> fresh, changed |-> TRUE, until |-> NoTime]
    BY <1>0, <2>1, <2>2, <2>4, PassCopies DEF CopiesInv
  <2> QED
    BY <2>1, <2>3, <2>4, ComparedCases
<1>2. CASE ResolveFails
  <2> DEFINE j == [markRunning(seen) EXCEPT !.cond = "PolicyResolutionFailed"]
  <2>1. /\ UpdateIfChanged(seen, j, FALSE) /\ UNCHANGED <<rtj, seen, fresh>>
    BY <1>2 DEF ResolveFails, RTJ
  <2>2. j.policyRef = seen.policyRef /\ j.cond = "PolicyResolutionFailed"
    <3>1. markRunning(seen) \in RTJs
      BY RunningJob DEF Types
    <3> QED
      BY <1>0, <3>1, RunningFields DEF RTJs
  <2> HIDE DEF j
  <2>3. CASE ctl' = Idle
    BY <2>1, <2>3, DoneCopies
  <2>4. CASE ctl' = [pc |-> "status", job |-> j, fresh |-> fresh, changed |-> TRUE, until |-> NoTime]
    BY <1>0, <2>1, <2>2, <2>4, PassCopies
  <2> QED
    BY <2>1, <2>3, <2>4, ComparedCases
<1>3. CASE reconcilePriorityState
  <2>1. UNCHANGED <<rtj, seen, fresh>> /\ seen.policyRef
    BY <1>3 DEF reconcilePriorityState, RTJ
  <2>2. ctl'.pc = "patch" /\ ctl'.job.policyRef = seen.policyRef
    BY <1>3, DecidedFields
  <2> QED
    BY <1>0, <2>1, <2>2, PassCopies
<1>4. CASE PatchWorkload
  <2>1. UNCHANGED <<rtj, seen, fresh>> /\ ctl.pc = "patch"
    BY <1>4 DEF PatchWorkload, RTJ
  <2>2. CASE ctl'.pc \in {"annotate", "status"} /\ ctl'.job.policyRef = ctl.job.policyRef
    BY <2>1, <2>2, PassCopies DEF CopiesInv
  <2>3. CASE ctl' = Idle
    BY <2>1, <2>3, DoneCopies
  <2> QED
    BY <1>4, <2>2, <2>3, PatchedFields
<1>5. CASE PatchFails
  <2>1. UNCHANGED <<rtj, seen, fresh>> /\ ctl.pc = "patch"
    BY <1>5 DEF PatchFails, RTJ
  <2>2. CASE ctl'.pc = "status" /\ ctl'.job.policyRef = ctl.job.policyRef
    BY <2>1, <2>2, PassCopies DEF CopiesInv
  <2>3. CASE ctl' = Idle
    BY <2>1, <2>3, DoneCopies
  <2> QED
    BY <1>5, <2>2, <2>3, PatchFailsFields
<1>6. CASE UpdateAnnotations
  <2> DEFINE new == [rtj EXCEPT !.notes = ctl.job.notes]
  <2>1. StoreRTJ(new) /\ ctl'.pc = "status" /\ ctl'.job.policyRef = rtj.policyRef
        /\ ctl'.job.cond \in {ctl.job.cond, rtj.cond} /\ ctl.pc = "annotate"
    BY <1>6, AnnotatedFields
  <2>2. new \in RTJs /\ new.policyRef = rtj.policyRef /\ new.cond = rtj.cond
    BY DEF Types, RTJs, Passes
  <2> HIDE DEF new
  <2>3. /\ fresh' => seen' = rtj'
        /\ seen'.policyRef = rtj'.policyRef
        /\ rtj'.policyRef = rtj.policyRef
        /\ ~rtj'.policyRef => rtj'.cond # "Active" /\ seen'.cond # "Active"
    BY <2>1, <2>2, StoreCopies DEF CopiesInv
  <2> QED
    BY <2>1, <2>3 DEF CopiesInv
<1>7. CASE StatusUpdate
  <2>1. StoreRTJ(ctl.job) /\ ctl' = Idle /\ ctl.pc = "status" /\ ctl.job \in RTJs
    BY <1>7 DEF StatusUpdate, Types, Passes
  <2>2. /\ fresh' => seen' = rtj'
        /\ seen'.policyRef = rtj'.policyRef
        /\ ~rtj'.policyRef => rtj'.cond # "Active" /\ seen'.cond # "Active"
    BY <2>1, StoreCopies DEF CopiesInv
  <2> QED
    BY <2>1, <2>2, IdleJob DEF CopiesInv
<1>8. CASE Conflict
  BY <1>8, DoneCopies DEF Conflict, Done, RTJ
<1>9. CASE Launch
  <2>1. UNCHANGED <<rtj, seen, fresh>> /\ ctl'.pc = "status" /\ ctl'.job.policyRef = seen.policyRef
        /\ ctl'.job.cond = seen.cond
    BY <1>9, LaunchFields
  <2> QED
    BY <1>0, <2>1, PassCopies DEF CopiesInv
<1>10. CASE Stop
  <2>1. UNCHANGED <<rtj, seen, fresh>>
    BY <1>10 DEF Stop, RTJ
  <2>2. CASE ctl'.pc = "status" /\ ctl'.job.policyRef = seen.policyRef /\ ctl'.job.cond = seen.cond
    BY <1>0, <2>1, <2>2, PassCopies DEF CopiesInv
  <2>3. CASE ctl' = Idle
    BY <2>1, <2>3, DoneCopies
  <2> QED
    BY <1>10, <2>2, <2>3, StopFields
<1>11. CASE DeferUntilAdmitted
  <2> DEFINE j == [seen EXCEPT !.phase = "Queued"]
  <2>1. /\ UpdateIfChanged(seen, j, FALSE) /\ UNCHANGED <<rtj, seen, fresh>>
    BY <1>11 DEF DeferUntilAdmitted, RTJ
  <2>2. j.policyRef = seen.policyRef /\ j.cond = seen.cond
    BY <1>0 DEF RTJs
  <2> HIDE DEF j
  <2>3. CASE ctl' = Idle
    BY <2>1, <2>3, DoneCopies
  <2>4. CASE ctl' = [pc |-> "status", job |-> j, fresh |-> fresh, changed |-> TRUE, until |-> NoTime]
    BY <1>0, <2>1, <2>2, <2>4, PassCopies DEF CopiesInv
  <2> QED
    BY <2>1, <2>3, <2>4, ComparedCases
<1>12. ASSUME NEW new \in RTJs, SpecWrite(new), new.policyRef = rtj.policyRef, new.cond = rtj.cond PROVE CopiesInv'
  <2>1. StoreRTJ(new) /\ ctl' = [ctl EXCEPT !.fresh = FALSE]
    BY <1>12 DEF SpecWrite
  <2>2. ctl'.pc = ctl.pc /\ ctl'.job = ctl.job /\ ctl'.fresh = FALSE
    BY <2>1 DEF Types, Passes
  <2>3. /\ fresh' => seen' = rtj'
        /\ seen'.policyRef = rtj'.policyRef
        /\ rtj'.policyRef = rtj.policyRef
        /\ ~rtj'.policyRef => rtj'.cond # "Active" /\ seen'.cond # "Active"
    BY <1>12, <2>1, StoreCopies DEF CopiesInv
  <2> QED
    BY <2>2, <2>3 DEF CopiesInv
<1>13. CASE KueueUnsuspends
  <2> DEFINE new == [rtj EXCEPT !.suspend = FALSE]
  <2>1. new \in RTJs /\ new.policyRef = rtj.policyRef /\ new.cond = rtj.cond
    BY DEF Types, RTJs
  <2> HIDE DEF new
  <2> QED
    BY <1>12, <1>13, <2>1 DEF KueueUnsuspends, new
<1>14. CASE KueueSuspends
  <2> DEFINE new == [rtj EXCEPT !.suspend = TRUE]
  <2>1. new \in RTJs /\ new.policyRef = rtj.policyRef /\ new.cond = rtj.cond
    BY DEF Types, RTJs
  <2> HIDE DEF new
  <2> QED
    BY <1>12, <1>14, <2>1 DEF KueueSuspends, new
<1>15. CASE UNCHANGED <<rtj, seen, fresh, ctl>>
  BY <1>15 DEF CopiesInv
<1>16. CASE Deliver
  BY <1>16 DEF Deliver, CopiesInv
<1>17. CASE Restart
  BY <1>17, IdleJob DEF Restart, CopiesInv
<1> QED
  BY <1>1, <1>2, <1>3, <1>4, <1>5, <1>6, <1>7, <1>8, <1>9, <1>10, <1>11, <1>13, <1>14, <1>15,
     <1>16, <1>17 DEF Next, Reconcile, TrainerCheckpoints, Tick, Timer, DeliverWorkload, vars, RTJ

(* A step after which an event is due, or the cache lags, has nothing to show but the notes of a
   pass whose copy is current. *)
LEMMA BusyNotes ==
  ASSUME queued' = TRUE \/ fresh' = FALSE,
         ctl'.pc \in {"idle", "status"} \/ ctl'.fresh = FALSE
  PROVE  NotesInv'
  BY DEF NotesInv, Quiet, Alone

LEMMA NextNotes ==
  ASSUME Types, CopiesInv, NotesInv, [Next]_vars
  PROVE  NotesInv'
<1>0. seen \in RTJs /\ rtj \in RTJs /\ seen.policyRef = rtj.policyRef /\ (fresh => seen = rtj)
      /\ fresh \in BOOLEAN /\ queued \in BOOLEAN /\ ctl.fresh \in BOOLEAN
  BY DEF Types, CopiesInv, Passes
<1>1. CASE ObserveUnshaped
  <2>1. /\ UpdateIfChanged(seen, markRunning(seen), FALSE) /\ UNCHANGED <<rtj, seen, fresh>>
        /\ ~seen.policyRef
    BY <1>1 DEF ObserveUnshaped, RTJ
  <2>2. markRunning(seen).cond = seen.cond /\ seen.cond # "Active" /\ rtj.cond # "Active"
    BY <1>0, <2>1, RunningFields DEF CopiesInv
  <2>3. CASE ctl' = Idle
    BY <2>1, <2>2, <2>3, IdleJob DEF NotesInv, Quiet, Alone
  <2>4. CASE ctl' = [pc |-> "status", job |-> markRunning(seen), fresh |-> fresh, changed |-> TRUE, until |-> NoTime]
    BY <2>1, <2>2, <2>4 DEF NotesInv, Quiet, Alone
  <2> QED
    BY <2>1, <2>3, <2>4, ComparedCases
<1>2. CASE ResolveFails
  <2> DEFINE j == [markRunning(seen) EXCEPT !.cond = "PolicyResolutionFailed"]
  <2>1. /\ UpdateIfChanged(seen, j, FALSE) /\ UNCHANGED <<rtj, seen, fresh>>
    BY <1>2 DEF ResolveFails, RTJ
  <2>2. j.cond = "PolicyResolutionFailed"
    <3>1. markRunning(seen) \in RTJs
      BY RunningJob DEF Types
    <3> QED
      BY <3>1 DEF RTJs
  <2> HIDE DEF j
  <2>3. CASE j = seen /\ ctl' = Idle
    BY <1>0, <2>1, <2>2, <2>3, IdleJob DEF NotesInv, Quiet, Alone
  <2>4. CASE ctl' = [pc |-> "status", job |-> j, fresh |-> fresh, changed |-> TRUE, until |-> NoTime]
    BY <2>1, <2>2, <2>4 DEF NotesInv, Quiet, Alone
  <2> QED
    BY <2>1, <2>3, <2>4, ComparedCases
<1>3. CASE reconcilePriorityState
  <2>1. UNCHANGED <<rtj, seen, fresh>>
    BY <1>3 DEF reconcilePriorityState, RTJ
  <2>2. /\ ctl'.pc = "patch" /\ ctl'.fresh = fresh /\ ctl'.changed = (ctl'.job # seen)
        /\ ctl'.job.cond = seen.cond /\ ctl'.job.notes = seen.notes
    BY <1>3, DecidedFields
  <2> QED
    BY <1>0, <2>1, <2>2 DEF NotesInv, Quiet, Alone
<1>4. CASE PatchWorkload
  <2>1. queued' = queued /\ UNCHANGED <<rtj, seen, fresh>> /\ ctl.pc = "patch"
    BY <1>4, PatchedFields DEF PatchWorkload
  <2>2. CASE /\ ctl'.pc \in {"annotate", "status"} /\ ctl'.fresh = ctl.fresh /\ Agrees(ctl'.job)
             /\ ctl'.pc = "annotate" => ctl'.job.notes # ctl.job.notes
    <3>1. Agrees(ctl.job)'
      BY <2>2 DEF Agrees
    <3> QED
      BY <2>1, <2>2, <3>1 DEF NotesInv, Quiet, Alone
  <2>3. CASE ctl' = Idle /\ Agrees(ctl.job) /\ ~ctl.changed
    <3>1. Alone => Agrees(rtj)
      BY <2>1, <2>3 DEF NotesInv
    <3>2. Agrees(rtj)' <=> Agrees(rtj)
      BY <2>1 DEF Agrees
    <3> QED
      BY <2>1, <2>3, <3>1, <3>2, IdleJob DEF NotesInv, Quiet, Alone
  <2> QED
    BY <1>4, <2>2, <2>3, PatchedFields
<1>5. CASE PatchFails
  <2>1. queued' = queued /\ UNCHANGED <<rtj, seen, fresh>> /\ ctl.pc = "patch"
    BY <1>5, PatchFailsFields DEF PatchFails
  <2>2. CASE ctl'.pc = "status" /\ ctl'.job.cond = "WorkloadPatchFailed"
    BY <2>1, <2>2 DEF NotesInv, Quiet, Alone
  <2>3. CASE ctl' = Idle /\ ctl.job.cond = "WorkloadPatchFailed"
    <3>1. Alone => rtj.cond # "Active"
      BY <2>1, <2>3 DEF NotesInv
    <3> QED
      BY <2>1, <2>3, <3>1, IdleJob DEF NotesInv, Quiet, Alone
  <2> QED
    BY <1>5, <2>2, <2>3, PatchFailsFields
<1>6. CASE UpdateAnnotations
  <2> DEFINE new == [rtj EXCEPT !.notes = ctl.job.notes]
  <2>1. StoreRTJ(new) /\ ctl'.pc = "status" /\ ctl.pc = "annotate" /\ ctl.fresh
    BY <1>6, AnnotatedFields
  <2>2. new # rtj
    <3>1. new.notes = ctl.job.notes /\ ctl.job.notes # rtj.notes
      BY <1>0, <2>1 DEF RTJs, NotesInv
    <3> QED
      BY <3>1
  <2> HIDE DEF new
  <2>3. queued' = TRUE \/ fresh' = FALSE
    BY <1>0, <2>1, <2>2, StoreCases
  <2> QED
    BY <2>1, <2>3, BusyNotes
<1>7. CASE StatusUpdate
  <2>1. StoreRTJ(ctl.job) /\ ctl' = Idle /\ ctl.pc = "status" /\ rtj' = ctl.job
    BY <1>7 DEF StatusUpdate, StoreRTJ
  <2>2. CASE ctl.job = rtj /\ UNCHANGED <<seen, fresh, queued>>
    <3>1. Agrees(rtj)' <=> Agrees(ctl.job)
      BY <2>1 DEF Agrees
    <3> QED
      BY <2>1, <2>2, <3>1, IdleJob DEF NotesInv, Quiet, Alone
  <2>3. CASE queued' = TRUE \/ fresh' = FALSE
    BY <2>1, <2>3, BusyNotes, IdleJob
  <2> QED
    BY <1>0, <2>1, <2>2, <2>3, StoreCases
<1>8. CASE Conflict
  BY <1>8, BusyNotes, IdleJob DEF Conflict, Done
<1>9. CASE Launch
  BY <1>9, BusyNotes, LaunchFields
<1>10. CASE Stop
  BY <1>10, BusyNotes, StopFields, IdleJob
<1>11. CASE DeferUntilAdmitted
  <2> DEFINE j == [seen EXCEPT !.phase = "Queued"]
  <2>1. /\ UpdateIfChanged(seen, j, FALSE) /\ UNCHANGED <<rtj, seen, fresh>>
    BY <1>11 DEF DeferUntilAdmitted, RTJ
  <2>2. j.phase = "Queued"
    BY <1>0 DEF RTJs
  <2> HIDE DEF j
  <2>3. CASE j = seen /\ ctl' = Idle
    BY <1>0, <2>1, <2>2, <2>3, IdleJob DEF NotesInv, Quiet, Alone
  <2>4. CASE ctl' = [pc |-> "status", job |-> j, fresh |-> fresh, changed |-> TRUE, until |-> NoTime]
    BY <2>1, <2>2, <2>4 DEF NotesInv, Quiet, Alone
  <2> QED
    BY <2>1, <2>3, <2>4, ComparedCases
<1>12. ASSUME NEW new \in RTJs, SpecWrite(new), new # rtj PROVE NotesInv'
  <2>1. StoreRTJ(new) /\ ctl' = [ctl EXCEPT !.fresh = FALSE]
    BY <1>12 DEF SpecWrite
  <2>2. ctl'.fresh = FALSE
    BY <2>1 DEF Types, Passes
  <2>3. queued' = TRUE \/ fresh' = FALSE
    BY <1>0, <1>12, <2>1, StoreCases
  <2> QED
    BY <2>2, <2>3, BusyNotes
<1>13. CASE KueueUnsuspends
  <2> DEFINE new == [rtj EXCEPT !.suspend = FALSE]
  <2>1. new \in RTJs /\ new # rtj
    <3>1. new \in RTJs /\ new.suspend = FALSE /\ rtj.suspend
      BY <1>0, <1>13 DEF RTJs, KueueUnsuspends
    <3> QED
      BY <3>1
  <2> HIDE DEF new
  <2> QED
    BY <1>12, <1>13, <2>1 DEF KueueUnsuspends, new
<1>14. CASE KueueSuspends
  <2> DEFINE new == [rtj EXCEPT !.suspend = TRUE]
  <2>1. new \in RTJs /\ new # rtj
    <3>1. new \in RTJs /\ new.suspend = TRUE /\ ~rtj.suspend
      BY <1>0, <1>14 DEF RTJs, KueueSuspends
    <3> QED
      BY <3>1
  <2> HIDE DEF new
  <2> QED
    BY <1>12, <1>14, <2>1 DEF KueueSuspends, new
<1>15. CASE UNCHANGED <<rtj, fresh, ctl, queued>>
  BY <1>15 DEF NotesInv, Quiet, Alone, Agrees
<1>16. CASE Timer
  <2>1. UNCHANGED <<rtj, fresh, ctl>> /\ queued' = TRUE
    BY <1>16 DEF Timer, RTJ
  <2> QED
    BY <2>1 DEF NotesInv, Quiet, Alone
<1>17. CASE Deliver
  <2>1. UNCHANGED <<rtj, ctl>> /\ queued' = TRUE
    BY <1>17 DEF Deliver
  <2> QED
    BY <2>1 DEF NotesInv, Quiet, Alone
<1>18. CASE Restart
  BY <1>18, IdleJob, BusyNotes DEF Restart
<1> QED
  BY <1>1, <1>2, <1>3, <1>4, <1>5, <1>6, <1>7, <1>8, <1>9, <1>10, <1>11, <1>13, <1>14, <1>15,
     <1>16, <1>17, <1>18 DEF Next, Reconcile, TrainerCheckpoints, Tick, DeliverWorkload, vars, RTJ

(* The annotations of a running job say what its status says whenever the controller has nothing
   more to do, although two calls write them and the first one takes back what the pass had put
   into the status: for every policy, and however many writes fail or events are late. *)
THEOREM AnnotationsSettle == Spec => []AnnotationsAgree
<1>1. NotesInv => AnnotationsAgree
  BY DEF NotesInv, AnnotationsAgree, Quiet, Agrees
<1>2. Init => Types /\ CopiesInv /\ NotesInv
  BY InitTypes, InitCopies
<1>3. Types /\ CopiesInv /\ NotesInv /\ [Next]_vars => (Types /\ CopiesInv /\ NotesInv)'
  BY NextTypes, NextCopies, NextNotes
<1> QED
  BY <1>1, <1>2, <1>3, PTL DEF Spec

-----------------------------------------------------------------------------
\* The timer of a boost

(* The decision, seen from the copy that the pass goes on with: the window is measured from what
   the copy says of the run. *)
Window(j) == CheckProtectionWindow(now, j.startingAt, IF j.restoringAt # NoTime THEN j.runningAt ELSE NoTime)

LEMMA DecidedPriority ==
  ASSUME Types, reconcilePriorityState
  PROVE  LET w == Window(markRunning(seen))
         IN  \/ /\ w.protected /\ ctl'.until = w.until
                /\ ctl'.job.shaping.effective = computeEffectivePriority(policy.boost)
             \/ ~w.protected /\ ctl'.job.shaping.effective \in OtherPriorities
<1> DEFINE j == markRunning(seen)
           w == Window(j)
           snap == CollectTelemetry(j, store, now)
           d == Evaluate(now, snap)
           told == syncDecisionToStatus(SyncPriorityShapingTelemetry(j.shaping, snap, now), d)
           new == [j EXCEPT !.shaping = told]
<1>1. Go("patch", new, fresh, new # seen, d.until)
  BY DEF reconcilePriorityState
<1>2. j \in RTJs /\ now \in 0 .. MaxTime /\ store \in Times
  BY RunningJob DEF Types
<1>3. snap \in Snapshots
  BY <1>2, TelemetryType
<1>4. /\ snap.runStart = j.startingAt
      /\ snap.resume = IF j.restoringAt # NoTime THEN j.runningAt ELSE NoTime
  BY DEF CollectTelemetry
<1>5. w = CheckProtectionWindow(now, snap.runStart, snap.resume)
  BY <1>4 DEF Window
<1> HIDE DEF j, w, snap
<1>6. \/ w.protected /\ d = Decision("Protected", policy.boost, w.until)
      \/ ~w.protected /\ d \in Others
  BY <1>5, EvaluateCases
<1> HIDE DEF d
<1>7. told.effective = d.effective
  <2>1. j.shaping \in Shapings
    BY <1>2 DEF RTJs
  <2>2. DOMAIN SyncPriorityShapingTelemetry(j.shaping, snap, now) = DOMAIN j.shaping
    BY DEF SyncPriorityShapingTelemetry
  <2>3. "effective" \in DOMAIN j.shaping
    BY <2>1 DEF Shapings
  <2> DEFINE tel == SyncPriorityShapingTelemetry(j.shaping, snap, now)
  <2>4. told = [tel EXCEPT !.effective = d.effective, !.state = d.state, !.until = d.until]
    BY DEF syncDecisionToStatus
  <2> HIDE DEF tel, told
  <2>5. "effective" \in DOMAIN tel
    BY <2>2, <2>3 DEF tel
  <2> QED
    BY <2>4, <2>5
<1> HIDE DEF told
<1>8. new.shaping = told
  BY <1>2 DEF RTJs
<1> HIDE DEF new
<1>9. ctl'.until = d.until /\ ctl'.job.shaping.effective = d.effective
  BY <1>1, <1>7, <1>8 DEF Go
<1>10. CASE w.protected /\ d = Decision("Protected", policy.boost, w.until)
  BY <1>9, <1>10 DEF Decision, w, j
<1>11. CASE ~w.protected /\ d \in Others
  <2>1. d.effective \in OtherPriorities
    BY <1>11 DEF Others, Decision, OtherPriorities
  <2> QED
    BY <1>9, <1>11, <2>1 DEF w, j
<1> QED
  BY <1>6, <1>10, <1>11

LEMMA ProtectedEnds ==
  ASSUME Types, NEW j \in RTJs, Window(j).protected
  PROVE  Window(j).until # NoTime
<1> DEFINE resume == IF j.restoringAt # NoTime THEN j.runningAt ELSE NoTime
           anchor == protectionAnchor(j.startingAt, resume)
<1>1. j.startingAt \in Times /\ resume \in Times /\ policy \in Policies
  BY DEF Types, RTJs, Times
<1>2. anchor \in Times
  BY <1>1 DEF protectionAnchor
<1> HIDE DEF resume, anchor
<1>3. Window(j) = [protected |-> (policy.protection > 0 /\ anchor # NoTime) /\ now < anchor + policy.protection,
                   until |-> IF policy.protection > 0 /\ anchor # NoTime THEN anchor + policy.protection ELSE NoTime]
  BY DEF Window, CheckProtectionWindow, resume, anchor
<1>4. policy.protection \in Nat
  BY <1>1
<1>5. policy.protection > 0 /\ anchor # NoTime
  <2>1. Window(j).protected <=> (policy.protection > 0 /\ anchor # NoTime) /\ now < anchor + policy.protection
    BY Zenon DEF Window, CheckProtectionWindow, resume, anchor
  <2> QED
    BY <2>1
<1>6. Window(j).until = anchor + policy.protection
  BY <1>3, <1>5
<1> QED
  BY <1>2, <1>4, <1>5, <1>6 DEF Times

LEMMA PolicyFixed ==
  ASSUME [Next]_vars
  PROVE  policy' = policy /\ OtherPriorities' = OtherPriorities
<1>1. policy' = policy
  BY DEF Next, Reconcile, vars, World, ObserveUnshaped, reconcilePriorityState, PatchWorkload,
     UpdateAnnotations, StatusUpdate, Conflict, Launch, Stop, DeferUntilAdmitted, ResolveFails,
     PatchFails, Restart, KueueUnsuspends, KueueSuspends, SpecWrite, TrainerCheckpoints, Tick, Timer,
     Deliver, DeliverWorkload
<1> QED
  BY <1>1 DEF OtherPriorities, computeEffectivePriority

(* A pass that writes a copy which is not that of a shaped run. *)
LEMMA UnshapedPass ==
  ASSUME ctl'.pc = "status",
         ctl'.job.phase # "Running" \/ ~ctl'.job.policyRef \/ ctl'.job.cond # "Active"
  PROVE  TimedInv'
  BY DEF TimedInv, Quiet

(* A pass that is done with an RTJ which is not that of a shaped run, or will be repeated. *)
LEMMA UnshapedDone ==
  ASSUME ctl' = Idle,
         \/ queued' = TRUE \/ fresh' = FALSE
         \/ rtj'.phase # "Running" \/ ~rtj'.policyRef \/ rtj'.cond # "Active"
         \/ wakeAt' # NoTime \/ priority' \in OtherPriorities' \/ misled'
  PROVE  TimedInv'
  BY IdleJob DEF TimedInv, Quiet

LEMMA NextTimed ==
  ASSUME Types, CopiesInv, NotesInv, TimedInv, [Next]_vars
  PROVE  TimedInv'
<1>0. seen \in RTJs /\ rtj \in RTJs /\ seen.policyRef = rtj.policyRef /\ (fresh => seen = rtj)
      /\ fresh \in BOOLEAN /\ queued \in BOOLEAN
  BY DEF Types, CopiesInv
<1>p. policy' = policy /\ OtherPriorities' = OtherPriorities
  BY PolicyFixed
<1>1. CASE ObserveUnshaped
  <2>1. /\ UpdateIfChanged(seen, markRunning(seen), FALSE) /\ UNCHANGED <<rtj, seen, fresh>>
        /\ ~seen.policyRef
    BY <1>1 DEF ObserveUnshaped, RTJ
  <2>2. ~markRunning(seen).policyRef /\ ~rtj.policyRef
    BY <1>0, <2>1, RunningFields
  <2>3. CASE ctl' = Idle
    BY <2>1, <2>2, <2>3, UnshapedDone
  <2>4. CASE ctl' = [pc |-> "status", job |-> markRunning(seen), fresh |-> fresh, changed |-> TRUE, until |-> NoTime]
    BY <2>2, <2>4, UnshapedPass
  <2> QED
    BY <2>1, <2>3, <2>4, ComparedCases
<1>2. CASE ResolveFails
  <2> DEFINE j == [markRunning(seen) EXCEPT !.cond = "PolicyResolutionFailed"]
  <2>1. /\ UpdateIfChanged(seen, j, FALSE) /\ UNCHANGED <<rtj, seen, fresh>>
    BY <1>2 DEF ResolveFails, RTJ
  <2>2. j.cond = "PolicyResolutionFailed"
    <3>1. markRunning(seen) \in RTJs
      BY RunningJob DEF Types
    <3> QED
      BY <3>1 DEF RTJs
  <2> HIDE DEF j
  <2>3. CASE j = seen /\ ctl' = Idle
    BY <1>0, <2>1, <2>2, <2>3, UnshapedDone
  <2>4. CASE ctl' = [pc |-> "status", job |-> j, fresh |-> fresh, changed |-> TRUE, until |-> NoTime]
    BY <2>2, <2>4, UnshapedPass
  <2> QED
    BY <2>1, <2>3, <2>4, ComparedCases
<1>3. CASE reconcilePriorityState
  <2>2. ctl'.pc = "patch"
    BY <1>3, DecidedFields
  <2>3. ctl'.until # NoTime \/ ctl'.job.shaping.effective \in OtherPriorities
    <3>1. markRunning(seen) \in RTJs
      BY RunningJob DEF Types
    <3> QED
      BY <1>3, <3>1, DecidedPriority, ProtectedEnds
  <2> QED
    BY <1>p, <2>2, <2>3 DEF TimedInv, Quiet, effective
<1>4. CASE PatchWorkload
  <2>1. ctl.pc = "patch" /\ (priority' = effective \/ misled' = TRUE)
    BY <1>4 DEF PatchWorkload, patchWorkloadPriority
  <2>2. ctl.until # NoTime \/ priority' \in OtherPriorities' \/ misled'
    BY <1>p, <2>1 DEF TimedInv
  <2>3. CASE ctl'.pc \in {"annotate", "status"} /\ ctl'.until = ctl.until
    BY <2>2, <2>3 DEF TimedInv, Quiet
  <2>4. CASE ctl' = Idle /\ (ctl.until # NoTime => wakeAt' # NoTime)
    BY <2>2, <2>4, UnshapedDone
  <2> QED
    BY <1>4, <2>3, <2>4, PatchedFields
<1>5. CASE PatchFails
  <2>1. queued' = queued /\ UNCHANGED <<rtj, seen, fresh>> /\ ctl.pc = "patch"
    BY <1>5, PatchFailsFields DEF PatchFails
  <2>2. CASE ctl'.pc = "status" /\ ctl'.job.cond = "WorkloadPatchFailed"
    BY <2>2, UnshapedPass
  <2>3. CASE ctl' = Idle /\ ctl.job.cond = "WorkloadPatchFailed"
    <3>1. Alone => rtj.cond # "Active"
      BY <2>1, <2>3 DEF NotesInv
    <3> QED
      BY <1>0, <2>1, <2>3, <3>1, UnshapedDone DEF Alone
  <2> QED
    BY <1>5, <2>2, <2>3, PatchFailsFields
<1>6. CASE UpdateAnnotations
  <2>1. ctl'.pc = "status" /\ ctl.pc = "annotate" /\ ctl'.until = ctl.until
        /\ UNCHANGED <<priority, misled>>
    BY <1>6, AnnotatedFields
  <2> QED
    BY <1>p, <2>1 DEF TimedInv, Quiet
<1>7. CASE StatusUpdate
  <2> DEFINE t == IF ctl.until = NoTime THEN NoTime ELSE ctl.until + 1
  <2>1. ctl' = Idle /\ ctl.pc = "status" /\ rtj' = ctl.job
        /\ UNCHANGED <<priority, misled>> /\ RequeueAt(t)
    BY <1>7 DEF StatusUpdate, StoreRTJ, Workload
  <2>2. t \in Ends /\ (ctl.until # NoTime => t # NoTime) /\ wakeAt \in Ends
    BY DEF Ends, Types, Passes
  <2> HIDE DEF t
  <2>3. ctl.until # NoTime => wakeAt' # NoTime
    BY <2>1, <2>2, TimerSet
  <2> QED
    BY <1>p, <2>1, <2>3, UnshapedDone DEF TimedInv
<1>8. CASE Conflict
  BY <1>8, UnshapedDone DEF Conflict, Done
<1>9. CASE Launch
  BY <1>9, UnshapedPass, LaunchFields
<1>10. CASE Stop
  BY <1>10, UnshapedPass, UnshapedDone, StopFields
<1>11. CASE DeferUntilAdmitted
  <2> DEFINE j == [seen EXCEPT !.phase = "Queued"]
  <2>1. /\ UpdateIfChanged(seen, j, FALSE) /\ UNCHANGED <<rtj, seen, fresh>>
    BY <1>11 DEF DeferUntilAdmitted, RTJ
  <2>2. j.phase = "Queued"
    BY <1>0 DEF RTJs
  <2> HIDE DEF j
  <2>3. CASE j = seen /\ ctl' = Idle
    BY <1>0, <2>1, <2>2, <2>3, UnshapedDone
  <2>4. CASE ctl' = [pc |-> "status", job |-> j, fresh |-> fresh, changed |-> TRUE, until |-> NoTime]
    BY <2>2, <2>4, UnshapedPass
  <2> QED
    BY <2>1, <2>3, <2>4, ComparedCases
<1>12. ASSUME queued' = TRUE \/ fresh' = FALSE, UNCHANGED <<priority, misled>>, ctl'.pc = ctl.pc,
              ctl'.job = ctl.job, ctl'.until = ctl.until
       PROVE  TimedInv'
  BY <1>p, <1>12 DEF TimedInv, Quiet, effective
<1>13. CASE KueueUnsuspends \/ KueueSuspends
  <2>1. PICK s \in BOOLEAN : SpecWrite([rtj EXCEPT !.suspend = s]) /\ rtj.suspend # s
    BY <1>0, <1>13, Zenon DEF KueueUnsuspends, KueueSuspends
  <2> DEFINE new == [rtj EXCEPT !.suspend = s]
  <2>2. new # rtj
    <3>1. new.suspend = s
      BY <1>0 DEF RTJs
    <3> QED
      BY <2>1, <3>1
  <2> HIDE DEF new
  <2>3. StoreRTJ(new) /\ ctl' = [ctl EXCEPT !.fresh = FALSE] /\ UNCHANGED <<priority, misled>>
    BY <2>1 DEF SpecWrite, Workload, new
  <2>4. ctl'.pc = ctl.pc /\ ctl'.job = ctl.job /\ ctl'.until = ctl.until
    BY <2>3 DEF Types, Passes
  <2>5. queued' = TRUE \/ fresh' = FALSE
    BY <1>0, <2>2, <2>3, StoreCases
  <2> QED
    BY <1>12, <2>3, <2>4, <2>5
<1>14. CASE Timer \/ Deliver
  BY <1>12, <1>14 DEF Timer, Deliver, Workload
<1>15. CASE UNCHANGED <<rtj, fresh, ctl, queued, wakeAt, priority, misled>>
  BY <1>p, <1>15 DEF TimedInv, Quiet, effective
<1>16. CASE DeliverWorkload
  BY <1>p, <1>16 DEF DeliverWorkload, RTJ, TimedInv, Quiet, effective
<1>17. CASE Restart
  BY <1>17, UnshapedDone DEF Restart
<1> QED
  BY <1>1, <1>2, <1>3, <1>4, <1>5, <1>6, <1>7, <1>8, <1>9, <1>10, <1>11, <1>13, <1>14, <1>15,
     <1>16, <1>17 DEF Next, Reconcile, TrainerCheckpoints, Tick, vars, RTJ, Workload

(* No boost outlives its timer: whatever call fails and however stale a copy is, a run that has the
   priority of a protected one and whose status reports no failure will be looked at again, but for
   the one case that the code leaves open, a pass that found its priority in a stale Workload and
   so did not patch it (patchWorkloadPriority). *)
THEOREM BoostsAreTimed == Spec => []BoostIsTimed
<1>1. TimedInv => BoostIsTimed
  BY DEF TimedInv, BoostIsTimed, Boosted, Quiet, OtherPriorities
<1>2. Init => Types /\ CopiesInv /\ NotesInv /\ TimedInv
  <2>1. Init => ctl.pc = "idle" /\ queued = TRUE
    BY IdleJob DEF Init
  <2> QED
    BY <2>1, InitTypes, InitCopies DEF TimedInv, Quiet
<1>3. Types /\ CopiesInv /\ NotesInv /\ TimedInv /\ [Next]_vars
        => (Types /\ CopiesInv /\ NotesInv /\ TimedInv)'
  BY NextTypes, NextCopies, NextNotes, NextTimed
<1> QED
  BY <1>1, <1>2, <1>3, PTL DEF Spec

-----------------------------------------------------------------------------
\* The protection of a run

(* A policy that protects: its boost is none that lowers, its upper bound not below the base. *)
BoostsRaise == \A p \in Policies : p.boost >= 0 /\ \A m \in p.max : m >= Base

(* A window that is over began with the launch at the latest. *)
LEMMA WindowOver ==
  ASSUME Types, NEW j \in RTJs, NEW since \in 0 .. MaxTime, ~Window(j).protected,
         j.startingAt >= since \/ (j.restoringAt >= since /\ j.runningAt >= since)
  PROVE  now >= since + policy.protection
<1> DEFINE resume == IF j.restoringAt # NoTime THEN j.runningAt ELSE NoTime
           anchor == protectionAnchor(j.startingAt, resume)
<1>1. /\ j.startingAt \in Times /\ j.restoringAt \in Times /\ j.runningAt \in Times /\ policy \in Policies
      /\ now \in Nat
  BY DEF Types, RTJs
<1>2. resume \in Times /\ (j.startingAt >= since \/ resume >= since)
  BY <1>1 DEF Times
<1> HIDE DEF resume
<1>3. anchor \in Times /\ anchor >= since
  BY <1>1, <1>2 DEF protectionAnchor, Times
<1> HIDE DEF anchor
<1>4. policy.protection \in Nat /\ policy.protection > 0
  BY <1>1
<1>5. Window(j).protected <=> (policy.protection > 0 /\ anchor # NoTime) /\ now < anchor + policy.protection
  BY Zenon DEF Window, CheckProtectionWindow, resume, anchor
<1>6. ~(now < anchor + policy.protection)
  BY <1>3, <1>4, <1>5
<1> QED
  BY <1>1, <1>3, <1>4, <1>6 DEF Times

(* Copies of a run whose launch they know, after a step that leaves the run alone. *)
LEMMA StillKnows ==
  ASSUME NEW old, NEW new, KnowsLaunch(jobSet, old), new.attempt = old.attempt,
         new.startingAt = old.startingAt, new.restoringAt = old.restoringAt,
         new.phase = "Running" => old.phase = "Running" /\ new.runningAt = old.runningAt
  PROVE  KnowsLaunch(jobSet, new)
  BY DEF KnowsLaunch

LEMMA RunningKnows ==
  ASSUME Types, RunsInv, NEW j \in RTJs, KnowsLaunch(jobSet, j), NEW new, new.attempt = j.attempt,
         new.startingAt = j.startingAt, new.restoringAt = j.restoringAt,
         new.runningAt = IF j.phase = "Running" THEN j.runningAt ELSE now
  PROVE  KnowsLaunch(jobSet, new)
<1>1. jobSet.attempt # 0 => jobSet.since \in 0 .. now
  BY DEF RunsInv
<1>2. now \in Nat
  BY DEF Types
<1> QED
  BY <1>1, <1>2 DEF KnowsLaunch

(* A step of a pass that leaves the run alone. *)
LEMMA PassRuns ==
  ASSUME Types, CopiesInv, RunsInv, UNCHANGED <<now, policy, jobSet, rtj, seen>>,
         KnowsLaunch(jobSet, ctl'.job),
         \/ ctl'.job.attempt = seen.attempt /\ ctl'.fresh = fresh
         \/ ctl'.job.attempt = ctl.job.attempt /\ ctl'.fresh = ctl.fresh,
         ctl'.pc = "patch" => ctl'.job.shaping.effective >= Base \/ now >= jobSet.since + policy.protection
  PROVE  RunsInv'
<1>1. ctl'.fresh => seen.attempt = rtj.attempt
  BY DEF CopiesInv, RunsInv
<1>2. KnowsLaunch(jobSet, rtj)' /\ KnowsLaunch(jobSet, seen)' /\ KnowsLaunch(jobSet, ctl.job)'
  BY DEF RunsInv, KnowsLaunch
<1>3. ctl'.fresh /\ ctl'.job.attempt # rtj.attempt => ctl'.job.attempt = rtj.attempt + 1 /\ jobSet.attempt = ctl'.job.attempt
  BY <1>1 DEF RunsInv
<1> QED
  BY <1>1, <1>2, <1>3 DEF RunsInv, effective

LEMMA DoneRuns ==
  ASSUME RunsInv, UNCHANGED <<now, policy, jobSet, rtj, seen>>, ctl' = Idle
  PROVE  RunsInv'
<1>1. KnowsLaunch(jobSet, rtj)' /\ KnowsLaunch(jobSet, seen)' /\ KnowsLaunch(jobSet, ctl.job)'
  BY IdleJob DEF RunsInv, KnowsLaunch
<1> QED
  BY <1>1, IdleJob DEF RunsInv

(* A write of the RTJ by a copy that knows the run. *)
LEMMA StoreRuns ==
  ASSUME Types, RunsInv, NEW new \in RTJs, StoreRTJ(new), UNCHANGED <<now, policy, jobSet>>,
         KnowsLaunch(jobSet, new), KnowsLaunch(jobSet, ctl'.job),
         ctl'.pc = "patch" => ctl.pc = "patch" /\ ctl'.job = ctl.job,
         \/ new.attempt = rtj.attempt
         \/ seen.attempt = rtj.attempt /\ new.attempt = rtj.attempt + 1 /\ jobSet.attempt = new.attempt,
         ctl'.fresh => ctl.fresh /\ new.attempt = rtj.attempt /\ ctl'.job.attempt = rtj.attempt
  PROVE  RunsInv'
<1>1. rtj' = new /\ (seen' = seen \/ seen' = new) /\ fresh \in BOOLEAN
  BY StoreCases DEF StoreRTJ, Types
<1>2. KnowsLaunch(jobSet, rtj)' /\ KnowsLaunch(jobSet, seen)' /\ KnowsLaunch(jobSet, ctl.job)'
  BY <1>1 DEF RunsInv, KnowsLaunch
<1>3. rtj'.attempt # seen'.attempt => rtj'.attempt = seen'.attempt + 1 /\ jobSet.attempt = rtj'.attempt
  BY <1>1 DEF RunsInv
<1>4. ctl'.fresh => seen'.attempt = rtj'.attempt /\ ctl'.job.attempt = rtj'.attempt
  BY <1>1 DEF RunsInv
<1> QED
  BY <1>2, <1>3, <1>4 DEF RunsInv, effective

LEMMA NextRuns ==
  ASSUME BoostsRaise, Types, CopiesInv, RunsInv, [Next]_vars
  PROVE  RunsInv'
<1>0. /\ seen \in RTJs /\ rtj \in RTJs /\ ctl.job \in RTJs /\ now \in 0 .. MaxTime /\ policy \in Policies
      /\ KnowsLaunch(jobSet, rtj) /\ KnowsLaunch(jobSet, seen) /\ KnowsLaunch(jobSet, ctl.job)
  BY DEF Types, Passes, RunsInv
<1>1. CASE ObserveUnshaped
  <2> DEFINE j == markRunning(seen)
  <2>1. UpdateIfChanged(seen, j, FALSE) /\ UNCHANGED <<now, policy, jobSet, rtj, seen>>
    BY <1>1 DEF ObserveUnshaped, RTJ, World
  <2>2. j.attempt = seen.attempt /\ KnowsLaunch(jobSet, j)
    BY <1>0, RunningFields, RunningKnows
  <2> HIDE DEF j
  <2>3. CASE ctl' = Idle
    BY <2>1, <2>3, DoneRuns
  <2>4. CASE ctl' = [pc |-> "status", job |-> j, fresh |-> fresh, changed |-> TRUE, until |-> NoTime]
    BY <2>1, <2>2, <2>4, PassRuns
  <2> QED
    BY <2>1, <2>3, <2>4, ComparedCases
<1>2. CASE ResolveFails
  <2> DEFINE r == markRunning(seen)
             j == [r EXCEPT !.cond = "PolicyResolutionFailed"]
  <2>1. UpdateIfChanged(seen, j, FALSE) /\ UNCHANGED <<now, policy, jobSet, rtj, seen>>
    BY <1>2 DEF ResolveFails, RTJ, World
  <2>2. r \in RTJs /\ r.attempt = seen.attempt /\ KnowsLaunch(jobSet, r)
    BY <1>0, RunningJob, RunningFields, RunningKnows
  <2> HIDE DEF r
  <2>3. j.attempt = seen.attempt /\ KnowsLaunch(jobSet, j)
    BY <2>2 DEF RTJs, KnowsLaunch
  <2> HIDE DEF j
  <2>4. CASE ctl' = Idle
    BY <2>1, <2>4, DoneRuns
  <2>5. CASE ctl' = [pc |-> "status", job |-> j, fresh |-> fresh, changed |-> TRUE, until |-> NoTime]
    BY <2>1, <2>3, <2>5, PassRuns
  <2> QED
    BY <2>1, <2>4, <2>5, ComparedCases
<1>3. CASE reconcilePriorityState
  <2> DEFINE r == markRunning(seen)
  <2>1. UNCHANGED <<now, policy, jobSet, rtj, seen>> /\ seen.attempt # 0 /\ jobSet.attempt = seen.attempt
    BY <1>3 DEF reconcilePriorityState, AtActive, getActiveJobSet, RTJ, World
  <2>2. ctl'.fresh = fresh /\ ctl'.job.attempt = seen.attempt /\ KnowsLaunch(jobSet, ctl'.job)
    BY <1>0, <1>3, DecidedFields, RunningKnows
  <2>3. r \in RTJs /\ r.attempt = seen.attempt /\ r.phase = "Running" /\ KnowsLaunch(jobSet, r)
    BY <1>0, RunningJob, RunningFields, RunningKnows
  <2>4. jobSet.since \in 0 .. MaxTime
    BY <1>0, <2>1 DEF RunsInv
  <2>5. ~Window(r).protected => now >= jobSet.since + policy.protection
    <3> HIDE DEF r
    <3>1. r.startingAt >= jobSet.since \/ (r.restoringAt >= jobSet.since /\ r.runningAt >= jobSet.since)
      BY <2>1, <2>3 DEF KnowsLaunch
    <3> QED
      BY <2>3, <2>4, <3>1, WindowOver
  <2>6. computeEffectivePriority(policy.boost) >= Base
    BY <1>0, EffectivePriority DEF BoostsRaise
  <2>7. ctl'.job.shaping.effective >= Base \/ now >= jobSet.since + policy.protection
    BY <1>3, <2>5, <2>6, DecidedPriority
  <2> QED
    BY <2>1, <2>2, <2>7, PassRuns
<1>4. CASE PatchWorkload
  <2>1. UNCHANGED <<now, policy, jobSet, rtj, seen>>
    BY <1>4 DEF PatchWorkload, RTJ, World
  <2>2. CASE /\ ctl'.pc \in {"annotate", "status"} /\ ctl'.fresh = ctl.fresh
             /\ ctl'.job.phase = ctl.job.phase
             /\ ctl'.job.attempt = ctl.job.attempt /\ ctl'.job.startingAt = ctl.job.startingAt
             /\ ctl'.job.restoringAt = ctl.job.restoringAt /\ ctl'.job.runningAt = ctl.job.runningAt
    <3>1. KnowsLaunch(jobSet, ctl'.job)
      BY <1>0, <2>2, StillKnows
    <3> QED
      BY <2>1, <2>2, <3>1, PassRuns
  <2>3. CASE ctl' = Idle
    BY <2>1, <2>3, DoneRuns
  <2> QED
    BY <1>4, <2>2, <2>3, PatchedFields
<1>5. CASE PatchFails
  <2>1. UNCHANGED <<now, policy, jobSet, rtj, seen>>
    BY <1>5 DEF PatchFails, RTJ, World
  <2>2. CASE /\ ctl'.pc = "status" /\ ctl'.fresh = ctl.fresh
             /\ ctl'.job.phase = ctl.job.phase
             /\ ctl'.job.attempt = ctl.job.attempt /\ ctl'.job.startingAt = ctl.job.startingAt
             /\ ctl'.job.restoringAt = ctl.job.restoringAt /\ ctl'.job.runningAt = ctl.job.runningAt
    <3>1. KnowsLaunch(jobSet, ctl'.job)
      BY <1>0, <2>2, StillKnows
    <3> QED
      BY <2>1, <2>2, <3>1, PassRuns
  <2>3. CASE ctl' = Idle
    BY <2>1, <2>3, DoneRuns
  <2> QED
    BY <1>5, <2>2, <2>3, PatchFailsFields
<1>6. CASE UpdateAnnotations
  <2> DEFINE new == [rtj EXCEPT !.notes = ctl.job.notes]
  <2>1. /\ UNCHANGED <<now, policy, jobSet>> /\ ctl.fresh /\ StoreRTJ(new) /\ ctl'.pc = "status"
        /\ ctl'.job.attempt = rtj.attempt /\ ctl'.job.phase = rtj.phase
        /\ ctl'.job.startingAt = rtj.startingAt /\ ctl'.job.restoringAt = rtj.restoringAt
        /\ ctl'.job.runningAt = IF rtj.runningAt = NoTime THEN ctl.job.runningAt ELSE rtj.runningAt
    BY <1>6, AnnotatedFields
  <2>2. new \in RTJs /\ new.attempt = rtj.attempt /\ KnowsLaunch(jobSet, new)
    BY <1>0 DEF RTJs, KnowsLaunch
  <2>3. KnowsLaunch(jobSet, ctl'.job)
    <3>1. jobSet.attempt # 0 => jobSet.since \in Nat
      BY <1>0 DEF RunsInv
    <3> QED
      BY <1>0, <2>1, <3>1 DEF KnowsLaunch
  <2> HIDE DEF new
  <2> QED
    BY <2>1, <2>2, <2>3, StoreRuns
<1>7. CASE StatusUpdate
  <2>1. /\ UNCHANGED <<now, policy, jobSet>> /\ ctl.fresh /\ StoreRTJ(ctl.job) /\ ctl' = Idle
    BY <1>7 DEF StatusUpdate, World
  <2>2. KnowsLaunch(jobSet, ctl'.job)
    BY <2>1, IdleJob DEF KnowsLaunch
  <2>3. \/ ctl.job.attempt = rtj.attempt
        \/ seen.attempt = rtj.attempt /\ ctl.job.attempt = rtj.attempt + 1 /\ jobSet.attempt = ctl.job.attempt
    BY <2>1 DEF RunsInv
  <2> QED
    BY <1>0, <2>1, <2>2, <2>3, IdleJob, StoreRuns
<1>8. CASE Conflict
  BY <1>8, DoneRuns DEF Conflict, Done, RTJ, World
<1>9. CASE Launch
  <2> DEFINE n == seen.attempt + 1
  <2>1. /\ UNCHANGED <<now, policy, rtj, seen>>
        /\ jobSet' = IF jobSet.attempt = n THEN jobSet ELSE [attempt |-> n, since |-> now]
        /\ ctl'.pc = "status" /\ ctl'.fresh = fresh /\ ctl'.job.attempt = n /\ ctl'.job.phase # "Running"
        /\ ctl'.job.startingAt = now \/ ctl'.job.restoringAt = now
    BY <1>9, LaunchFields
  <2>2. n \in Nat /\ n # 0 /\ seen.attempt \in Nat /\ n = seen.attempt + 1
    BY <1>0 DEF RTJs
  <2> HIDE DEF n
  <2>3. jobSet'.attempt = n /\ jobSet'.since \in 0 .. now
    BY <1>0, <2>1, <2>2 DEF RunsInv
  <2>4. KnowsLaunch(jobSet', ctl'.job)
    BY <1>0, <2>1, <2>3 DEF KnowsLaunch
  <2>5. KnowsLaunch(jobSet', seen)
    BY <2>2, <2>3 DEF KnowsLaunch
  <2>6. KnowsLaunch(jobSet', rtj)
    <3>1. CASE jobSet.attempt = n
      BY <1>0, <2>1, <3>1
    <3>2. CASE jobSet.attempt # n
      <4>1. rtj.attempt = seen.attempt
        BY <2>2, <3>2 DEF RunsInv
      <4> QED
        BY <2>2, <2>3, <4>1 DEF KnowsLaunch
    <3> QED
      BY <3>1, <3>2
  <2>7. rtj.attempt # seen.attempt => rtj.attempt = seen.attempt + 1 /\ jobSet'.attempt = rtj.attempt
    BY <2>2, <2>3 DEF RunsInv
  <2>8. ctl'.fresh => seen.attempt = rtj.attempt
    BY <2>1 DEF CopiesInv
  <2>9. KnowsLaunch(jobSet, rtj)' /\ KnowsLaunch(jobSet, seen)' /\ KnowsLaunch(jobSet, ctl.job)'
    BY <2>1, <2>4, <2>5, <2>6
  <2> QED
    BY <2>1, <2>2, <2>3, <2>7, <2>8, <2>9 DEF RunsInv
<1>10. CASE Stop
  <2>1. UNCHANGED <<now, policy, rtj, seen>>
    BY <1>10 DEF Stop, RTJ, World
  <2>2. CASE /\ ctl'.pc = "status" /\ ctl'.fresh = fresh /\ jobSet' = jobSet
             /\ ctl'.job.attempt = seen.attempt /\ ctl'.job.phase # "Running"
             /\ ctl'.job.startingAt = seen.startingAt /\ ctl'.job.restoringAt = seen.restoringAt
    <3>1. KnowsLaunch(jobSet, ctl'.job)
      BY <1>0, <2>2, StillKnows
    <3> QED
      BY <2>1, <2>2, <3>1, PassRuns
  <2>3. CASE ctl' = Idle /\ jobSet' = NoJobSet /\ jobSet.attempt = seen.attempt
    <3>1. rtj.attempt = seen.attempt
      BY <1>0, <2>3 DEF RunsInv, RTJs
    <3>2. jobSet'.attempt = 0
      BY <2>3 DEF NoJobSet
    <3>3. KnowsLaunch(jobSet, rtj)' /\ KnowsLaunch(jobSet, seen)' /\ KnowsLaunch(jobSet, ctl.job)'
      BY <3>2 DEF KnowsLaunch
    <3> QED
      BY <2>1, <2>3, <3>1, <3>2, <3>3, IdleJob DEF RunsInv
  <2> QED
    BY <1>10, <2>2, <2>3, StopFields
<1>11. CASE DeferUntilAdmitted
  <2> DEFINE j == [seen EXCEPT !.phase = "Queued"]
  <2>1. UpdateIfChanged(seen, j, FALSE) /\ UNCHANGED <<now, policy, jobSet, rtj, seen>>
    BY <1>11 DEF DeferUntilAdmitted, RTJ, World
  <2>2. j.attempt = seen.attempt /\ KnowsLaunch(jobSet, j)
    BY <1>0 DEF RTJs, KnowsLaunch
  <2> HIDE DEF j
  <2>3. CASE ctl' = Idle
    BY <2>1, <2>3, DoneRuns
  <2>4. CASE ctl' = [pc |-> "status", job |-> j, fresh |-> fresh, changed |-> TRUE, until |-> NoTime]
    BY <2>1, <2>2, <2>4, PassRuns
  <2> QED
    BY <2>1, <2>3, <2>4, ComparedCases
<1>12. CASE KueueUnsuspends \/ KueueSuspends
  <2>1. PICK s \in BOOLEAN : SpecWrite([rtj EXCEPT !.suspend = s])
    BY <1>12, Zenon DEF KueueUnsuspends, KueueSuspends
  <2> DEFINE new == [rtj EXCEPT !.suspend = s]
  <2>2. new \in RTJs /\ new.attempt = rtj.attempt /\ KnowsLaunch(jobSet, new)
    BY <1>0 DEF RTJs, KnowsLaunch
  <2> HIDE DEF new
  <2>3. StoreRTJ(new) /\ ctl' = [ctl EXCEPT !.fresh = FALSE] /\ UNCHANGED <<now, policy, jobSet>>
    BY <2>1 DEF SpecWrite, World, new
  <2>4. ctl'.pc = ctl.pc /\ ctl'.job = ctl.job /\ ctl'.fresh = FALSE
    BY <2>3 DEF Types, Passes
  <2> QED
    BY <1>0, <2>2, <2>3, <2>4, StoreRuns
<1>13. CASE Tick
  <2>1. UNCHANGED <<policy, jobSet, rtj, seen, ctl>> /\ now' = now + 1 /\ ctl.pc = "idle"
    BY <1>13 DEF Tick
  <2>2. jobSet.attempt # 0 => jobSet.since \in 0 .. now'
    BY <1>0, <2>1 DEF RunsInv
  <2> QED
    BY <2>1, <2>2 DEF RunsInv, KnowsLaunch
<1>14. CASE Deliver
  <2>1. UNCHANGED <<now, policy, jobSet, rtj, ctl>> /\ seen' = rtj
    BY <1>14 DEF Deliver, World
  <2> QED
    BY <2>1 DEF RunsInv, KnowsLaunch, effective
<1>15. CASE Restart
  <2>1. UNCHANGED <<now, policy, jobSet, rtj>> /\ seen' = rtj /\ ctl' = Idle
    BY <1>15 DEF Restart, World
  <2> QED
    BY <2>1, IdleJob DEF RunsInv, KnowsLaunch
<1>16. CASE UNCHANGED <<now, policy, jobSet, rtj, seen, ctl>>
  BY <1>16 DEF RunsInv, KnowsLaunch, effective
<1> QED
  BY <1>1, <1>2, <1>3, <1>4, <1>5, <1>6, <1>7, <1>8, <1>9, <1>10, <1>11, <1>12, <1>13, <1>14, <1>15,
     <1>16 DEF Next, Reconcile, TrainerCheckpoints, Timer, DeliverWorkload, vars, RTJ, World

(* Only the patch of a pass lowers the priority of a Workload. *)
LEMMA OnlyPatches ==
  ASSUME [Next]_vars, priority' # priority
  PROVE  ctl.pc = "patch" /\ priority' = effective
  BY DEF Next, Reconcile, vars, Workload, ObserveUnshaped, reconcilePriorityState, PatchWorkload,
     patchWorkloadPriority, UpdateAnnotations, StatusUpdate, Conflict, Launch, Stop, DeferUntilAdmitted,
     ResolveFails, PatchFails, Restart, KueueUnsuspends, KueueSuspends, SpecWrite, TrainerCheckpoints,
     Tick, Timer, Deliver, DeliverWorkload

(* A run keeps its priority for as long as the policy protects it, counted from the launch itself:
   for every policy that does not lower what it protects, whatever the timestamps of earlier
   attempts say, however stale the copy of the pass is, and whichever writes were lost. *)
THEOREM RunsAreProtected ==
  ASSUME BoostsRaise
  PROVE  Spec => ProtectedRunKeepsPriority
<1>1. Init => Types /\ CopiesInv /\ RunsInv
  <2>1. Init => RunsInv
    <3>1. ASSUME Init PROVE jobSet.attempt = 0 /\ seen = rtj /\ ctl.pc = "idle" /\ ~ctl.fresh
      BY <3>1, IdleJob DEF Init, NoJobSet
    <3> QED
      BY <3>1 DEF RunsInv, KnowsLaunch
  <2> QED
    BY <2>1, InitTypes, InitCopies
<1>2. Types /\ CopiesInv /\ RunsInv /\ [Next]_vars => (Types /\ CopiesInv /\ RunsInv)'
  BY NextTypes, NextCopies, NextRuns
<1>3. Types /\ RunsInv /\ [Next]_vars
        => [priority' < priority /\ priority' < Base => now >= jobSet.since + policy.protection]_vars
  <2> SUFFICES ASSUME Types, RunsInv, [Next]_vars, priority' < priority, priority' < Base
               PROVE  now >= jobSet.since + policy.protection
    OBVIOUS
  <2>1. priority \in Int /\ Base \in Int
    BY DEF Types
  <2>2. priority' # priority
    BY <2>1
  <2>3. ctl.pc = "patch" /\ effective < Base /\ effective \in Int
    BY <2>2, OnlyPatches DEF Types
  <2> QED
    BY <2>1, <2>3 DEF RunsInv
<1> QED
  BY <1>1, <1>2, <1>3, PTL DEF Spec, ProtectedRunKeepsPriority
=============================================================================
