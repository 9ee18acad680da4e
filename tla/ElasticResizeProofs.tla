------------------------ MODULE ElasticResizeProofs -------------------------
(* Resizing for any worker counts and any number of edits, evictions and failures. *)
EXTENDS ElasticResize, TLAPS

USE SizesAssumption, BudgetAssumption

-----------------------------------------------------------------------------
\* Types of what the operators return

Kinds == {"NoResize", "ResizeBlocked", "ReclaimPublished", "ResizeInProgress", "GrowViaRelaunch",
          "ShrinkInPlace", "ShrinkViaRelaunch"}

LEMMA MaxSize == MaxWorkers \in Sizes
  BY DEF Sizes

LEMMA KindType ==
  ASSUME NEW i
  PROVE  EvaluatePlan(i) \in Kinds
  BY DEF EvaluatePlan, Kinds

LEMMA PhaseType ==
  ASSUME NEW j \in RTJs, NEW p \in Phases
  PROVE  /\ [j EXCEPT !.phase = p] \in RTJs
         /\ [j EXCEPT !.phase = p].phase = p /\ [j EXCEPT !.phase = p].suspend = j.suspend
         /\ [j EXCEPT !.phase = p].attempt = j.attempt /\ [j EXCEPT !.phase = p].published = j.published
  BY DEF RTJs

LEMMA ResizeStateType ==
  ASSUME NEW kind \in Kinds
  PROVE  planKindToResizeState(kind) \in ResizeStates
  BY Zenon DEF planKindToResizeState, Kinds, ResizeStates, Relaunches

LEMMA ResizePathType ==
  ASSUME NEW kind \in Kinds
  PROVE  planKindToResizePath(kind) \in ResizePaths
  BY Zenon DEF planKindToResizePath, Kinds, ResizePaths, Relaunches

LEMMA RelaunchPath ==
  ASSUME NEW kind \in Relaunches
  PROVE  planKindToResizePath(kind) = "CheckpointAndRelaunch"
  BY Zenon DEF planKindToResizePath, Relaunches

LEMMA ResizeConditionsType ==
  ASSUME NEW kind \in Kinds, NEW conds \in SUBSET Conditions
  PROVE  syncResizeConditions(conds, kind) \in SUBSET Conditions
  BY Zenon DEF syncResizeConditions, Kinds, Relaunches, Conditions

(* What a plan writes into the status, and what it leaves alone. *)
LEMMA PlannedType ==
  ASSUME NEW j \in RTJs, NEW kind \in Kinds, seenWl \in Workloads
  PROVE  LET new == Planned(j, kind)
         IN  /\ new \in RTJs /\ new.suspend = j.suspend /\ new.attempt = j.attempt
             /\ new.phase = j.phase /\ new.published = j.published /\ new.target = j.target
             /\ new.recorded = j.target /\ new.path = planKindToResizePath(kind)
             /\ new.admitted = IF j.admitted > 0 THEN j.admitted ELSE j.preferred
<1> DEFINE current == IF j.admitted > 0 THEN j.admitted ELSE j.preferred
           cs == syncResizeConditions(j.conds, kind)
           st == planKindToResizeState(kind)
           pa == planKindToResizePath(kind)
<1>1. current \in Sizes
  BY DEF RTJs, Sizes
<1>2. cs \in SUBSET Conditions /\ st \in ResizeStates /\ pa \in ResizePaths
  BY ResizeConditionsType, ResizeStateType, ResizePathType DEF RTJs
<1>3. buildElasticPlanInput(j, seenWl).current = current /\ buildElasticPlanInput(j, seenWl).target = j.target
  BY DEF buildElasticPlanInput
<1> DEFINE synced == [j EXCEPT !.admitted = current, !.recorded = j.target, !.state = st, !.path = pa]
<1> HIDE DEF current, cs, st, pa
<1>4. synced \in RTJs /\ synced.conds = j.conds /\ synced.target = j.target /\ synced.suspend = j.suspend
      /\ synced.attempt = j.attempt /\ synced.phase = j.phase /\ synced.published = j.published
      /\ synced.recorded = j.target /\ synced.path = pa /\ synced.admitted = current
  BY <1>1, <1>2 DEF RTJs
<1>5. syncElasticityStatus(j, buildElasticPlanInput(j, seenWl), kind) = synced
  BY <1>3 DEF syncElasticityStatus, st, pa
<1> HIDE DEF synced
<1>6. Planned(j, kind) = [synced EXCEPT !.conds = cs]
  BY <1>4, <1>5 DEF Planned, cs
<1>7. /\ [synced EXCEPT !.conds = cs] \in RTJs
      /\ [synced EXCEPT !.conds = cs].suspend = synced.suspend
      /\ [synced EXCEPT !.conds = cs].attempt = synced.attempt
      /\ [synced EXCEPT !.conds = cs].phase = synced.phase
      /\ [synced EXCEPT !.conds = cs].published = synced.published
      /\ [synced EXCEPT !.conds = cs].target = synced.target
      /\ [synced EXCEPT !.conds = cs].recorded = synced.recorded
      /\ [synced EXCEPT !.conds = cs].path = synced.path
      /\ [synced EXCEPT !.conds = cs].admitted = synced.admitted
  BY <1>2, <1>4 DEF RTJs
<1> QED
  BY <1>4, <1>6, <1>7 DEF pa, current

LEMMA ObservedType ==
  ASSUME NEW j \in RTJs
  PROVE  LET new == ObservedActive(j)
         IN  /\ new \in RTJs /\ new.phase = "Running" /\ new.suspend = j.suspend
             /\ new.attempt = j.attempt /\ new.published = j.published
             /\ new.target = j.target /\ new.enabled = j.enabled
             /\ new.admitted = j.admitted /\ new.preferred = j.preferred
<1> DEFINE running == [j EXCEPT !.phase = "Running"]
<1>1. /\ running \in RTJs /\ running.phase = "Running" /\ running.suspend = j.suspend
      /\ running.attempt = j.attempt /\ running.published = j.published
      /\ running.target = j.target /\ running.enabled = j.enabled
      /\ running.admitted = j.admitted /\ running.preferred = j.preferred
  BY DEF RTJs, Phases
<1> HIDE DEF running
<1>2. LET new == completeResizeAfterRelaunch(running)
      IN  /\ new \in RTJs /\ new.phase = running.phase /\ new.suspend = running.suspend
          /\ new.attempt = running.attempt /\ new.published = running.published
          /\ new.target = running.target /\ new.enabled = running.enabled
          /\ new.admitted = running.admitted /\ new.preferred = running.preferred
  <2> DEFINE st == IF running.state = "InProgress" THEN "Completed" ELSE running.state
             cs == running.conds \ {"Checkpointing", "Relaunching", "Pending"}
  <2>1. st \in ResizeStates /\ cs \in SUBSET Conditions /\ Unset \in ResizePaths
    BY <1>1 DEF RTJs, ResizeStates, ResizePaths
  <2>2. completeResizeAfterRelaunch(running) = [running EXCEPT !.state = st, !.path = Unset, !.conds = cs]
    BY DEF completeResizeAfterRelaunch
  <2> HIDE DEF st, cs
  <2> QED
    BY <1>1, <2>1, <2>2 DEF RTJs
<1>3. ObservedActive(j) = running \/ ObservedActive(j) = completeResizeAfterRelaunch(running)
  BY DEF ObservedActive, running
<1> QED
  BY <1>1, <1>2, <1>3

LEMMA ClearedType ==
  ASSUME NEW j \in RTJs
  PROVE  LET new == clearStaleResizeState(j)
         IN  /\ new \in RTJs /\ new.suspend = j.suspend /\ new.attempt = j.attempt
             /\ new.phase = j.phase /\ new.published = FALSE
<1> DEFINE st == IF j.state \in {Unset, "Idle"} THEN j.state ELSE IF j.state = "InProgress" THEN "Completed" ELSE "Idle"
<1>1. st \in ResizeStates
  BY DEF RTJs, ResizeStates
<1>2. clearStaleResizeState(j) = [j EXCEPT !.state = st, !.published = FALSE]
  BY DEF clearStaleResizeState
<1> HIDE DEF st
<1> QED
  BY <1>1, <1>2 DEF RTJs

LEMMA ShrunkType ==
  ASSUME NEW j \in RTJs
  PROVE  LET new == executeShrinkInPlace(j)
         IN  /\ new \in RTJs /\ new.suspend = j.suspend /\ new.attempt = j.attempt /\ new.phase = j.phase
             /\ new.admitted = j.admitted /\ new.recorded = j.recorded
<1> DEFINE cs == (j.conds \ {"Pending"}) \cup {"ShrinkingInPlace", "ReclaimPublished"}
<1>1. cs \in SUBSET Conditions /\ "InProgress" \in ResizeStates
  BY DEF RTJs, Conditions, ResizeStates
<1>2. executeShrinkInPlace(j) = [j EXCEPT !.published = TRUE, !.state = "InProgress", !.conds = cs]
  BY DEF executeShrinkInPlace
<1> HIDE DEF cs
<1> QED
  BY <1>1, <1>2 DEF RTJs

LEMMA RelaunchedType ==
  ASSUME NEW j \in RTJs
  PROVE  LET new == executeRelaunchResize(j)
         IN  /\ new \in RTJs /\ new.suspend = j.suspend /\ new.attempt = j.attempt /\ new.phase = j.phase
             /\ new.state = "InProgress" /\ new.published = FALSE
             /\ new.path = j.path /\ new.target = j.target /\ new.recorded = j.recorded
<1> DEFINE cs == (j.conds \ {"Pending", "ShrinkingInPlace", "ReclaimPublished"}) \cup {"Checkpointing"}
<1>1. cs \in SUBSET Conditions /\ "InProgress" \in ResizeStates
  BY DEF RTJs, Conditions, ResizeStates
<1>2. executeRelaunchResize(j) = [j EXCEPT !.state = "InProgress", !.published = FALSE, !.conds = cs]
  BY DEF executeRelaunchResize
<1> HIDE DEF cs
<1> QED
  BY <1>1, <1>2 DEF RTJs

LEMMA NewType ==
  ASSUME NEW p \in Sizes, NEW ref \in BOOLEAN, NEW supported \in BOOLEAN
  PROVE  /\ NewRTJ(p, ref, supported) \in RTJs
         /\ NewRTJ(p, ref, supported).attempt = 0 /\ NewRTJ(p, ref, supported).published = FALSE
<1>1. 0 \in 0 .. MaxKueue + 1
  OBVIOUS
<1> QED
  BY <1>1 DEF NewRTJ, RTJs, Phases, ResizeStates, ResizePaths

LEMMA IdleType == Idle \in Ctls /\ Idle.pc = "idle"
  BY NewType, MaxSize DEF Idle, Ctls

Budgets == [user : 0 .. MaxUser, kueue : 0 .. MaxKueue, fault : 0 .. MaxFault]

LEMMA SpendFault ==
  ASSUME budget \in Budgets, Spend("fault")
  PROVE  budget' \in Budgets /\ budget'.kueue = budget.kueue
  BY DEF Spend, Budgets

LEMMA SpendUser ==
  ASSUME budget \in Budgets, Spend("user")
  PROVE  budget' \in Budgets /\ budget'.kueue = budget.kueue
  BY DEF Spend, Budgets

LEMMA SpendKueue ==
  ASSUME budget \in Budgets, Spend("kueue")
  PROVE  budget' \in Budgets /\ budget'.kueue = budget.kueue - 1
  BY DEF Spend, Budgets

LEMMA GoType ==
  ASSUME NEW j \in RTJs, NEW pc \in {"relaunch", "commit"}, fresh \in BOOLEAN, Go(pc, j)
  PROVE  ctl' \in Ctls /\ ctl'.pc = pc /\ ctl'.job = j /\ ctl'.fresh = fresh
  BY DEF Go, Ctls

LEMMA UpdateType ==
  ASSUME NEW old, NEW j \in RTJs, fresh \in BOOLEAN, UpdateIfChanged(old, j)
  PROVE  \/ ctl' = Idle
         \/ ctl' \in Ctls /\ ctl'.pc = "commit" /\ ctl'.job = j /\ ctl'.fresh = fresh
  BY GoType DEF UpdateIfChanged

-----------------------------------------------------------------------------
\* A pass up to its first write

Delta(j) == (IF j.admitted > 0 THEN j.admitted ELSE j.preferred) - j.target

AnyPlan ==
    \/ InelasticPass \/ findWorkloadFails \/ PlanWaits \/ PlanShrinkInPlace \/ ShrinkPatchFails
    \/ PlanRelaunch

AnyStop == requestStop \/ DrainNotReady \/ DrainRecorded \/ DrainTimedOut \/ DeferUntilAdmitted

(* A plan of a running RTJ: what it is about to write, and when it declares pods reclaimable. *)
LEMMA PlanEffect ==
  ASSUME TypeOK, AnyPlan
  PROVE  /\ ctl.pc = "idle" /\ ~seen.suspend /\ UNCHANGED <<rtj, seen, fresh, seenWl, jobSet>>
         /\ queued' = FALSE /\ budget' \in Budgets /\ budget'.kueue = budget.kueue
         /\ \/ ctl' = Idle
            \/ /\ ctl' \in Ctls /\ ctl'.pc \in {"relaunch", "commit"} /\ ctl'.fresh = fresh
               /\ ctl'.job.suspend = seen.suspend /\ ctl'.job.attempt = seen.attempt
               /\ ctl'.job.phase = "Running"
               /\ ctl'.pc = "relaunch" =>
                    /\ isResizeTriggeredStop(ctl'.job) /\ ctl'.job.recorded = ctl'.job.target
                    /\ ~ctl'.job.published
               /\ ctl'.job.published =>
                    seen.published \/ (PlanShrinkInPlace /\ ctl'.job.admitted - ctl'.job.recorded = Delta(seen))
<1> DEFINE o == ObservedActive(seen)
<1>0. seen \in RTJs /\ seenWl \in Workloads /\ fresh \in BOOLEAN /\ budget \in Budgets
  BY DEF TypeOK, Budgets
<1>1. ctl.pc = "idle" /\ ~seen.suspend /\ queued' = FALSE
  BY DEF AnyPlan, InelasticPass, findWorkloadFails, PlanWaits, PlanShrinkInPlace, ShrinkPatchFails,
         PlanRelaunch, ElasticPass, Active, Dequeue
<1>2. UNCHANGED <<rtj, seen, fresh, seenWl, jobSet>>
  BY DEF AnyPlan, InelasticPass, findWorkloadFails, PlanWaits, PlanShrinkInPlace, ShrinkPatchFails, PlanRelaunch
<1>3. budget' \in Budgets /\ budget'.kueue = budget.kueue
  BY <1>0, SpendFault DEF AnyPlan, InelasticPass, findWorkloadFails, PlanWaits, PlanShrinkInPlace,
         ShrinkPatchFails, PlanRelaunch
<1>4. /\ o \in RTJs /\ o.phase = "Running" /\ o.suspend = seen.suspend /\ o.attempt = seen.attempt
      /\ o.published = seen.published
      /\ o.target = seen.target /\ o.admitted = seen.admitted /\ o.preferred = seen.preferred
  BY <1>0, ObservedType
<1>k. Kind \in Kinds
  BY KindType DEF Kind
<1> HIDE DEF o
<1>5. CASE InelasticPass \/ findWorkloadFails
  <2>1. UpdateIfChanged(seen, o)
    BY <1>5 DEF InelasticPass, findWorkloadFails, o
  <2>2. ctl' = Idle \/ (ctl' \in Ctls /\ ctl'.pc = "commit" /\ ctl'.job = o /\ ctl'.fresh = fresh)
    BY <1>0, <1>4, <2>1, UpdateType
  <2> QED
    BY <1>1, <1>2, <1>3, <1>4, <2>2
<1>6. CASE PlanWaits
  <2> DEFINE j == Planned(o, Kind)
             n == IF Kind = "NoResize" THEN clearStaleResizeState(j) ELSE j
  <2>1. UpdateIfChanged(seen, n)
    BY <1>6 DEF PlanWaits, o
  <2>2. /\ j \in RTJs /\ j.phase = o.phase /\ j.suspend = o.suspend /\ j.attempt = o.attempt
        /\ j.published = o.published
    BY <1>0, <1>4, <1>k, PlannedType
  <2>3. /\ n \in RTJs /\ n.phase = o.phase /\ n.suspend = o.suspend /\ n.attempt = o.attempt
        /\ n.published => o.published
    BY <2>2, ClearedType
  <2> HIDE DEF j, n
  <2>4. ctl' = Idle \/ (ctl' \in Ctls /\ ctl'.pc = "commit" /\ ctl'.job = n /\ ctl'.fresh = fresh)
    BY <1>0, <2>1, <2>3, UpdateType
  <2> QED
    BY <1>1, <1>2, <1>3, <1>4, <2>3, <2>4
<1>7. CASE PlanShrinkInPlace
  <2> DEFINE j == Planned(o, "ShrinkInPlace")
             n == executeShrinkInPlace(j)
  <2>1. Go("commit", n)
    BY <1>7 DEF PlanShrinkInPlace, o
  <2>2. /\ j \in RTJs /\ j.phase = o.phase /\ j.suspend = o.suspend /\ j.attempt = o.attempt
        /\ j.recorded = o.target /\ j.admitted = IF o.admitted > 0 THEN o.admitted ELSE o.preferred
    BY <1>0, <1>4, PlannedType, "ShrinkInPlace" \in Kinds DEF Kinds
  <2>3. /\ n \in RTJs /\ n.phase = o.phase /\ n.suspend = o.suspend /\ n.attempt = o.attempt
        /\ n.admitted - n.recorded = Delta(seen)
    BY <1>4, <2>2, ShrunkType DEF Delta
  <2> HIDE DEF j, n
  <2>4. ctl' \in Ctls /\ ctl'.pc = "commit" /\ ctl'.job = n /\ ctl'.fresh = fresh
    BY <1>0, <2>1, <2>3, GoType
  <2> QED
    BY <1>1, <1>2, <1>3, <1>4, <1>7, <2>3, <2>4
<1>8. CASE ShrinkPatchFails
  <2> DEFINE j == Planned(o, "ShrinkInPlace")
             cs == j.conds \cup {"Failed"}
             n == [j EXCEPT !.conds = cs]
  <2>1. Go("commit", n)
    BY <1>8 DEF ShrinkPatchFails, o
  <2>2. /\ j \in RTJs /\ j.phase = o.phase /\ j.suspend = o.suspend /\ j.attempt = o.attempt
        /\ j.published = o.published
    BY <1>0, <1>4, PlannedType, "ShrinkInPlace" \in Kinds DEF Kinds
  <2> HIDE DEF j
  <2>c. cs \in SUBSET Conditions
    BY <2>2 DEF RTJs, Conditions
  <2> HIDE DEF cs
  <2>3. /\ n \in RTJs /\ n.phase = o.phase /\ n.suspend = o.suspend /\ n.attempt = o.attempt
        /\ n.published = o.published
    BY <2>2, <2>c DEF RTJs
  <2> HIDE DEF n
  <2>4. ctl' \in Ctls /\ ctl'.pc = "commit" /\ ctl'.job = n /\ ctl'.fresh = fresh
    BY <1>0, <2>1, <2>3, GoType
  <2> QED
    BY <1>1, <1>2, <1>3, <1>4, <2>3, <2>4
<1>9. CASE PlanRelaunch
  <2> DEFINE j == Planned(o, Kind)
             n == executeRelaunchResize(j)
  <2>1. Go("relaunch", n) /\ Kind \in Relaunches
    BY <1>9 DEF PlanRelaunch, ElasticPass, o
  <2>2. /\ j \in RTJs /\ j.phase = o.phase /\ j.suspend = o.suspend /\ j.attempt = o.attempt
        /\ j.recorded = j.target /\ j.path = planKindToResizePath(Kind)
    BY <1>0, <1>4, <1>k, PlannedType
  <2>3. j.path = "CheckpointAndRelaunch"
    BY <2>1, <2>2, RelaunchPath
  <2> HIDE DEF j
  <2>4. /\ n \in RTJs /\ n.phase = o.phase /\ n.suspend = o.suspend /\ n.attempt = o.attempt
        /\ n.state = "InProgress" /\ n.published = FALSE
        /\ n.path = "CheckpointAndRelaunch" /\ n.recorded = n.target
    BY <2>2, <2>3, RelaunchedType
  <2> HIDE DEF n
  <2>5. ctl' \in Ctls /\ ctl'.pc = "relaunch" /\ ctl'.job = n /\ ctl'.fresh = fresh
    BY <1>0, <2>1, <2>4, GoType
  <2> QED
    BY <1>1, <1>2, <1>3, <1>4, <2>4, <2>5 DEF isResizeTriggeredStop
<1> QED
  BY <1>5, <1>6, <1>7, <1>8, <1>9 DEF AnyPlan

(* The stop flow of an evicted RTJ, up to its write. *)
LEMMA StopEffect ==
  ASSUME TypeOK, AnyStop
  PROVE  /\ ctl.pc = "idle" /\ seen.suspend
         /\ UNCHANGED <<rtj, seen, fresh, workload, seenWl, budget>> /\ queued' = FALSE
         /\ jobSet' = jobSet \/ (jobSet' = 0 /\ getActiveJobSet(seen))
         /\ \/ ctl' = Idle
            \/ /\ ctl' \in Ctls /\ ctl'.pc = "commit" /\ ctl'.fresh = fresh
               /\ ctl'.job.suspend = seen.suspend /\ ctl'.job.attempt = seen.attempt
               /\ ctl'.job.published = seen.published
<1>0. seen \in RTJs /\ fresh \in BOOLEAN
  BY DEF TypeOK
<1>1. /\ ctl.pc = "idle" /\ seen.suspend
      /\ UNCHANGED <<rtj, seen, fresh, workload, seenWl, budget>> /\ queued' = FALSE
      /\ jobSet' = jobSet \/ (jobSet' = 0 /\ getActiveJobSet(seen))
  BY DEF AnyStop, requestStop, DrainNotReady, DrainRecorded, DrainTimedOut, DeferUntilAdmitted, Stopping, Dequeue
<1>2. CASE \E p \in Phases : Go("commit", [seen EXCEPT !.phase = p]) \/ UpdateIfChanged(seen, [seen EXCEPT !.phase = p])
  <2>1. PICK p \in Phases : Go("commit", [seen EXCEPT !.phase = p]) \/ UpdateIfChanged(seen, [seen EXCEPT !.phase = p])
    BY <1>2
  <2> DEFINE n == [seen EXCEPT !.phase = p]
  <2>2. n \in RTJs /\ n.suspend = seen.suspend /\ n.attempt = seen.attempt /\ n.published = seen.published
    BY <1>0, PhaseType
  <2> HIDE DEF n
  <2>3. ctl' = Idle \/ (ctl' \in Ctls /\ ctl'.pc = "commit" /\ ctl'.job = n /\ ctl'.fresh = fresh)
    BY <1>0, <2>1, <2>2, GoType, UpdateType DEF n
  <2> QED
    BY <1>1, <2>2, <2>3
<1>3. CASE DrainRecorded
  <2> DEFINE n == [seen EXCEPT !.checkpoint = TRUE]
  <2>1. Go("commit", n)
    BY <1>3 DEF DrainRecorded
  <2>2. n \in RTJs /\ n.suspend = seen.suspend /\ n.attempt = seen.attempt /\ n.published = seen.published
    BY <1>0 DEF RTJs
  <2> HIDE DEF n
  <2>3. ctl' \in Ctls /\ ctl'.pc = "commit" /\ ctl'.job = n /\ ctl'.fresh = fresh
    BY <1>0, <2>1, <2>2, GoType
  <2> QED
    BY <1>1, <2>2, <2>3
<1>4. {"YieldRequested", "Draining", "Failed", "Queued"} \subseteq Phases
  BY DEF Phases
<1> QED
  BY <1>2, <1>3, <1>4 DEF AnyStop, requestStop, DrainNotReady, DrainTimedOut, DeferUntilAdmitted

(* A launch counts one attempt more than its copy of the RTJ. *)
LEMMA LaunchEffect ==
  ASSUME TypeOK, Launch, seen.attempt + 1 <= MaxKueue + 1
  PROVE  /\ ctl.pc = "idle" /\ ~seen.suspend /\ ~getActiveJobSet(seen)
         /\ UNCHANGED <<rtj, seen, fresh, workload, seenWl, budget>> /\ queued' = FALSE
         /\ jobSet' = seen.attempt + 1
         /\ \/ ctl' = Idle
            \/ /\ ctl' \in Ctls /\ ctl'.pc = "commit" /\ ctl'.fresh = fresh
               /\ ctl'.job.suspend = seen.suspend /\ ctl'.job.attempt = seen.attempt + 1
               /\ ctl'.job.published = seen.published /\ ctl'.job.phase # "YieldRequested"
<1>0. seen \in RTJs /\ fresh \in BOOLEAN /\ seen.attempt \in 0 .. MaxKueue + 1
  BY DEF TypeOK, RTJs
<1>1. /\ ctl.pc = "idle" /\ ~seen.suspend /\ ~getActiveJobSet(seen)
      /\ UNCHANGED <<rtj, seen, fresh, workload, seenWl, budget>> /\ queued' = FALSE
      /\ jobSet' = seen.attempt + 1
  BY DEF Launch, Dequeue
<1> DEFINE ph == IF seen.checkpoint /\ seen.phase \in {"Queued", "Restoring"} THEN "Restoring" ELSE "Starting"
           at == seen.attempt + 1
           j == [seen EXCEPT !.phase = ph, !.attempt = at]
           n == IF seen.ref /\ isResizeTriggeredStop(seen) THEN markResizeRelaunchingCondition(j) ELSE j
<1>2. UpdateIfChanged(seen, n)
  BY DEF Launch
<1>3. ph \in Phases /\ ph # "YieldRequested" /\ at \in 0 .. MaxKueue + 1
  BY <1>0 DEF Phases
<1> HIDE DEF ph, at
<1>4. j \in RTJs /\ j.suspend = seen.suspend /\ j.attempt = at /\ j.published = seen.published /\ j.phase = ph
  BY <1>0, <1>3 DEF RTJs
<1> HIDE DEF j
<1>5. LET m == markResizeRelaunchingCondition(j)
      IN  m \in RTJs /\ m.suspend = j.suspend /\ m.attempt = at /\ m.published = j.published /\ m.phase = ph
  <2> DEFINE cs == (j.conds \ {"Checkpointing"}) \cup {"Relaunching"}
  <2>1. cs \in SUBSET Conditions
    BY <1>4 DEF RTJs, Conditions
  <2>2. markResizeRelaunchingCondition(j) = [j EXCEPT !.conds = cs]
    BY DEF markResizeRelaunchingCondition
  <2> HIDE DEF cs
  <2> QED
    BY <1>4, <2>1, <2>2 DEF RTJs
<1>6. n \in RTJs /\ n.suspend = seen.suspend /\ n.attempt = at /\ n.published = seen.published /\ n.phase = ph
  BY <1>4, <1>5
<1> HIDE DEF n
<1>7. ctl' = Idle \/ (ctl' \in Ctls /\ ctl'.pc = "commit" /\ ctl'.job = n /\ ctl'.fresh = fresh)
  BY <1>0, <1>2, <1>6, UpdateType
<1> QED
  BY <1>1, <1>3, <1>6, <1>7 DEF at

-----------------------------------------------------------------------------
\* The environment

AnySpecWrite == UserEditsElasticity \/ KueueSuspend \/ KueueUnsuspend

LEMMA SpecWriteEffect ==
  ASSUME TypeOK, AnySpecWrite
  PROVE  /\ rtj' \in RTJs /\ fresh' = FALSE
         /\ ctl' = [ctl EXCEPT !.fresh = FALSE]
         /\ UNCHANGED <<seen, workload, seenWl, jobSet, queued>>
         /\ rtj'.attempt = rtj.attempt /\ rtj'.phase = rtj.phase /\ rtj'.published = rtj.published
         /\ rtj'.admitted = rtj.admitted /\ rtj'.recorded = rtj.recorded
         /\ budget' \in Budgets
         /\ \/ budget'.kueue = budget.kueue /\ (rtj'.suspend = rtj.suspend \/ rtj.suspend)
            \/ budget'.kueue = budget.kueue - 1 /\ rtj'.suspend /\ ~rtj.suspend
<1>0. rtj \in RTJs /\ budget \in Budgets
  BY DEF TypeOK, Budgets
<1>1. CASE UserEditsElasticity
  <2>1. PICK new \in RTJs : /\ UserEdit(new) /\ new.attempt = rtj.attempt /\ new.phase = rtj.phase
                            /\ new.published = rtj.published /\ new.suspend = rtj.suspend
                            /\ new.admitted = rtj.admitted /\ new.recorded = rtj.recorded
    <3>1. CASE \E t \in {0} \cup Sizes : UserEdit([rtj EXCEPT !.target = t])
      <4>1. PICK t \in {0} \cup Sizes : UserEdit([rtj EXCEPT !.target = t])
        BY <3>1
      <4> DEFINE n == [rtj EXCEPT !.target = t]
      <4>2. n \in RTJs /\ n.attempt = rtj.attempt /\ n.phase = rtj.phase
            /\ n.published = rtj.published /\ n.admitted = rtj.admitted /\ n.recorded = rtj.recorded /\ n.suspend = rtj.suspend
        BY <1>0 DEF RTJs
      <4> QED
        BY <4>1, <4>2
    <3>2. CASE \E p \in Sizes : UserEdit([rtj EXCEPT !.preferred = p])
      <4>1. PICK p \in Sizes : UserEdit([rtj EXCEPT !.preferred = p])
        BY <3>2
      <4> DEFINE n == [rtj EXCEPT !.preferred = p]
      <4>2. n \in RTJs /\ n.attempt = rtj.attempt /\ n.phase = rtj.phase
            /\ n.published = rtj.published /\ n.admitted = rtj.admitted /\ n.recorded = rtj.recorded /\ n.suspend = rtj.suspend
        BY <1>0 DEF RTJs
      <4> QED
        BY <4>1, <4>2
    <3>3. CASE \E q \in {"IfSupported", "Never"} : UserEdit([rtj EXCEPT !.policy = q])
      <4>1. PICK q \in {"IfSupported", "Never"} : UserEdit([rtj EXCEPT !.policy = q])
        BY <3>3
      <4> DEFINE n == [rtj EXCEPT !.policy = q]
      <4>2. n \in RTJs /\ n.attempt = rtj.attempt /\ n.phase = rtj.phase
            /\ n.published = rtj.published /\ n.admitted = rtj.admitted /\ n.recorded = rtj.recorded /\ n.suspend = rtj.suspend
        BY <1>0 DEF RTJs
      <4> QED
        BY <4>1, <4>2
    <3>4. CASE UserEdit([rtj EXCEPT !.enabled = ~rtj.enabled, !.target = 0])
      <4> DEFINE e == ~rtj.enabled
                 n == [rtj EXCEPT !.enabled = e, !.target = 0]
      <4>1. e \in BOOLEAN
        OBVIOUS
      <4> HIDE DEF e
      <4>2. n \in RTJs /\ n.attempt = rtj.attempt /\ n.phase = rtj.phase
            /\ n.published = rtj.published /\ n.admitted = rtj.admitted /\ n.recorded = rtj.recorded /\ n.suspend = rtj.suspend
        BY <1>0, <4>1 DEF RTJs
      <4>3. UserEdit(n)
        BY <3>4 DEF e
      <4> QED
        BY <4>2, <4>3
    <3> QED
      BY <1>1, <3>1, <3>2, <3>3, <3>4 DEF UserEditsElasticity
  <2> QED
    BY <1>0, <2>1, SpendUser DEF UserEdit, SpecWrite
<1>2. CASE KueueSuspend
  <2> DEFINE n == [rtj EXCEPT !.suspend = TRUE]
  <2>1. n \in RTJs /\ n.attempt = rtj.attempt /\ n.phase = rtj.phase /\ n.published = rtj.published
        /\ n.admitted = rtj.admitted /\ n.recorded = rtj.recorded /\ n.suspend = TRUE
    BY <1>0 DEF RTJs
  <2>2. SpecWrite(n) /\ Spend("kueue") /\ ~rtj.suspend /\ UNCHANGED workload
    BY <1>2 DEF KueueSuspend
  <2> HIDE DEF n
  <2> QED
    BY <1>0, <2>1, <2>2, SpendKueue DEF SpecWrite
<1>3. CASE KueueUnsuspend
  <2> DEFINE n == [rtj EXCEPT !.suspend = FALSE]
  <2>1. n \in RTJs /\ n.attempt = rtj.attempt /\ n.phase = rtj.phase /\ n.published = rtj.published
        /\ n.admitted = rtj.admitted /\ n.recorded = rtj.recorded /\ n.suspend = FALSE
    BY <1>0 DEF RTJs
  <2>2. SpecWrite(n) /\ rtj.suspend /\ UNCHANGED <<workload, budget>>
    BY <1>3 DEF KueueUnsuspend
  <2> HIDE DEF n
  <2> QED
    BY <1>0, <2>1, <2>2 DEF SpecWrite
<1> QED
  BY <1>1, <1>2, <1>3 DEF AnySpecWrite

-----------------------------------------------------------------------------
\* The inductive invariant

Evictions == MaxKueue - budget.kueue

CopyInv == fresh => seen = rtj

(* Each attempt but one has an eviction of its own: an evicted RTJ has no more attempts than
   evictions, and the one attempt more of a running RTJ is the one whose JobSet there is. *)
AttemptInv ==
    /\ rtj.attempt <= Evictions + 1
    /\ rtj.attempt \in {seen.attempt, seen.attempt + 1}
    /\ rtj.suspend => rtj.attempt <= Evictions
    /\ seen.suspend => seen.attempt <= Evictions
    /\ rtj.attempt = Evictions + 1 => jobSet = rtj.attempt

(* A pass that can still write has the spec of the RTJ, and counts an attempt only after it made
   that attempt's JobSet. *)
PassInv ==
    ctl.pc # "idle" /\ ctl.fresh =>
        /\ ctl.job.suspend = rtj.suspend /\ seen.attempt = rtj.attempt
        /\ ctl.pc = "relaunch" => ctl.job.attempt = rtj.attempt
        /\ ctl.job.attempt # rtj.attempt =>
            /\ ctl.job.attempt = rtj.attempt + 1 /\ jobSet = ctl.job.attempt
            /\ ~rtj.suspend /\ rtj.attempt <= Evictions

(* The stop flow is entered for a resize that was written before. *)
StopInv ==
    /\ ctl.pc = "relaunch" =>
        /\ ctl.job.phase = "Running" /\ isResizeTriggeredStop(ctl.job)
        /\ ctl.job.recorded = ctl.job.target /\ ~ctl.job.published
    /\ ctl.pc = "commit" /\ ctl.fresh /\ ctl.job.phase = "YieldRequested" =>
        rtj.suspend \/ (isResizeTriggeredStop(rtj) /\ rtj.recorded = rtj.target)

(* Whatever Workload a pass sees, it plans no other change of the reclaimable pods for j. *)
OnlyShrinks(j) ==
    \A w \in Workloads :
        EvaluatePlan(buildElasticPlanInput(ObservedActive(j), w)) \in {"ShrinkInPlace", "NoResize", "ResizeBlocked"}

(* A pass that reads the old copy again can only send the number that j records. *)
Declares(j) == OnlyShrinks(seen) /\ j.admitted - j.recorded = Delta(seen)

ReclaimInv ==
    /\ rtj.published => seen.published \/ Declares(rtj)
    /\ ctl.pc # "idle" /\ ctl.fresh =>
        /\ rtj.published => seen.published
        /\ ctl.job.published => fresh /\ (rtj.published \/ Declares(ctl.job))

IInv == TypeOK /\ CopyInv /\ AttemptInv /\ PassInv /\ StopInv /\ ReclaimInv

-----------------------------------------------------------------------------
\* Reclaimable pods

LEMMA PlanInput ==
  ASSUME NEW j, NEW w
  PROVE  LET i == buildElasticPlanInput(j, w)
         IN  /\ i.target = j.target /\ i.state = j.state /\ i.published = j.published
             /\ i.enabled = j.enabled /\ i.admitted = (j.ref /\ w.count > 0)
             /\ i.current = IF j.admitted > 0 THEN j.admitted ELSE j.preferred
             /\ i.min = MinWorkers /\ i.max = j.preferred
             /\ i.preempting = (j.suspend /\ j.phase \in {"Draining", "YieldRequested"})
             /\ i.inPlace = (j.policy # "Never" /\ j.supported)
  BY DEF buildElasticPlanInput

(* A plan that shrinks in place declares a number of pods that there can be. *)
LEMMA ShrinkDelta ==
  ASSUME NEW j \in RTJs, NEW w,
         EvaluatePlan(buildElasticPlanInput(ObservedActive(j), w)) = "ShrinkInPlace"
  PROVE  Delta(j) \in 0 .. MaxWorkers /\ OnlyShrinks(j)
<1> DEFINE o == ObservedActive(j)
           i == buildElasticPlanInput(o, w)
<1>1. o.target = j.target /\ o.admitted = j.admitted /\ o.preferred = j.preferred
  BY ObservedType
<1>2. i.current = (IF j.admitted > 0 THEN j.admitted ELSE j.preferred) /\ i.target = j.target /\ i.min = MinWorkers
  BY <1>1, PlanInput
<1>3. /\ i.target # 0 /\ i.target # i.current /\ ~(i.target < i.min) /\ ~(i.target > i.current)
      /\ i.enabled /\ i.admitted /\ ~i.preempting /\ ~(i.target > i.max)
      /\ ~i.published /\ i.state # "InProgress" /\ i.inPlace
  BY DEF EvaluatePlan
<1>4. j.target \in {0} \cup Sizes /\ j.admitted \in {0} \cup Sizes /\ j.preferred \in Sizes
  BY DEF RTJs
<1> HIDE DEF i, o
<1>5. Delta(j) \in 0 .. MaxWorkers
  BY <1>2, <1>3, <1>4 DEF Delta, Sizes
<1>6. ASSUME NEW v \in Workloads
      PROVE  EvaluatePlan(buildElasticPlanInput(o, v)) \in {"ShrinkInPlace", "NoResize", "ResizeBlocked"}
  <2> DEFINE k == buildElasticPlanInput(o, v)
  <2>1. /\ k.target = i.target /\ k.current = i.current /\ k.min = i.min /\ k.max = i.max
        /\ k.enabled = i.enabled /\ k.preempting = i.preempting /\ k.published = i.published
        /\ k.state = i.state /\ k.inPlace = i.inPlace
    BY PlanInput DEF i
  <2> HIDE DEF k
  <2>2. EvaluatePlan(k) \in {"ShrinkInPlace", "NoResize", "ResizeBlocked"}
    BY <1>3, <2>1 DEF EvaluatePlan
  <2> QED
    BY <2>2 DEF k
<1> QED
  BY <1>5, <1>6 DEF OnlyShrinks, o

(* No plan for a published resize changes the number. *)
LEMMA PublishedPlan ==
  ASSUME NEW i, i.published
  PROVE  EvaluatePlan(i) \in {"NoResize", "ResizeBlocked", "ReclaimPublished"}
  BY DEF EvaluatePlan

LEMMA DeltaInput ==
  ASSUME NEW j, NEW w
  PROVE  ComputeReclaimDelta(buildElasticPlanInput(j, w)) = Delta(j)
  BY PlanInput DEF ComputeReclaimDelta, Delta

(* The steps of a plan that touch the Workload. *)
LEMMA WorkloadEffect ==
  ASSUME TypeOK, AnyPlan
  PROVE  /\ workload' \in Workloads
         /\ \/ workload' = workload
            \/ Kind = "ShrinkInPlace" /\ workload'.reclaimable = Delta(seen)
            \/ Kind \in Relaunches
<1>0. workload \in Workloads /\ seen \in RTJs
  BY DEF TypeOK
<1>1. CASE InelasticPass \/ findWorkloadFails \/ PlanWaits \/ ShrinkPatchFails
  <2>1. workload' = workload
    BY <1>1 DEF InelasticPass, findWorkloadFails, PlanWaits, ShrinkPatchFails
  <2> QED
    BY <1>0, <2>1
<1>2. CASE PlanShrinkInPlace
  <2>1. Kind = "ShrinkInPlace" /\ patchWorkloadReclaimablePods(Delta(seen))
    BY <1>2, DeltaInput DEF PlanShrinkInPlace, ElasticPass
  <2>2. Delta(seen) \in 0 .. MaxWorkers
    BY <1>0, <2>1, ShrinkDelta DEF Kind
  <2> QED
    BY <1>0, <2>1, <2>2 DEF patchWorkloadReclaimablePods, Workloads
<1>3. CASE PlanRelaunch
  <2>1. Kind \in Relaunches /\ (workload' = workload \/ workload' = [workload EXCEPT !.reclaimable = 0])
    BY <1>3 DEF PlanRelaunch, ElasticPass, patchWorkloadReclaimablePods
  <2>2. 0 \in 0 .. MaxWorkers
    OBVIOUS
  <2> QED
    BY <1>0, <2>1, <2>2 DEF Workloads
<1> QED
  BY <1>1, <1>2, <1>3 DEF AnyPlan

-----------------------------------------------------------------------------
\* The invariant is inductive

LEMMA NextCases ==
  ASSUME [Next]_vars
  PROVE  \/ AnyPlan \/ AnyStop \/ Launch \/ DrainComplete \/ reconcileResizeStopFlow \/ StatusUpdate
         \/ StatusConflict \/ AnySpecWrite \/ KueueClearAdmission \/ KueueReserve \/ Deliver
         \/ DeliverWorkload \/ Resync \/ UNCHANGED vars
  BY DEF Next, Reconcile, AnyPlan, AnyStop, AnySpecWrite

LEMMA InitIInv == Init => IInv
<1> SUFFICES ASSUME Init  PROVE IInv
  OBVIOUS
<1>1. PICK p \in Sizes, ref, supported \in BOOLEAN : rtj = NewRTJ(p, ref, supported)
  BY DEF Init
<1>2. rtj \in RTJs /\ rtj.attempt = 0 /\ rtj.published = FALSE /\ seen = rtj
  BY <1>1, NewType DEF Init
<1>3. budget \in Budgets /\ budget.kueue = MaxKueue
  BY DEF Init, Budgets
<1>4. workload \in Workloads /\ seenWl \in Workloads
  BY DEF Init, Workloads
<1>5. TypeOK
  BY <1>2, <1>3, <1>4, IdleType DEF TypeOK, Init, Budgets
<1>6. Evictions = 0 /\ ctl.pc = "idle"
  BY <1>3, IdleType DEF Evictions, Init
<1> QED
  BY <1>2, <1>5, <1>6 DEF IInv, CopyInv, AttemptInv, PassInv, StopInv, ReclaimInv

(* No attempt is started for an RTJ whose attempts are as many as they can be. *)
LEMMA LaunchBound ==
  ASSUME IInv, Launch
  PROVE  /\ seen.attempt <= Evictions /\ seen.attempt + 1 <= MaxKueue + 1
         /\ rtj.attempt = Evictions + 1 => rtj.attempt = seen.attempt + 1
<1>1. /\ rtj.attempt \in Nat /\ seen.attempt \in Nat /\ jobSet \in Nat
      /\ budget.kueue \in 0 .. MaxKueue /\ Evictions \in Nat /\ Evictions <= MaxKueue
  BY DEF IInv, TypeOK, RTJs, Evictions
<1>2. AttemptInv
  BY DEF IInv
<1>3. ~(seen.attempt # 0 /\ jobSet = seen.attempt)
  BY DEF Launch, getActiveJobSet
<1>4. seen.attempt # Evictions + 1
  BY <1>1, <1>2, <1>3 DEF AttemptInv
<1>5. seen.attempt <= Evictions
  BY <1>1, <1>2, <1>4 DEF AttemptInv
<1> QED
  BY <1>1, <1>2, <1>5 DEF AttemptInv

LEMMA Numbers ==
  ASSUME TypeOK
  PROVE  /\ rtj.attempt \in Nat /\ seen.attempt \in Nat /\ jobSet \in Nat
         /\ budget.kueue \in 0 .. MaxKueue /\ Evictions \in Nat
         /\ {rtj.suspend, seen.suspend, fresh, ctl.fresh} \subseteq BOOLEAN
         /\ budget \in Budgets /\ ctl \in Ctls /\ ctl.job \in RTJs
  BY DEF TypeOK, RTJs, Evictions, Budgets, Ctls

LEMMA PlanStep ==
  ASSUME IInv, AnyPlan
  PROVE  IInv'
<1>0. TypeOK /\ CopyInv /\ AttemptInv /\ ReclaimInv
  BY DEF IInv
<1>1. /\ UNCHANGED <<rtj, seen, fresh, seenWl, jobSet>> /\ queued' = FALSE
      /\ budget' \in Budgets /\ budget'.kueue = budget.kueue
  BY <1>0, PlanEffect
<1>2. \/ ctl' = Idle
      \/ /\ ctl' \in Ctls /\ ctl'.pc \in {"relaunch", "commit"} /\ ctl'.fresh = fresh
         /\ ctl'.job.suspend = seen.suspend /\ ctl'.job.attempt = seen.attempt
         /\ ctl'.job.phase = "Running"
         /\ ctl'.pc = "relaunch" =>
              /\ isResizeTriggeredStop(ctl'.job) /\ ctl'.job.recorded = ctl'.job.target
              /\ ~ctl'.job.published
         /\ ctl'.job.published =>
              seen.published \/ (PlanShrinkInPlace /\ ctl'.job.admitted - ctl'.job.recorded = Delta(seen))
  BY <1>0, PlanEffect
<1>3. PlanShrinkInPlace => OnlyShrinks(seen)
  BY <1>0, ShrinkDelta DEF PlanShrinkInPlace, ElasticPass, Kind, TypeOK
<1>4. TypeOK'
  BY <1>0, <1>1, <1>2, WorkloadEffect, IdleType DEF TypeOK, Budgets
<1>5. CopyInv' /\ AttemptInv'
  BY <1>0, <1>1 DEF CopyInv, AttemptInv, Evictions
<1>6. PassInv' /\ StopInv'
  BY <1>0, <1>1, <1>2, IdleType DEF CopyInv, PassInv, StopInv
<1>7. ReclaimInv'
  BY <1>0, <1>1, <1>2, <1>3, IdleType DEF CopyInv, ReclaimInv, Declares
<1> QED
  BY <1>4, <1>5, <1>6, <1>7 DEF IInv

LEMMA StopStep ==
  ASSUME IInv, AnyStop
  PROVE  IInv'
<1>0. TypeOK /\ CopyInv /\ AttemptInv /\ ReclaimInv
  BY DEF IInv
<1>1. /\ seen.suspend /\ UNCHANGED <<rtj, seen, fresh, workload, seenWl, budget>> /\ queued' = FALSE
      /\ jobSet' = jobSet \/ (jobSet' = 0 /\ getActiveJobSet(seen))
  BY <1>0, StopEffect
<1>2. \/ ctl' = Idle
      \/ /\ ctl' \in Ctls /\ ctl'.pc = "commit" /\ ctl'.fresh = fresh
         /\ ctl'.job.suspend = seen.suspend /\ ctl'.job.attempt = seen.attempt
         /\ ctl'.job.published = seen.published
  BY <1>0, StopEffect
<1>3. TypeOK'
  <2>1. ctl' \in Ctls
    BY <1>2, IdleType
  <2>2. jobSet \in 0 .. MaxKueue + 1 /\ 0 \in 0 .. MaxKueue + 1
    BY <1>0 DEF TypeOK
  <2>3. jobSet' \in 0 .. MaxKueue + 1
    BY <1>1, <2>2
  <2> QED
    BY <1>0, <1>1, <2>1, <2>3 DEF TypeOK
<1>4. CopyInv'
  BY <1>0, <1>1 DEF CopyInv
<1>5. AttemptInv'
  <2>1. jobSet' # jobSet => rtj.attempt # Evictions + 1
    BY <1>0, <1>1, Numbers DEF AttemptInv, getActiveJobSet
  <2> QED
    BY <1>0, <1>1, <2>1 DEF AttemptInv, Evictions
<1>6. PassInv' /\ StopInv'
  BY <1>0, <1>1, <1>2, IdleType DEF CopyInv, PassInv, StopInv
<1>7. ReclaimInv'
  BY <1>0, <1>1, <1>2, IdleType DEF CopyInv, ReclaimInv, Declares
<1> QED
  BY <1>3, <1>4, <1>5, <1>6, <1>7 DEF IInv

LEMMA LaunchStep ==
  ASSUME IInv, Launch
  PROVE  IInv'
<1>0. TypeOK /\ CopyInv /\ AttemptInv /\ ReclaimInv
  BY DEF IInv
<1>b. /\ seen.attempt <= Evictions /\ seen.attempt + 1 <= MaxKueue + 1
      /\ rtj.attempt = Evictions + 1 => rtj.attempt = seen.attempt + 1
  BY LaunchBound
<1>1. /\ ~seen.suspend /\ UNCHANGED <<rtj, seen, fresh, workload, seenWl, budget>> /\ queued' = FALSE
      /\ jobSet' = seen.attempt + 1
  BY <1>0, <1>b, LaunchEffect
<1>2. \/ ctl' = Idle
      \/ /\ ctl' \in Ctls /\ ctl'.pc = "commit" /\ ctl'.fresh = fresh
         /\ ctl'.job.suspend = seen.suspend /\ ctl'.job.attempt = seen.attempt + 1
         /\ ctl'.job.published = seen.published /\ ctl'.job.phase # "YieldRequested"
  BY <1>0, <1>b, LaunchEffect
<1>3. jobSet' \in 0 .. MaxKueue + 1
  BY <1>0, <1>1, <1>b, Numbers
<1>4. TypeOK'
  BY <1>0, <1>1, <1>2, <1>3, IdleType DEF TypeOK
<1>5. CopyInv' /\ AttemptInv'
  BY <1>0, <1>1, <1>b DEF CopyInv, AttemptInv, Evictions
<1>6. PassInv' /\ StopInv'
  BY <1>0, <1>1, <1>2, <1>b, IdleType DEF CopyInv, PassInv, StopInv, Evictions
<1>7. ReclaimInv'
  BY <1>0, <1>1, <1>2, IdleType DEF CopyInv, ReclaimInv, Declares
<1> QED
  BY <1>4, <1>5, <1>6, <1>7 DEF IInv

LEMMA DrainCompleteStep ==
  ASSUME IInv, DrainComplete
  PROVE  IInv'
<1>0. TypeOK /\ CopyInv /\ AttemptInv /\ ReclaimInv
  BY DEF IInv
<1>1. /\ ctl.pc = "idle" /\ seen.suspend /\ getActiveJobSet(seen) /\ jobSet' = 0
      /\ UNCHANGED <<rtj, seen, fresh, workload, seenWl, ctl, queued, budget>>
  BY DEF DrainComplete
<1>2. TypeOK' /\ CopyInv'
  BY <1>0, <1>1 DEF TypeOK, CopyInv
<1>3. AttemptInv'
  <2>1. rtj.attempt # Evictions + 1
    BY <1>0, <1>1, Numbers DEF AttemptInv, getActiveJobSet
  <2> QED
    BY <1>0, <1>1, <2>1 DEF AttemptInv, Evictions
<1>4. PassInv' /\ StopInv' /\ ReclaimInv'
  BY <1>0, <1>1 DEF PassInv, StopInv, ReclaimInv, Declares
<1> QED
  BY <1>2, <1>3, <1>4 DEF IInv

LEMMA StopFlowStep ==
  ASSUME IInv, reconcileResizeStopFlow
  PROVE  IInv'
<1>0. TypeOK /\ AttemptInv /\ PassInv /\ StopInv
  BY DEF IInv
<1> DEFINE n == [ctl.job EXCEPT !.phase = "YieldRequested"]
<1>1. /\ ctl.pc = "relaunch" /\ ctl.fresh /\ rtj' = ctl.job /\ fresh' = FALSE
      /\ ctl' = [pc |-> "commit", job |-> n, fresh |-> TRUE]
      /\ UNCHANGED <<seen, queued, workload, seenWl, jobSet, budget>>
  BY DEF reconcileResizeStopFlow
<1>2. n \in RTJs /\ n.suspend = ctl.job.suspend /\ n.attempt = ctl.job.attempt /\ n.published = ctl.job.published
  BY <1>0, Numbers, PhaseType, "YieldRequested" \in Phases DEF Phases
<1> HIDE DEF n
<1>3. ctl' \in Ctls /\ ctl'.pc = "commit" /\ ctl'.job = n /\ ctl'.fresh = TRUE
  BY <1>1, <1>2 DEF Ctls
<1>4. /\ ctl.job.suspend = rtj.suspend /\ seen.attempt = rtj.attempt /\ ctl.job.attempt = rtj.attempt
      /\ isResizeTriggeredStop(ctl.job) /\ ctl.job.recorded = ctl.job.target /\ ~ctl.job.published
  BY <1>0, <1>1 DEF PassInv, StopInv
<1>5. TypeOK'
  BY <1>0, <1>1, <1>3, Numbers DEF TypeOK
<1>6. CopyInv' /\ AttemptInv'
  BY <1>0, <1>1, <1>4 DEF CopyInv, AttemptInv, Evictions
<1>7. PassInv' /\ StopInv'
  BY <1>1, <1>2, <1>3, <1>4 DEF PassInv, StopInv
<1>8. ReclaimInv'
  BY <1>1, <1>2, <1>3, <1>4 DEF ReclaimInv
<1> QED
  BY <1>5, <1>6, <1>7, <1>8 DEF IInv

LEMMA UpdateStep ==
  ASSUME IInv, StatusUpdate
  PROVE  IInv'
<1>0. TypeOK /\ AttemptInv /\ PassInv /\ ReclaimInv
  BY DEF IInv
<1>1. /\ ctl.pc = "commit" /\ ctl.fresh /\ rtj' = ctl.job /\ fresh' = FALSE /\ queued' = TRUE /\ ctl' = Idle
      /\ UNCHANGED <<seen, workload, seenWl, jobSet, budget>>
  BY DEF StatusUpdate
<1>2. TypeOK'
  BY <1>0, <1>1, Numbers, IdleType DEF TypeOK
<1>3. /\ ctl.job.suspend = rtj.suspend /\ seen.attempt = rtj.attempt
      /\ ctl.job.attempt # rtj.attempt =>
            /\ ctl.job.attempt = rtj.attempt + 1 /\ jobSet = ctl.job.attempt
            /\ ~rtj.suspend /\ rtj.attempt <= Evictions
  BY <1>0, <1>1 DEF PassInv
<1>4. CopyInv' /\ AttemptInv'
  BY <1>0, <1>1, <1>3, Numbers DEF CopyInv, AttemptInv, Evictions
<1>5. PassInv' /\ StopInv'
  BY <1>1, IdleType DEF PassInv, StopInv
<1>6. ReclaimInv'
  BY <1>0, <1>1, IdleType DEF ReclaimInv, Declares
<1> QED
  BY <1>2, <1>4, <1>5, <1>6 DEF IInv

LEMMA SpecWriteStep ==
  ASSUME IInv, AnySpecWrite
  PROVE  IInv'
<1>0. TypeOK /\ AttemptInv /\ StopInv /\ ReclaimInv
  BY DEF IInv
<1>1. /\ rtj' \in RTJs /\ fresh' = FALSE
      /\ ctl' = [ctl EXCEPT !.fresh = FALSE]
      /\ UNCHANGED <<seen, workload, seenWl, jobSet, queued>>
      /\ rtj'.attempt = rtj.attempt /\ rtj'.published = rtj.published
      /\ budget' \in Budgets
      /\ \/ budget'.kueue = budget.kueue /\ (rtj'.suspend = rtj.suspend \/ rtj.suspend)
         \/ budget'.kueue = budget.kueue - 1 /\ rtj'.suspend /\ ~rtj.suspend
  BY <1>0, SpecWriteEffect
<1>2. ctl' \in Ctls /\ ctl'.pc = ctl.pc /\ ctl'.job = ctl.job /\ ctl'.fresh = FALSE
  BY <1>0, <1>1, Numbers DEF Ctls
<1>3. TypeOK'
  BY <1>0, <1>1, <1>2 DEF TypeOK, Budgets
<1>4. CopyInv' /\ AttemptInv'
  BY <1>0, <1>1, <1>3, Numbers DEF CopyInv, AttemptInv, Evictions
<1>5. PassInv' /\ StopInv'
  BY <1>0, <1>2 DEF PassInv, StopInv
<1>6. rtj'.admitted = rtj.admitted /\ rtj'.recorded = rtj.recorded
  BY <1>0, SpecWriteEffect
<1>7. ReclaimInv'
  BY <1>0, <1>1, <1>2, <1>6 DEF ReclaimInv, Declares
<1> QED
  BY <1>3, <1>4, <1>5, <1>7 DEF IInv

LEMMA QuietStep ==
  ASSUME IInv,
         \/ StatusConflict \/ KueueClearAdmission \/ KueueReserve \/ Deliver \/ DeliverWorkload
         \/ Resync \/ UNCHANGED vars
  PROVE  IInv'
<1>0. TypeOK /\ CopyInv /\ AttemptInv /\ PassInv /\ StopInv /\ ReclaimInv
  BY DEF IInv
<1>1. CASE StatusConflict
  <2>1. ctl' = Idle /\ queued' = TRUE /\ UNCHANGED <<rtj, seen, fresh, workload, seenWl, jobSet, budget>>
    BY <1>1 DEF StatusConflict
  <2>2. TypeOK'
    BY <1>0, <2>1, IdleType DEF TypeOK
  <2> QED
    BY <1>0, <2>1, <2>2, IdleType DEF IInv, CopyInv, AttemptInv, Evictions, PassInv, StopInv, ReclaimInv, Declares
<1>2. CASE KueueClearAdmission
  <2>1. /\ workload' = [workload EXCEPT !.count = 0] /\ Spend("kueue")
        /\ UNCHANGED <<rtj, seen, fresh, seenWl, jobSet, ctl, queued>>
    BY <1>2 DEF KueueClearAdmission
  <2>2. budget' \in Budgets /\ budget'.kueue = budget.kueue - 1 /\ workload' \in Workloads
    BY <1>0, <2>1, Numbers, SpendKueue DEF TypeOK, Workloads
  <2>3. TypeOK'
    BY <1>0, <2>1, <2>2 DEF TypeOK, Budgets
  <2>4. AttemptInv' /\ PassInv'
    BY <1>0, <2>1, <2>2, Numbers DEF AttemptInv, Evictions, PassInv
  <2> QED
    BY <1>0, <2>1, <2>3, <2>4 DEF IInv, CopyInv, StopInv, ReclaimInv, Declares
<1>3. CASE KueueReserve \/ DeliverWorkload \/ Resync \/ UNCHANGED vars
  <2>1. UNCHANGED <<rtj, seen, fresh, jobSet, ctl, budget>>
    BY <1>3 DEF KueueReserve, DeliverWorkload, Resync, vars
  <2>2. workload' \in Workloads /\ seenWl' \in Workloads /\ queued' \in BOOLEAN
    <3>1. MinWorkers .. rtj.preferred \subseteq Sizes
      BY <1>0 DEF TypeOK, RTJs, Sizes
    <3> QED
      BY <1>0, <1>3, <3>1 DEF KueueReserve, DeliverWorkload, Resync, vars, TypeOK, Workloads
  <2>3. TypeOK'
    BY <1>0, <2>1, <2>2 DEF TypeOK
  <2> QED
    BY <1>0, <2>1, <2>3 DEF IInv, CopyInv, AttemptInv, Evictions, PassInv, StopInv, ReclaimInv, Declares
<1>4. CASE Deliver
  <2>1. /\ ~fresh /\ seen' = rtj /\ fresh' = TRUE /\ queued' = TRUE
        /\ UNCHANGED <<rtj, workload, seenWl, jobSet, ctl, budget>>
    BY <1>4 DEF Deliver
  <2>2. TypeOK' /\ CopyInv'
    BY <1>0, <2>1 DEF TypeOK, CopyInv
  <2>3. AttemptInv' /\ PassInv' /\ StopInv'
    BY <1>0, <2>1, Numbers DEF AttemptInv, Evictions, PassInv, StopInv
  <2>4. ReclaimInv'
    BY <1>0, <2>1 DEF ReclaimInv
  <2> QED
    BY <2>2, <2>3, <2>4 DEF IInv
<1> QED
  BY <1>1, <1>2, <1>3, <1>4

LEMMA StepIInv == IInv /\ [Next]_vars => IInv'
  BY NextCases, PlanStep, StopStep, LaunchStep, DrainCompleteStep, StopFlowStep, UpdateStep,
     SpecWriteStep, QuietStep

LEMMA Inductive == Spec => []IInv
  BY InitIInv, StepIInv, PTL DEF Spec

(* All state keeps its type.  The attempt counter and the JobSet keep theirs because every attempt
   after the first follows an eviction, though passes launch from old copies of the RTJ. *)
THEOREM TypeCorrect == Spec => []TypeOK
<1>1. IInv => TypeOK
  BY DEF IInv
<1> QED
  BY <1>1, Inductive, PTL

-----------------------------------------------------------------------------
\* What a step may do

LEMMA RTJChanges ==
  ASSUME TypeOK, [Next]_vars, rtj' # rtj
  PROVE  AnySpecWrite \/ StatusUpdate \/ reconcileResizeStopFlow
<1>1. ~AnyPlan /\ ~AnyStop
  BY PlanEffect, StopEffect
<1> QED
  BY <1>1, NextCases DEF Launch, DrainComplete, StatusConflict, KueueClearAdmission, KueueReserve, Deliver,
       DeliverWorkload, Resync, vars

(* A run that Kueue does not evict is stopped only for a resize that the API server already records,
   for the target the spec has (elastic_execute.go: the status is written before the stop flow). *)
THEOREM StopIsRecorded == Spec => StopOnlyForRecordedResize
<1> DEFINE A == rtj'.phase = "YieldRequested" /\ rtj.phase # "YieldRequested" /\ ~rtj.suspend =>
                  isResizeTriggeredStop(rtj) /\ rtj.recorded = rtj.target
<1>1. IInv /\ [Next]_vars => A
  <2> SUFFICES ASSUME IInv, [Next]_vars,
                      rtj'.phase = "YieldRequested", rtj.phase # "YieldRequested", ~rtj.suspend
               PROVE  isResizeTriggeredStop(rtj) /\ rtj.recorded = rtj.target
    OBVIOUS
  <2>0. TypeOK /\ StopInv
    BY DEF IInv
  <2>1. AnySpecWrite \/ StatusUpdate \/ reconcileResizeStopFlow
    BY <2>0, RTJChanges
  <2>2. ~AnySpecWrite
    BY <2>0, SpecWriteEffect
  <2>3. ~reconcileResizeStopFlow
    BY <2>0 DEF reconcileResizeStopFlow, StopInv
  <2> QED
    BY <2>0, <2>1, <2>2, <2>3 DEF StatusUpdate, StopInv
<1>2. IInv /\ [Next]_vars => [A]_vars
  BY <1>1
<1> QED
  BY <1>2, Inductive, PTL DEF Spec, StopOnlyForRecordedResize

LEMMA WorkloadChanges ==
  ASSUME TypeOK, [Next]_vars, workload'.reclaimable # workload.reclaimable
  PROVE  AnyPlan
<1>0. workload \in Workloads
  BY DEF TypeOK
<1>1. ~AnyStop /\ ~AnySpecWrite
  BY StopEffect, SpecWriteEffect
<1>2. ~KueueClearAdmission /\ ~KueueReserve
  BY <1>0 DEF KueueClearAdmission, KueueReserve, Workloads
<1> QED
  BY <1>1, <1>2, NextCases DEF Launch, DrainComplete, StatusConflict, StatusUpdate, reconcileResizeStopFlow,
       Deliver, DeliverWorkload, Resync, vars

(* Reclaimable pods that the RTJ says are published change only to the number its status records,
   although a pass may plan from a copy that does not know of the publication yet and compares
   with a Workload as old (elastic_execute.go, workload_status_patch.go). *)
THEOREM ReclaimRecorded == Spec => ReclaimIsAsRecorded
<1> DEFINE A == rtj.published /\ rtj'.published /\ workload'.reclaimable # workload.reclaimable =>
                  workload'.reclaimable = rtj.admitted - rtj.recorded
<1>1. IInv /\ [Next]_vars => A
  <2> SUFFICES ASSUME IInv, [Next]_vars, rtj.published, workload'.reclaimable # workload.reclaimable
               PROVE  workload'.reclaimable = rtj.admitted - rtj.recorded
    OBVIOUS
  <2>0. TypeOK /\ ReclaimInv /\ seen \in RTJs /\ seenWl \in Workloads
    BY DEF IInv, TypeOK
  <2>1. AnyPlan
    BY <2>0, WorkloadChanges
  <2>2. \/ Kind = "ShrinkInPlace" /\ workload'.reclaimable = Delta(seen)
        \/ Kind \in Relaunches
    BY <2>0, <2>1, WorkloadEffect
  <2>3. CASE seen.published
    <3>1. buildElasticPlanInput(ObservedActive(seen), seenWl).published
      BY <2>0, <2>3, ObservedType, PlanInput
    <3>2. Kind \in {"NoResize", "ResizeBlocked", "ReclaimPublished"}
      BY <3>1, PublishedPlan DEF Kind
    <3> QED
      BY <2>2, <3>2 DEF Relaunches
  <2>4. CASE ~seen.published
    <3>1. OnlyShrinks(seen) /\ rtj.admitted - rtj.recorded = Delta(seen)
      BY <2>0, <2>4 DEF ReclaimInv, Declares
    <3>2. Kind \in {"ShrinkInPlace", "NoResize", "ResizeBlocked"}
      BY <2>0, <3>1 DEF OnlyShrinks, Kind
    <3> QED
      BY <2>2, <3>1, <3>2 DEF Relaunches
  <2> QED
    BY <2>3, <2>4
<1>2. IInv /\ [Next]_vars => [A]_vars
  BY <1>1
<1> QED
  BY <1>2, Inductive, PTL DEF Spec, ReclaimIsAsRecorded
=============================================================================
