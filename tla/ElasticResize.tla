---------------------------- MODULE ElasticResize ----------------------------
(***************************************************************************)
(* Resizing a running RTJ (internal/elastic, elastic_plan.go,              *)
(* elastic_execute.go, workload_status_patch.go and the resize conditions  *)
(* of status_helpers.go).  Every reconcile of a running RTJ plans a resize *)
(* from the spec and from status.elasticity as the pass before left it,    *)
(* overwrites status.elasticity with the plan, and executes the plan:      *)
(* reclaimablePods on the Workload for a shrink in place, the stop flow    *)
(* for a checkpoint-and-relaunch.                                          *)
(*                                                                         *)
(* The controller reads the RTJ and the Workload from its caches, patches  *)
(* the Workload first and then writes the RTJ's status with its            *)
(* resourceVersion.  The drain and the launch around a resize are those of *)
(* RTJLifecycle, in outline.                                               *)
(***************************************************************************)
EXTENDS Integers, FiniteSets

CONSTANTS
    MinWorkers,   \* spec.parallelism.minCount
    MaxWorkers,   \* bound: the largest preferredCount
    MaxUser,      \* bound: spec edits by the user
    MaxKueue,     \* bound: evictions by Kueue
    MaxFault      \* bound: failed patches and lookups

ASSUME SizesAssumption == MinWorkers \in Nat \ {0} /\ MaxWorkers \in Nat /\ MinWorkers <= MaxWorkers
ASSUME BudgetAssumption == MaxUser \in Nat /\ MaxKueue \in Nat /\ MaxFault \in Nat

VARIABLES
    rtj,         \* the RTJ in the API server
    seen,        \* the RTJ in the informer cache
    fresh,       \* seen has the resourceVersion of rtj
    workload,    \* the Workload in the API server
    seenWl,      \* the Workload in the informer cache
    jobSet,      \* the attempt whose JobSet runs, 0 for none
    ctl,         \* the reconcile in progress: the call it makes next, and its copy of the RTJ
    queued,      \* the RTJ's key is in the work queue
    budget       \* what the environment may still do

vars == <<rtj, seen, fresh, workload, seenWl, jobSet, ctl, queued, budget>>

-----------------------------------------------------------------------------
Unset == "Unset"     \* the empty string

Sizes == MinWorkers .. MaxWorkers

Phases == {"Queued", "Starting", "Restoring", "Running", "YieldRequested", "Draining", "Failed"}

ResizeStates == {Unset, "Idle", "Pending", "InProgress", "Blocked", "Completed"}
ResizePaths  == {Unset, "InPlace", "CheckpointAndRelaunch"}
Conditions   == {"Pending", "ShrinkingInPlace", "ReclaimPublished", "Checkpointing",
                 "Relaunching", "Blocked", "Failed"}

(* target 0 is an unset targetWorkerCount, admitted 0 an empty status.elasticity.  ref says
   that status.workloadReference is set, checkpoint that lastCompletedCheckpoint is.
   Each attempt after the first follows an eviction. *)
RTJs == [enabled : BOOLEAN, preferred : Sizes, target : {0} \cup Sizes,
         policy : {"IfSupported", "Never"}, suspend : BOOLEAN,
         phase : Phases, attempt : 0 .. MaxKueue + 1, checkpoint : BOOLEAN,
         ref : BOOLEAN, supported : BOOLEAN,
         admitted : {0} \cup Sizes, recorded : {0} \cup Sizes,
         state : ResizeStates, path : ResizePaths, published : BOOLEAN,
         conds : SUBSET Conditions]

(* count is the worker count of the admission, 0 without one. *)
Workloads == [count : {0} \cup Sizes, reclaimable : 0 .. MaxWorkers]

(* "relaunch" is the status write before the stop flow, "commit" the one that ends a pass. *)
Ctls == [pc : {"idle", "relaunch", "commit"}, job : RTJs, fresh : BOOLEAN]

TypeOK ==
    /\ rtj \in RTJs /\ seen \in RTJs
    /\ workload \in Workloads /\ seenWl \in Workloads
    /\ ctl \in Ctls
    /\ fresh \in BOOLEAN /\ queued \in BOOLEAN
    /\ jobSet \in 0 .. MaxKueue + 1
    /\ budget \in [user : 0 .. MaxUser, kueue : 0 .. MaxKueue, fault : 0 .. MaxFault]

(* status.workloadReference and inPlaceShrinkSupported are read by this code and written by
   none of it: they are set from outside, or not, before the RTJ first runs. *)
NewRTJ(p, ref, supported) ==
    [enabled |-> TRUE, preferred |-> p, target |-> 0, policy |-> "IfSupported", suspend |-> TRUE,
     phase |-> "Queued", attempt |-> 0, checkpoint |-> FALSE, ref |-> ref, supported |-> supported,
     admitted |-> 0, recorded |-> 0, state |-> Unset, path |-> Unset, published |-> FALSE, conds |-> {}]

Idle == [pc |-> "idle", job |-> NewRTJ(MaxWorkers, FALSE, FALSE), fresh |-> FALSE]

Init ==
    /\ \E p \in Sizes, ref, supported \in BOOLEAN : rtj = NewRTJ(p, ref, supported)
    /\ seen = rtj /\ fresh = TRUE
    /\ workload = [count |-> 0, reclaimable |-> 0]
    /\ seenWl = workload
    /\ jobSet = 0
    /\ ctl = Idle
    /\ queued = TRUE
    /\ budget = [user |-> MaxUser, kueue |-> MaxKueue, fault |-> MaxFault]

-----------------------------------------------------------------------------
\* The planner

(* The admitted count falls back to the preferred one and from then on to itself. *)
buildElasticPlanInput(j, w) ==
    [enabled |-> j.enabled, target |-> j.target,
     current |-> IF j.admitted > 0 THEN j.admitted ELSE j.preferred,
     min |-> MinWorkers, max |-> j.preferred,
     admitted |-> j.ref /\ w.count > 0,
     preempting |-> j.suspend /\ j.phase \in {"Draining", "YieldRequested"},
     state |-> j.state, published |-> j.published,
     inPlace |-> j.policy # "Never" /\ j.supported]

(* Mutant: a target that changes after pods were declared reclaimable is planned anew. *)
EvaluatePlan_Replans(i) ==
    LET wanted == i.target # 0 /\ i.target # i.current IN
    IF ~i.enabled THEN "NoResize"
    ELSE IF ~i.admitted THEN IF wanted THEN "ResizeBlocked" ELSE "NoResize"
    ELSE IF i.preempting THEN "ResizeBlocked"
    ELSE IF ~wanted THEN "NoResize"
    ELSE IF i.target < i.min \/ i.target > i.max THEN "ResizeBlocked"
    ELSE IF i.target > i.current THEN "GrowViaRelaunch"
    ELSE IF i.inPlace THEN "ShrinkInPlace" ELSE "ShrinkViaRelaunch"

(* Mutant: a resize that was blocked once stays blocked. *)
EvaluatePlan_StaysBlocked(i) ==
    IF i.state = "Blocked" \/ (~i.admitted /\ i.target # 0) THEN "ResizeBlocked"
    ELSE IF i.target \in {0, i.current} THEN "NoResize"
    ELSE IF i.published THEN "ReclaimPublished"
    ELSE IF i.state = "InProgress" THEN "ResizeInProgress"
    ELSE IF i.target > i.current THEN "GrowViaRelaunch"
    ELSE IF i.inPlace THEN "ShrinkInPlace" ELSE "ShrinkViaRelaunch"

(* The kind of the plan, in the order of the decision tree.  DRAConstraintsBlock is not
   wired and always false. *)
EvaluatePlan(i) ==
    LET wanted == i.target # 0 /\ i.target # i.current IN
    IF ~i.enabled THEN "NoResize"
    ELSE IF ~i.admitted THEN IF wanted THEN "ResizeBlocked" ELSE "NoResize"
    ELSE IF i.preempting THEN "ResizeBlocked"
    ELSE IF ~wanted THEN "NoResize"
    ELSE IF i.target < i.min \/ i.target > i.max THEN "ResizeBlocked"
    ELSE IF i.published THEN "ReclaimPublished"
    ELSE IF i.state = "InProgress" THEN "ResizeInProgress"
    ELSE IF i.target > i.current THEN "GrowViaRelaunch"
    ELSE IF i.inPlace THEN "ShrinkInPlace" ELSE "ShrinkViaRelaunch"

(* Mutant: the delta keeps its sign. *)
ComputeReclaimDelta_Signed(i) == i.target - i.current

ComputeReclaimDelta(i) == i.current - i.target

Relaunches == {"ShrinkViaRelaunch", "GrowViaRelaunch"}

planKindToResizeState(kind) ==
    CASE kind = "NoResize"                                      -> "Idle"
      [] kind = "ResizeBlocked"                                 -> "Blocked"
      [] kind \in {"ResizeInProgress", "ReclaimPublished"}      -> "InProgress"
      [] kind \in Relaunches \cup {"ShrinkInPlace"}             -> "Pending"

planKindToResizePath(kind) ==
    CASE kind \in {"ShrinkInPlace", "ReclaimPublished"}         -> "InPlace"
      [] kind \in Relaunches                                    -> "CheckpointAndRelaunch"
      [] OTHER                                                  -> Unset

syncElasticityStatus(j, i, kind) ==
    [j EXCEPT !.admitted = i.current, !.recorded = i.target,
              !.state = planKindToResizeState(kind), !.path = planKindToResizePath(kind)]

syncResizeConditions(conds, kind) ==
    CASE kind = "NoResize"         -> {}
      [] kind = "ShrinkInPlace"    -> {"Pending"}
      [] kind = "ResizeBlocked"    -> {"Blocked"}
      [] kind \in Relaunches       ->
            (conds \ {"ShrinkingInPlace", "ReclaimPublished", "Blocked", "Failed"}) \cup {"Pending"}
      [] kind = "ResizeInProgress" -> conds \ {"Pending", "Blocked", "Failed"}
      [] kind = "ReclaimPublished" ->
            (conds \ {"Pending", "ShrinkingInPlace", "Blocked", "Failed"}) \cup {"ReclaimPublished"}

-----------------------------------------------------------------------------
\* Executing a plan: what becomes of the in-memory RTJ

isResizeTriggeredStop(j) == j.state = "InProgress" /\ j.path = "CheckpointAndRelaunch"

(* After the status was synced to a NoResize plan the state is Idle already, so only the
   published flag is left to clear. *)
clearStaleResizeState(j) ==
    [j EXCEPT !.state = IF @ \in {Unset, "Idle"} THEN @
                        ELSE IF @ = "InProgress" THEN "Completed" ELSE "Idle",
              !.published = FALSE]

executeShrinkInPlace(j) ==
    [j EXCEPT !.published = TRUE, !.state = "InProgress",
              !.conds = (@ \ {"Pending"}) \cup {"ShrinkingInPlace", "ReclaimPublished"}]

executeRelaunchResize(j) ==
    [j EXCEPT !.state = "InProgress", !.published = FALSE,
              !.conds = (@ \ {"Pending", "ShrinkingInPlace", "ReclaimPublished"})
                            \cup {"Checkpointing"}]

completeResizeAfterRelaunch(j) ==
    [j EXCEPT !.state = IF @ = "InProgress" THEN "Completed" ELSE @, !.path = Unset,
              !.conds = @ \ {"Checkpointing", "Relaunching", "Pending"}]

markResizeRelaunchingCondition(j) ==
    [j EXCEPT !.conds = (@ \ {"Checkpointing"}) \cup {"Relaunching"}]

(* patchWorkloadReclaimablePods compares with the cached Workload before it sends a
   server-side apply that carries no resourceVersion. *)
patchWorkloadReclaimablePods(n) ==
    IF seenWl.reclaimable = n THEN UNCHANGED workload
    ELSE workload' = [workload EXCEPT !.reclaimable = n]

-----------------------------------------------------------------------------
\* One reconcile

Dequeue == ctl.pc = "idle" /\ queued /\ queued' = FALSE

Go(pc, j) == ctl' = [pc |-> pc, job |-> j, fresh |-> fresh]

UpdateIfChanged(old, new) == IF new # old THEN Go("commit", new) ELSE ctl' = Idle

Spend(kind) == budget[kind] > 0 /\ budget' = [budget EXCEPT ![kind] = @ - 1]

(* The active branch up to the plan: markRunning, and the end of a resize's relaunch. *)
ObservedActive(j) ==
    LET running == [j EXCEPT !.phase = "Running"] IN
    IF j.phase = "Restoring" /\ isResizeTriggeredStop(j)
    THEN completeResizeAfterRelaunch(running) ELSE running

Planned(j, kind) ==
    LET synced == syncElasticityStatus(j, buildElasticPlanInput(j, seenWl), kind)
    IN  [synced EXCEPT !.conds = syncResizeConditions(@, kind)]

getActiveJobSet(j) == j.attempt # 0 /\ jobSet = j.attempt

Active == Dequeue /\ getActiveJobSet(seen) /\ ~seen.suspend

Kind == EvaluatePlan(buildElasticPlanInput(ObservedActive(seen), seenWl))

ElasticPass(kinds) == Active /\ seen.enabled /\ Kind \in kinds

InelasticPass ==
    /\ Active
    /\ ~seen.enabled
    /\ UpdateIfChanged(seen, ObservedActive(seen))
    /\ UNCHANGED <<rtj, seen, fresh, workload, seenWl, jobSet, budget>>

(* The Workload cannot be read: the plan is skipped, the rest of the pass is not. *)
findWorkloadFails ==
    /\ Active
    /\ seen.enabled /\ seen.ref
    /\ Spend("fault")
    /\ UpdateIfChanged(seen, ObservedActive(seen))
    /\ UNCHANGED <<rtj, seen, fresh, workload, seenWl, jobSet>>

(* NoResize, ResizeBlocked, ResizeInProgress and ReclaimPublished change status only. *)
PlanWaits ==
    /\ ElasticPass({"NoResize", "ResizeBlocked", "ResizeInProgress", "ReclaimPublished"})
    /\ LET j == Planned(ObservedActive(seen), Kind)
       IN  UpdateIfChanged(seen, IF Kind = "NoResize" THEN clearStaleResizeState(j) ELSE j)
    /\ UNCHANGED <<rtj, seen, fresh, workload, seenWl, jobSet, budget>>

PlanShrinkInPlace ==
    /\ ElasticPass({"ShrinkInPlace"})
    /\ patchWorkloadReclaimablePods(ComputeReclaimDelta(buildElasticPlanInput(seen, seenWl)))
    /\ Go("commit", executeShrinkInPlace(Planned(ObservedActive(seen), "ShrinkInPlace")))
    /\ UNCHANGED <<rtj, seen, fresh, seenWl, jobSet, budget>>

(* The patch fails; the condition says so and the pass goes on. *)
ShrinkPatchFails ==
    /\ ElasticPass({"ShrinkInPlace"})
    /\ Spend("fault")
    /\ LET j == Planned(ObservedActive(seen), "ShrinkInPlace")
       IN  Go("commit", [j EXCEPT !.conds = @ \cup {"Failed"}])
    /\ UNCHANGED <<rtj, seen, fresh, workload, seenWl, jobSet>>

(* Clearing the Workload may fail without consequence; then the status is written, and only
   after that the stop flow is entered. *)
PlanRelaunch ==
    /\ ElasticPass(Relaunches)
    /\ \/ patchWorkloadReclaimablePods(0) /\ UNCHANGED budget
       \/ Spend("fault") /\ UNCHANGED workload
    /\ Go("relaunch", executeRelaunchResize(Planned(ObservedActive(seen), Kind)))
    /\ UNCHANGED <<rtj, seen, fresh, seenWl, jobSet>>

(* Mutant: the stop flow is entered whether or not the resize could be recorded. *)
reconcileResizeStopFlow_Unrecorded ==
    /\ ctl.pc = "relaunch"
    /\ ctl' = [pc |-> "commit", job |-> [ctl.job EXCEPT !.phase = "YieldRequested"], fresh |-> ctl.fresh]
    /\ UNCHANGED <<rtj, seen, fresh, queued, workload, seenWl, jobSet, budget>>

(* The first write succeeds and leaves the pass a current copy: ensureStopRequested marks
   it, and the second write follows. *)
reconcileResizeStopFlow ==
    /\ ctl.pc = "relaunch"
    /\ ctl.fresh
    /\ rtj' = ctl.job
    /\ ctl' = [pc |-> "commit", job |-> [ctl.job EXCEPT !.phase = "YieldRequested"], fresh |-> TRUE]
    /\ fresh' = FALSE
    /\ UNCHANGED <<seen, queued, workload, seenWl, jobSet, budget>>

StatusUpdate ==
    /\ ctl.pc = "commit"
    /\ ctl.fresh
    /\ rtj' = ctl.job
    /\ fresh' = FALSE
    /\ queued' = TRUE
    /\ ctl' = Idle
    /\ UNCHANGED <<seen, workload, seenWl, jobSet, budget>>

StatusConflict ==
    /\ ctl.pc \in {"relaunch", "commit"}
    /\ ~ctl.fresh
    /\ queued' = TRUE
    /\ ctl' = Idle
    /\ UNCHANGED <<rtj, seen, fresh, workload, seenWl, jobSet, budget>>

-----------------------------------------------------------------------------
\* Stop, drain and launch, in outline

requestStop ==
    /\ Dequeue /\ getActiveJobSet(seen) /\ seen.suspend
    /\ seen.phase \notin {"YieldRequested", "Draining"}
    /\ Go("commit", [seen EXCEPT !.phase = "YieldRequested"])
    /\ UNCHANGED <<rtj, seen, fresh, workload, seenWl, jobSet, budget>>

Stopping ==
    Dequeue /\ getActiveJobSet(seen) /\ seen.suspend /\ seen.phase \in {"YieldRequested", "Draining"}

DrainNotReady ==
    /\ Stopping
    /\ Go("commit", [seen EXCEPT !.phase = "Draining"])
    /\ UNCHANGED <<rtj, seen, fresh, workload, seenWl, jobSet, budget>>

DrainRecorded ==
    /\ Stopping
    /\ ~seen.checkpoint
    /\ Go("commit", [seen EXCEPT !.checkpoint = TRUE])
    /\ UNCHANGED <<rtj, seen, fresh, workload, seenWl, jobSet, budget>>

DrainComplete ==
    /\ ctl.pc = "idle" /\ queued /\ getActiveJobSet(seen) /\ seen.suspend
    /\ seen.phase \in {"YieldRequested", "Draining"} /\ seen.checkpoint
    /\ jobSet' = 0
    /\ UNCHANGED <<rtj, seen, fresh, workload, seenWl, ctl, queued, budget>>

DrainTimedOut ==
    /\ Stopping
    /\ jobSet' = 0
    /\ Go("commit", [seen EXCEPT !.phase = "Failed"])
    /\ UNCHANGED <<rtj, seen, fresh, workload, seenWl, budget>>

DeferUntilAdmitted ==
    /\ Dequeue /\ ~getActiveJobSet(seen) /\ seen.suspend
    /\ UpdateIfChanged(seen, [seen EXCEPT !.phase = "Queued"])
    /\ UNCHANGED <<rtj, seen, fresh, workload, seenWl, jobSet, budget>>

(* Launch or resume; a JobSet that an unrecorded launch left is adopted.  The gates, and with
   them the resize condition, are evaluated only for an RTJ with a Workload reference. *)
Launch ==
    /\ Dequeue /\ ~getActiveJobSet(seen) /\ ~seen.suspend
    /\ jobSet' = seen.attempt + 1
    /\ LET resume == seen.checkpoint /\ seen.phase \in {"Queued", "Restoring"}
           j == [seen EXCEPT !.phase = IF resume THEN "Restoring" ELSE "Starting",
                             !.attempt = @ + 1]
       IN  UpdateIfChanged(seen, IF seen.ref /\ isResizeTriggeredStop(seen)
                                 THEN markResizeRelaunchingCondition(j) ELSE j)
    /\ UNCHANGED <<rtj, seen, fresh, workload, seenWl, budget>>

-----------------------------------------------------------------------------
\* Users, Kueue, informers

SpecWrite(new) ==
    /\ rtj' = new
    /\ fresh' = FALSE
    /\ ctl' = [ctl EXCEPT !.fresh = FALSE]
    /\ UNCHANGED <<seen, seenWl, jobSet, queued>>

(* The webhook admits targets from minCount to preferredCount, none if elasticity is disabled,
   and a change of mode only while the RTJ is suspended. *)
UserEdit(new) ==
    /\ Spend("user")
    /\ new # rtj
    /\ new.target <= new.preferred
    /\ ~new.enabled => new.target = 0
    /\ new.enabled # rtj.enabled => new.suspend
    /\ SpecWrite(new)
    /\ UNCHANGED workload

UserEditsElasticity ==
    \/ \E t \in {0} \cup Sizes : UserEdit([rtj EXCEPT !.target = t])
    \/ \E p \in Sizes : UserEdit([rtj EXCEPT !.preferred = p])
    \/ \E q \in {"IfSupported", "Never"} : UserEdit([rtj EXCEPT !.policy = q])
    \/ UserEdit([rtj EXCEPT !.enabled = ~@, !.target = 0])

KueueSuspend ==
    /\ Spend("kueue")
    /\ ~rtj.suspend
    /\ SpecWrite([rtj EXCEPT !.suspend = TRUE])
    /\ UNCHANGED workload

KueueClearAdmission ==
    /\ workload.count > 0 /\ rtj.suspend /\ rtj.phase \in {"Queued", "Failed"}
    /\ Spend("kueue")
    /\ workload' = [workload EXCEPT !.count = 0]
    /\ UNCHANGED <<rtj, seen, fresh, seenWl, jobSet, ctl, queued>>

(* Quota is reserved for all workers, or with partial admission for fewer. *)
KueueReserve ==
    /\ workload.count = 0
    /\ \E n \in MinWorkers .. rtj.preferred : workload' = [workload EXCEPT !.count = n]
    /\ UNCHANGED <<rtj, seen, fresh, seenWl, jobSet, ctl, queued, budget>>

KueueUnsuspend ==
    /\ workload.count > 0 /\ rtj.suspend /\ rtj.phase = "Queued"
    /\ SpecWrite([rtj EXCEPT !.suspend = FALSE])
    /\ UNCHANGED <<workload, budget>>

Deliver ==
    /\ ~fresh
    /\ seen' = rtj /\ fresh' = TRUE /\ queued' = TRUE
    /\ UNCHANGED <<rtj, workload, seenWl, jobSet, ctl, budget>>

(* The controller reads Workloads from a cache but is not woken by their events. *)
DeliverWorkload ==
    /\ seenWl # workload
    /\ seenWl' = workload
    /\ UNCHANGED <<rtj, seen, fresh, workload, jobSet, ctl, queued, budget>>

(* The informer's periodic resync. *)
Resync ==
    /\ ~queued /\ ctl.pc = "idle" /\ fresh
    /\ queued' = TRUE
    /\ UNCHANGED <<rtj, seen, fresh, workload, seenWl, jobSet, ctl, budget>>

-----------------------------------------------------------------------------
Reconcile ==
    \/ InelasticPass \/ PlanWaits \/ PlanShrinkInPlace \/ PlanRelaunch
    \/ reconcileResizeStopFlow \/ StatusUpdate \/ StatusConflict
    \/ requestStop \/ DrainNotReady \/ DrainRecorded \/ DrainComplete
    \/ DeferUntilAdmitted \/ Launch

Next ==
    \/ Reconcile \/ DrainTimedOut
    \/ findWorkloadFails \/ ShrinkPatchFails
    \/ UserEditsElasticity
    \/ KueueSuspend \/ KueueClearAdmission \/ KueueReserve \/ KueueUnsuspend
    \/ Deliver \/ DeliverWorkload \/ Resync

Spec == Init /\ [][Next]_vars

(* The work queue, the informers and their resync run; Kueue admits what waits. *)
FairSpec ==
    /\ Spec
    /\ WF_vars(Reconcile) /\ SF_vars(DrainTimedOut)
    /\ WF_vars(Deliver) /\ WF_vars(DeliverWorkload) /\ WF_vars(Resync)
    /\ WF_vars(KueueReserve) /\ WF_vars(KueueUnsuspend)

-----------------------------------------------------------------------------
(* While the RTJ says that reclaimable pods are published, a pass changes their number only to
   the one its status records.  It may have to: a patch is left out when a stale Workload seems to
   have the number already, and sent by the next pass. *)
ReclaimIsAsRecorded ==
    [][rtj.published /\ rtj'.published /\ workload'.reclaimable # workload.reclaimable =>
          workload'.reclaimable = rtj.admitted - rtj.recorded]_vars

(* A run is stopped for a resize only when the API server already records that resize, for
   the target that the spec has now. *)
StopOnlyForRecordedResize ==
    [][rtj'.phase = "YieldRequested" /\ rtj.phase # "YieldRequested" /\ ~rtj.suspend =>
        isResizeTriggeredStop(rtj) /\ rtj.recorded = rtj.target]_vars

(* The resize the spec asks of a running, admitted RTJ. *)
Resizable == getActiveJobSet(rtj) /\ rtj.enabled /\ rtj.ref /\ ~rtj.suspend /\ workload.count > 0
             /\ rtj.target # 0 /\ rtj.admitted # 0 /\ rtj.target # rtj.admitted

(* A resize that was blocked or not yet seen is taken up: no stale Workload, conflict or
   failed lookup leaves it unplanned. *)
ResizeIsPlanned == []<>~(Resizable /\ rtj.state \in {"Idle", "Blocked", "Pending"})
=============================================================================
