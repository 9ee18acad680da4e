----------------------------- MODULE LaunchGates -----------------------------
(***************************************************************************)
(* From a Kueue admission to a running child JobSet: the launch gates      *)
(* (launch_gate.go, internal/provisioning), the launch plan                *)
(* (launch_plan.go, LaunchPlan), the status the gates leave on the RTJ     *)
(* (status_helpers.go) and the startup and recovery tracking               *)
(* (startup_recovery.go).  Around them, Kueue reserves quota, runs         *)
(* admission checks, assigns topology in a second pass, unsuspends,        *)
(* evicts and finishes; the fake provisioner answers ProvisioningRequests. *)
(*                                                                         *)
(* The controller reads the RTJ and the Workload from two caches that lag  *)
(* independently; Workload events do not wake it.  Between its writes,     *)
(* every other process may move.  The drain of a stopped run is that of    *)
(* RTJLifecycle, in outline.                                               *)
(***************************************************************************)
EXTENDS LaunchPlan

CONSTANTS
    Admissions,      \* what Kueue may admit with: counts, topology, flavor selector
    NodeUpdates,     \* node selectors a ProvisioningRequest may ask for
    Classes,         \* provisioning classes in use
    Worker,          \* the PodSet of the workers
    AllowReshard,    \* spec.resume.allowWorldSizeChange
    Reasons,         \* why Kueue evicts a Workload whose checks are ready
    Verdicts,        \* what the resume readiness check may say of a Workload
    MaxRequests,     \* bound: ProvisioningRequests of a Workload
    MaxAttempts,     \* bound: run attempts
    MaxEvictions,    \* bound: evictions by Kueue
    MaxLags          \* bound: times that a cache falls behind

ASSUME BoundsAssumption ==
    /\ MaxRequests \in Nat \ {0} /\ MaxAttempts \in Nat \ {0}
    /\ MaxEvictions \in Nat /\ MaxLags \in Nat
    /\ AllowReshard \in BOOLEAN
    /\ Worker \in PodSets

(* Kueue admits at least one pod of each PodSet; the sum of finitely many counts is one, too. *)
ASSUME AdmissionsAssumption ==
    /\ \A a \in Admissions :
        /\ a = [counts |-> a.counts, topology |-> a.topology, delayed |-> FALSE, reserved |-> TRUE]
        /\ a.counts \in [PodSets -> Nat \ {0}] /\ totalAdmittedCount(a.counts) \in Nat \ {0}
    /\ Parallelism \in [PodSets -> Nat \ {0}] /\ Completions \in [PodSets -> Nat \ {0}]
    /\ WorldSize \in Nat
    /\ Verdicts \subseteq {"Pending", "Ready", "Retry", "Rejected"}

VARIABLES
    rtj,         \* the RTJ in the API server
    seen,        \* the RTJ in the informer cache
    fresh,       \* seen has the resourceVersion of rtj
    workload,    \* the Workload in the API server
    seenWl,      \* the Workload in the informer cache
    request,     \* the current ProvisioningRequest
    jobSet,      \* the child JobSet, with attempt 0 when there is none
    ctl,         \* the reconcile in progress: the call it makes next, its copies of RTJ and Workload
    queued,      \* the RTJ's key is in the work queue
    granted,     \* history: the complete admissions the Workload has had
    lags,        \* how often a cache may still fall behind
    evictions    \* how often Kueue may still evict for another reason than a check

vars == <<rtj, seen, fresh, workload, seenWl, request, jobSet, ctl, queued, granted, lags, evictions>>

-----------------------------------------------------------------------------
Unset == "Unset"     \* the empty string

Phases == {"Queued", "Starting", "Restoring", "Running", "YieldRequested", "Draining", "Failed"}
StartupStates == {Unset, "Starting", "Running", "StartupTimedOut", "RecoveryTimedOut", "Evicted"}
CheckStates == {"Pending", "Ready", "Retry", "Rejected"}

NoAdmission == [counts |-> NoKeys, topology |-> NoKeys, delayed |-> FALSE, reserved |-> FALSE]

(* A check is recognised as the resume readiness check by its message. *)
Reset == [provisioning |-> "Pending", readiness |-> "Pending", message |-> FALSE, updates |-> NoKeys]

NewWorkload == [admission |-> NoAdmission, checks |-> Reset, evicted |-> Unset, finished |-> FALSE]

NoGate == [reason |-> Unset, readiness |-> Unset, topology |-> Unset, provisioning |-> Unset, capacity |-> Unset,
           conds |-> {}]

NoShape == [world |-> 0, mode |-> Unset]

(* merged is what Kueue merged into the pod templates, counts the admitted-pod-sets annotation,
   checkpoint the world size of the last completed checkpoint, which the drain makes the selected
   one as well; 0 is none. *)
NewRTJ(ref, topology) ==
    [ref |-> ref, topology |-> topology, suspend |-> TRUE, counts |-> NoKeys, merged |-> NoKeys,
     phase |-> "Queued", attempt |-> 0, checkpoint |-> 0, gate |-> NoGate, domains |-> {},
     shape |-> NoShape, blocked |-> FALSE, startup |-> Unset, evictedFor |-> Unset, timeouts |-> {}]

NoJobSet == [attempt |-> 0, restore |-> 0, templates |-> NoKeys, pods |-> NoKeys, world |-> 0]

Idle == [pc |-> "idle", job |-> NewRTJ(FALSE, FALSE), workload |-> NewWorkload, fresh |-> FALSE]

NewRequest(n) == [number |-> n, class |-> Unset, conds |-> {}]

(* status.workloadReference is written by none of this code: it is set from outside, or not. *)
Init ==
    /\ \E ref, topology \in BOOLEAN : rtj = NewRTJ(ref, topology)
    /\ seen = rtj /\ fresh = TRUE
    /\ workload = NewWorkload /\ seenWl = NewWorkload
    /\ request = NewRequest(0)
    /\ jobSet = NoJobSet
    /\ ctl = Idle
    /\ queued = TRUE
    /\ granted = {}
    /\ lags = MaxLags
    /\ evictions = MaxEvictions

-----------------------------------------------------------------------------
\* The view of the Workload, and the gates

(* w.admission.delayed is a worker PodSet whose delayedTopologyRequest is Pending. *)
ParseTopologyFromAssignments(a, configured) ==
    [assigned |-> Assigned(a) # {},
     secondPassPending |-> configured /\ (Assigned(a) = {} \/ a.delayed)]

AllChecksReady(w) == w.checks.provisioning = "Ready" /\ w.checks.readiness = "Ready"

(* Both checks are configured on every Workload; present is a Workload that was found. *)
BuildView(w, present, configured) ==
    IF ~present
    THEN [quotaReserved |-> FALSE, allReady |-> TRUE, provisioning |-> "NotConfigured",
          assigned |-> FALSE, secondPassPending |-> FALSE, updates |-> NoKeys]
    ELSE LET topology == IF w.admission.reserved
                         THEN ParseTopologyFromAssignments(w.admission, configured)
                         ELSE [assigned |-> FALSE, secondPassPending |-> configured]
         IN  [quotaReserved |-> w.admission.reserved, allReady |-> AllChecksReady(w),
              provisioning |-> w.checks.provisioning,
              assigned |-> topology.assigned, secondPassPending |-> topology.secondPassPending,
              updates |-> w.checks.updates]

evaluateReadinessCheck(w) == IF w.checks.message THEN w.checks.readiness ELSE Unset

(* The first gate that is closed, in the order of the code; "LaunchReady" when none is. *)
evaluateLaunchGates(j, w) ==
    LET view == BuildView(w, j.ref, j.topology) IN
    IF j.ref /\ ~view.quotaReserved THEN "QuotaNotReserved"
    ELSE IF j.ref /\ ~view.allReady THEN
        CASE view.provisioning \in {"Pending", "Retry"} -> "ProvisioningInProgress"
          [] view.provisioning = "Rejected" -> "ProvisioningFailed"
          [] evaluateReadinessCheck(w) \in {"Pending", "Retry"} -> "WaitingForReadinessGate"
          [] evaluateReadinessCheck(w) = "Rejected" -> "ReadinessGateRejected"
          [] OTHER -> "AdmissionCheckPending"
    ELSE IF j.topology /\ view.secondPassPending THEN "TopologyPendingSecondPass"
    ELSE IF j.topology /\ (~j.ref \/ ~w.admission.reserved) THEN "WaitingForTopologyAssignment"
    ELSE IF j.topology /\ ParseFails(w.admission) THEN "TopologyNotRepresentable"
    ELSE IF j.topology /\ Assigned(w.admission) = {} THEN "WaitingForTopologyAssignment"
    ELSE "LaunchReady"

-----------------------------------------------------------------------------
\* The status a pass through the gates leaves

syncCapacityStatus(view) ==
    CASE view.provisioning = "Ready" /\ view.quotaReserved -> "ProvisioningSatisfied"
      [] view.provisioning = "NotConfigured" /\ view.quotaReserved -> "QuotaOnlyAdmission"
      [] view.provisioning # "NotConfigured" /\ ~view.allReady -> "ProvisioningPending"
      [] OTHER -> "NotAdmitted"

syncProvisioningStatus(view) ==
    CASE view.provisioning \in {"Pending", "Retry"} -> "Pending"
      [] view.provisioning = "Ready" -> "Provisioned"
      [] view.provisioning = "Rejected" -> "Failed"
      [] OTHER -> "NotConfigured"

syncPhase7Conditions(view, reason) ==
    {c \in {"CapacityPending", "ProvisioningInProgress", "ProvisioningFailed",
            "TopologyPendingSecondPass", "LaunchReady"} :
        CASE c = "CapacityPending" -> view.provisioning # "NotConfigured" /\ ~view.allReady
          [] c = "ProvisioningInProgress" -> view.provisioning \in {"Pending", "Retry"}
          [] c = "ProvisioningFailed" -> view.provisioning = "Rejected"
          [] c = "TopologyPendingSecondPass" -> view.secondPassPending
          [] c = "LaunchReady" -> reason = "LaunchReady"}

syncLaunchReadinessStatus(reason) ==
    CASE reason = "LaunchReady" -> "Ready"
      [] reason = "ReadinessGateRejected" -> "Rejected"
      [] OTHER -> "Pending"

syncLaunchGateStatus(j, w, reason) ==
    LET view == BuildView(w, j.ref, j.topology)
    IN  [j EXCEPT !.gate =
            [reason |-> reason,
             readiness |-> syncLaunchReadinessStatus(reason),
             topology |-> CASE ~j.topology -> "NotConfigured"
                            [] view.assigned /\ ~view.secondPassPending -> "Assigned"
                            [] OTHER -> "Pending",
             provisioning |-> syncProvisioningStatus(view),
             capacity |-> syncCapacityStatus(view),
             conds |-> syncPhase7Conditions(view, reason)]]

(* The domains of the worker PodSet, or of any other that has some. *)
syncTopologyStatus(j, w) ==
    {[j EXCEPT !.domains = d] :
        d \in IF ~j.topology THEN {{}}
              ELSE LET t == ParseFromAdmission(w.admission)
                   IN  IF Worker \in DOMAIN t THEN {t[Worker].domains}
                       ELSE {t[p].domains : p \in DOMAIN t}}

buildLaunchPlan(j, w) ==
    LET view == BuildView(w, j.ref, j.topology)
    IN  [counts |-> IF j.ref THEN w.admission.counts ELSE j.counts,
         topology |-> IF j.topology THEN ParseFromAdmission(w.admission) ELSE NoKeys,
         templates |-> [p \in PodSets |-> j.merged],
         updates |-> MergePodSetUpdates(<<[p \in PodSets |-> view.updates]>>)]

(* The checkpoint of a resume is selected for the world size of the annotation. *)
admittedWorldSize(j) == computeEffectiveWorldSize(j.counts)

Resumes(j) == j.checkpoint # 0 /\ j.phase \in {"Queued", "Restoring"}

(* Mutant: a checkpoint of any world size will do. *)
Resumable_Always(j) == TRUE

(* A resume that is Restoring repeats its selection unchecked. *)
Resumable(j) == j.phase = "Restoring" \/ AllowReshard \/ j.checkpoint = admittedWorldSize(j)

buildEffectiveLaunchShape(j, world) ==
    [world |-> world,
     mode |-> IF ~Resumes(j) THEN Unset ELSE IF j.checkpoint # world THEN "Reshard" ELSE "SameSize"]

-----------------------------------------------------------------------------
\* Startup and recovery tracking

wasPhaseRunning(j) == j.phase = "Running" \/ j.startup = "Running"

(* Mutant: the reason of the eviction is recorded as the state. *)
ClassifyStartupState_Raw(wasRunning, reason) == reason

ClassifyStartupState(wasRunning, reason) ==
    CASE reason = "PodsReadyTimeout" /\ wasRunning -> "RecoveryTimedOut"
      [] reason = "PodsReadyTimeout" -> "StartupTimedOut"
      [] OTHER -> "Evicted"

setStartupRecoveryConditions(wasRunning, reason) ==
    CASE reason # "PodsReadyTimeout" -> {}
      [] wasRunning -> {"RecoveryTimeoutEvicted"}
      [] OTHER -> {"StartupTimeoutEvicted"}

(* podsReadyState follows startup; lastRequeueReason follows the timeouts. *)
detectAndRecordEviction(j, w) ==
    IF ~j.ref \/ w.evicted = Unset THEN j
    ELSE [j EXCEPT !.startup = ClassifyStartupState(wasPhaseRunning(j), w.evicted),
                   !.evictedFor = w.evicted,
                   !.timeouts = setStartupRecoveryConditions(wasPhaseRunning(j), w.evicted)]

syncStartupRecoveryOnRunning(j) == [j EXCEPT !.startup = "Running", !.timeouts = {}]

syncStartupRecoveryOnLaunch(j) == [j EXCEPT !.startup = "Starting"]

-----------------------------------------------------------------------------
\* Reconcile

getActiveJobSet(j) == j.attempt # 0 /\ jobSet.attempt = j.attempt

Dequeue == ctl.pc = "idle" /\ queued

(* The next call is a status write of j, or for "launch" the creation of the JobSet. *)
Go(pc, j, isFresh) ==
    ctl' = [pc |-> pc, job |-> j, workload |-> NewWorkload, fresh |-> isFresh]

(* The pass ends; requeue says whether it asked to be run again. *)
Done(requeue) == ctl' = Idle /\ queued' = requeue

UpdateIfChanged(old, new, requeue) ==
    IF new = old THEN Done(requeue) ELSE Go("commit", new, fresh) /\ queued' = requeue

ControllerReads == UNCHANGED <<rtj, seen, fresh, workload, seenWl, request, granted, lags, evictions>>

Late == lags > 0 /\ lags' = lags - 1

(* A write of the RTJ.  A cache that is up to date learns of it at once or starts to lag; one
   that lags does so until Deliver. *)
StoreRTJ(new) ==
    /\ rtj' = new
    /\ \/ fresh /\ seen' = new /\ queued' = TRUE /\ UNCHANGED <<fresh, lags>>
       \/ fresh /\ Late /\ fresh' = FALSE /\ UNCHANGED <<seen, queued>>
       \/ ~fresh /\ UNCHANGED <<seen, fresh, queued, lags>>

(* The stop flow after the eviction is recorded: request the stop once, then wait for the
   checkpoint and tear down. *)
reconcileStopFlow(j, isFresh) ==
    \/ /\ j.phase \notin {"YieldRequested", "Draining"}
       /\ Go("commit", [j EXCEPT !.phase = "YieldRequested"], isFresh)
       /\ queued' = TRUE /\ UNCHANGED jobSet
    \/ /\ j.phase = "YieldRequested"
       /\ Go("commit", [j EXCEPT !.phase = "Draining"], isFresh)
       /\ queued' = TRUE /\ UNCHANGED jobSet
    \/ /\ j.phase = "Draining" /\ j.checkpoint # jobSet.world
       /\ Go("commit", [j EXCEPT !.checkpoint = jobSet.world], isFresh)
       /\ queued' = TRUE /\ UNCHANGED jobSet
    \/ /\ j.phase = "Draining" /\ j.checkpoint = jobSet.world
       /\ jobSet' = NoJobSet
       /\ Done(TRUE)

StopUnrecorded ==
    /\ Dequeue /\ getActiveJobSet(seen) /\ seen.suspend
    /\ detectAndRecordEviction(seen, seenWl) = seen
    /\ reconcileStopFlow(seen, fresh)
    /\ ControllerReads

RecordEviction ==
    /\ Dequeue /\ getActiveJobSet(seen) /\ seen.suspend
    /\ detectAndRecordEviction(seen, seenWl) # seen
    /\ Go("evict", detectAndRecordEviction(seen, seenWl), fresh)
    /\ ControllerReads /\ UNCHANGED <<jobSet, queued>>

(* The eviction is recorded; the pass continues with the stop flow. *)
StopRecorded ==
    /\ ctl.pc = "stop"
    /\ reconcileStopFlow(ctl.job, ctl.fresh)
    /\ ControllerReads

DeferUntilAdmitted ==
    /\ Dequeue /\ ~getActiveJobSet(seen) /\ seen.suspend
    /\ UpdateIfChanged(seen, [seen EXCEPT !.phase = "Queued"], FALSE)
    /\ ControllerReads /\ UNCHANGED jobSet

ObserveActive ==
    /\ Dequeue /\ getActiveJobSet(seen) /\ ~seen.suspend
    /\ UpdateIfChanged(seen, syncStartupRecoveryOnRunning([seen EXCEPT !.phase = "Running"]), FALSE)
    /\ ControllerReads /\ UNCHANGED jobSet

AtGates == Dequeue /\ ~getActiveJobSet(seen) /\ ~seen.suspend /\ seen.attempt < MaxAttempts

(* Mutant: a gated launch waits for the next event instead of the requeue interval. *)
LaunchGated_NoRequeue ==
    /\ AtGates /\ evaluateLaunchGates(seen, seenWl) # "LaunchReady"
    /\ UpdateIfChanged(seen, syncLaunchGateStatus(seen, seenWl, evaluateLaunchGates(seen, seenWl)), FALSE)
    /\ ControllerReads /\ UNCHANGED jobSet

LaunchGated ==
    /\ AtGates /\ evaluateLaunchGates(seen, seenWl) # "LaunchReady"
    /\ UpdateIfChanged(seen, syncLaunchGateStatus(seen, seenWl, evaluateLaunchGates(seen, seenWl)), TRUE)
    /\ ControllerReads /\ UNCHANGED jobSet

(* The gate result keeps the Workload it was made from for the rest of the pass. *)
LaunchReady ==
    /\ AtGates /\ evaluateLaunchGates(seen, seenWl) = "LaunchReady"
    /\ \E j \in syncTopologyStatus(syncLaunchGateStatus(seen, seenWl, "LaunchReady"), seenWl) :
        ctl' = [pc |-> IF j = seen THEN "launch" ELSE "gated", job |-> j,
                workload |-> seenWl, fresh |-> fresh]
    /\ ControllerReads /\ UNCHANGED <<jobSet, queued>>

Plan == buildLaunchPlan(ctl.job, ctl.workload)

(* The dry run is against the templates as Kueue left them, not as they are rendered. *)
DryRunConflicts == Conflicts(Plan.templates, Plan.updates)

LaunchBlocked ==
    /\ ctl.pc = "launch" /\ DryRunConflicts
    /\ Go("commit", [ctl.job EXCEPT !.phase = "Failed", !.blocked = TRUE], ctl.fresh)
    /\ queued' = TRUE
    /\ ControllerReads /\ UNCHANGED jobSet

(* No compatible checkpoint: the RTJ fails and the pass is not repeated. *)
NoCheckpoint ==
    /\ ctl.pc = "launch" /\ ~DryRunConflicts /\ Resumes(ctl.job) /\ ~Resumable(ctl.job)
    /\ Go("commit", [ctl.job EXCEPT !.phase = "Failed"], ctl.fresh)
    /\ ControllerReads /\ UNCHANGED <<jobSet, queued>>

Launchable == ctl.pc = "launch" /\ ~DryRunConflicts /\ (Resumes(ctl.job) => Resumable(ctl.job))

(* The JobSet cannot be rendered (for calls that fail see RTJLifecycle). *)
failLaunch ==
    /\ Launchable /\ RenderFails(Plan)
    /\ Go("commit", [ctl.job EXCEPT !.phase = "Failed"], ctl.fresh)
    /\ queued' = TRUE
    /\ ControllerReads /\ UNCHANGED jobSet

(* A JobSet of the same name is taken for the one that was rendered.  The attempt of a resume
   that is Restoring and lost its JobSet is repeated.  A plain launch, as out of Failed, restores
   status.selectedCheckpoint too, if there is one, whatever its world size. *)
LaunchWithGate ==
    /\ Launchable /\ ~RenderFails(Plan)
    /\ LET j == ctl.job
           n == IF Resumes(j) /\ j.phase = "Restoring" THEN j.attempt ELSE j.attempt + 1
           made == RenderChildJobSet(Plan, n, j.checkpoint)
       IN  /\ jobSet' = IF jobSet.attempt = n THEN jobSet ELSE made
           /\ Go("commit", syncStartupRecoveryOnLaunch(
                    [j EXCEPT !.phase = IF Resumes(j) THEN "Restoring" ELSE "Starting",
                              !.attempt = n,
                              !.shape = buildEffectiveLaunchShape(j, made.world)]), ctl.fresh)
    /\ queued' = TRUE
    /\ ControllerReads

(* A pass goes on after the writes of an eviction and of the gates, with a current copy. *)
StatusUpdate ==
    /\ ctl.pc \in {"evict", "gated", "commit"} /\ ctl.fresh
    /\ StoreRTJ(ctl.job)
    /\ ctl' = CASE ctl.pc = "evict" -> [ctl EXCEPT !.pc = "stop"]
                [] ctl.pc = "gated" -> [ctl EXCEPT !.pc = "launch"]
                [] ctl.pc = "commit" -> Idle
    /\ UNCHANGED <<workload, seenWl, request, jobSet, granted, evictions>>

StatusConflict ==
    /\ ctl.pc \in {"evict", "gated", "commit"} /\ ~ctl.fresh
    /\ Done(TRUE)
    /\ ControllerReads /\ UNCHANGED jobSet

-----------------------------------------------------------------------------
\* Kueue, the fake provisioner, the informers

Complete(w) == w.admission.reserved /\ AllChecksReady(w) /\ ~w.admission.delayed

WorkloadWrite(new) ==
    /\ workload' = new
    /\ \/ seenWl = workload /\ seenWl' = new /\ UNCHANGED lags
       \/ seenWl = workload /\ rtj.ref /\ Late /\ UNCHANGED seenWl
       \/ seenWl # workload /\ UNCHANGED <<seenWl, lags>>
    /\ granted' = IF Complete(new) THEN granted \cup {new.admission} ELSE granted

SpecWrite(new) ==
    /\ StoreRTJ(new)
    /\ ctl' = [ctl EXCEPT !.fresh = FALSE]
    /\ UNCHANGED <<workload, seenWl, request, jobSet, granted>>

IsActive(j) == j.phase \in {"Starting", "Running", "YieldRequested", "Draining", "Restoring"}

ControllerUnmoved == UNCHANGED <<rtj, seen, fresh, jobSet, ctl, queued>>

(* With a provisioning check, the topology is assigned in a second pass; a ProvisioningRequest of
   some class is created for each reservation. *)
KueueReserve ==
    /\ ~workload.admission.reserved /\ ~workload.finished
    /\ rtj.suspend /\ ~IsActive(rtj) /\ request.number < MaxRequests
    /\ \E a \in Admissions :
        /\ (Assigned(a) # {}) = rtj.topology
        /\ WorkloadWrite([NewWorkload EXCEPT !.admission =
                IF rtj.topology THEN [a EXCEPT !.topology = [p \in PodSets |-> NoAssignment], !.delayed = TRUE]
                ELSE a])
    /\ \E class \in Classes :
        request' = [NewRequest(request.number + 1) EXCEPT !.class = class]
    /\ ControllerUnmoved /\ UNCHANGED evictions

KueueSecondPass ==
    /\ workload.admission.delayed /\ workload.checks.provisioning = "Ready"
    /\ \E a \in Admissions :
        /\ Assigned(a) # {} /\ a.counts = workload.admission.counts
        /\ WorkloadWrite([workload EXCEPT !.admission = a])
    /\ ControllerUnmoved /\ UNCHANGED <<request, evictions>>

(* The conditions that the fake provisioner sets once the delay or expiry of the request has
   passed; until then it requeues itself. *)
ComputeAction(class, conds) ==
    CASE class = "delayed-success" /\ "Provisioned" \notin conds -> {"Provisioned"}
      [] class = "permanent-failure" /\ "Failed" \notin conds -> {"Failed"}
      [] class = "booking-expiry" /\ "Provisioned" \notin conds -> {"Provisioned"}
      [] class = "booking-expiry" /\ "CapacityRevoked" \notin conds -> {"CapacityRevoked"}
      [] OTHER -> {}

FakeProvisioner ==
    /\ ComputeAction(request.class, request.conds) # {}
    /\ request' = [request EXCEPT !.conds = @ \cup ComputeAction(request.class, @)]
    /\ ControllerUnmoved /\ UNCHANGED <<workload, seenWl, granted, lags, evictions>>

(* Kueue's provisioning check controller turns conditions into a check state; the pods are told
   which request they consume, and may get node selectors from its details. *)
KueueProvisioningCheck ==
    /\ workload.admission.reserved /\ ~workload.finished
    /\ LET state == CASE "CapacityRevoked" \in request.conds -> "Rejected"
                      [] "Failed" \in request.conds /\ request.number < MaxRequests -> "Retry"
                      [] "Failed" \in request.conds -> "Rejected"
                      [] "Provisioned" \in request.conds -> "Ready"
                      [] OTHER -> "Pending"
       IN  /\ state # workload.checks.provisioning
           /\ \E nodes \in NodeUpdates :
                WorkloadWrite([workload EXCEPT
                    !.checks.provisioning = state,
                    !.checks.updates = IF state = "Ready" THEN mergeMapInto(nodes, [request |-> request.number])
                                       ELSE NoKeys])
    /\ ControllerUnmoved /\ UNCHANGED <<request, evictions>>

(* What the resume readiness check may say (ResumeReadiness). *)
ReadinessCheck ==
    /\ workload.admission.reserved /\ workload.checks.readiness # "Ready"
    /\ \E state \in Verdicts :
        /\ state # workload.checks.readiness
        /\ WorkloadWrite([workload EXCEPT !.checks.readiness = state, !.checks.message = TRUE])
    /\ ControllerUnmoved /\ UNCHANGED <<request, evictions>>

(* RunWithPodSetsInfo: the templates get what the checks ask for, the counts go into the
   annotation. *)
RunWithPodSetsInfo ==
    /\ Complete(workload) /\ workload.evicted = Unset /\ ~workload.finished
    /\ rtj.suspend /\ ~IsActive(rtj)
    /\ SpecWrite([rtj EXCEPT !.suspend = FALSE, !.counts = workload.admission.counts,
                             !.merged = workload.checks.updates])
    /\ UNCHANGED evictions

(* Pods that are not ready in time are evicted; PodsReady is the phase Running. *)
KueueEvict ==
    /\ workload.admission.reserved /\ workload.evicted = Unset /\ ~workload.finished
    /\ \/ \E reason \in Reasons :
            /\ reason = "PodsReadyTimeout" => ~rtj.suspend /\ rtj.phase # "Running"
            /\ evictions > 0 /\ evictions' = evictions - 1
            /\ WorkloadWrite([workload EXCEPT !.evicted = reason])
       \/ /\ {workload.checks.provisioning, workload.checks.readiness} \cap {"Retry", "Rejected"} # {}
          /\ WorkloadWrite([workload EXCEPT !.evicted = "AdmissionCheck"])
          /\ UNCHANGED evictions
    /\ ControllerUnmoved /\ UNCHANGED request

(* Suspend and RestorePodSetsInfo: the templates are restored, the annotation stays. *)
Suspend ==
    /\ workload.evicted # Unset /\ ~rtj.suspend /\ ~workload.finished
    /\ SpecWrite([rtj EXCEPT !.suspend = TRUE, !.merged = NoKeys])
    /\ UNCHANGED evictions

KueueClearAdmission ==
    /\ workload.evicted # Unset /\ workload.admission.reserved
    /\ rtj.suspend /\ ~IsActive(rtj)
    /\ WorkloadWrite([workload EXCEPT !.admission = NoAdmission, !.checks = Reset])
    /\ ControllerUnmoved /\ UNCHANGED <<request, evictions>>

(* Finished: a Failed phase finishes the Workload, for good. *)
Finished ==
    /\ rtj.phase = "Failed" /\ ~workload.finished
    /\ WorkloadWrite([workload EXCEPT !.finished = TRUE])
    /\ ControllerUnmoved /\ UNCHANGED <<request, evictions>>

Deliver ==
    /\ ~fresh
    /\ seen' = rtj /\ fresh' = TRUE /\ queued' = TRUE
    /\ UNCHANGED <<rtj, workload, seenWl, request, jobSet, ctl, granted, lags, evictions>>

DeliverWorkload ==
    /\ rtj.ref /\ seenWl # workload
    /\ seenWl' = workload
    /\ UNCHANGED <<rtj, seen, fresh, workload, request, jobSet, ctl, queued, granted, lags, evictions>>

-----------------------------------------------------------------------------
Reconcile ==
    \/ StopUnrecorded \/ RecordEviction \/ StopRecorded \/ DeferUntilAdmitted \/ ObserveActive
    \/ LaunchGated \/ LaunchReady \/ LaunchBlocked \/ NoCheckpoint
    \/ failLaunch \/ LaunchWithGate \/ StatusUpdate \/ StatusConflict

Kueue ==
    \/ KueueReserve \/ KueueSecondPass \/ KueueProvisioningCheck \/ ReadinessCheck
    \/ RunWithPodSetsInfo \/ KueueEvict \/ Suspend \/ KueueClearAdmission \/ Finished

Next == Reconcile \/ Kueue \/ FakeProvisioner \/ Deliver \/ DeliverWorkload

Spec == Init /\ [][Next]_vars

-----------------------------------------------------------------------------
\* What launching promises

Contract == INSTANCE CapacityContract WITH granted <- granted, run <- jobSet, NoRun <- NoJobSet, Fits <- Fits

(* Whatever the controller read too early or too late, what it runs fits one complete admission
   of the Workload: no more pods than quota where a whole replica was admitted, the world size of
   the admitted counts, and the topology levels on which the assigned domains agree.
   createIfMissing, stale caches and the merge of
   podSetUpdates all come between the admission and the JobSet. *)
ImplementsContract == Contract!Spec

Rejections == {Unset, "AdmissionCheck"} \cup Reasons

TypeOK ==
    /\ \A j \in {rtj, seen, ctl.job} :
        /\ j.phase \in Phases /\ j.startup \in StartupStates /\ j.evictedFor \in Rejections
        /\ j.attempt \in 0 .. MaxAttempts /\ j.checkpoint \in Nat /\ j.shape.world \in Nat
    /\ \A w \in {workload, seenWl, ctl.workload} :
        /\ w.admission.reserved => w.admission.counts \in {a.counts : a \in Admissions}
        /\ w.checks.provisioning \in CheckStates /\ w.checks.readiness \in CheckStates
        /\ w.evicted \in Rejections
    /\ jobSet.attempt \in 0 .. MaxAttempts /\ jobSet.world \in Nat
    /\ ctl.pc \in {"idle", "evict", "stop", "gated", "launch", "commit"}
    /\ {fresh, queued, ctl.fresh} \subseteq BOOLEAN
    /\ granted \subseteq Admissions

(* A resume that selects its checkpoint runs at the world size of the checkpoint, unless
   spec.resume.allowWorldSizeChange: the checkpoint is selected for the counts in the annotation
   and the JobSet is made for those of the Workload, which may be a different, older admission. *)
ResumeKeepsWorldSize ==
    [][/\ jobSet'.attempt \notin {0, jobSet.attempt}
       /\ Resumes(ctl.job) /\ ctl.job.phase # "Restoring"
       => AllowReshard \/ jobSet'.restore = jobSet'.world]_vars

(* Without spec.resume.allowWorldSizeChange no runtime restores a checkpoint of another world
   size (docs/phase3/api.md).  Refuted: a resume that finds no compatible checkpoint fails the
   RTJ but leaves selectedCheckpoint, and the plain launch that follows restores it. *)
ReshardIsAllowed == jobSet.restore \notin {0, jobSet.world} => AllowReshard

(* Everything that a launch needs is there: quota, checks, topology, an unsuspended RTJ with a
   Workload to read, and a plan that can be rendered. *)
Due ==
    /\ jobSet = NoJobSet /\ rtj.phase # "Failed"
    /\ Complete(workload) /\ ~rtj.suspend /\ rtj.attempt < MaxAttempts
    /\ rtj.topology => rtj.ref
    /\ ~RenderFails(buildLaunchPlan(rtj, workload))
    /\ Resumes(rtj) => Resumable(rtj)

(* No wakeup is lost: an RTJ for which all gates are open is being reconciled, is queued, or has
   an event on its way.  A Workload event wakes nobody, so a pass that read the Workload too
   early has to have asked for another. *)
OpenGatesAreRevisited == Due => ctl.pc # "idle" \/ queued \/ ~fresh
=============================================================================
