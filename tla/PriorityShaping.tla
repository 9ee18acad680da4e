--------------------------- MODULE PriorityShaping ---------------------------
(***************************************************************************)
(* Checkpoint-aware priority: while an RTJ with a CheckpointPriorityPolicy *)
(* runs, each reconcile derives an effective priority from how long the    *)
(* run is protected, how fresh its checkpoint is and what the policy says  *)
(* (internal/policy/checkpointpriority), patches it into the Workload, and *)
(* records it in annotations and in the status (priority_state.go,         *)
(* telemetry.go): three writes to two objects.                             *)
(*                                                                         *)
(* Time is counted in seconds.  A pass, and the lag of the Workload cache, *)
(* are shorter than a second; the work queue and the RTJ cache may delay   *)
(* it for longer.  Launch and drain are those of RTJLifecycle, in outline. *)
(***************************************************************************)
EXTENDS Integers, FiniteSetsExt

CONSTANTS
    Policies,      \* CheckpointPriorityPolicySpecs the RTJ may refer to
    Base,          \* the value of the WorkloadPriorityClass
    MinInt, MaxInt,\* the range of an int32
    MaxTime,       \* bound: seconds
    MaxAttempts,   \* bound: run attempts
    MaxFaults,     \* bound: failed calls and restarts of the operator
    MaxDelays      \* bound: late events, and seconds spent in the queue

ASSUME PriorityAssumption ==
    /\ MinInt \in Int /\ MaxInt \in Int /\ Base \in MinInt .. MaxInt
    /\ MaxTime \in Nat /\ MaxAttempts \in Nat \ {0} /\ MaxFaults \in Nat /\ MaxDelays \in Nat
    /\ \A p \in Policies :
        /\ {p.protection, p.minRuntime, p.freshness} \subseteq Nat \ {0}
        /\ {p.maxYields, p.yieldWindow} \subseteq Nat /\ p.failOpen \in BOOLEAN
        /\ {p.boost, p.cooldown, p.offset} \cup p.min \cup p.max \subseteq Int
        /\ \A m, n \in p.min : m = n
        /\ \A m, n \in p.max : m = n

VARIABLES
    now,         \* the time
    policy,      \* the policy, which is not edited
    store,       \* when the latest checkpoint in the store was completed
    rtj,         \* the RTJ in the API server
    seen,        \* the RTJ in the informer cache
    fresh,       \* seen has the resourceVersion of rtj
    priority,    \* spec.priority of the Workload
    cached,      \* spec.priority of the Workload in the informer cache
    jobSet,      \* the attempt that runs, and since when; attempt 0 when none does
    ctl,         \* the reconcile in progress
    queued,      \* the RTJ's key is in the work queue
    wakeAt,      \* when the key is added to the queue, by RequeueAfter
    misled,      \* history: the last pass left the priority as it was because of a stale Workload
    faults,      \* what may still go wrong
    delays       \* how often the controller may still be behind

vars == <<now, policy, store, rtj, seen, fresh, priority, cached, misled, jobSet, ctl, queued, wakeAt,
          faults, delays>>

-----------------------------------------------------------------------------
Unset == "Unset"     \* the empty string
NoTime == -1     \* a nil *metav1.Time

Phases == {"Queued", "Starting", "Restoring", "Running", "YieldRequested", "Draining"}
PreemptionStates == {Unset, "Protected", "Active", "Cooldown", "Preemptible"}
ShapingConditions == {Unset, "Active", "PolicyResolutionFailed", "WorkloadPatchFailed"}

(* status.priorityShaping, without what is only shown. *)
NoShaping == [effective |-> 0, state |-> Unset, until |-> NoTime, checkpoint |-> NoTime,
              age |-> NoTime, resume |-> NoTime, yields |-> 0]

NoNotes == [effective |-> 0, state |-> Unset]

(* yields is the yield-history annotation: RecordYieldEvent would add to it, and nothing calls
   RecordYieldEvent. *)
NewRTJ(shaped) ==
          [policyRef |-> shaped, suspend |-> TRUE, phase |-> "Queued", attempt |-> 0,
           startingAt |-> NoTime, restoringAt |-> NoTime, runningAt |-> NoTime,
           checkpoint |-> NoTime, yields |-> {}, shaping |-> NoShaping, notes |-> NoNotes, cond |-> Unset]

NoJobSet == [attempt |-> 0, since |-> NoTime]

Idle == [pc |-> "idle", job |-> NewRTJ(FALSE), fresh |-> FALSE, changed |-> FALSE, until |-> NoTime]

Init ==
    /\ now = 0 /\ policy \in Policies /\ store = NoTime
    /\ \E shaped \in BOOLEAN : rtj = NewRTJ(shaped)
    /\ seen = rtj /\ fresh = TRUE
    /\ priority = Base /\ cached = Base /\ misled = FALSE
    /\ jobSet = NoJobSet /\ ctl = Idle /\ queued = TRUE /\ wakeAt = NoTime
    /\ faults = MaxFaults /\ delays = MaxDelays

-----------------------------------------------------------------------------
\* The decision engine

(* Mutant: the window is measured from the first start only. *)
protectionAnchor_RunStart(runStart, resume) == runStart

protectionAnchor(runStart, resume) == IF resume > runStart THEN resume ELSE runStart

CheckProtectionWindow(t, runStart, resume) ==
    LET anchor == protectionAnchor(runStart, resume)
        expires == anchor + policy.protection
        measured == policy.protection > 0 /\ anchor # NoTime
    IN  [protected |-> measured /\ t < expires, until |-> IF measured THEN expires ELSE NoTime]

CheckCooldown(t, resume) ==
    resume # NoTime /\ policy.minRuntime > 0 /\ t < resume + policy.minRuntime

IsYieldBudgetExhausted(count) == policy.maxYields > 0 /\ count >= policy.maxYields

CheckpointIsStale(t, checkpoint) == checkpoint # NoTime /\ t - checkpoint > policy.freshness

(* Mutant: nothing keeps the sum within an int32. *)
computeEffectivePriority_Unclamped(adjustment) ==
    Min({Max({Base + adjustment} \cup policy.min)} \cup policy.max)

(* policy.min and policy.max are empty or hold the bound; the sum is one of int64. *)
computeEffectivePriority(adjustment) ==
    Min({MaxInt, Max({MinInt, Min({Max({Base + adjustment} \cup policy.min)} \cup policy.max)})})

Decision(state, adjustment, until) ==
    [effective |-> computeEffectivePriority(adjustment), state |-> state, until |-> until]

(* An error of the store is not told apart from a store without checkpoints. *)
evaluateTelemetryUnknown ==
    IF policy.failOpen THEN Decision("Active", 0, NoTime)
    ELSE Decision("Preemptible", policy.offset, NoTime)

Evaluate(t, snap) ==
    LET window == CheckProtectionWindow(t, snap.runStart, snap.resume)
    IN  CASE window.protected -> Decision("Protected", policy.boost, window.until)
          [] ~window.protected /\ (IsYieldBudgetExhausted(snap.yields) \/ CheckCooldown(t, snap.resume)) ->
                Decision("Cooldown", policy.cooldown, NoTime)
          [] OTHER ->
                IF snap.checkpoint = NoTime THEN evaluateTelemetryUnknown
                ELSE IF CheckpointIsStale(t, snap.checkpoint) THEN Decision("Preemptible", policy.offset, NoTime)
                ELSE Decision("Active", 0, NoTime)

-----------------------------------------------------------------------------
\* Telemetry

countYieldsInWindow(j, t) ==
    IF policy.yieldWindow <= 0 THEN 0
    ELSE Cardinality({y \in j.yields : y >= t - policy.yieldWindow})

(* The checkpoint of the last drain is preferred to the store; latest is what the store says,
   NoTime also when it cannot be read. *)
CollectTelemetry(j, latest, t) ==
    [checkpoint |-> IF j.checkpoint # NoTime THEN j.checkpoint ELSE latest,
     runStart |-> j.startingAt,
     resume |-> IF j.restoringAt # NoTime THEN j.runningAt ELSE NoTime,
     yields |-> countYieldsInWindow(j, t)]

SyncPriorityShapingTelemetry(shaping, snap, t) ==
    [shaping EXCEPT !.checkpoint = snap.checkpoint,
                    !.age = IF snap.checkpoint = NoTime THEN NoTime ELSE t - snap.checkpoint,
                    !.resume = snap.resume, !.yields = snap.yields]

syncDecisionToStatus(shaping, d) ==
    [shaping EXCEPT !.effective = d.effective, !.state = d.state, !.until = d.until]

(* Mutant: annotations that are there are not updated. *)
syncPriorityAnnotations_Once(notes, d) ==
    IF notes = NoNotes THEN [effective |-> d.effective, state |-> d.state] ELSE notes

syncPriorityAnnotations(notes, d) == [effective |-> d.effective, state |-> d.state]

-----------------------------------------------------------------------------
\* Reconcile

getActiveJobSet(j) == j.attempt # 0 /\ jobSet.attempt = j.attempt

Dequeue == ctl.pc = "idle" /\ queued

isActivePriorityPhase(phase) == phase # "Queued"

markRunning(j) == [j EXCEPT !.phase = "Running",
                            !.runningAt = IF j.phase = "Running" THEN @ ELSE now]

World == <<now, policy, store>>
RTJ == <<rtj, seen, fresh, delays>>
Workload == <<priority, cached, misled>>

Fault == faults > 0 /\ faults' = faults - 1

(* changed: the copy differs from what was read. *)
Go(pc, j, isFresh, changed, until) ==
    ctl' = [pc |-> pc, job |-> j, fresh |-> isFresh, changed |-> changed, until |-> until]

(* RequeueAfter: a timer that is set already fires no later. *)
RequeueAt(t) == wakeAt' = CASE t = NoTime -> wakeAt
                            [] wakeAt = NoTime -> t
                            [] OTHER -> IF t < wakeAt THEN t ELSE wakeAt

Done(requeue, until) ==
    ctl' = Idle /\ queued' = requeue /\ RequeueAt(IF until = NoTime THEN NoTime ELSE until + 1)

UpdateIfChanged(old, new, requeue) ==
    IF new = old THEN Done(requeue, NoTime)
    ELSE Go("status", new, fresh, TRUE, NoTime) /\ queued' = requeue /\ UNCHANGED wakeAt

AtActive == Dequeue /\ getActiveJobSet(seen) /\ ~seen.suspend

(* Without a policyRef nothing is evaluated: the branch of reconcilePriorityState that takes
   back what was is never reached. *)
ObserveUnshaped ==
    /\ AtActive /\ ~seen.policyRef
    /\ UpdateIfChanged(seen, markRunning(seen), FALSE)
    /\ UNCHANGED <<World, RTJ, Workload, jobSet, faults>>

ResolveFails ==
    /\ AtActive /\ seen.policyRef /\ isActivePriorityPhase(markRunning(seen).phase)
    /\ Fault
    /\ UpdateIfChanged(seen, [markRunning(seen) EXCEPT !.cond = "PolicyResolutionFailed"], FALSE)
    /\ UNCHANGED <<World, RTJ, Workload, jobSet>>

reconcilePriorityState ==
    /\ AtActive /\ seen.policyRef /\ isActivePriorityPhase(markRunning(seen).phase)
    /\ LET j == markRunning(seen)
           snap == CollectTelemetry(j, store, now)
           d == Evaluate(now, snap)
           told == syncDecisionToStatus(SyncPriorityShapingTelemetry(j.shaping, snap, now), d)
           new == [j EXCEPT !.shaping = told]
       IN  Go("patch", new, fresh, new # seen, d.until)
    /\ queued' = FALSE
    /\ UNCHANGED <<World, RTJ, Workload, jobSet, wakeAt, faults>>

effective == ctl.job.shaping.effective

(* Mutant: the priority is only patched when the status says that it changed. *)
patchWorkloadPriority_ByStatus ==
    /\ priority' = IF rtj.shaping.effective = effective THEN priority ELSE effective
    /\ UNCHANGED cached

(* A merge patch, unless the cached Workload has the priority. *)
patchWorkloadPriority ==
    /\ priority' = IF cached = effective THEN priority ELSE effective
    /\ UNCHANGED cached

(* A pass goes on with the write of the annotations or of the status, whichever changed. *)
PatchWorkload ==
    /\ ctl.pc = "patch"
    /\ patchWorkloadPriority
    /\ misled' = (cached = effective /\ priority # effective)
    /\ LET notes == syncPriorityAnnotations(ctl.job.notes, ctl.job.shaping)
           j == [ctl.job EXCEPT !.cond = "Active", !.notes = notes]
           changed == ctl.changed \/ ctl.job.cond # "Active"
       IN  \/ /\ notes # ctl.job.notes
              /\ Go("annotate", j, ctl.fresh, changed, ctl.until) /\ UNCHANGED <<queued, wakeAt>>
           \/ /\ notes = ctl.job.notes /\ changed
              /\ Go("status", j, ctl.fresh, changed, ctl.until) /\ UNCHANGED <<queued, wakeAt>>
           \/ /\ notes = ctl.job.notes /\ ~changed
              /\ Done(queued, ctl.until)
    /\ UNCHANGED <<World, RTJ, jobSet, faults>>

(* The failure goes into the condition; the pass does not ask to be repeated. *)
PatchFails ==
    /\ ctl.pc = "patch" /\ cached # effective
    /\ Fault
    /\ LET j == [ctl.job EXCEPT !.cond = "WorkloadPatchFailed"]
       IN  IF ctl.changed \/ j # ctl.job
           THEN Go("status", j, ctl.fresh, TRUE, NoTime) /\ UNCHANGED <<queued, wakeAt>>
           ELSE Done(queued, NoTime)
    /\ UNCHANGED <<World, RTJ, Workload, jobSet>>

Late == delays > 0 /\ delays' = delays - 1

(* A write of the RTJ.  A cache that is up to date learns of it at once or starts to lag; one
   that lags does so until Deliver. *)
StoreRTJ(new) ==
    /\ rtj' = new
    /\ \/ new = rtj /\ UNCHANGED <<seen, fresh, queued, delays>>
       \/ new # rtj /\ fresh /\ seen' = new /\ queued' = TRUE /\ UNCHANGED <<fresh, delays>>
       \/ new # rtj /\ fresh /\ Late /\ fresh' = FALSE /\ UNCHANGED <<seen, queued>>
       \/ new # rtj /\ ~fresh /\ UNCHANGED <<seen, fresh, queued, delays>>

(* Update leaves the status in the API server alone, and reads it back over the copy: what the
   pass put into the status is lost where the API server has a value. *)
ReadBack(local, stored) ==
    [stored EXCEPT !.notes = local.notes,
                   !.shaping = IF @ = NoShaping THEN local.shaping ELSE @,
                   !.cond = IF @ = Unset THEN local.cond ELSE @,
                   !.runningAt = IF @ = NoTime THEN local.runningAt ELSE @]

UpdateAnnotations ==
    /\ ctl.pc = "annotate" /\ ctl.fresh
    /\ StoreRTJ([rtj EXCEPT !.notes = ctl.job.notes])
    /\ Go("status", ReadBack(ctl.job, rtj), TRUE, ctl.changed, ctl.until)
    /\ UNCHANGED <<World, Workload, jobSet, wakeAt, faults>>

StatusUpdate ==
    /\ ctl.pc = "status" /\ ctl.fresh
    /\ StoreRTJ(ctl.job)
    /\ ctl' = Idle
    /\ RequeueAt(IF ctl.until = NoTime THEN NoTime ELSE ctl.until + 1)
    /\ UNCHANGED <<World, Workload, jobSet, faults>>

Conflict ==
    /\ ctl.pc \in {"annotate", "status"} /\ ~ctl.fresh
    /\ Done(TRUE, NoTime)
    /\ UNCHANGED <<World, RTJ, Workload, jobSet, faults>>

-----------------------------------------------------------------------------
\* The rest of the reconcile, in outline

(* The JobSet is created before the status says so; one that is there is adopted. *)
Launch ==
    /\ Dequeue /\ ~getActiveJobSet(seen) /\ ~seen.suspend /\ seen.attempt < MaxAttempts
    /\ LET n == seen.attempt + 1
           resumes == seen.checkpoint # NoTime
       IN  /\ jobSet' = IF jobSet.attempt = n THEN jobSet ELSE [attempt |-> n, since |-> now]
           /\ Go("status", [seen EXCEPT !.attempt = n,
                                        !.phase = IF resumes THEN "Restoring" ELSE "Starting",
                                        !.startingAt = IF resumes THEN @ ELSE now,
                                        !.restoringAt = IF resumes THEN now ELSE @],
                 fresh, TRUE, NoTime)
    /\ queued' = TRUE
    /\ UNCHANGED <<World, RTJ, Workload, wakeAt, faults>>

(* The stop is requested, the latest checkpoint recorded, the JobSet deleted. *)
Stop ==
    /\ Dequeue /\ getActiveJobSet(seen) /\ seen.suspend
    /\ \/ /\ seen.phase # "Draining" \/ seen.checkpoint # store
          /\ Go("status", IF seen.phase \in {"YieldRequested", "Draining"} /\ store # NoTime
                          THEN [seen EXCEPT !.phase = "Draining", !.checkpoint = store]
                          ELSE [seen EXCEPT !.phase = "YieldRequested"], fresh, TRUE, NoTime)
          /\ queued' = TRUE /\ UNCHANGED <<jobSet, wakeAt>>
       \/ /\ seen.phase = "Draining" /\ seen.checkpoint = store
          /\ jobSet' = NoJobSet
          /\ Done(TRUE, NoTime)
    /\ UNCHANGED <<World, RTJ, Workload, faults>>

DeferUntilAdmitted ==
    /\ Dequeue /\ ~getActiveJobSet(seen) /\ seen.suspend
    /\ UpdateIfChanged(seen, [seen EXCEPT !.phase = "Queued"], FALSE)
    /\ UNCHANGED <<World, RTJ, Workload, jobSet, faults>>

-----------------------------------------------------------------------------
\* Everyone else

SpecWrite(new) ==
    /\ StoreRTJ(new)
    /\ ctl' = [ctl EXCEPT !.fresh = FALSE]
    /\ UNCHANGED <<World, Workload, jobSet, wakeAt, faults>>

KueueUnsuspends == rtj.suspend /\ rtj.phase = "Queued" /\ SpecWrite([rtj EXCEPT !.suspend = FALSE])

KueueSuspends == ~rtj.suspend /\ rtj.attempt < MaxAttempts /\ SpecWrite([rtj EXCEPT !.suspend = TRUE])

TrainerCheckpoints ==
    /\ jobSet.attempt # 0 /\ store # now
    /\ store' = now
    /\ UNCHANGED <<now, policy, RTJ, Workload, jobSet, ctl, queued, wakeAt, faults>>

(* The key may wait in the queue, and an event on its way, for more than a second. *)
Tick ==
    /\ now < MaxTime /\ ctl.pc = "idle" /\ cached = priority
    /\ now' = now + 1
    /\ \/ ~queued /\ UNCHANGED delays
       \/ queued /\ Late
    /\ UNCHANGED <<policy, store, rtj, seen, fresh, Workload, jobSet, ctl, queued, wakeAt, faults>>

Timer ==
    /\ wakeAt # NoTime /\ now >= wakeAt
    /\ queued' = TRUE /\ wakeAt' = NoTime
    /\ UNCHANGED <<World, RTJ, Workload, jobSet, ctl, faults>>

Deliver ==
    /\ ~fresh
    /\ seen' = rtj /\ fresh' = TRUE /\ queued' = TRUE
    /\ UNCHANGED <<World, rtj, delays, Workload, jobSet, ctl, wakeAt, faults>>

DeliverWorkload ==
    /\ cached # priority
    /\ cached' = priority
    /\ UNCHANGED <<World, RTJ, priority, misled, jobSet, ctl, queued, wakeAt, faults>>

(* A new operator starts with current caches, every RTJ queued, and no timers. *)
Restart ==
    /\ Fault
    /\ ctl' = Idle /\ queued' = TRUE /\ wakeAt' = NoTime
    /\ seen' = rtj /\ fresh' = TRUE /\ cached' = priority
    /\ UNCHANGED <<World, rtj, delays, priority, misled, jobSet>>

-----------------------------------------------------------------------------
Reconcile ==
    \/ ObserveUnshaped \/ reconcilePriorityState \/ PatchWorkload \/ UpdateAnnotations
    \/ StatusUpdate \/ Conflict \/ Launch \/ Stop \/ DeferUntilAdmitted

Next ==
    \/ Reconcile \/ ResolveFails \/ PatchFails \/ Restart
    \/ KueueUnsuspends \/ KueueSuspends \/ TrainerCheckpoints
    \/ Tick \/ Timer \/ Deliver \/ DeliverWorkload

Spec == Init /\ [][Next]_vars

-----------------------------------------------------------------------------
TypeOK ==
    /\ now \in 0 .. MaxTime /\ store \in NoTime .. MaxTime /\ wakeAt \in Int
    /\ priority \in MinInt .. MaxInt /\ cached \in MinInt .. MaxInt
    /\ jobSet.attempt \in 0 .. MaxAttempts
    /\ {fresh, queued, misled, ctl.fresh, ctl.changed} \subseteq BOOLEAN
    /\ ctl.pc \in {"idle", "patch", "annotate", "status"}
    /\ \A j \in {rtj, seen, ctl.job} :
        /\ j.phase \in Phases /\ j.cond \in ShapingConditions /\ j.shaping.state \in PreemptionStates
        /\ {j.startingAt, j.restoringAt, j.runningAt, j.checkpoint} \subseteq NoTime .. MaxTime

(* A run is not made an easier victim in the seconds after it was launched, from scratch or from
   a checkpoint: whatever the timestamps of earlier runs, of a pass whose writes were lost or of
   a stale copy say. *)
ProtectedRunKeepsPriority ==
    [][priority' < priority /\ priority' < Base => now >= jobSet.since + policy.protection]_vars

(* The annotations that kubectl users read say what the status says, once the controller has
   nothing more to do: they are written by two calls, of which the first discards what the pass
   had put into the status. *)
AnnotationsAgree ==
    ctl.pc = "idle" /\ ~queued /\ fresh /\ rtj.phase = "Running" /\ rtj.cond = "Active"
        => rtj.notes = [effective |-> rtj.shaping.effective, state |-> rtj.shaping.state]

(* The Workload has a priority that nothing but the boost of a protected run gives. *)
Boosted ==
    /\ rtj.phase = "Running" /\ rtj.policyRef /\ ~rtj.suspend
    /\ priority = computeEffectivePriority(policy.boost)
    /\ \A other \in {0, policy.cooldown, policy.offset} : priority # computeEffectivePriority(other)

(* A boosted run is always going to be looked at again, unless its status says that shaping has
   failed or the last pass was misled: no event marks the end of its protection, so a pass is
   under way or due, or the timer of the last one is running.  A pass that loses its writes or is
   lost in a restart must not leave the boost behind.  One that finds its priority in a Workload
   that is out of date skips the patch, as the code does, and leaves it. *)
BoostIsTimed ==
    Boosted /\ rtj.cond = "Active" /\ ~misled => ctl.pc # "idle" \/ queued \/ ~fresh \/ wakeAt # NoTime
=============================================================================
