# ResumableTrainingJob: a TLA+ verification project

The repository is a Kubernetes operator for *resumable training jobs* (RTJs). A user pauses a
job or Kueue preempts it; the operator asks the training pods to checkpoint, records the
checkpoint, tears the runtime down, and later launches a new *run attempt* from the newest
compatible checkpoint. This directory models the operator and what it interacts with, checks
the models with TLC on small instances, and proves the main safety properties with TLAPS for
every instance.

## 1. The system

| component | state it keeps | operations | hard because |
|---|---|---|---|
| RTJ reconciler (`internal/controller`) | none of its own: RTJ `.status` in the API server (phase, current attempt, active JobSet, pause request ID and time, selected and last completed checkpoint), read back through an informer cache | one `Reconcile` per queued key: initialize status, request stop, write control file, observe drain, record, delete JobSet, launch, resume | several API calls per pass, any of which may fail, conflict, or be the last before a crash; reads are stale |
| API server, informer, work queue (external) | objects with resourceVersions; cached copy; queued keys | versioned status update, create-if-missing, delete, event delivery | conflicts, lost replies, asynchronous deletion |
| Child JobSet and control ConfigMap | one of each per attempt, named by attempt number | created by the launch, deleted by the drain; the ConfigMap carries the desired state and the request ID | neither is watched for runtime progress; the ConfigMap is never reset |
| Trainer and yield SDK (`fixtures`, `sdk/python`) | optimizer step, control file seen, checkpoint in progress | periodic save, yield save, manifest then marker upload, exit, restore | runs concurrently with the operator and outlives a withdrawn request |
| Checkpoint catalog (`internal/checkpoints`) | manifests and yield markers in object storage | `ObservePause`, `SelectLatestCompatible` (10 compatibility dimensions) | whole-second timestamps, strict comparison |
| Kueue adapter (`internal/kueue`) | `spec.suspend` | Suspend, RunWithPodSetsInfo, IsActive, Finished | decides on the phase the operator reports |
| Elastic resize (`internal/elastic`, `elastic_*.go`) | `status.elasticity`: resize state, path, worker counts, reclaimable pods | plan evaluation, in-place shrink, relaunch through a checkpoint | recomputed each pass from status written by the pass before |
| Startup and recovery tracking | startup state of the current attempt | classification from JobSet and Workload conditions | order of conditions, retries |
| Launch gates, launch plan, provisioning view, topology | Workload admission checks, ProvisioningRequests | wait or launch with rendered topology | delayed topology, failed checks |
| Priority shaping (`policy/checkpointpriority`) | protection window, yield history | effective priority of the Workload | windows measured in time, sliding yield budget |
| Resume readiness admission check | AdmissionCheckState of a Workload | evaluate the catalog, set Ready / Retry / Rejected | outage policies; a verdict written after Kueue has reset the check; only a timer looks again |
| MultiKueue manager mode | `status.multiCluster` beside a status mirrored from a worker | reflect the remote status, carry a pause through | two writers of one status |
| DRA templates and claims | ResourceClaimTemplates, `status.devices` | create, compare, delete and recreate, clean up | one API call at a time, from a cache that is behind; templates are not watched |
| Fake provisioner | ProvisioningRequest conditions | delayed success, failure, revocation | timers |
| Rendering, webhooks, metrics, main | none | pure functions, counters, wiring | not protocol state |

Interactions: users and Kueue write the RTJ spec; the reconciler reads RTJs from the cache and
JobSets from the API server, writes RTJ status, ConfigMaps and JobSets; the trainer polls the
mounted ConfigMap, writes checkpoints and a yield marker to object storage; the reconciler polls
the store every two seconds during a drain. Nothing else tells it that a drain is done. The
hazards of this arrangement are listed, each at its line, in `PROJECT.json`.

## 2. Modules

| module | what it is |
|---|---|
| `RTJLifecycle` | the lifecycle of one RTJ: reconciler, API server, cache, JobSets, control ConfigMaps, trainers, object store, users, Kueue, faults; its properties and its inductive invariant |
| `RTJLifecycleProofs` | theorems about `RTJLifecycle`, checked by TLAPS |
| `CheckpointProofs` | theorems about the checkpoints of `RTJLifecycle` |
| `RTJContract` | a statement of `docs/` that the code does not keep, as a property of `RTJLifecycle` |
| `ElasticResize` | resizing a running RTJ: planner, status and condition sync, the two execution paths, the Workload patch, Kueue's Workload, both caches; drain and launch in outline |
| `ElasticContract` | a statement of `docs/phase9` that the code does not keep, as a property of `ElasticResize` |
| `LaunchPlan` | what a launch makes of an admission, as pure operators: topology decoding, replica counts, world size, node selectors, podSetUpdates; and what a JobSet takes of an admission (`Fits`) |
| `CapacityContract` | abstract specification of launching: quota is granted, and what runs fits one grant as a whole; what fitting means is a parameter |
| `LaunchGates`, `LaunchGatesMC` | from a Kueue admission to a running JobSet: gates, launch plan, startup and recovery tracking, Kueue's admission, second pass and eviction, the fake provisioner; implements `CapacityContract` |
| `PriorityShaping`, `PriorityShapingMC` | checkpoint-aware priority: telemetry, decision, and the three writes that record it |
| `ResumeReadiness`, `ResumeReadinessMC` | the resume readiness admission check: both its reconcilers, the evaluator, Kueue's use of the verdict |
| `ManagerMode` | an RTJ on a MultiKueue manager: the operator and the adapter as two writers of one status, the copy on the worker |
| `DeviceClaims`, `DeviceClaimsMC` | ResourceClaimTemplates of an RTJ with `spec.devices`, the device status, and the launch that refers to them |
| `ElasticResizeProofs`, `LaunchGatesProofs`, `PriorityShapingProofs`, `ResumeReadinessProofs`, `ManagerModeProofs`, `DeviceClaimsProofs` | the theorems about each of these components |

### `RTJLifecycle`: state and actions against the code

* `rtj` is the object in the API server, `seen` the cached copy, `ctl.job` the reconcile's
  `job.DeepCopy()`. `fresh` flags stand for resourceVersions: a `Status().Update` succeeds
  exactly when nothing was written since the copy was read.
* One `Reconcile` call is cut where the code calls out. `ctl.pc` names the next call, so every
  other actor may act between the creation of a JobSet and the status write that records it,
  between the observation of a marker and the deletion, and so on.
* The reconcile's branches are the actions `InitializeStatus`, `ensureStopRequested`,
  `ContinueStopFlow`, `reconcileManualHold`, `DeferUntilAdmitted`, `ObserveActive`,
  `reconcileLaunch`, `reconcileResume`; the calls are `writePauseControl`, `DrainTimedOut`,
  `ObserveNotReady`, `ObserveRecord`, `ObserveComplete`, `cleanupActiveJobSet`,
  `createRunAttemptResources`, `StatusUpdate`, `StatusConflict`; failures are `failLaunch`,
  `CreateReplyLost`, `CallFails`, `Crash`.
* The `mark...` functions of `status_helpers.go` are functions from RTJ to RTJ with the same
  names.
* The trainer is one process per attempt: `StartSave` (periodic, or for the request in the
  control file), `PublishManifest`, `PublishMarker`, `TrainingComplete`, `TrainerRestarts`.

Abstractions. Status reasons, messages and conditions are left out (no branch reads them); what
remains of them is `SuspensionStamped`, because the timestamp in `currentSuspension` makes the
status differ on every pass and so triggers a write. `currentRunAttempt`, `activeJobSetName` and
`activeControlConfigMapName` are always assigned together and are one attempt number. A request
ID is minted at most once per attempt and is the number of that attempt. A ConfigMap that does
not exist yet is not told apart from one that says Running. The identity stands for the fields
compatibility compares that a spec edit can change. Time is the wall-clock second of the last
recorded timestamp; each recorded timestamp falls in the same second or in the next one that is
told apart. A new RTJ is suspended, as the defaulting webhook makes it. Modelled is the
configuration without launch gates, DRA, priority shaping and manager mode; finalizers and
deletion of the RTJ are left out.

### `ElasticResize`: state and actions against the code

* `rtj` and `seen` are as above, reduced to what resizing reads: target, bounds, policy, mode,
  phase, attempt, and `status.elasticity` (`admitted`, `recorded` target, `state`, `path`,
  `published`) with the set `conds` of resize conditions that are true. `workload` and `seenWl`
  are Kueue's Workload and its cached copy: the worker count of the admission and the number of
  reclaimable pods. `jobSet` is the attempt whose JobSet runs.
* The operators up to `patchWorkloadReclaimablePods` carry the names of the Go functions they
  translate: input, decision tree, plan kind to state and path, condition sync, and what each
  execution does to the in-memory RTJ.
* One pass over a running RTJ is `InelasticPass`, `PlanWaits`, `PlanShrinkInPlace` or
  `PlanRelaunch`, with `findWorkloadFails` and `ShrinkPatchFails` for its failing calls. It is
  cut after the Workload patch (`ctl.pc = "commit"`), and for a relaunch also between the two
  status writes (`"relaunch"`): spec edits, evictions and cache deliveries fall in between.
* `requestStop`, `Drain...`, `DeferUntilAdmitted` and `Launch` are the lifecycle around a resize,
  one step per outcome.

Abstractions. `activeWorkerCount`, timestamps, reasons and messages are reported only. The
minimum count is a constant. `status.workloadReference` and `inPlaceShrinkSupported` are read but
written nowhere in the repository (the phase 9 sign-off speaks of a manual status patch), so
`Init` chooses them. `PreemptionInProgress` is computed as in the code, though `Reconcile` plans
only for RTJs that are not suspended. The webhook's rules (target within the bounds, no target
while disabled, mode changes only while suspended) are guards of `UserEdit`. Pausing by the user
drains as an eviction does and is left to `RTJLifecycle`.

### `LaunchPlan`, `LaunchGates`, `CapacityContract`

* `LaunchPlan` carries the names of the Go functions of `topology/assignment.go`,
  `launch_plan.go`, `podsetupdates.go`, `topology_injection.go` and `flavor_injection.go`. The
  labels, annotations and node selector of a pod template are one map, since the code treats the
  three alike.
* `workload` and `seenWl` are Kueue's Workload and its cached copy: admission (counts, topology,
  whether topology is delayed), the states and podSetUpdates of two checks, the eviction reason.
  `rtj.counts` is the annotation that `RunWithPodSetsInfo` writes and the launch reads, `rtj.merged`
  what Kueue merged into the pod templates, `rtj.shape` the recorded effective launch shape.
* A pass is cut after detecting an eviction, after the gates, after the creation of the JobSet.
  The gates are judged on `ctl.workload`, the cached Workload of that moment. Kueue, the fake
  provisioner's three classes and the two caches move in between.
* Startup state and eviction class are set where `startup_recovery.go` is called: on launch, on
  Running, on eviction.
* The refinement mapping takes `granted` to the history of complete admissions of the Workload
  and `run` to the JobSet. `ImplementsContract` is then `Contract!Spec`: a JobSet appears only
  where none is, and fits one admission in all of pods, world size and domains.
* `rtj.checkpoint` is the world size of the last completed checkpoint, which the drain also makes
  `status.selectedCheckpoint`; `markFailed` keeps it. A resume
  (`reconcileResumeWithGate`) selects a checkpoint for the admitted counts, or keeps the one it has
  selected in phase Restoring; a plain launch passes on `status.selectedCheckpoint` as it is.
  `jobSet.restore` is what the runtime is told to restore.

Abstractions. The view of a ProvisioningRequest is its state and the node selector it asks for;
names of checks and requests, messages and the LaunchBlocked condition's texts are left out. The
drain of a stopped run is one step. Of the store only the newest checkpoint is kept: an older one
that fits the admitted world size, which a resume could fall back to, is left out.

### `PriorityShaping`

* Time is counted in seconds; `wakeAt` is the RequeueAfter of the last pass. The decision
  operators have the names of `decision.go` and `window.go`; telemetry those of `telemetry.go`.
* The range of an int32 is a pair of constants, and the addition of base and adjustment is
  clamped as the code clamps it.
* A pass makes three writes, and `ctl.pc` stands before each: the Workload patch, the annotation
  update, the status update. The annotation update reads the stored object back over the copy, so
  what the pass had put into the status is lost (`ReadBack`) and a later pass writes it.
* The cached Workload may be behind the stored one for as long as it takes (less than a second),
  over several passes. `misled` is history: the last pass found its priority in such a Workload and
  therefore sent no patch.

### `ResumeReadiness`

* `check` is the AdmissionCheck with the outcome of its own reconciler, `wl.check` the state of
  the check on the Workload, `ctl` the pass of the Workload reconciler: `judge` reads the cached
  Workload, `write` patches it if its resourceVersion still matches.
* `store` is its health (up, down, or with an unreadable manifest) and the newest compatible
  checkpoint; `Evaluate` is the evaluator's chain of early returns with the policy's defaults.
* A manifest that is listed and cannot be read is dropped without an error, so that `Latest` does not
  have it. `findManagedChecksFails` is a pass whose Get of the AdmissionCheck fails: the error is
  dropped and the pass ends without a timer; `missed` is the history of it.
* `basis` is history: the verdicts that policy and what can be read of the store called for at some
  time since Kueue last reset the check.

### `ManagerMode`

* `rtj.status` is what the adapter mirrors as a whole, the worker's observed generation included;
  `rtj.summary` is `status.multiCluster`, which each mirror drops. `Pass` is one `Reconcile` in
  manager mode: while the observed generation is not the RTJ's own, as after every edit and every
  mirror, it writes `InitializePhase1Status` and returns; otherwise it is `reconcileManagerIntent`
  with `remote_status.go`, up to its status write.
* `AdapterCreates`, `AdapterDeletesOnDrift` and `AdapterMirrors` are Kueue's adapter as the manager's
  code relies on it, and are external. `Worker...` is the operator on the worker in outline, with the
  phases of its `mark...` functions: a copy that is created paused waits in Pending.
* `resolves` says whether a ClusterResolver and a `workloadReference` exist. `cmd/operator` sets
  neither; `Init` chooses.

### `DeviceClaims`

* `tmpl` and `cache` are the templates and their cached copies, `events` the changes of each that
  the cache has not heard of. A pass goes through the claims in order, one API call per step:
  `TemplateMatches`, `CreateTemplate`, `CreateLosesRace`, `DeleteDrifted`, `RecreateTemplate`, then
  the orphans, the status, the launch.
* `lags` is chosen in `Init`: with it the cache may be up to `MaxLag` changes behind when a pass
  begins.

Abstractions of the last four: launch and drain are one step each; an RTJ is reduced to the fields
the component reads; conditions and texts are left out unless a later pass branches on them.

## 3. Runs

All runs say `CHECK_DEADLOCK FALSE`: with the budgets of the environment used up the system
really comes to rest, and a job that is paused may stay paused.

| run | question | bounds |
|---|---|---|
| `lifecycle_safety` | with drains requested, withdrawn and repeated, stale reads, conflicts and one fault: at most one live JobSet, restores from published manifests only, held phases only without the recorded runtime; deletion only behind a recorded newer checkpoint, which never moves backwards; no runtime starts under an old request; and the inductive invariant of the proofs | 1 identity, 2 attempts, 2 checkpoints, clock 2, 3 edits, 1 Kueue decision, 1 fault (4.0 M states) |
| `lifecycle_liveness` | under fairness: a stop completes, an admitted RTJ is launched | 2 identities, 2 attempts, 1 checkpoint, 1 edit of state or identity, 3 Kueue decisions, 1 fault (0.5 M states) |
| `elastic_resize` | edits of target, bounds, policy and mode, an eviction and a fault around plans made from stale copies: a published number of reclaimable pods changes only to the one the status records; a run is stopped only for the resize that is recorded; under fairness, a resize that was blocked or missed is planned | counts 1 to 2, 2 edits, 1 eviction, 1 fault (1.1 M states) |
| `launch_gates` | what runs fits one complete admission (refinement of `CapacityContract`); a resume that selects its checkpoint runs at the checkpoint's world size; an RTJ whose gates are open is looked at again | driver and workers, 2 pods per replica, 5 admissions, one of them of less than a replica, updates on a level that the domains share and on one where they differ, 2 ProvisioningRequests, 2 attempts, 1 eviction, 1 late event, no resharding (2.2 M states) |
| `priority_shaping` | an int32 stays one; a protected run is never made an easier victim; a boost is going to be looked at again unless the status reports a failure or the last pass was misled by a stale Workload; annotations and status agree | integers −8 to 7, base 5, 2 policies, 4 seconds, 2 attempts, 2 faults, 1 delay (3.7 M states) |
| `resume_readiness` | every verdict was called for since the last reset; an undecided check is going to be looked at again unless the last pass could not read its AdmissionCheck | 3 policy specs, 2 hours, 1 edit, 1 fault: an outage, an unreadable manifest, a failed call or a restart (2.3 M states) |
| `manager_mode` | once the operator is done, the report agrees with the last mirror; a pause is carried through | 2 clusters, 2 edits, 1 attempt per copy, 1 move, 1 fault, 2 mirrors before the operator is at rest (1.1 M states) |
| `device_claims` | a launch has the claims of the spec its pass works with, as the pod sets of that spec have them, and their templates; templates settle; a deferred launch takes place | 2 claims, 2 requests, 1 edit, 2 holds, 1 fault, up to 2 unheard changes (0.3 M states) |
| `paused_has_no_runtime`, `relaunch_resize_drains`, `reshard_is_allowed`, `store_error_rejects_nothing` | each finds a behaviour of the code that a quoted document excludes | as small as the behaviour allows; the last two those of `launch_gates` and `resume_readiness` |

Why the bounds are enough: every property relates an attempt to the one before it, so two
attempts are the case; two checkpoints allow a periodic one beside the one that answers a request;
clock 2 tells "same second", "later" and "after the next request" apart; one fault can hit any
single call, which is what the retry logic distinguishes, and the proofs cover any number.

Fairness (`FairSpec`). The work queue hands out a queued key and one worker runs it to its end:
weak fairness of `Reconcile`. The informer delivers: weak fairness of `Deliver`. Time passes, so
a drain observed again and again is eventually observed after its deadline: strong fairness of
`DrainTimedOut`. Nothing is assumed of the trainer, of users or of Kueue.

For resizing, two counts and two edits lower a target and raise it again, or take a shrink back that
was published; the theorems hold for any counts and edits. `ElasticResize!FairSpec` adds
weak fairness of the Workload informer, of the informer's resync (the only thing that wakes the
controller when just the Workload changed) and of Kueue's reservation and unsuspension.

For the launch gates, the five admissions differ in what a mix of two could get wrong: counts below
a replica, of one, and of none in whole; one domain and two; immediate and delayed topology. Four
seconds are enough for a protection window, a stale checkpoint and a second run judged by the
timestamps of the first. Two hours with a maximum age of one tell a usable checkpoint from one
that has grown too old. A move to the second cluster is the case in which a copy that has begun is
followed by one that has not. Two claims and one edit that may change both give every order of
create, delete, recreate and cleanup; two holds end a run and start the next one.

`ManagerMode!FairSpec` assumes the operator's work queue, informer and timer, and an adapter that
goes on; MultiKueue need not dispatch and the worker need not launch. A mirror brings the worker's
generation with it, so the operator needs two passes after each, and an adapter that always mirrored
between the two would keep it from ever reporting. The adapter works periodically (remote_status.go:13,
it "periodically copies"; docs/phase6/PHASE6_SIGNOFF.md:67: "configured interval
(default: 10-15s)"), and a pass takes far less: `MaxMirrors` bounds the mirrors, which may fall
anywhere, before the operator is at rest once, and `Interval`, under strong fairness, is the end of
the adapter's interval that renews them. Without that timing the pause is not carried through.
`DeviceClaims!FairSpec`
assumes passes, the calls of a pass, timers and informers, and nothing of users, Kueue or
failures. The other new runs check invariants and action properties, without fairness: "is going
to be looked at again" is the invariant that a pass, an event or a timer is pending.

Three of the properties name a case in which the code does not do what one would wish, so that the
rest of what they say can be checked and proved:

* `BoostIsTimed`: a pass that finds its priority in a stale Workload skips the patch that should end
  a boost and sets no timer (`misled`). In every other state without a reported failure the boost has
  a timer or a pass.
* `UndecidedIsRevisited`: a pass whose Get of the AdmissionCheck fails drops the error and leaves the
  check without a timer (`missed`).
* `LaunchHasItsDevices`: where `lags` holds, it states only the claims of a launch, not their
  templates: a template that matches in the cache is taken for the real one, so a request that goes
  back to an earlier value before the cache has heard, or a recreate that failed after a delete,
  launches with a wrong or a missing template.

And two contracts are stated as the code keeps them. `WithinQuota` holds the pods of a JobSet to the
admitted count where at least a replica was admitted; below that `applyAdmittedReplicaCount` makes
one replica, which exceeds the quota, and the contract says exactly that. `WithinDomains` covers the
levels on which the assigned domains agree; on a level where they differ nothing is imposed, and a
podSetUpdate may set it to a value of none of them (docs/phase3/architecture.md asks for "Admitted
Shape Faithfulness").

### What the violation runs show

1. `PausedHasNoRuntime`: the JobSet is created before the status that records it is written. A
   pause in between makes the write conflict; the retry sees no recorded JobSet, reports Paused
   and comes to rest with the unrecorded JobSet running.
2. `RelaunchResizeDrains`: the pass that starts a relaunch resize requests a stop; every later
   pass finds no reason to stop in the spec, marks the RTJ Running and waits for the resize it
   should perform. The run is never drained.
3. `ReshardIsAllowed`: a drained RTJ is admitted with other counts, no checkpoint fits, and the RTJ
   is marked Failed with `selectedCheckpoint` still set. The next pass takes the plain launch, which
   restores that checkpoint at the new world size, without a check and without opt-in.
4. `StoreErrorRejectsNothing`: a manifest that is listed but cannot be read at that moment is dropped
   by `tryLoadCandidate`; the evaluator finds no checkpoint and rejects the Workload, which Kueue
   deactivates. The documented outcomes of a store error are Ready and Retry.

### What the models show beyond the runs

Behaviour of the code that the models contain, that a document or a comment speaks against or that
a reader should know of, and that has no run of its own:

* Lifecycle. A plain launch, the path out of Failed, restores `status.selectedCheckpoint` without
  the compatibility check of the resume path. After `maxDrainTime` the RTJ is Failed for one pass
  only, then reported Paused on the checkpoint of an earlier attempt. When a stop is withdrawn
  after the control file was written, the trainer still yields and exits, and the RTJ stays
  Running.
* Resizing. Whether the reclaimablePods patch is needed is decided on the cached Workload: after a
  relaunch plan has cleared it, a stale cache makes the next shrink report a publication that does
  not exist; the patch that was skipped may be sent by a later pass. Withdrawing an in-place shrink
  clears the RTJ's flag and leaves the pods on the Workload.
* Launch. The dry run for conflicts merges the Workload's updates into templates that may carry the
  node selector of an earlier admission: a conflict that is none marks the RTJ Failed, the adapter
  reports Finished, and Kueue finishes the Workload while the retry launches.
  `detectAndRecordEviction` may turn a recorded RecoveryTimedOut into StartupTimedOut on a second
  pass. `capacity.guaranteeActive` and LaunchBlocked are not cleared by an eviction. Admitted pods
  are rounded down to whole replicas while the world size counts all of them. Only the name of the
  ProvisioningRequest among the podSetUpdates keeps a launch from mixing the counts of one
  admission with the cached Workload of another. An update that sets a topology level on which the
  assigned domains differ is compared with no domain, and fewer admitted pods than a replica has
  become a whole replica.
* Priority. Nothing calls `recordYieldForTelemetry`, `recordResumeForTelemetry` or
  `clearPriorityShapingOnQueued`: a queued RTJ keeps its shaped priority and the yield budget is
  never used up. Removing the policy reference leaves status, annotations and priority as they are.
  A failed pass followed by one that cannot resolve the policy leaves a boost on the Workload
  without a timer; the condition then reports the failure.
* Readiness. `cmd/operator` passes no catalog. The AdmissionCheck reconciler does not watch
  policies, so a check that was reconciled before its policy existed stays inactive. A check is
  judged again after admission, so an outage can turn the check of a running job.
* Manager. With the wiring of `cmd/operator`, `executionCluster` is always empty.
  `remoteObservedGeneration` is never the worker's: the pass that initializes the
  status has put the manager's own generation in its place before the summary is built. Paused is
  reported while a copy that was just dispatched still runs. The checkpoint that should survive a
  pause is read from the summary that the mirror has just dropped.
* Devices. Nothing calls `observeDRAClaimStatus` or the syncs of claim conditions and of device
  fingerprints. Disabling DRA leaves the templates. Templates of a deleted RTJ of the same name
  are adopted, since the comparison ignores the owner, and then garbage-collected. An edit of
  `spec.devices` replaces the template under a running JobSet. One between admission and launch
  launches with claims Kueue has not accounted for: the JobSet is made from the spec, and nothing
  compares it with the admitted Workload.

Smaller disagreements that the same models contain and that have no run of their own: a plain
launch keeps the pause request ID of the attempt before it (`markStarting` does not clear it); a
failed call on the pause path restamps `yieldRequestedAt`, so the deadline starts over; a failed
reclaimablePods patch leaves ResizePending and ResizeFailed both true; the pass that completes a
resize after an eviction relaunched the run plans the same resize again before it writes; and
`admittedWorkerCount` is the preferred count, whatever Kueue admitted.

## 4. Proofs

Every invariant, every action property and the refinement that a passing run checks is also a
theorem: TLC shows it for the bounds of section 3, TLAPS for every value of the constants that
satisfies the assumptions named here. No theorem bounds the number of edits, failures, restarts,
evictions or attempts. Each of the eight modules proves its theorems from an inductive invariant,
with one lemma per action (or group of actions that write alike) and part of the invariant; the
parts were first checked by TLC on the bounds of the component's run.

### `RTJLifecycleProofs`

Assumed: the first identity is one of the identities; the bounds are naturals, attempts and
checkpoints at least one.

* `Inductive` (`IInv`), `TypeCorrect` (`TypeOK`), `SingleRuntime` (`SingleLiveJobSet`),
  `HeldPhase` (`HeldPhaseTracksNoRuntime`), `FreshControl` (`NoInheritedStop`).

`SingleLiveJobSet` is not inductive: a reconcile that acts on an old copy of the RTJ could create
a second JobSet. `IInv` says how old a copy can be and what it may still do. `CacheInv`: the
cached copy is the current one or lies at most one recorded launch behind (`Older`), and if acting
on it can recreate the recorded attempt then the next one does not run (`SafeToRecreate`).
`RuntimeInv`: the live JobSet is the recorded attempt's or the next one's, never both; a request
ID is only in the ConfigMaps of recorded attempts. `MidInv`, `StopInv`, `CreateInv`, `CommitInv`:
the same for the copy the reconcile in progress holds, at each of its calls. A status write is
the hard case, because it makes three copies of different age out of two. `FreshControl` follows
from `IInv` and from the lemma that only `createRunAttemptResources` and `CreateReplyLost` turn an
absent JobSet into a live one.

### `CheckpointProofs`

* `RestoresAreComplete` (`ResumeFromComplete`), `LastCompletedMovesForward`
  (`LastCompletedAdvances`), `DeletesOnlyRecorded` (`DeleteOnlyRecorded`).

On top of `IInv`, `CkptInv` says why a checkpoint that the controller names can be trusted.
`SavedInv`: what a trainer is saving is its own and not yet published, a marker is the last thing
an attempt writes and only one that was asked to stop writes it; so manifests and markers never
change once they exist. `VersionsInv`: the RTJ and its cached copy name published checkpoints, and
the first is at most one status write (`Follows`) ahead of the second. `HeldInv`: the same of the
reconcile in progress, which deletes only what it has seen recorded.

### `ElasticResizeProofs`

Assumed: at least one worker, minimum not above maximum, natural budgets.

* `TypeCorrect` (`TypeOK`), `StopIsRecorded` (`StopOnlyForRecordedResize`), `ReclaimRecorded`
  (`ReclaimIsAsRecorded`).

`TypeOK` bounds the attempt by the number of evictions, which needs `AttemptInv` and `PassInv`:
each attempt but the running one has an eviction of its own, although passes launch from old
copies. `ReclaimInv` is the core of the third: when the RTJ records a publication that the cache
does not show yet, a pass that reads the old copy again can, whatever Workload it sees, only send
the number that is recorded (`Declares`).

### `LaunchGatesProofs`

Assumed (`BoundsAssumption`, `AdmissionsAssumption`): admissions give every pod set a positive
count, with a total that is a positive number (a sum over a set, see below); parallelism and
completions are positive.

* `TypeCorrect` (`TypeOK`), `OpenGatesRevisited` (`OpenGatesAreRevisited`), `ResumesKeepWorldSize`
  (`ResumeKeepsWorldSize`), and `LaunchingFits`: `Spec => ImplementsContract`, every step of the
  detailed specification is a step or a stutter of `CapacityContract`, for any podSetUpdates.

`GrantedInv`: the counts of a running RTJ and every complete admission that a copy of the Workload
shows are on record as granted. `TicketsInv`: a ProvisioningRequest's number determines the counts,
wherever it is found: in the Workload, its copies, the templates of the RTJ and of its copies. As
the merge of podSetUpdates refuses two different numbers, a plan is made from one admission; this
is what both `ResumesKeepWorldSize` and the refinement rest on. `QuietInv`: a controller at rest has
nothing to launch. `AttemptsInv`: how far the copies lag behind the attempt, so that a launch finds
no JobSet or the one it means to create.

### `PriorityShapingProofs`

* `TypeCorrect` (`TypeOK`, among it that the effective priority is an int32), `AnnotationsSettle`
  (`AnnotationsAgree`), `BoostsAreTimed` (`BoostIsTimed`),
  `RunsAreProtected` (`ProtectedRunKeepsPriority`, assuming `BoostsRaise`: a protection boost is
  not negative and an upper bound is not below the base priority).

`CopiesInv` relates the RTJ to the cached copy and to the pass; `NotesInv` says what the pass holds
before each of its three writes and what it leaves behind, with the annotation update that reads the
status back; `TimedInv` carries the timer of a boost, or the fact that the pass was misled, through
the pass; `RunsInv` says that a copy of a run knows when it was launched, so that no window of an
earlier run is taken for its own.

### `ResumeReadinessProofs`, `ManagerModeProofs`, `DeviceClaimsProofs`

* Readiness: `TypeCorrect` (`TypeOK`), `Revisited` (`UndecidedIsRevisited`), `VerdictsHaveBasis`
  (`VerdictHasBasis`), for every kind of outage. `CopyInv`: the copy of
  a pass that nothing overtook is the check that is stored; `BasisInv`: what a pass may still write
  was called for since the last reset.
* Manager: `TypeCorrect` (`TypeOK`), `ReportIsTrue` (`ReportFollowsMirror`). `ReportInv`: the
  operator rests only on an RTJ that a whole pass, with its initialization, would leave as it is,
  and a pending write differs from what is stored, so that it brings another pass.
* Devices: `TypeCorrect` (`TypeOK`), `TemplatesInTheEnd` (`TemplatesSettle`), `LaunchesWithDevices`
  (`LaunchHasItsDevices`). `EventsInv`: the cache and the events it has not heard of end in the
  template as it is; `WorkInv`: which templates are right at each call of a pass whose cache was
  current when it began; `StatusInv`, `SettledInv`: what the pass has when it launches and leaves
  when it ends.

### Only model-checked

The liveness properties `StopCompletes`, `AdmittedLeavesQueue`, `ResizeIsPlanned`,
`PauseIsCarriedThrough` and `DeferredLaunchHappens`: fairness and ENABLED are out of the prover's
reach. And that the total of an admission's counts is a number: it is a fold over a set, which
would need an induction over data; it is therefore part of `AdmissionsAssumption`, and TLC evaluates
it for the admissions of the run.

A CASE whose arms overlap is read in order by TLC, as the code reads its `if` chain, while the
semantics of TLA+ leaves the choice open. Where arms do overlap, the proofs hold whichever is taken.

## 5. Plan

What could follow, in this order:

1. `CheckpointSelection`: the catalog's listing and selection as pure operators over manifests with
   all ten compatibility dimensions and the world-size rule, against a reference definition; both
   ways of naming the lineage (launch path and admission check).
2. `TrainerRanks`: one process per rank, barriers, the control file read rank by rank.
3. Deletion of the RTJ, with finalizers and an RTJ recreated under the same name.

## 6. Not modelled, and why

* Rendering of JobSets and pod templates (`internal/jobset`) beyond replica counts, selectors,
  updates and claims: environment, volumes and names are layout.
* Field validation, defaulting and conversion have no state; the rules the models depend on are
  guards on inputs. `multikueue/config.go` validates a configuration, `requests.go` looks up a name.
* Metrics, the entry points, S3 access, hashing and tensor state carry no protocol state. The
  remote launch, device and elasticity summaries of `remote_status.go` are only logged.
* `dra_status.go` and `dra/claims.go`: the observation of ResourceClaims is not called by the
  operator.
* Deletion of the RTJ, finalizers and an RTJ recreated under the same name.
* The JobSet controller, Kueue, MultiKueue's adapter, the API server and the kubelet are external:
  they do what the code relies on, in any order the code permits.
