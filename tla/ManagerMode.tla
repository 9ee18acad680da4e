----------------------------- MODULE ManagerMode -----------------------------
(***************************************************************************)
(* An RTJ on a MultiKueue manager cluster.  Two writers share its status:  *)
(* Kueue's adapter copies the whole status of the copy on the worker over  *)
(* it, and with it drops status.multiCluster; the operator in manager mode *)
(* (reconcileManagerIntent, remote_status.go) rebuilds multiCluster from   *)
(* what the adapter left, and reports a phase of its own while the worker  *)
(* has none.  Before that, a pass whose RTJ does not carry its own         *)
(* generation as observed, as after every edit and every mirror, only      *)
(* writes that and returns.  A change of the spec makes the adapter delete *)
(* the copy and create it anew.                                            *)
(*                                                                         *)
(* The adapter and MultiKueue are external: the model has what             *)
(* remote_status.go and the controller say of them.  The worker runs the   *)
(* same operator, whose status writes are here in outline (RTJLifecycle    *)
(* has them in full).                                                      *)
(***************************************************************************)
EXTENDS Integers

CONSTANTS
    Clusters,     \* the worker clusters
    MaxUser,      \* bound: edits of desiredState
    MaxAttempts,  \* bound: run attempts of one remote copy
    MaxMoves,     \* bound: dispatches to another cluster
    MaxMirrors,   \* bound: mirrors before the operator comes to rest
    MaxFault      \* bound: restarts, failed lookups and failed writes

Unset == "Unset"     \* the empty string

ASSUME ManagerAssumption ==
    /\ Clusters # {} /\ Unset \notin Clusters
    /\ MaxUser \in Nat /\ MaxAttempts \in Nat \ {0} /\ MaxMoves \in Nat
    /\ MaxMirrors \in Nat /\ MaxFault \in Nat

VARIABLES
    resolves,   \* there is a ClusterResolver and a workloadReference (cmd/operator has none)
    cluster,    \* the cluster the MultiKueue check of the Workload names, or Unset
    rtj,        \* the RTJ on the manager: desired state, generation, status
    seen,       \* the RTJ in the informer cache
    fresh,      \* seen has the resourceVersion of rtj
    remote,     \* the copy on the worker
    ctl,        \* the pass in progress
    queued, timer,
    user, moves, mirrors, faults

vars == <<resolves, cluster, rtj, seen, fresh, remote, ctl, queued, timer, user, moves, mirrors, faults>>

-----------------------------------------------------------------------------
Phases == {Unset, "Pending", "Queued", "Starting", "Running", "Paused"}
DispatchPhases == {"Pending", "Dispatched", "Active"}

(* status.multiCluster; a nil one is like an empty one.  checkpoint counts the checkpoints of the
   RTJ, 0 is none; generation is remoteObservedGeneration. *)
NoSummary == [suppressed |-> FALSE, cluster |-> Unset, dispatch |-> Unset, phase |-> Unset, ref |-> Unset,
              checkpoint |-> 0, generation |-> 0]

(* What an RTJ has in its status on either cluster.  activeJobSetName is set together with
   currentRunAttempt and never cleared. *)
NewStatus == [phase |-> Unset, attempt |-> 0, checkpoint |-> 0, generation |-> 0]

NewRTJ == [desired |-> "Running", generation |-> 1, status |-> NewStatus, summary |-> NoSummary]

NoRemote == [exists |-> FALSE, desired |-> "Running", generation |-> 1, runs |-> FALSE, status |-> NewStatus]

Idle == [pc |-> "idle", job |-> NewRTJ, fresh |-> FALSE]

-----------------------------------------------------------------------------
(* A status without a phase gets one; the observed generation follows. *)
Initialized(status, generation) ==
    [status EXCEPT !.phase = IF @ = Unset THEN "Pending" ELSE @, !.generation = generation]

InitializePhase1Status(j) == [j EXCEPT !.status = Initialized(j.status, j.generation)]

-----------------------------------------------------------------------------
\* remote_status.go

(* Mutant: a worker between two run attempts is not recognised. *)
hasRemoteStatusSignal_WhileRunning(status) == status.attempt > 0 /\ status.phase = "Running"

hasRemoteStatusSignal(status) == status.attempt > 0

(* Mutant: the dispatch phase is left to a later pass. *)
classifyRemoteState_Partial(status, target) ==
    IF hasRemoteStatusSignal(status) THEN [dispatch |-> "Active", phase |-> status.phase]
    ELSE [dispatch |-> Unset, phase |-> Unset]

classifyRemoteState(status, target) ==
    IF hasRemoteStatusSignal(status) THEN [dispatch |-> "Active", phase |-> status.phase]
    ELSE [dispatch |-> IF target # Unset THEN "Dispatched" ELSE "Pending", phase |-> Unset]

syncRemoteStatus(summary, status, target) ==
    LET state == classifyRemoteState(status, target)
    IN  [suppressed |-> TRUE, cluster |-> target, dispatch |-> state.dispatch, phase |-> state.phase,
         ref |-> target, checkpoint |-> status.checkpoint,
         generation |-> IF hasRemoteStatusSignal(status) THEN status.generation ELSE summary.generation]

preserveRemoteCheckpoint(j) == j.summary.checkpoint

restoreRemoteCheckpoint(summary, preserved) ==
    IF summary.checkpoint = 0 THEN [summary EXCEPT !.checkpoint = preserved] ELSE summary

markRemotePaused(j) == [j EXCEPT !.status.phase = "Paused", !.summary.phase = "Paused"]

markManagerSuppressed(j) == [j EXCEPT !.status.phase = "Queued"]

ResolveExecutionCluster == IF resolves THEN cluster ELSE Unset

(* What reconcileManagerIntent makes of its copy. *)
Reconciled(j, target) ==
    LET paused == j.desired = "Paused"
        synced == syncRemoteStatus(j.summary, j.status, target)
        kept == [j EXCEPT !.summary = IF paused
                                      THEN restoreRemoteCheckpoint(synced, preserveRemoteCheckpoint(j))
                                      ELSE synced]
        phased == IF hasRemoteStatusSignal(j.status) THEN kept
                  ELSE IF paused THEN markRemotePaused(kept) ELSE markManagerSuppressed(kept)
    IN  [phased EXCEPT !.status.generation = j.generation]

-----------------------------------------------------------------------------
Init ==
    /\ resolves \in BOOLEAN /\ cluster = Unset
    /\ rtj = NewRTJ /\ seen = NewRTJ /\ fresh = TRUE
    /\ remote = NoRemote
    /\ ctl = Idle /\ queued = TRUE /\ timer = FALSE
    /\ user = MaxUser /\ moves = MaxMoves /\ mirrors = MaxMirrors /\ faults = MaxFault

Fault == faults > 0 /\ faults' = faults - 1
Bounds == <<user, moves, mirrors>>

(* A write of the RTJ: the cache hears of it later. *)
StoreRTJ(new) ==
    /\ rtj' = new
    /\ fresh' = (fresh /\ new = rtj)
    /\ UNCHANGED seen

(* The copy is still active: look again in 5 s. *)
RequeueAfter(j) == j.desired = "Paused" /\ hasRemoteStatusSignal(j.status)

reconcileManagerIntent(target) ==
    LET new == Reconciled(seen, target)
    IN  IF new = seen THEN ctl' = Idle /\ timer' = (timer \/ RequeueAfter(seen))
        ELSE ctl' = [pc |-> "write", job |-> new, fresh |-> fresh] /\ UNCHANGED timer

(* The initialization is a write of its own: no manager branch, and no timer. *)
Reconcile(target) ==
    LET new == InitializePhase1Status(seen)
    IN  IF new = seen THEN reconcileManagerIntent(target)
        ELSE ctl' = [pc |-> "initialize", job |-> new, fresh |-> fresh] /\ UNCHANGED timer

Pass ==
    /\ ctl.pc = "idle" /\ queued /\ queued' = FALSE
    /\ Reconcile(ResolveExecutionCluster)
    /\ UNCHANGED <<resolves, cluster, rtj, seen, fresh, remote, Bounds, faults>>

(* The error is logged, the cluster unknown. *)
PassUnresolved ==
    /\ ctl.pc = "idle" /\ queued /\ queued' = FALSE
    /\ resolves /\ InitializePhase1Status(seen) = seen /\ Fault
    /\ reconcileManagerIntent(Unset)
    /\ UNCHANGED <<resolves, cluster, rtj, seen, fresh, remote, Bounds>>

Writing == ctl.pc \in {"initialize", "write"}

StatusUpdate ==
    /\ Writing /\ ctl.fresh
    /\ StoreRTJ(ctl.job)
    /\ ctl' = Idle /\ timer' = (timer \/ (ctl.pc = "write" /\ RequeueAfter(ctl.job)))
    /\ UNCHANGED <<resolves, cluster, remote, queued, Bounds, faults>>

(* Mutant: the write is tried again with the same copy. *)
UpdateFails_SameCopy ==
    /\ Writing
    /\ (~ctl.fresh /\ UNCHANGED faults) \/ Fault
    /\ queued' = TRUE
    /\ UNCHANGED <<resolves, cluster, rtj, seen, fresh, remote, ctl, timer, Bounds>>

UpdateFails ==
    /\ Writing
    /\ (~ctl.fresh /\ UNCHANGED faults) \/ Fault
    /\ ctl' = Idle /\ queued' = TRUE
    /\ UNCHANGED <<resolves, cluster, rtj, seen, fresh, remote, timer, Bounds>>

Timer ==
    /\ timer /\ timer' = FALSE /\ queued' = TRUE
    /\ UNCHANGED <<resolves, cluster, rtj, seen, fresh, remote, ctl, Bounds, faults>>

Deliver ==
    /\ ~fresh /\ seen' = rtj /\ fresh' = TRUE /\ queued' = TRUE
    /\ UNCHANGED <<resolves, cluster, rtj, remote, ctl, timer, Bounds, faults>>

Restart ==
    /\ Fault
    /\ ctl' = Idle /\ queued' = TRUE /\ timer' = FALSE /\ seen' = rtj /\ fresh' = TRUE
    /\ UNCHANGED <<resolves, cluster, rtj, remote, Bounds>>

-----------------------------------------------------------------------------
\* The user, MultiKueue and its adapter

Write(new) ==
    /\ StoreRTJ(new)
    /\ ctl' = [ctl EXCEPT !.fresh = FALSE]
    /\ UNCHANGED <<resolves, queued, timer, faults>>

UserPausesOrResumes ==
    /\ user > 0 /\ user' = user - 1
    /\ Write([rtj EXCEPT !.desired = IF @ = "Running" THEN "Paused" ELSE "Running",
                         !.generation = @ + 1])
    /\ UNCHANGED <<cluster, remote, moves, mirrors>>

Worker == <<resolves, rtj, seen, fresh, ctl, queued, timer, faults>>

Dispatch ==
    /\ cluster = Unset
    /\ cluster' \in Clusters
    /\ UNCHANGED <<Worker, remote, Bounds>>

(* The worker is lost, the copy on it with it. *)
Redispatch ==
    /\ moves > 0 /\ moves' = moves - 1 /\ cluster # Unset
    /\ cluster' \in Clusters \ {cluster} /\ remote' = NoRemote
    /\ UNCHANGED <<Worker, user, mirrors>>

AdapterCreates ==
    /\ cluster # Unset /\ ~remote.exists
    /\ remote' = [NoRemote EXCEPT !.exists = TRUE, !.desired = rtj.desired]
    /\ UNCHANGED <<Worker, cluster, Bounds>>

AdapterDeletesOnDrift ==
    /\ remote.exists /\ remote.desired # rtj.desired
    /\ remote' = NoRemote
    /\ UNCHANGED <<Worker, cluster, Bounds>>

(* Mirrored is what the adapter leaves of the status. *)
Mirrored == [rtj EXCEPT !.status = remote.status, !.summary = NoSummary]

AdapterMirrors ==
    /\ remote.exists /\ remote.desired = rtj.desired /\ rtj.status # remote.status
    /\ mirrors > 0 /\ mirrors' = mirrors - 1
    /\ Write(Mirrored)
    /\ UNCHANGED <<cluster, remote, user, moves>>

Settled == ctl.pc = "idle" /\ ~queued /\ fresh

(* The adapter's interval is longer than the operator needs to come to rest. *)
Interval ==
    /\ Settled /\ mirrors < MaxMirrors /\ mirrors' = MaxMirrors
    /\ UNCHANGED <<Worker, cluster, remote, user, moves>>

-----------------------------------------------------------------------------
\* The operator on the worker cluster, in outline

WorkerInitializes ==
    /\ remote.exists /\ remote.status.phase = Unset
    /\ remote' = [remote EXCEPT !.status = Initialized(remote.status, remote.generation)]
    /\ UNCHANGED <<Worker, cluster, Bounds>>

(* Admitted, which is a new generation, the copy starts a run attempt. *)
WorkerLaunches ==
    /\ remote.status.phase # Unset /\ remote.desired = "Running" /\ ~remote.runs
    /\ remote.status.attempt < MaxAttempts
    /\ remote' = [remote EXCEPT !.runs = TRUE, !.generation = @ + 1,
                                !.status = [remote.status EXCEPT !.phase = "Starting", !.attempt = @ + 1,
                                                                 !.generation = remote.generation + 1]]
    /\ UNCHANGED <<Worker, cluster, Bounds>>

(* An eviction, which is a new generation too: the drain records a checkpoint. *)
WorkerDrains ==
    /\ remote.runs
    /\ remote' = [remote EXCEPT !.runs = FALSE, !.generation = @ + 1,
                                !.status = [remote.status EXCEPT !.phase = "Queued", !.checkpoint = remote.status.attempt,
                                                                 !.generation = remote.generation + 1]]
    /\ UNCHANGED <<Worker, cluster, Bounds>>

(* markRunning, markPendingPaused and markQueuedForAdmission.  A copy is created paused and not
   told to pause, so it has no pause request and does not reach Paused. *)
RestingPhase(r) ==
    IF r.runs THEN "Running" ELSE IF r.desired = "Paused" THEN "Pending" ELSE "Queued"

WorkerSettles ==
    /\ remote.status.phase \notin {Unset, RestingPhase(remote)}
    /\ remote' = [remote EXCEPT !.status = [remote.status EXCEPT !.phase = RestingPhase(remote)]]
    /\ UNCHANGED <<Worker, cluster, Bounds>>

-----------------------------------------------------------------------------
Next ==
    \/ Pass \/ PassUnresolved \/ StatusUpdate \/ UpdateFails \/ Timer \/ Deliver \/ Restart
    \/ UserPausesOrResumes \/ Dispatch \/ Redispatch
    \/ AdapterCreates \/ AdapterDeletesOnDrift \/ AdapterMirrors \/ Interval
    \/ WorkerInitializes \/ WorkerLaunches \/ WorkerDrains \/ WorkerSettles

Spec == Init /\ [][Next]_vars

(* The operator, its informer and its timer go on, and so does the adapter; MultiKueue need not
   dispatch, nor the worker launch.  Time goes on although passes wake the operator in between:
   the interval of the adapter ends again and again while it is at rest. *)
FairSpec ==
    /\ Spec
    /\ WF_vars(Pass) /\ WF_vars(StatusUpdate \/ UpdateFails) /\ WF_vars(Deliver) /\ WF_vars(Timer)
    /\ WF_vars(AdapterCreates) /\ WF_vars(AdapterDeletesOnDrift) /\ WF_vars(AdapterMirrors)
    /\ SF_vars(Interval)

-----------------------------------------------------------------------------
TypeOK ==
    /\ \A j \in {rtj, seen, ctl.job} :
        /\ j.desired \in {"Running", "Paused"} /\ j.status.phase \in Phases
        /\ j.summary = NoSummary \/ j.summary.dispatch \in DispatchPhases
    /\ cluster \in Clusters \cup {Unset} /\ ctl.pc \in {"idle", "initialize", "write"}
    /\ {fresh, queued, timer, ctl.fresh} \subseteq BOOLEAN

(* Whenever the operator has nothing left to do, the RTJ tells the truth about the last mirror,
   although each mirror throws the summary away and may cross a pass: local execution is
   suppressed and the RTJ's own generation is observed; a worker that has begun is reported with
   its phase and checkpoint; one that has not, as what the user wants.  After an edit or a mirror
   this takes two passes with a write each, and either may be crossed again. *)
ReportFollowsMirror ==
    Settled =>
        /\ rtj.summary.suppressed /\ rtj.status.generation = rtj.generation
        /\ IF rtj.status.attempt > 0
           THEN /\ rtj.summary.dispatch = "Active" /\ rtj.summary.phase = rtj.status.phase
                /\ rtj.status.checkpoint # 0 => rtj.summary.checkpoint = rtj.status.checkpoint
           ELSE rtj.status.phase = (IF rtj.desired = "Paused" THEN "Paused" ELSE "Queued")

(* A pause that is not taken back is carried through: the copy that runs is replaced and the RTJ
   is reported as Paused, although the mirror of the new copy says Pending. *)
PauseIsCarriedThrough ==
    rtj.desired = "Paused" ~> \/ rtj.desired # "Paused"
                              \/ rtj.status.phase = "Paused" /\ ~remote.runs
=============================================================================
