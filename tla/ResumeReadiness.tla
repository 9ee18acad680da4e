--------------------------- MODULE ResumeReadiness ---------------------------
(***************************************************************************)
(* The resume readiness admission check (internal/admissionchecks/resume). *)
(* Kueue admits a Workload once its checks are Ready, evicts and resets it *)
(* when one says Retry and deactivates it when one says Rejected.  One     *)
(* reconciler writes the verdict into the status of the Workload, from the *)
(* policy, the RTJ and the checkpoint store; another reports on the        *)
(* AdmissionCheck whether its policy exists.  Nothing watches the policy,  *)
(* the RTJ or the store.                                                   *)
(*                                                                         *)
(* The caches of policies, AdmissionChecks and RTJs are taken to be        *)
(* current; that of Workloads lags.  A pass reads its copy of the Workload, *)
(* then everything else in one step, and then writes.                      *)
(***************************************************************************)
EXTENDS Integers

CONSTANTS
    Specs,        \* the specs a ResumeReadinessPolicy may have
    Outages,      \* how the store may fail: "down", or "unreadable" (a manifest is)
    MaxTime,      \* bound: hours
    MaxAdmin,     \* bound: edits by users and administrators
    MaxFault      \* bound: outages, restarts and failed calls

Unset == "Unset"     \* the empty string

ASSUME ReadinessAssumption ==
    /\ Specs \subseteq [maxAge : SUBSET Nat, failurePolicy : {Unset, "FailOpen", "FailClosed"},
                        allowInitial : SUBSET BOOLEAN]
    /\ Outages \subseteq {"down", "unreadable"}
    /\ MaxTime \in Nat \ {0} /\ MaxAdmin \in Nat /\ MaxFault \in Nat

VARIABLES
    now,
    catalog,     \* the reconciler was given a catalog (cmd/operator gives it none)
    policy,      \* the ResumeReadinessPolicy: whether it exists, and its spec
    check,       \* the AdmissionCheck: its parameters and its Active condition
    checkQueued, \* the AdmissionCheck is in its work queue
    owner,       \* what owns the Workload: an RTJ, an RTJ that is gone, something else
    launched,    \* the RTJ was launched before
    store,       \* the store: its health, and the latest checkpoint compatible with the RTJ
    wl,          \* the Workload in the API server
    seen,        \* the Workload in the informer cache
    fresh,       \* seen has the resourceVersion of wl
    ctl,         \* the pass of the Workload reconciler in progress
    queued,      \* the Workload is in the work queue
    timer,       \* a RequeueAfter is running
    missed,      \* history: the last pass could not read the AdmissionCheck
    admin, faults,
    basis        \* history: the verdicts that were right at some time since the last reset

world == <<now, catalog, policy, check, owner, launched, store>>
vars == <<world, checkQueued, wl, seen, fresh, ctl, queued, timer, missed, admin, faults, basis>>

-----------------------------------------------------------------------------
NoTime == -1

States == {"Pending", "Ready", "Retry", "Rejected"}

Verdict(state, reason, about) == [state |-> state, reason |-> reason, about |-> about]
Reset == Verdict("Pending", "Reset", NoTime)

Idle == [pc |-> "idle", copy |-> Reset, fresh |-> FALSE]

(* Optional fields of a spec are sets of at most one value. *)
ResolvePolicy(spec) ==
    [maxAge |-> {a \in spec.maxAge : a > 0},
     failurePolicy |-> IF spec.failurePolicy = Unset THEN "FailClosed" ELSE spec.failurePolicy,
     allowInitial |-> spec.allowInitial = {} \/ TRUE \in spec.allowInitial]

-----------------------------------------------------------------------------
\* The evaluator: about is the checkpoint, or its age, of which the message speaks

(* Mutant: an outage counts as a store without checkpoints. *)
catalogErrorDecision_Rejects(p) ==
    IF p.failurePolicy = "FailOpen" THEN Verdict("Ready", "StorageUnavailable", NoTime)
    ELSE Verdict("Rejected", "StorageUnavailable", NoTime)

catalogErrorDecision(p) ==
    IF p.failurePolicy = "FailOpen" THEN Verdict("Ready", "StorageUnavailable", NoTime)
    ELSE Verdict("Retry", "StorageUnavailable", NoTime)

noCatalogDecision(p) ==
    IF p.allowInitial THEN Verdict("Ready", "InitialLaunchReady", NoTime)
    ELSE catalogErrorDecision(p)

noCheckpointDecision(p) ==
    IF p.allowInitial THEN Verdict("Ready", "InitialLaunchReady", IF launched THEN 1 ELSE 0)
    ELSE IF launched THEN Verdict("Rejected", "NoCheckpointAvailable", NoTime)
    ELSE Verdict("Rejected", "InitialLaunchBlocked", NoTime)

IsCheckpointTooOld(completed, p) == \E limit \in p.maxAge : now - completed > limit

(* Mutant: the age is computed before it is known that there is a checkpoint. *)
Evaluate_AgeFirst(p, queried, selected) ==
    CASE ~queried -> noCatalogDecision(p)
      [] queried /\ IsCheckpointTooOld(selected, p) -> Verdict("Rejected", "CheckpointTooOld", now - selected)
      [] queried /\ ~IsCheckpointTooOld(selected, p) /\ selected = NoTime -> noCheckpointDecision(p)
      [] OTHER -> Verdict("Ready", "CheckpointReady", selected)

Evaluate(p, queried, selected) ==
    CASE ~queried -> noCatalogDecision(p)
      [] queried /\ selected = NoTime -> noCheckpointDecision(p)
      [] queried /\ selected # NoTime /\ IsCheckpointTooOld(selected, p) ->
            Verdict("Rejected", "CheckpointTooOld", now - selected)
      [] OTHER -> Verdict("Ready", "CheckpointReady", selected)

(* The catalog fails when the store cannot be listed; a manifest that cannot be read is left out
   of the candidates. *)
SelectResumeCheckpoint == IF store.health = "unreadable" THEN NoTime ELSE store.latest

PolicyLoads == check.parameters = "policy" /\ policy.exists

evaluateCheck ==
    CASE ~PolicyLoads -> Verdict("Retry", "PolicyResolutionFailed", NoTime)
      [] PolicyLoads /\ catalog /\ store.health = "down" -> catalogErrorDecision(ResolvePolicy(policy.spec))
      [] OTHER -> Evaluate(ResolvePolicy(policy.spec), catalog, SelectResumeCheckpoint)

(* What Reconcile applies to the check. *)
decision ==
    CASE owner = "gone" -> Verdict("Retry", "OwnerNotFound", NoTime)
      [] owner = "other" -> Verdict("Ready", "OwnerNotFound", NoTime)
      [] owner = "rtj" -> evaluateCheck

-----------------------------------------------------------------------------
\* What the policy promises, however the decision is reached

Promised == ResolvePolicy(policy.spec)
Readable == catalog /\ store.health # "down"
Latest == IF store.health = "unreadable" THEN NoTime ELSE store.latest
Young == Latest # NoTime /\ \A limit \in Promised.maxAge : now - Latest <= limit

ReadyIsDue ==
    \/ owner = "other"
    \/ /\ owner = "rtj" /\ PolicyLoads
       /\ \/ Readable /\ Young
          \/ Promised.allowInitial /\ (~catalog \/ (Readable /\ Latest = NoTime))
          \/ Promised.failurePolicy = "FailOpen" /\ ~Readable

RejectionIsDue ==
    /\ owner = "rtj" /\ PolicyLoads /\ Readable /\ ~Young
    /\ Latest = NoTime => ~Promised.allowInitial

(* A state is right when the policy and what can be read of the store call for it, where a
   checkpoint whose manifest cannot be read is none; Retry, when they call for nothing. *)
Right(state) ==
    \/ state = "Ready" /\ ReadyIsDue
    \/ state = "Rejected" /\ RejectionIsDue
    \/ state = "Retry" /\ ~ReadyIsDue /\ ~RejectionIsDue

(* Part of every action. *)
Remember ==
    basis' = (IF wl'.check = Reset /\ wl.check # Reset THEN {} ELSE basis) \cup {s \in States : Right(s)'}

-----------------------------------------------------------------------------
Init ==
    /\ now = 0 /\ catalog \in BOOLEAN
    /\ \E s \in Specs : policy = [exists |-> TRUE, spec |-> s]
    /\ check = [parameters |-> "policy", active |-> "Unknown"]
    /\ checkQueued = TRUE
    /\ owner \in {"rtj", "other"}
    /\ launched = FALSE
    /\ \E c \in {NoTime, 0} : store = [health |-> "up", latest |-> c]
    /\ wl = [active |-> TRUE, quota |-> FALSE, admitted |-> FALSE, evicted |-> FALSE, check |-> Reset]
    /\ seen = wl /\ fresh = TRUE
    /\ ctl = Idle /\ queued = TRUE /\ timer = FALSE /\ missed = FALSE
    /\ admin = MaxAdmin /\ faults = MaxFault
    /\ basis = {s \in States : Right(s)}

Fault == faults > 0 /\ faults' = faults - 1
Admin == admin > 0 /\ admin' = admin - 1

-----------------------------------------------------------------------------
\* AdmissionCheckReconciler

evaluateActiveCondition ==
    CASE check.parameters # "policy" -> "ParametersMissing"
      [] check.parameters = "policy" /\ ~policy.exists -> "PolicyNotFound"
      [] OTHER -> "ControllerReady"

(* A write is an event of the AdmissionCheck. *)
ReconcileAdmissionCheck ==
    /\ checkQueued
    /\ check' = [check EXCEPT !.active = evaluateActiveCondition]
    /\ checkQueued' = (check' # check)
    /\ UNCHANGED <<now, catalog, policy, owner, launched, store, wl, seen, fresh, ctl, queued, timer, missed, admin, faults>>
    /\ Remember

-----------------------------------------------------------------------------
\* WorkloadReconciler

Get ==
    /\ ctl.pc = "idle" /\ queued
    /\ ctl' = [pc |-> "judge", copy |-> seen.check, fresh |-> fresh] /\ queued' = FALSE
    /\ missed' = FALSE
    /\ UNCHANGED <<world, checkQueued, wl, seen, fresh, timer, admin, faults>>
    /\ Remember

(* A check whose AdmissionCheck cannot be read is passed over like one of another controller: the
   pass ends with no error and no timer. *)
findManagedChecksFails ==
    /\ ctl.pc = "judge" /\ Fault
    /\ ctl' = Idle /\ missed' = TRUE
    /\ UNCHANGED <<world, checkQueued, wl, seen, fresh, queued, timer, admin>>
    /\ Remember

applyDecision(copy, d) == IF copy.state = d.state /\ copy.reason = d.reason /\ copy.about = d.about THEN copy ELSE d

(* Mutant: a check that is not Ready is not looked at again. *)
RequeueAfter_Never(d) == FALSE

RequeueAfter(d) == d.state = "Retry"

Judge ==
    /\ ctl.pc = "judge"
    /\ LET d == decision
           new == applyDecision(ctl.copy, d)
       IN  IF new = ctl.copy THEN ctl' = Idle /\ timer' = (timer \/ RequeueAfter(d))
           ELSE ctl' = [ctl EXCEPT !.pc = "write", !.copy = new] /\ UNCHANGED timer
    /\ UNCHANGED <<world, checkQueued, wl, seen, fresh, queued, missed, admin, faults>>
    /\ Remember

(* A write of the Workload; the cache hears of it later. *)
StoreWl(new) ==
    /\ wl' = new
    /\ fresh' = (fresh /\ new = wl)
    /\ UNCHANGED seen

StatusUpdate ==
    /\ ctl.pc = "write" /\ ctl.fresh
    /\ StoreWl([wl EXCEPT !.check = ctl.copy])
    /\ ctl' = Idle /\ timer' = (timer \/ RequeueAfter(ctl.copy))
    /\ UNCHANGED <<world, checkQueued, queued, missed, admin, faults>>
    /\ Remember

UpdateFails ==
    /\ ctl.pc = "write"
    /\ (~ctl.fresh /\ UNCHANGED faults) \/ Fault
    /\ ctl' = Idle /\ queued' = TRUE
    /\ UNCHANGED <<world, checkQueued, wl, seen, fresh, timer, missed, admin>>
    /\ Remember

Timer ==
    /\ timer /\ timer' = FALSE /\ queued' = TRUE
    /\ UNCHANGED <<world, checkQueued, wl, seen, fresh, ctl, missed, admin, faults>>
    /\ Remember

Deliver ==
    /\ ~fresh /\ seen' = wl /\ fresh' = TRUE /\ queued' = TRUE
    /\ UNCHANGED <<world, checkQueued, wl, ctl, timer, missed, admin, faults>>
    /\ Remember

Restart ==
    /\ Fault
    /\ ctl' = Idle /\ queued' = TRUE /\ checkQueued' = TRUE /\ timer' = FALSE
    /\ seen' = wl /\ fresh' = TRUE
    /\ UNCHANGED <<world, wl, missed, admin>>
    /\ Remember

-----------------------------------------------------------------------------
\* Kueue

Write(new) ==
    /\ StoreWl(new)
    /\ ctl' = [ctl EXCEPT !.fresh = FALSE]
    /\ UNCHANGED <<checkQueued, queued, timer, missed>>

(* A reservation leaves the checks as they are. *)
ReserveQuota ==
    /\ wl.active /\ ~wl.quota /\ check.active = "ControllerReady"
    /\ Write([wl EXCEPT !.quota = TRUE, !.evicted = FALSE])
    /\ UNCHANGED <<world, admin, faults>>
    /\ Remember

Admit ==
    /\ wl.quota /\ ~wl.admitted /\ wl.check.state = "Ready"
    /\ Write([wl EXCEPT !.admitted = TRUE])
    /\ launched' = TRUE
    /\ UNCHANGED <<now, catalog, policy, check, owner, store, admin, faults>>
    /\ Remember

Evicted == [wl EXCEPT !.quota = FALSE, !.admitted = FALSE, !.evicted = TRUE, !.check = Reset]

(* A Workload that is evicted already is not evicted again, whatever its checks say. *)
EvictForRetry ==
    /\ wl.check.state = "Retry" /\ ~wl.evicted
    /\ Write(Evicted)
    /\ UNCHANGED <<world, admin, faults>>
    /\ Remember

Deactivate ==
    /\ wl.check.state = "Rejected" /\ ~wl.evicted
    /\ Write([Evicted EXCEPT !.active = FALSE])
    /\ UNCHANGED <<world, admin, faults>>
    /\ Remember

Preempt ==
    /\ Admin /\ wl.quota
    /\ Write(Evicted)
    /\ UNCHANGED <<world, faults>>
    /\ Remember

-----------------------------------------------------------------------------
\* Users, administrators, the store and the clock

Outside(unchanged) ==
    UNCHANGED <<unchanged, catalog, wl, seen, fresh, ctl, queued, timer, missed>> /\ Remember

EditPolicy ==
    /\ Admin
    /\ \/ policy' = [policy EXCEPT !.exists = ~@]
       \/ \E s \in Specs : policy' = [policy EXCEPT !.spec = s]
    /\ Outside(<<now, check, checkQueued, owner, launched, store, faults>>)

EditCheck ==
    /\ Admin
    /\ \E p \in {"policy", "none"} : check' = [check EXCEPT !.parameters = p]
    /\ checkQueued' = TRUE
    /\ Outside(<<now, policy, owner, launched, store, faults>>)

(* Its checkpoints do not suit an RTJ whose identity is edited. *)
EditRTJ ==
    /\ Admin
    /\ owner = "rtj"
    /\ \/ store' = [store EXCEPT !.latest = NoTime] /\ UNCHANGED owner
       \/ owner' = "gone" /\ UNCHANGED store
    /\ Outside(<<now, policy, check, checkQueued, launched, faults>>)

TrainerCheckpoints ==
    /\ wl.admitted /\ owner = "rtj" /\ store.health = "up"
    /\ store' = [store EXCEPT !.latest = now]
    /\ Outside(<<now, policy, check, checkQueued, owner, launched, admin, faults>>)

StoreFails ==
    /\ Fault
    /\ \E o \in Outages : store' = [store EXCEPT !.health = o]
    /\ Outside(<<now, policy, check, checkQueued, owner, launched, admin>>)

StoreRecovers ==
    /\ store.health # "up"
    /\ store' = [store EXCEPT !.health = "up"]
    /\ Outside(<<now, policy, check, checkQueued, owner, launched, admin, faults>>)

Tick ==
    /\ now < MaxTime /\ now' = now + 1
    /\ Outside(<<policy, check, checkQueued, owner, launched, store, admin, faults>>)

-----------------------------------------------------------------------------
Pass == Get \/ findManagedChecksFails \/ Judge \/ StatusUpdate \/ UpdateFails

Next ==
    \/ ReconcileAdmissionCheck \/ Pass \/ Timer \/ Deliver \/ Restart
    \/ ReserveQuota \/ Admit \/ EvictForRetry \/ Deactivate \/ Preempt
    \/ EditPolicy \/ EditCheck \/ EditRTJ
    \/ TrainerCheckpoints \/ StoreFails \/ StoreRecovers \/ Tick

Spec == Init /\ [][Next]_vars

-----------------------------------------------------------------------------
TypeOK ==
    /\ now \in 0 .. MaxTime /\ owner \in {"rtj", "gone", "other"}
    /\ check.active \in {"Unknown", "ParametersMissing", "PolicyNotFound", "ControllerReady"}
    /\ \A w \in {wl, seen} : w.check.state \in States /\ w.check.about \in NoTime .. MaxTime
    /\ ctl.pc \in {"idle", "judge", "write"}
    /\ {fresh, queued, checkQueued, timer, missed, ctl.fresh} \subseteq BOOLEAN
    /\ basis \subseteq States

(* Whatever the check of a Workload says was called for by the policy and by what could be read
   of the store at some time since Kueue last reset it: a late write, an outage, a missing policy
   or a restart neither admits a Workload whose policy demands a checkpoint nor deactivates one
   that only met an outage.  A checkpoint whose manifest cannot be read counts as none, as it
   does in tryLoadCandidate. *)
VerdictHasBasis == wl.check.state # "Pending" => wl.check.state \in basis

(* A store that fails is no reason to reject (resume-readiness-logic.md: Ready or Retry by the
   failurePolicy).  Refuted: a manifest that is listed and cannot be read is dropped from the
   candidates without an error, and the Workload is rejected for want of a checkpoint. *)
StoreErrorRejectsNothing ==
    [][ctl.pc = "judge" /\ ctl'.pc = "write" /\ ctl'.copy.state = "Rejected" => store.health = "up"]_vars

(* A check that is Pending or says Retry is going to be looked at again: a pass is under way or due,
   an event is on its way, or a timer is running; or the last pass could not read the
   AdmissionCheck, which the code does not repeat.  Neither the store nor the policy announces
   that it is back, the reset by Kueue is announced once, and the write of a verdict may fail, be
   refused or be lost in a restart. *)
UndecidedIsRevisited ==
    wl.check.state \in {"Pending", "Retry"} => queued \/ ctl.pc # "idle" \/ ~fresh \/ timer \/ missed
=============================================================================
