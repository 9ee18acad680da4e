------------------------ MODULE ResumeReadinessProofs ------------------------
(* The verdicts of the resume readiness check, for every policy and every bound. *)
EXTENDS ResumeReadiness, TLAPS

USE ReadinessAssumption

-----------------------------------------------------------------------------
\* Types

Reasons == {"Reset", "StorageUnavailable", "InitialLaunchReady", "NoCheckpointAvailable",
            "InitialLaunchBlocked", "CheckpointTooOld", "CheckpointReady",
            "PolicyResolutionFailed", "OwnerNotFound"}

Judgements == [state : States, reason : Reasons, about : NoTime .. MaxTime]

Workloads == [active : BOOLEAN, quota : BOOLEAN, admitted : BOOLEAN, evicted : BOOLEAN,
              check : Judgements]

Types ==
    /\ now \in 0 .. MaxTime /\ catalog \in BOOLEAN /\ launched \in BOOLEAN
    /\ policy \in [exists : BOOLEAN, spec : Specs]
    /\ check \in [parameters : {"policy", "none"},
                  active : {"Unknown", "ParametersMissing", "PolicyNotFound", "ControllerReady"}]
    /\ owner \in {"rtj", "gone", "other"}
    /\ store \in [health : {"up"} \cup Outages, latest : NoTime .. now]
    /\ wl \in Workloads /\ seen \in Workloads
    /\ ctl \in [pc : {"idle", "judge", "write"}, copy : Judgements, fresh : BOOLEAN]
    /\ fresh \in BOOLEAN /\ queued \in BOOLEAN /\ checkQueued \in BOOLEAN /\ timer \in BOOLEAN
    /\ missed \in BOOLEAN /\ basis \subseteq States

LEMMA IdleType == Reset \in Judgements /\ Idle.copy = Reset /\ Idle.pc = "idle" /\ Idle.fresh = FALSE
  BY DEF Idle, Reset, Verdict, Judgements, Reasons, States, NoTime

LEMMA ResolvedType ==
  ASSUME NEW s \in Specs
  PROVE  /\ ResolvePolicy(s).failurePolicy \in {"FailOpen", "FailClosed"}
         /\ ResolvePolicy(s).allowInitial \in BOOLEAN
         /\ ResolvePolicy(s).maxAge \subseteq Nat
  BY DEF ResolvePolicy, Unset

-----------------------------------------------------------------------------
\* The decision, case by case

LEMMA DecisionCases ==
  ASSUME Types
  PROVE  /\ owner = "gone" => decision = Verdict("Retry", "OwnerNotFound", NoTime)
         /\ owner = "other" => decision = Verdict("Ready", "OwnerNotFound", NoTime)
         /\ owner = "rtj" => decision = evaluateCheck
<1>1. CASE owner = "gone"
  BY <1>1 DEF decision
<1>2. CASE owner = "other"
  BY <1>2 DEF decision
<1>3. CASE owner = "rtj"
  BY <1>3 DEF decision
<1> QED
  BY <1>1, <1>2, <1>3 DEF Types

LEMMA CheckCases ==
  LET p == ResolvePolicy(policy.spec) IN
  /\ ~PolicyLoads => evaluateCheck = Verdict("Retry", "PolicyResolutionFailed", NoTime)
  /\ PolicyLoads /\ catalog /\ store.health = "down" => evaluateCheck = catalogErrorDecision(p)
  /\ PolicyLoads /\ ~(catalog /\ store.health = "down") =>
        evaluateCheck = Evaluate(p, catalog, SelectResumeCheckpoint)
<1> DEFINE p == ResolvePolicy(policy.spec)
<1>1. CASE ~PolicyLoads
  BY <1>1 DEF evaluateCheck
<1>2. CASE PolicyLoads /\ catalog /\ store.health = "down"
  BY <1>2 DEF evaluateCheck
<1>3. CASE PolicyLoads /\ ~(catalog /\ store.health = "down")
  BY <1>3 DEF evaluateCheck
<1> QED
  BY <1>1, <1>2, <1>3

LEMMA EvaluateCases ==
  ASSUME NEW p, NEW queried \in BOOLEAN, NEW selected
  PROVE  /\ ~queried => Evaluate(p, queried, selected) = noCatalogDecision(p)
         /\ queried /\ selected = NoTime => Evaluate(p, queried, selected) = noCheckpointDecision(p)
         /\ queried /\ selected # NoTime /\ IsCheckpointTooOld(selected, p) =>
               Evaluate(p, queried, selected) = Verdict("Rejected", "CheckpointTooOld", now - selected)
         /\ queried /\ selected # NoTime /\ ~IsCheckpointTooOld(selected, p) =>
               Evaluate(p, queried, selected) = Verdict("Ready", "CheckpointReady", selected)
<1>1. CASE ~queried
  BY <1>1 DEF Evaluate
<1>2. CASE queried /\ selected = NoTime
  BY <1>2 DEF Evaluate
<1>3. CASE queried /\ selected # NoTime /\ IsCheckpointTooOld(selected, p)
  BY <1>3 DEF Evaluate
<1>4. CASE queried /\ selected # NoTime /\ ~IsCheckpointTooOld(selected, p)
  BY <1>4 DEF Evaluate
<1> QED
  BY <1>1, <1>2, <1>3, <1>4

(* A decision is a verdict and never leaves the check Pending. *)
LEMMA DecisionType ==
  ASSUME Types
  PROVE  decision \in Judgements /\ decision.state # "Pending"
<1> DEFINE p == ResolvePolicy(policy.spec)
           Final == {v \in Judgements : v.state # "Pending"}
<1>1. p.allowInitial \in BOOLEAN
  BY ResolvedType DEF Types
<1> HIDE DEF p
<1>2. catalogErrorDecision(p) \in Final
  BY DEF catalogErrorDecision, Verdict, Judgements, Reasons, States, NoTime
<1>3. noCatalogDecision(p) \in Final
  BY <1>2 DEF noCatalogDecision, Verdict, Judgements, Reasons, States, NoTime
<1>4. noCheckpointDecision(p) \in Final
  BY DEF noCheckpointDecision, Verdict, Judgements, Reasons, States, NoTime
<1>5. SelectResumeCheckpoint \in NoTime .. now /\ now \in 0 .. MaxTime /\ catalog \in BOOLEAN
  BY DEF SelectResumeCheckpoint, Types, NoTime
<1>6. Evaluate(p, catalog, SelectResumeCheckpoint) \in Final
  BY <1>3, <1>4, <1>5, EvaluateCases DEF Verdict, Judgements, Reasons, States, NoTime
<1>7. evaluateCheck \in Final
  BY <1>2, <1>6, CheckCases DEF p, Verdict, Judgements, Reasons, States, NoTime
<1> QED
  BY <1>7, DecisionCases DEF Verdict, Judgements, Reasons, States, NoTime, Types

(* The evaluator keeps the policy's promise. *)
LEMMA DecisionIsRight ==
  ASSUME Types
  PROVE  Right(decision.state)
<1> DEFINE p == ResolvePolicy(policy.spec)
<1>1. /\ p.allowInitial \in BOOLEAN /\ p.failurePolicy \in {"FailOpen", "FailClosed"}
      /\ p.maxAge \subseteq Nat
  BY ResolvedType DEF Types
<1>2. Promised = p
  BY DEF Promised
<1>3. now \in Int /\ Latest \in Int /\ catalog \in BOOLEAN /\ SelectResumeCheckpoint = Latest
  <2>1. now \in Int /\ store.latest \in NoTime .. now /\ catalog \in BOOLEAN
    BY DEF Types
  <2>2. Latest \in Int
    BY <2>1 DEF Latest, NoTime
  <2> QED
    BY <2>1, <2>2 DEF Latest, SelectResumeCheckpoint
<1> HIDE DEF p
<1>4. CASE owner # "rtj"
  BY <1>4, DecisionCases DEF Types, Verdict, Right, ReadyIsDue, RejectionIsDue
<1>5. CASE owner = "rtj" /\ ~PolicyLoads
  BY <1>5, DecisionCases, CheckCases DEF Verdict, Right, ReadyIsDue, RejectionIsDue
<1>6. CASE owner = "rtj" /\ PolicyLoads /\ catalog /\ store.health = "down"
  <2>1. decision = catalogErrorDecision(p)
    BY <1>6, DecisionCases, CheckCases DEF p
  <2> QED
    BY <1>1, <1>2, <1>6, <2>1
    DEF catalogErrorDecision, Verdict, Right, ReadyIsDue, RejectionIsDue, Readable
<1>7. CASE owner = "rtj" /\ PolicyLoads /\ ~catalog
  <2>1. decision = noCatalogDecision(p)
    BY <1>3, <1>7, DecisionCases, CheckCases, EvaluateCases DEF p
  <2> QED
    BY <1>1, <1>2, <1>7, <2>1
    DEF noCatalogDecision, catalogErrorDecision, Verdict, Right, ReadyIsDue, RejectionIsDue, Readable
<1>8. CASE owner = "rtj" /\ PolicyLoads /\ catalog /\ store.health # "down"
  <2>1. decision = Evaluate(p, catalog, Latest)
    BY <1>3, <1>8, DecisionCases, CheckCases DEF p
  <2>2. Young <=> Latest # NoTime /\ ~IsCheckpointTooOld(Latest, p)
    BY <1>1, <1>2, <1>3 DEF Young, IsCheckpointTooOld
  <2>3. CASE Latest = NoTime
    <3>1. decision = noCheckpointDecision(p)
      BY <1>3, <1>8, <2>1, <2>3, EvaluateCases
    <3> QED
      BY <1>1, <1>2, <1>8, <2>2, <2>3, <3>1
      DEF noCheckpointDecision, Verdict, Right, ReadyIsDue, RejectionIsDue, Readable
  <2>4. CASE Latest # NoTime /\ IsCheckpointTooOld(Latest, p)
    <3>1. decision = Verdict("Rejected", "CheckpointTooOld", now - Latest)
      BY <1>3, <1>8, <2>1, <2>4, EvaluateCases
    <3>2. ~Young /\ Latest # NoTime
      BY <2>2, <2>4
    <3> QED
      BY <1>8, <3>1, <3>2 DEF Verdict, Right, ReadyIsDue, RejectionIsDue, Readable
  <2>5. CASE Latest # NoTime /\ ~IsCheckpointTooOld(Latest, p)
    <3>1. decision = Verdict("Ready", "CheckpointReady", Latest)
      BY <1>3, <1>8, <2>1, <2>5, EvaluateCases
    <3>2. Young /\ Latest # NoTime
      BY <2>2, <2>5
    <3> QED
      BY <1>8, <3>1, <3>2 DEF Verdict, Right, ReadyIsDue, RejectionIsDue, Readable
  <2> QED
    BY <2>3, <2>4, <2>5
<1> QED
  BY <1>3, <1>4, <1>5, <1>6, <1>7, <1>8

-----------------------------------------------------------------------------
\* Types are kept

LEMMA RememberType ==
  ASSUME basis \subseteq States, Remember
  PROVE  basis' \subseteq States
  BY DEF Remember

LEMMA TypesInit == Init => Types
<1> SUFFICES ASSUME Init PROVE Types
  OBVIOUS
<1>1. wl \in Workloads /\ seen \in Workloads
  BY IdleType DEF Init, Workloads
<1>2. ctl \in [pc : {"idle", "judge", "write"}, copy : Judgements, fresh : BOOLEAN]
  BY IdleType DEF Init, Idle
<1>3. store \in [health : {"up"} \cup Outages, latest : NoTime .. now] /\ now \in 0 .. MaxTime
  BY DEF Init, NoTime
<1>4. policy \in [exists : BOOLEAN, spec : Specs]
  BY DEF Init
<1>5. /\ check \in [parameters : {"policy", "none"},
                    active : {"Unknown", "ParametersMissing", "PolicyNotFound", "ControllerReady"}]
      /\ owner \in {"rtj", "gone", "other"} /\ basis \subseteq States
  BY DEF Init
<1>6. /\ catalog \in BOOLEAN /\ launched \in BOOLEAN /\ checkQueued \in BOOLEAN
      /\ fresh \in BOOLEAN /\ queued \in BOOLEAN /\ timer \in BOOLEAN /\ missed \in BOOLEAN
  BY DEF Init
<1> QED
  BY <1>1, <1>2, <1>3, <1>4, <1>5, <1>6 DEF Types

LEMMA WriteType ==
  ASSUME Types, NEW new \in Workloads, Write(new)
  PROVE  /\ wl' \in Workloads /\ seen' \in Workloads /\ fresh' \in BOOLEAN
         /\ ctl' \in [pc : {"idle", "judge", "write"}, copy : Judgements, fresh : BOOLEAN]
         /\ checkQueued' \in BOOLEAN /\ queued' \in BOOLEAN /\ timer' \in BOOLEAN
         /\ missed' \in BOOLEAN
  BY DEF Write, StoreWl, Types

LEMMA EvictedType ==
  ASSUME Types
  PROVE  Evicted \in Workloads
  BY IdleType DEF Evicted, Types, Workloads

LEMMA TypesStep == Types /\ [Next]_vars => Types'
<1> SUFFICES ASSUME Types, [Next]_vars PROVE Types'
  OBVIOUS
<1>0. ASSUME Remember PROVE basis' \subseteq States
  BY <1>0, RememberType DEF Types
<1>1. CASE ReconcileAdmissionCheck
  <2>1. evaluateActiveCondition \in {"ParametersMissing", "PolicyNotFound", "ControllerReady"}
    BY DEF evaluateActiveCondition
  <2> QED
    BY <1>0, <1>1, <2>1 DEF ReconcileAdmissionCheck, Types
<1>2. CASE Get
  <2>1. seen.check \in Judgements
    BY DEF Types, Workloads
  <2> QED
    BY <1>0, <1>2, <2>1 DEF Get, Types, world
<1>22. CASE findManagedChecksFails
  <2>1. ctl' \in [pc : {"idle", "judge", "write"}, copy : Judgements, fresh : BOOLEAN]
    BY <1>22, IdleType DEF findManagedChecksFails, Idle
  <2> QED
    BY <1>0, <1>22, <2>1 DEF findManagedChecksFails, Types, world
<1>3. CASE Judge
  <2>1. applyDecision(ctl.copy, decision) \in Judgements
    BY DecisionType DEF applyDecision, Types
  <2>2. ctl' \in [pc : {"idle", "judge", "write"}, copy : Judgements, fresh : BOOLEAN]
    <3>1. Idle \in [pc : {"idle", "judge", "write"}, copy : Judgements, fresh : BOOLEAN]
      BY IdleType DEF Idle
    <3> QED
      BY <1>3, <2>1, <3>1 DEF Judge, Types
  <2>3. timer' \in BOOLEAN
    BY <1>3 DEF Judge, Types
  <2> QED
    BY <1>0, <1>3, <2>2, <2>3 DEF Judge, Types, world
<1>4. CASE StatusUpdate
  <2>1. wl' \in Workloads
    BY <1>4 DEF StatusUpdate, StoreWl, Types, Workloads
  <2>2. ctl' \in [pc : {"idle", "judge", "write"}, copy : Judgements, fresh : BOOLEAN]
    BY <1>4, IdleType DEF StatusUpdate, Idle
  <2>3. fresh' \in BOOLEAN /\ timer' \in BOOLEAN
    BY <1>4 DEF StatusUpdate, StoreWl, Types
  <2>4. UNCHANGED <<now, catalog, policy, check, owner, launched, store, checkQueued, queued, seen, missed>> /\ Remember
    BY <1>4 DEF StatusUpdate, StoreWl, world
  <2> QED
    BY <1>0, <2>1, <2>2, <2>3, <2>4 DEF Types
<1>5. CASE UpdateFails
  <2>1. ctl' \in [pc : {"idle", "judge", "write"}, copy : Judgements, fresh : BOOLEAN]
    BY <1>5, IdleType DEF UpdateFails, Idle
  <2> QED
    BY <1>0, <1>5, <2>1 DEF UpdateFails, Types, world
<1>6. CASE Timer
  <2>1. /\ UNCHANGED <<world, checkQueued, wl, seen, fresh, ctl, missed>>
        /\ timer' = FALSE /\ queued' = TRUE /\ Remember
    BY <1>6 DEF Timer
  <2>2. basis' \subseteq States /\ timer' \in BOOLEAN /\ queued' \in BOOLEAN
    BY <1>0, <2>1
  <2> QED
    BY <2>1, <2>2 DEF Types, world
<1>7. CASE Deliver
  BY <1>0, <1>7 DEF Deliver, Types, world
<1>8. CASE Restart
  <2>1. ctl' \in [pc : {"idle", "judge", "write"}, copy : Judgements, fresh : BOOLEAN]
    BY <1>8, IdleType DEF Restart, Idle
  <2> QED
    BY <1>0, <1>8, <2>1 DEF Restart, Types, world
<1>9. CASE ReserveQuota
  <2>1. [wl EXCEPT !.quota = TRUE, !.evicted = FALSE] \in Workloads
    BY DEF Types, Workloads
  <2> QED
    BY <1>0, <1>9, <2>1, WriteType DEF ReserveQuota, Types, world
<1>10. CASE Admit
  <2>1. [wl EXCEPT !.admitted = TRUE] \in Workloads
    BY DEF Types, Workloads
  <2> QED
    BY <1>0, <1>10, <2>1, WriteType DEF Admit, Types
<1>11. CASE EvictForRetry
  BY <1>0, <1>11, EvictedType, WriteType DEF EvictForRetry, Types, world
<1>12. CASE Deactivate
  <2>1. [Evicted EXCEPT !.active = FALSE] \in Workloads
    BY EvictedType DEF Workloads
  <2> QED
    BY <1>0, <1>12, <2>1, WriteType DEF Deactivate, Types, world
<1>13. CASE Preempt
  BY <1>0, <1>13, EvictedType, WriteType DEF Preempt, Types, world
<1>14. CASE EditPolicy
  <2>1. policy' \in [exists : BOOLEAN, spec : Specs]
    BY <1>14 DEF EditPolicy, Types
  <2> QED
    BY <1>0, <1>14, <2>1 DEF EditPolicy, Outside, Types
<1>15. CASE EditCheck
  BY <1>0, <1>15 DEF EditCheck, Outside, Types
<1>16. CASE EditRTJ
  <2>1. store' \in [health : {"up"} \cup Outages, latest : NoTime .. now]
    BY <1>16 DEF EditRTJ, Types, NoTime
  <2> QED
    BY <1>0, <1>16, <2>1 DEF EditRTJ, Outside, Types
<1>17. CASE TrainerCheckpoints
  <2>1. store' \in [health : {"up"} \cup Outages, latest : NoTime .. now]
    BY <1>17 DEF TrainerCheckpoints, Types, NoTime
  <2> QED
    BY <1>0, <1>17, <2>1 DEF TrainerCheckpoints, Outside, Types
<1>18. CASE StoreFails
  BY <1>0, <1>18 DEF StoreFails, Outside, Types
<1>19. CASE StoreRecovers
  BY <1>0, <1>19 DEF StoreRecovers, Outside, Types
<1>20. CASE Tick
  <2>1. now' \in 0 .. MaxTime /\ NoTime .. now \subseteq NoTime .. now'
    BY <1>20 DEF Tick, Types, NoTime
  <2>2. store' \in [health : {"up"} \cup Outages, latest : NoTime .. now']
    BY <1>20, <2>1 DEF Tick, Outside, Types
  <2> QED
    BY <1>0, <1>20, <2>1, <2>2 DEF Tick, Outside, Types
<1>21. CASE UNCHANGED vars
  BY <1>21 DEF vars, world, Types
<1> QED
  BY <1>1, <1>2, <1>3, <1>4, <1>5, <1>6, <1>7, <1>8, <1>9, <1>10, <1>11, <1>12, <1>13, <1>14,
     <1>15, <1>16, <1>17, <1>18, <1>19, <1>20, <1>21, <1>22
  DEF Next, Pass

LEMMA TypesAlways == Spec => []Types
  BY TypesInit, TypesStep, PTL DEF Spec

(* Verdicts, times and copies have their types throughout: the age of a checkpoint, which the
   evaluator computes only once there is one, is never negative or past the clock. *)
THEOREM TypeCorrect == Spec => []TypeOK
<1>1. Types => TypeOK
  BY DEF Types, TypeOK, Workloads, Judgements
<1> QED
  BY <1>1, TypesAlways, PTL

-----------------------------------------------------------------------------
\* An undecided check is looked at again

(* Copies and flags: a cache that has heard of everything is the Workload; the copy of a pass that
   nothing has overtaken is the check that is stored; what a pass is about to write is a decision. *)
CopyInv ==
    /\ fresh => seen = wl
    /\ ctl.pc # "idle" /\ fresh /\ ~queued => ctl.fresh
    /\ ctl.pc = "judge" /\ ctl.fresh => ctl.copy = wl.check
    /\ ctl.pc = "write" => ctl.copy.state # "Pending"

RevisitInv == CopyInv /\ UndecidedIsRevisited

(* Kueue never writes a Workload that it does not change. *)
LEMMA KueueWrites ==
  ASSUME Types, RevisitInv, NEW new, Write(new), new # wl
  PROVE  RevisitInv'
<1>1. fresh' = FALSE /\ ctl'.fresh = FALSE /\ ctl'.pc = ctl.pc /\ ctl'.copy = ctl.copy
  BY DEF Write, StoreWl, Types
<1> QED
  BY <1>1 DEF RevisitInv, CopyInv, UndecidedIsRevisited

LEMMA NothingOfIt ==
  ASSUME RevisitInv, UNCHANGED <<wl, seen, fresh, ctl, queued, timer, missed>>
  PROVE  RevisitInv'
  BY DEF RevisitInv, CopyInv, UndecidedIsRevisited

LEMMA RevisitInit == Init => RevisitInv
  BY DEF Init, Idle, RevisitInv, CopyInv, UndecidedIsRevisited

LEMMA RevisitStep == Types /\ RevisitInv /\ [Next]_vars => RevisitInv'
<1> SUFFICES ASSUME Types, RevisitInv, [Next]_vars PROVE RevisitInv'
  OBVIOUS
<1>1. CASE ReconcileAdmissionCheck
  BY <1>1, NothingOfIt DEF ReconcileAdmissionCheck
<1>2. CASE Get
  <2>1. /\ ctl'.pc = "judge" /\ ctl'.copy = seen.check /\ ctl'.fresh = fresh
        /\ UNCHANGED <<wl, seen, fresh, timer>>
    BY <1>2 DEF Get
  <2> QED
    BY <2>1 DEF RevisitInv, CopyInv, UndecidedIsRevisited
<1>22. CASE findManagedChecksFails
  BY <1>22, IdleType DEF findManagedChecksFails, RevisitInv, CopyInv, UndecidedIsRevisited
<1>3. CASE Judge
  <2>1. UNCHANGED <<wl, seen, fresh, queued>> /\ ctl.pc = "judge"
    BY <1>3 DEF Judge
  <2>2. CASE applyDecision(ctl.copy, decision) = ctl.copy
    <3>1. ctl'.pc = "idle" /\ (decision.state = "Retry" => timer')
      BY <1>3, <2>2, IdleType DEF Judge, RequeueAfter
    <3>2. ctl.copy.state = decision.state /\ decision.state \in States /\ decision.state # "Pending"
      BY <2>2, DecisionType DEF applyDecision, Judgements
    <3>3. fresh /\ ~queued => wl.check = ctl.copy
      BY <2>1 DEF RevisitInv, CopyInv
    <3> QED
      BY <2>1, <3>1, <3>2, <3>3 DEF RevisitInv, CopyInv, UndecidedIsRevisited
  <2>3. CASE applyDecision(ctl.copy, decision) # ctl.copy
    <3>1. /\ ctl'.pc = "write" /\ ctl'.fresh = ctl.fresh
          /\ ctl'.copy = applyDecision(ctl.copy, decision) /\ timer' = timer
      BY <1>3, <2>3 DEF Judge, Types
    <3>2. ctl'.copy.state # "Pending"
      BY <2>3, <3>1, DecisionType DEF applyDecision
    <3> QED
      BY <2>1, <3>1, <3>2 DEF RevisitInv, CopyInv, UndecidedIsRevisited
  <2> QED
    BY <2>2, <2>3
<1>4. CASE StatusUpdate
  <2>1. /\ ctl.pc = "write" /\ ctl'.pc = "idle" /\ queued' = queued /\ seen' = seen
        /\ wl' = [wl EXCEPT !.check = ctl.copy] /\ (fresh' => fresh /\ wl' = wl)
        /\ (ctl.copy.state = "Retry" => timer')
    BY <1>4, IdleType DEF StatusUpdate, StoreWl, RequeueAfter
  <2>2. wl'.check.state = ctl.copy.state
    BY <2>1 DEF Types, Workloads
  <2> QED
    BY <2>1, <2>2 DEF RevisitInv, CopyInv, UndecidedIsRevisited
<1>5. CASE UpdateFails
  BY <1>5, IdleType DEF UpdateFails, RevisitInv, CopyInv, UndecidedIsRevisited
<1>6. CASE Timer
  BY <1>6 DEF Timer, RevisitInv, CopyInv, UndecidedIsRevisited
<1>7. CASE Deliver
  BY <1>7 DEF Deliver, RevisitInv, CopyInv, UndecidedIsRevisited
<1>8. CASE Restart
  BY <1>8, IdleType DEF Restart, RevisitInv, CopyInv, UndecidedIsRevisited
<1>9. CASE ReserveQuota
  <2>1. [wl EXCEPT !.quota = TRUE, !.evicted = FALSE] # wl
    BY <1>9 DEF ReserveQuota, Types, Workloads
  <2> QED
    BY <1>9, <2>1, KueueWrites DEF ReserveQuota
<1>10. CASE Admit
  <2>1. [wl EXCEPT !.admitted = TRUE] # wl
    BY <1>10 DEF Admit, Types, Workloads
  <2> QED
    BY <1>10, <2>1, KueueWrites DEF Admit
<1>11. CASE EvictForRetry
  <2>1. Evicted # wl
    BY <1>11 DEF EvictForRetry, Evicted, Types, Workloads
  <2> QED
    BY <1>11, <2>1, KueueWrites DEF EvictForRetry
<1>12. CASE Deactivate
  <2>1. [Evicted EXCEPT !.active = FALSE] # wl
    BY <1>12 DEF Deactivate, Evicted, Types, Workloads
  <2> QED
    BY <1>12, <2>1, KueueWrites DEF Deactivate
<1>13. CASE Preempt
  <2>1. Evicted # wl
    BY <1>13 DEF Preempt, Evicted, Types, Workloads
  <2> QED
    BY <1>13, <2>1, KueueWrites DEF Preempt
<1>14. CASE EditPolicy
  BY <1>14, NothingOfIt DEF EditPolicy, Outside
<1>15. CASE EditCheck
  BY <1>15, NothingOfIt DEF EditCheck, Outside
<1>16. CASE EditRTJ
  BY <1>16, NothingOfIt DEF EditRTJ, Outside
<1>17. CASE TrainerCheckpoints
  BY <1>17, NothingOfIt DEF TrainerCheckpoints, Outside
<1>18. CASE StoreFails
  BY <1>18, NothingOfIt DEF StoreFails, Outside
<1>19. CASE StoreRecovers
  BY <1>19, NothingOfIt DEF StoreRecovers, Outside
<1>20. CASE Tick
  BY <1>20, NothingOfIt DEF Tick, Outside
<1>21. CASE UNCHANGED vars
  BY <1>21, NothingOfIt DEF vars
<1> QED
  BY <1>1, <1>2, <1>3, <1>4, <1>5, <1>6, <1>7, <1>8, <1>9, <1>10, <1>11, <1>12, <1>13, <1>14,
     <1>15, <1>16, <1>17, <1>18, <1>19, <1>20, <1>21, <1>22
  DEF Next, Pass

(* A check that is Pending or says Retry is going to be looked at again, whatever was edited,
   failed, conflicted or was restarted, unless the last pass could not read the AdmissionCheck:
   the reconciler's RequeueAfter and the events of Workloads leave that gap and no other. *)
THEOREM Revisited == Spec => []UndecidedIsRevisited
<1>1. RevisitInv => UndecidedIsRevisited
  BY DEF RevisitInv
<1> QED
  BY <1>1, TypesAlways, RevisitInit, RevisitStep, PTL DEF Spec

-----------------------------------------------------------------------------
\* A verdict has its basis

(* What a pass is about to write, and would be allowed to write, was called for since the last
   reset. *)
BasisInv ==
    /\ VerdictHasBasis
    /\ ctl.pc = "write" /\ ctl.fresh => ctl.copy.state \in basis

LEMMA BasisGrows ==
  ASSUME Remember, wl'.check # Reset \/ wl.check = Reset
  PROVE  basis \subseteq basis'
  BY DEF Remember

LEMMA Remembered ==
  ASSUME NEW s \in States, Right(s), Remember, UNCHANGED world
  PROVE  s \in basis'
<1>1. Right(s)'
  BY DEF world, Right, ReadyIsDue, RejectionIsDue, PolicyLoads, Promised, ResolvePolicy,
     Readable, Young, Latest
<1> QED
  BY <1>1 DEF Remember

(* A step that leaves the check and the pass alone, or only makes the pass stale. *)
LEMMA CheckStays ==
  ASSUME Types, BasisInv, Remember, wl'.check = wl.check,
         \/ ctl' = ctl
         \/ ctl'.pc # "write"
         \/ ctl'.fresh = FALSE
  PROVE  BasisInv'
<1>1. basis \subseteq basis'
  BY BasisGrows
<1>2. VerdictHasBasis'
  BY <1>1 DEF BasisInv, VerdictHasBasis
<1>3. (ctl.pc = "write" /\ ctl.fresh => ctl.copy.state \in basis)'
  BY <1>1 DEF BasisInv
<1> QED
  BY <1>2, <1>3 DEF BasisInv

LEMMA Resets ==
  ASSUME Types, NEW new, new.check = Reset, Write(new)
  PROVE  BasisInv'
<1>1. wl' = new /\ ctl'.fresh = FALSE
  BY DEF Write, StoreWl, Types
<1> QED
  BY <1>1 DEF BasisInv, VerdictHasBasis, Reset, Verdict

LEMMA BasisInit == Init => BasisInv
  BY DEF Init, Idle, BasisInv, VerdictHasBasis, Reset, Verdict

LEMMA BasisStep ==
  ASSUME Types, BasisInv, [Next]_vars
  PROVE  BasisInv'
<1>1. CASE ReconcileAdmissionCheck
  BY <1>1, CheckStays DEF ReconcileAdmissionCheck
<1>2. CASE Get
  <2>1. ctl'.pc = "judge" /\ wl' = wl /\ Remember
    BY <1>2 DEF Get
  <2> QED
    BY <2>1, CheckStays
<1>22. CASE findManagedChecksFails
  BY <1>22, IdleType, CheckStays DEF findManagedChecksFails
<1>3. CASE Judge
  <2>1. wl' = wl /\ Remember
    BY <1>3 DEF Judge
  <2>2. CASE applyDecision(ctl.copy, decision) = ctl.copy
    <3>1. ctl'.pc = "idle"
      BY <1>3, <2>2, IdleType DEF Judge
    <3> QED
      BY <2>1, <3>1, CheckStays
  <2>3. CASE applyDecision(ctl.copy, decision) # ctl.copy
    <3>1. ctl'.copy = decision
      BY <1>3, <2>3 DEF Judge, Types, applyDecision
    <3>2. Right(decision.state) /\ decision.state \in States
      BY DecisionIsRight, DecisionType DEF Types, Judgements
    <3>3. UNCHANGED world
      BY <1>3 DEF Judge
    <3>4. decision.state \in basis'
      BY <2>1, <3>2, <3>3, Remembered
    <3>5. basis \subseteq basis'
      BY <2>1, BasisGrows
    <3> QED
      BY <2>1, <3>1, <3>4, <3>5 DEF BasisInv, VerdictHasBasis
  <2> QED
    BY <2>2, <2>3
<1>4. CASE StatusUpdate
  <2>1. /\ ctl.pc = "write" /\ ctl.fresh /\ ctl'.pc = "idle" /\ Remember
        /\ wl' = [wl EXCEPT !.check = ctl.copy]
    BY <1>4, IdleType DEF StatusUpdate, StoreWl
  <2>2. wl'.check = ctl.copy
    BY <2>1 DEF Types, Workloads
  <2>3. CASE ctl.copy = Reset
    BY <2>1, <2>2, <2>3 DEF BasisInv, VerdictHasBasis, Reset, Verdict
  <2>4. CASE ctl.copy # Reset
    <3>1. basis \subseteq basis'
      BY <2>1, <2>2, <2>4, BasisGrows
    <3> QED
      BY <2>1, <2>2, <3>1 DEF BasisInv, VerdictHasBasis
  <2> QED
    BY <2>3, <2>4
<1>5. CASE UpdateFails
  BY <1>5, IdleType, CheckStays DEF UpdateFails
<1>6. CASE Timer
  BY <1>6, CheckStays DEF Timer
<1>7. CASE Deliver
  BY <1>7, CheckStays DEF Deliver
<1>8. CASE Restart
  BY <1>8, IdleType, CheckStays DEF Restart
<1>9. CASE ReserveQuota
  <2>1. wl'.check = wl.check /\ ctl'.fresh = FALSE /\ Remember
    BY <1>9 DEF ReserveQuota, Write, StoreWl, Types, Workloads
  <2> QED
    BY <2>1, CheckStays
<1>10. CASE Admit
  <2>1. wl'.check = wl.check /\ ctl'.fresh = FALSE /\ Remember
    BY <1>10 DEF Admit, Write, StoreWl, Types, Workloads
  <2> QED
    BY <2>1, CheckStays
<1>11. CASE EvictForRetry
  <2>1. Evicted.check = Reset
    BY DEF Evicted, Types, Workloads
  <2> QED
    BY <1>11, <2>1, Resets DEF EvictForRetry
<1>12. CASE Deactivate
  <2>1. [Evicted EXCEPT !.active = FALSE].check = Reset
    BY DEF Evicted, Types, Workloads
  <2> QED
    BY <1>12, <2>1, Resets DEF Deactivate
<1>13. CASE Preempt
  <2>1. Evicted.check = Reset
    BY DEF Evicted, Types, Workloads
  <2> QED
    BY <1>13, <2>1, Resets DEF Preempt
<1>14. CASE EditPolicy
  BY <1>14, CheckStays DEF EditPolicy, Outside
<1>15. CASE EditCheck
  BY <1>15, CheckStays DEF EditCheck, Outside
<1>16. CASE EditRTJ
  BY <1>16, CheckStays DEF EditRTJ, Outside
<1>17. CASE TrainerCheckpoints
  BY <1>17, CheckStays DEF TrainerCheckpoints, Outside
<1>18. CASE StoreFails
  BY <1>18, CheckStays DEF StoreFails, Outside
<1>19. CASE StoreRecovers
  BY <1>19, CheckStays DEF StoreRecovers, Outside
<1>20. CASE Tick
  BY <1>20, CheckStays DEF Tick, Outside
<1>21. CASE UNCHANGED vars
  BY <1>21 DEF vars, BasisInv, VerdictHasBasis
<1> QED
  BY <1>1, <1>2, <1>3, <1>4, <1>5, <1>6, <1>7, <1>8, <1>9, <1>10, <1>11, <1>12, <1>13, <1>14,
     <1>15, <1>16, <1>17, <1>18, <1>19, <1>20, <1>21, <1>22
  DEF Next, Pass

(* Every verdict on a Workload was called for by its policy and by what could be read of the store
   at some time since Kueue last reset the check, whatever was edited, failed or written late; a
   checkpoint whose manifest cannot be read counts as none. *)
THEOREM VerdictsHaveBasis == Spec => []VerdictHasBasis
<1>1. Types /\ BasisInv /\ [Next]_vars => BasisInv'
  BY BasisStep
<1>2. BasisInv => VerdictHasBasis
  BY DEF BasisInv
<1> QED
  BY <1>1, <1>2, TypesAlways, BasisInit, PTL DEF Spec
=============================================================================
