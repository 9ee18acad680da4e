-------------------------- MODULE ManagerModeProofs --------------------------
(* What the operator on the manager reports of a remote RTJ, for any number of clusters, edits,
   mirrors, moves and failures. *)
EXTENDS ManagerMode, TLAPS

USE ManagerAssumption

-----------------------------------------------------------------------------
\* Types

Statuses == [phase : Phases, attempt : Nat, checkpoint : Nat, generation : Nat]

Targets == Clusters \cup {Unset}

Summaries == [suppressed : BOOLEAN, cluster : Targets, dispatch : DispatchPhases \cup {Unset},
              phase : Phases, ref : Targets, checkpoint : Nat, generation : Nat]

RTJs == [desired : {"Running", "Paused"}, generation : Nat, status : Statuses, summary : Summaries]

Dispatched(j) == j.summary = NoSummary \/ j.summary.dispatch \in DispatchPhases

Types ==
    /\ resolves \in BOOLEAN /\ cluster \in Targets
    /\ rtj \in RTJs /\ seen \in RTJs /\ Dispatched(rtj) /\ Dispatched(seen)
    /\ remote \in [exists : BOOLEAN, desired : {"Running", "Paused"}, generation : Nat,
                   runs : BOOLEAN, status : Statuses]
    /\ ctl \in [pc : {"idle", "initialize", "write"}, job : RTJs, fresh : BOOLEAN] /\ Dispatched(ctl.job)
    /\ fresh \in BOOLEAN /\ queued \in BOOLEAN /\ timer \in BOOLEAN

LEMMA NewType ==
  /\ NoSummary \in Summaries /\ NewStatus \in Statuses
  /\ NewRTJ \in RTJs /\ Dispatched(NewRTJ)
  /\ Idle \in [pc : {"idle", "initialize", "write"}, job : RTJs, fresh : BOOLEAN] /\ Dispatched(Idle.job)
  /\ Idle.pc = "idle"
  /\ NoRemote \in [exists : BOOLEAN, desired : {"Running", "Paused"}, generation : Nat,
                   runs : BOOLEAN, status : Statuses]
<1>1. NoSummary \in Summaries /\ NewStatus \in Statuses
  BY DEF NoSummary, Summaries, NewStatus, Statuses, Targets, Phases
<1>2. NewRTJ \in RTJs /\ Dispatched(NewRTJ)
  BY <1>1 DEF NewRTJ, RTJs, Dispatched
<1> QED
  BY <1>1, <1>2 DEF Idle, NoRemote

-----------------------------------------------------------------------------
\* What a pass makes of an RTJ

(* The synced summary with the checkpoint that a pause keeps. *)
Kept(j, target) ==
    LET synced == syncRemoteStatus(j.summary, j.status, target)
    IN  IF j.desired = "Paused" THEN restoreRemoteCheckpoint(synced, preserveRemoteCheckpoint(j))
        ELSE synced

LEMMA SyncedType ==
  ASSUME NEW j \in RTJs, NEW target \in Targets
  PROVE  LET synced == syncRemoteStatus(j.summary, j.status, target) IN
         /\ synced \in Summaries /\ synced.dispatch \in DispatchPhases /\ synced.suppressed
         /\ synced.checkpoint = j.status.checkpoint
         /\ j.status.attempt > 0 => synced.dispatch = "Active" /\ synced.phase = j.status.phase
  BY DEF RTJs, Statuses, Summaries, syncRemoteStatus, classifyRemoteState, hasRemoteStatusSignal,
     DispatchPhases, Phases

LEMMA KeptType ==
  ASSUME NEW j \in RTJs, NEW target \in Targets
  PROVE  /\ Kept(j, target) \in Summaries /\ Kept(j, target).dispatch \in DispatchPhases
         /\ Kept(j, target).suppressed
         /\ j.status.checkpoint # 0 => Kept(j, target).checkpoint = j.status.checkpoint
         /\ j.status.attempt > 0 =>
              Kept(j, target).dispatch = "Active" /\ Kept(j, target).phase = j.status.phase
<1> DEFINE synced == syncRemoteStatus(j.summary, j.status, target)
<1>1. /\ synced \in Summaries /\ synced.dispatch \in DispatchPhases /\ synced.suppressed
      /\ synced.checkpoint = j.status.checkpoint
      /\ j.status.attempt > 0 => synced.dispatch = "Active" /\ synced.phase = j.status.phase
  BY SyncedType
<1>2. Kept(j, target) = IF j.desired = "Paused" /\ synced.checkpoint = 0
                        THEN [synced EXCEPT !.checkpoint = j.summary.checkpoint] ELSE synced
  BY DEF Kept, restoreRemoteCheckpoint, preserveRemoteCheckpoint
<1>3. j.summary.checkpoint \in Nat
  BY DEF RTJs, Summaries
<1> HIDE DEF synced
<1>4. CASE j.desired = "Paused" /\ synced.checkpoint = 0
  BY <1>1, <1>2, <1>3, <1>4 DEF Summaries
<1>5. CASE ~(j.desired = "Paused" /\ synced.checkpoint = 0)
  BY <1>1, <1>2, <1>5
<1> QED
  BY <1>4, <1>5

LEMMA MarkedType ==
  ASSUME NEW k \in RTJs
  PROVE  /\ markRemotePaused(k) \in RTJs /\ markRemotePaused(k).desired = k.desired
         /\ markRemotePaused(k).status = [k.status EXCEPT !.phase = "Paused"]
         /\ markRemotePaused(k).summary = [k.summary EXCEPT !.phase = "Paused"]
         /\ markManagerSuppressed(k) \in RTJs /\ markManagerSuppressed(k).desired = k.desired
         /\ markManagerSuppressed(k).status = [k.status EXCEPT !.phase = "Queued"]
         /\ markManagerSuppressed(k).summary = k.summary
<1>1. [k.status EXCEPT !.phase = "Paused"] \in Statuses /\ [k.status EXCEPT !.phase = "Queued"] \in Statuses
  BY DEF RTJs, Statuses, Phases
<1>2. [k.summary EXCEPT !.phase = "Paused"] \in Summaries
  BY DEF RTJs, Summaries, Phases
<1>3. [k EXCEPT !.status.phase = "Paused"] = [k EXCEPT !.status = [k.status EXCEPT !.phase = "Paused"]]
  BY DEF RTJs
<1> QED
  BY <1>1, <1>2, <1>3 DEF RTJs, markRemotePaused, markManagerSuppressed

(* The fields of the result. *)
LEMMA ReconciledFields ==
  ASSUME NEW j \in RTJs, NEW target \in Targets
  PROVE  LET new == Reconciled(j, target) IN
         /\ new \in RTJs /\ Dispatched(new)
         /\ new.summary.suppressed
         /\ new.desired = j.desired /\ new.status.attempt = j.status.attempt
         /\ new.status.checkpoint = j.status.checkpoint
         /\ j.status.attempt > 0 =>
              /\ new.status.phase = j.status.phase
              /\ new.summary.dispatch = "Active" /\ new.summary.phase = j.status.phase
              /\ j.status.checkpoint # 0 => new.summary.checkpoint = j.status.checkpoint
         /\ ~(j.status.attempt > 0) =>
              new.status.phase = IF j.desired = "Paused" THEN "Paused" ELSE "Queued"
<1> DEFINE kept == [j EXCEPT !.summary = Kept(j, target)]
           phased == IF hasRemoteStatusSignal(j.status) THEN kept
                     ELSE IF j.desired = "Paused" THEN markRemotePaused(kept)
                     ELSE markManagerSuppressed(kept)
<1>1. Reconciled(j, target) = [phased EXCEPT !.status.generation = j.generation]
  BY DEF Reconciled, Kept
<1>2. kept \in RTJs /\ kept.desired = j.desired /\ kept.status = j.status /\ kept.summary = Kept(j, target)
  BY KeptType DEF RTJs
<1>3. CASE j.status.attempt > 0
  <2>1. phased = kept
    BY <1>3 DEF hasRemoteStatusSignal
  <2> QED
    BY <1>1, <1>2, <1>3, <2>1, KeptType DEF RTJs, Statuses, Dispatched
<1>4. CASE ~(j.status.attempt > 0) /\ j.desired = "Paused"
  <2>1. phased = markRemotePaused(kept)
    BY <1>4 DEF hasRemoteStatusSignal
  <2>2. /\ phased \in RTJs /\ phased.desired = j.desired
        /\ phased.status = [j.status EXCEPT !.phase = "Paused"] /\ phased.summary = [kept.summary EXCEPT !.phase = "Paused"]
    BY <1>2, <2>1, MarkedType
  <2>3. phased.summary.suppressed /\ phased.summary.dispatch \in DispatchPhases
    BY <1>2, <2>2, KeptType DEF Summaries
  <2> HIDE DEF phased
  <2> DEFINE new == [phased EXCEPT !.status.generation = j.generation]
  <2>4. /\ new \in RTJs /\ new.summary = phased.summary /\ new.desired = phased.desired
        /\ new.status.phase = phased.status.phase /\ new.status.attempt = phased.status.attempt
        /\ new.status.checkpoint = phased.status.checkpoint
    BY <2>2 DEF RTJs, Statuses
  <2>5. /\ new.status.phase = "Paused" /\ new.status.attempt = j.status.attempt
        /\ new.status.checkpoint = j.status.checkpoint
    BY <2>2, <2>4 DEF RTJs, Statuses
  <2> HIDE DEF new
  <2> QED
    BY <1>1, <1>4, <2>2, <2>3, <2>4, <2>5 DEF Dispatched, new
<1>5. CASE ~(j.status.attempt > 0) /\ j.desired # "Paused"
  <2>1. phased = markManagerSuppressed(kept)
    BY <1>5 DEF hasRemoteStatusSignal
  <2>2. /\ phased \in RTJs /\ phased.desired = j.desired
        /\ phased.status = [j.status EXCEPT !.phase = "Queued"] /\ phased.summary = kept.summary
    BY <1>2, <2>1, MarkedType
  <2>3. phased.summary.suppressed /\ phased.summary.dispatch \in DispatchPhases
    BY <1>2, <2>2, KeptType DEF Summaries
  <2> HIDE DEF phased
  <2> DEFINE new == [phased EXCEPT !.status.generation = j.generation]
  <2>4. /\ new \in RTJs /\ new.summary = phased.summary /\ new.desired = phased.desired
        /\ new.status.phase = phased.status.phase /\ new.status.attempt = phased.status.attempt
        /\ new.status.checkpoint = phased.status.checkpoint
    BY <2>2 DEF RTJs, Statuses
  <2>5. /\ new.status.phase = "Queued" /\ new.status.attempt = j.status.attempt
        /\ new.status.checkpoint = j.status.checkpoint
    BY <2>2, <2>4 DEF RTJs, Statuses
  <2> HIDE DEF new
  <2> QED
    BY <1>1, <1>5, <2>2, <2>3, <2>4, <2>5 DEF Dispatched, new
<1> QED
  BY <1>3, <1>4, <1>5

-----------------------------------------------------------------------------
\* Types are kept

Ctls == [pc : {"idle", "initialize", "write"}, job : RTJs, fresh : BOOLEAN]

(* What the operator has to do with, apart from the RTJ. *)
OperatorTypes ==
    /\ ctl \in Ctls /\ Dispatched(ctl.job)
    /\ fresh \in BOOLEAN /\ queued \in BOOLEAN /\ timer \in BOOLEAN

LEMMA IntentType ==
  ASSUME Types, NEW target \in Targets, reconcileManagerIntent(target)
  PROVE  ctl' \in Ctls /\ Dispatched(ctl'.job) /\ timer' \in BOOLEAN
<1>1. Reconciled(seen, target) \in RTJs /\ Dispatched(Reconciled(seen, target))
  BY ReconciledFields DEF Types
<1>2. CASE Reconciled(seen, target) = seen
  <2>1. ctl' = Idle /\ timer' \in BOOLEAN
    BY <1>2 DEF reconcileManagerIntent
  <2> QED
    BY <2>1, NewType DEF Ctls
<1>3. CASE Reconciled(seen, target) # seen
  BY <1>1, <1>3 DEF reconcileManagerIntent, Types, Ctls
<1> QED
  BY <1>2, <1>3

LEMMA InitializedType ==
  /\ \A status \in Statuses, generation \in Nat :
        /\ Initialized(status, generation) \in Statuses
        /\ Initialized(status, generation).generation = generation
  /\ \A j \in RTJs :
        /\ InitializePhase1Status(j) \in RTJs /\ InitializePhase1Status(j).summary = j.summary
        /\ InitializePhase1Status(j).status.generation = j.generation
        /\ InitializePhase1Status(j).generation = j.generation
<1>1. ASSUME NEW status \in Statuses, NEW generation \in Nat
      PROVE  /\ Initialized(status, generation) \in Statuses
             /\ Initialized(status, generation).generation = generation
  BY DEF Initialized, Statuses, Phases
<1>2. ASSUME NEW j \in RTJs
      PROVE  /\ InitializePhase1Status(j) \in RTJs /\ InitializePhase1Status(j).summary = j.summary
             /\ InitializePhase1Status(j).status.generation = j.generation
             /\ InitializePhase1Status(j).generation = j.generation
  <2>1. j.status \in Statuses /\ j.generation \in Nat
    BY DEF RTJs
  <2>2. /\ Initialized(j.status, j.generation) \in Statuses
        /\ Initialized(j.status, j.generation).generation = j.generation
    BY <1>1, <2>1
  <2> QED
    BY <2>2 DEF InitializePhase1Status, RTJs
<1> QED
  BY <1>1, <1>2

LEMMA PassType ==
  ASSUME Types, NEW target \in Targets, Reconcile(target)
  PROVE  ctl' \in Ctls /\ Dispatched(ctl'.job) /\ timer' \in BOOLEAN
<1>1. InitializePhase1Status(seen) \in RTJs /\ Dispatched(InitializePhase1Status(seen))
  BY InitializedType DEF Types, Dispatched
<1>2. CASE InitializePhase1Status(seen) = seen
  BY <1>2, IntentType DEF Reconcile
<1>3. CASE InitializePhase1Status(seen) # seen
  BY <1>1, <1>3 DEF Reconcile, Types, Ctls
<1> QED
  BY <1>2, <1>3

LEMMA WriteType ==
  ASSUME Types, NEW new \in RTJs, Dispatched(new), Write(new)
  PROVE  /\ rtj' = new /\ seen' = seen /\ OperatorTypes' /\ resolves' = resolves
         /\ ctl'.fresh = FALSE /\ ctl'.pc = ctl.pc /\ ctl'.job = ctl.job
  BY DEF Write, StoreRTJ, Types, OperatorTypes, Ctls, Dispatched

LEMMA TypesInit == Init => Types
  BY NewType DEF Init, Types, Targets

LEMMA RemoteType ==
  ASSUME Types
  PROVE  /\ WorkerInitializes \/ WorkerLaunches \/ WorkerDrains \/ WorkerSettles \/ AdapterCreates \/ AdapterDeletesOnDrift
              \/ Redispatch =>
                remote' \in [exists : BOOLEAN, desired : {"Running", "Paused"}, generation : Nat,
                             runs : BOOLEAN, status : Statuses]
<1> DEFINE Remotes == [exists : BOOLEAN, desired : {"Running", "Paused"}, generation : Nat,
                       runs : BOOLEAN, status : Statuses]
<1>0. remote \in Remotes /\ NoRemote \in Remotes /\ rtj.desired \in {"Running", "Paused"}
  BY NewType DEF Types, RTJs
<1>1. ASSUME WorkerLaunches PROVE remote' \in Remotes
  <2>1. [remote.status EXCEPT !.phase = "Starting", !.attempt = @ + 1, !.generation = remote.generation + 1]
          \in Statuses
    <3>1. remote.status \in Statuses /\ remote.generation + 1 \in Nat /\ remote.status.attempt + 1 \in Nat
      BY <1>0 DEF Statuses
    <3> QED
      BY <3>1 DEF Statuses, Phases
  <2>2. remote' = [remote EXCEPT !.runs = TRUE, !.generation = remote.generation + 1,
                      !.status = [remote.status EXCEPT !.phase = "Starting", !.attempt = @ + 1,
                                                       !.generation = remote.generation + 1]]
    BY <1>0, <1>1 DEF WorkerLaunches
  <2>3. remote.generation + 1 \in Nat
    BY <1>0
  <2> QED
    BY <1>0, <2>1, <2>2, <2>3
<1>2. ASSUME WorkerDrains PROVE remote' \in Remotes
  <2>1. remote.status.attempt \in Nat /\ remote.generation + 1 \in Nat /\ remote.status \in Statuses
    BY <1>0 DEF Statuses
  <2>2. [remote.status EXCEPT !.phase = "Queued", !.checkpoint = remote.status.attempt,
                              !.generation = remote.generation + 1] \in Statuses
    BY <2>1 DEF Statuses, Phases
  <2> QED
    BY <1>0, <1>2, <2>1, <2>2 DEF WorkerDrains
<1>3. ASSUME WorkerSettles PROVE remote' \in Remotes
  <2>1. RestingPhase(remote) \in Phases
    BY DEF RestingPhase, Phases
  <2>2. [remote.status EXCEPT !.phase = RestingPhase(remote)] \in Statuses
    BY <1>0, <2>1 DEF Statuses
  <2> QED
    BY <1>0, <1>3, <2>2 DEF WorkerSettles
<1>5. ASSUME WorkerInitializes PROVE remote' \in Remotes
  <2>1. Initialized(remote.status, remote.generation) \in Statuses
    BY <1>0, InitializedType
  <2> QED
    BY <1>0, <1>5, <2>1 DEF WorkerInitializes
<1>4. ASSUME AdapterCreates PROVE remote' \in Remotes
  BY <1>0, <1>4 DEF AdapterCreates
<1> QED
  BY <1>0, <1>1, <1>2, <1>3, <1>4, <1>5 DEF AdapterDeletesOnDrift, Redispatch

LEMMA TypesStep == Types /\ [Next]_vars => Types'
<1> SUFFICES ASSUME Types, [Next]_vars PROVE Types'
  OBVIOUS
<1>1. CASE Pass
  <2>1. ResolveExecutionCluster \in Targets
    BY DEF ResolveExecutionCluster, Types, Targets
  <2>2. ctl' \in Ctls /\ Dispatched(ctl'.job) /\ timer' \in BOOLEAN
    BY <1>1, <2>1, PassType DEF Pass
  <2> QED
    BY <1>1, <2>2 DEF Pass, Types, Ctls, Dispatched
<1>2. CASE PassUnresolved
  <2>1. ctl' \in Ctls /\ Dispatched(ctl'.job) /\ timer' \in BOOLEAN
    BY <1>2, IntentType DEF PassUnresolved, Targets
  <2> QED
    BY <1>2, <2>1 DEF PassUnresolved, Types, Ctls, Dispatched
<1>3. CASE StatusUpdate
  <2>1. /\ rtj' = ctl.job /\ ctl' = Idle /\ timer' \in BOOLEAN /\ fresh' \in BOOLEAN
        /\ UNCHANGED <<resolves, cluster, remote, queued, seen>>
    BY <1>3 DEF StatusUpdate, StoreRTJ, Types
  <2> QED
    BY <2>1, NewType DEF Types, Dispatched
<1>4. CASE UpdateFails
  <2>1. ctl' = Idle /\ queued' \in BOOLEAN /\ UNCHANGED <<resolves, cluster, rtj, seen, fresh, remote, timer>>
    BY <1>4 DEF UpdateFails
  <2> QED
    BY <2>1, NewType DEF Types, Dispatched
<1>5. CASE Timer
  <2>1. timer' \in BOOLEAN /\ queued' \in BOOLEAN /\ UNCHANGED <<resolves, cluster, rtj, seen, fresh, remote, ctl>>
    BY <1>5 DEF Timer
  <2> QED
    BY <2>1 DEF Types, Dispatched
<1>6. CASE Deliver
  BY <1>6 DEF Deliver, Types, Dispatched
<1>7. CASE Restart
  BY <1>7, NewType DEF Restart, Types, Dispatched
<1>8. CASE UserPausesOrResumes
  <2> DEFINE new == [rtj EXCEPT !.desired = IF @ = "Running" THEN "Paused" ELSE "Running",
                                !.generation = @ + 1]
  <2>1. new \in RTJs /\ Dispatched(new)
    <3>1. rtj \in RTJs /\ rtj.generation + 1 \in Nat
      BY DEF Types, RTJs
    <3>2. new.summary = rtj.summary
      BY <3>1 DEF RTJs
    <3>3. new \in RTJs
      BY <3>1 DEF RTJs
    <3> QED
      BY <3>2, <3>3 DEF Types, Dispatched
  <2>2. Write(new) /\ UNCHANGED <<cluster, remote>>
    BY <1>8 DEF UserPausesOrResumes
  <2> HIDE DEF new
  <2> QED
    BY <2>1, <2>2, WriteType DEF Types, OperatorTypes, Ctls, Dispatched
<1>9. CASE Dispatch
  BY <1>9 DEF Dispatch, Worker, Types, Targets, Dispatched
<1>10. CASE Redispatch
  BY <1>10, RemoteType DEF Redispatch, Worker, Types, Targets, Dispatched
<1>11. CASE AdapterCreates
  BY <1>11, RemoteType DEF AdapterCreates, Worker, Types, Dispatched
<1>12. CASE AdapterDeletesOnDrift
  BY <1>12, RemoteType DEF AdapterDeletesOnDrift, Worker, Types, Dispatched
<1>13. CASE AdapterMirrors
  <2>1. Mirrored \in RTJs /\ Dispatched(Mirrored)
    BY NewType DEF Mirrored, Types, RTJs, Dispatched
  <2>2. Write(Mirrored) /\ UNCHANGED <<cluster, remote>>
    BY <1>13 DEF AdapterMirrors
  <2> QED
    BY <2>1, <2>2, WriteType DEF Types, OperatorTypes, Ctls, Dispatched
<1>14. CASE WorkerLaunches
  BY <1>14, RemoteType DEF WorkerLaunches, Worker, Types, Dispatched
<1>15. CASE WorkerDrains
  BY <1>15, RemoteType DEF WorkerDrains, Worker, Types, Dispatched
<1>16. CASE WorkerSettles
  BY <1>16, RemoteType DEF WorkerSettles, Worker, Types, Dispatched
<1>17. CASE UNCHANGED vars
  BY <1>17 DEF vars, Types, Dispatched
<1>18. CASE WorkerInitializes
  BY <1>18, RemoteType DEF WorkerInitializes, Worker, Types, Dispatched
<1>19. CASE Interval
  BY <1>19 DEF Interval, Worker, Types, Dispatched
<1> QED
  BY <1>1, <1>2, <1>3, <1>4, <1>5, <1>6, <1>7, <1>8, <1>9, <1>10, <1>11, <1>12, <1>13, <1>14,
     <1>15, <1>16, <1>17, <1>18, <1>19
  DEF Next

LEMMA TypesAlways == Spec => []Types
  BY TypesInit, TypesStep, PTL DEF Spec

(* The summary that the operator writes is complete whatever the mirrored status is: a summary
   that is there has a dispatch phase. *)
THEOREM TypeCorrect == Spec => []TypeOK
<1>1. Types => TypeOK
  BY DEF Types, TypeOK, RTJs, Statuses, Targets, Dispatched
<1> QED
  BY <1>1, TypesAlways, PTL

-----------------------------------------------------------------------------
\* The report

(* The operator rests only on an RTJ that a whole pass would leave as it is; and what it is about
   to write differs from what is stored, so that the write brings another pass. *)
ReportInv ==
    /\ fresh => seen = rtj
    /\ Writing /\ ctl.fresh => ctl.job # rtj
    /\ Settled => InitializePhase1Status(rtj) = rtj
    /\ Settled => \E target \in Targets : Reconciled(rtj, target) = rtj

LEMMA WriteKeeps ==
  ASSUME Types, ReportInv, NEW new, Write(new)
  PROVE  ReportInv'
<1>1. /\ rtj' = new /\ seen' = seen /\ ctl'.fresh = FALSE /\ ctl'.pc = ctl.pc /\ queued' = queued
      /\ fresh' => fresh /\ new = rtj
  BY DEF Write, StoreRTJ, Types
<1>2. CASE new = rtj
  BY <1>1, <1>2 DEF ReportInv, Settled, Writing
<1>3. CASE new # rtj
  BY <1>1, <1>3 DEF ReportInv, Settled, Writing
<1> QED
  BY <1>2, <1>3

LEMMA WorkerKeeps ==
  ASSUME ReportInv, UNCHANGED <<rtj, seen, fresh, ctl, queued>>
  PROVE  ReportInv'
<1>1. Settled' => Settled
  BY DEF Settled
<1> QED
  BY <1>1 DEF ReportInv, Writing

LEMMA IntentKeeps ==
  ASSUME Types, ReportInv, NEW target \in Targets, reconcileManagerIntent(target),
         InitializePhase1Status(seen) = seen,
         UNCHANGED <<rtj, seen, fresh>>, ctl.pc = "idle"
  PROVE  ReportInv'
<1>1. CASE Reconciled(seen, target) = seen
  <2>1. ctl'.pc = "idle"
    BY <1>1, NewType DEF reconcileManagerIntent
  <2>2. fresh' => seen = rtj
    BY DEF ReportInv
  <2>3. (fresh => seen = rtj)' /\ (Writing /\ ctl.fresh => ctl.job # rtj)'
    BY <2>1, <2>2 DEF Writing
  <2>4. (Settled => InitializePhase1Status(rtj) = rtj)' /\ (Settled => \E t \in Targets : Reconciled(rtj, t) = rtj)'
    BY <1>1, <2>2 DEF Settled
  <2> QED
    BY <2>3, <2>4 DEF ReportInv
<1>2. CASE Reconciled(seen, target) # seen
  <2>1. ctl'.pc = "write" /\ ctl'.job = Reconciled(seen, target) /\ ctl'.fresh = fresh
    BY <1>2 DEF reconcileManagerIntent
  <2> QED
    BY <1>2, <2>1 DEF ReportInv, Settled, Writing
<1> QED
  BY <1>1, <1>2

LEMMA PassKeeps ==
  ASSUME Types, ReportInv, NEW target \in Targets, Reconcile(target),
         UNCHANGED <<rtj, seen, fresh>>, ctl.pc = "idle"
  PROVE  ReportInv'
<1>1. CASE InitializePhase1Status(seen) = seen
  BY <1>1, IntentKeeps DEF Reconcile
<1>2. CASE InitializePhase1Status(seen) # seen
  <2>1. ctl'.pc = "initialize" /\ ctl'.job = InitializePhase1Status(seen) /\ ctl'.fresh = fresh
    BY <1>2 DEF Reconcile
  <2> QED
    BY <1>2, <2>1 DEF ReportInv, Settled, Writing
<1> QED
  BY <1>1, <1>2

LEMMA ReportInit == Init => ReportInv
  BY NewType DEF Init, ReportInv, Settled, Writing

LEMMA ReportStep == Types /\ ReportInv /\ [Next]_vars => ReportInv'
<1> SUFFICES ASSUME Types, ReportInv, [Next]_vars PROVE ReportInv'
  OBVIOUS
<1>1. CASE Pass
  <2>1. ResolveExecutionCluster \in Targets
    BY DEF ResolveExecutionCluster, Types, Targets
  <2> QED
    BY <1>1, <2>1, PassKeeps DEF Pass
<1>2. CASE PassUnresolved
  BY <1>2, IntentKeeps DEF PassUnresolved, Targets
<1>3. CASE StatusUpdate
  <2>1. ctl'.pc = "idle" /\ ctl.job # rtj
    BY <1>3, NewType DEF StatusUpdate, ReportInv
  <2>2. fresh' = FALSE
    BY <1>3, <2>1 DEF StatusUpdate, StoreRTJ
  <2> QED
    BY <2>1, <2>2 DEF ReportInv, Settled, Writing
<1>4. CASE UpdateFails
  BY <1>4, NewType DEF UpdateFails, ReportInv, Settled, Writing
<1>5. CASE Timer
  BY <1>5 DEF Timer, ReportInv, Settled, Writing
<1>6. CASE Deliver
  BY <1>6 DEF Deliver, ReportInv, Settled, Writing
<1>7. CASE Restart
  BY <1>7, NewType DEF Restart, ReportInv, Settled, Writing
<1>8. CASE UserPausesOrResumes
  BY <1>8, WriteKeeps DEF UserPausesOrResumes
<1>9. CASE Dispatch
  BY <1>9, WorkerKeeps DEF Dispatch, Worker
<1>10. CASE Redispatch
  BY <1>10, WorkerKeeps DEF Redispatch, Worker
<1>11. CASE AdapterCreates
  BY <1>11, WorkerKeeps DEF AdapterCreates, Worker
<1>12. CASE AdapterDeletesOnDrift
  BY <1>12, WorkerKeeps DEF AdapterDeletesOnDrift, Worker
<1>13. CASE AdapterMirrors
  BY <1>13, WriteKeeps DEF AdapterMirrors
<1>14. CASE WorkerLaunches
  BY <1>14, WorkerKeeps DEF WorkerLaunches, Worker
<1>15. CASE WorkerDrains
  BY <1>15, WorkerKeeps DEF WorkerDrains, Worker
<1>16. CASE WorkerSettles
  BY <1>16, WorkerKeeps DEF WorkerSettles, Worker
<1>17. CASE UNCHANGED vars
  BY <1>17, WorkerKeeps DEF vars
<1>18. CASE WorkerInitializes
  BY <1>18, WorkerKeeps DEF WorkerInitializes, Worker
<1>19. CASE Interval
  BY <1>19, WorkerKeeps DEF Interval, Worker
<1> QED
  BY <1>1, <1>2, <1>3, <1>4, <1>5, <1>6, <1>7, <1>8, <1>9, <1>10, <1>11, <1>12, <1>13, <1>14,
     <1>15, <1>16, <1>17, <1>18, <1>19
  DEF Next

(* An RTJ that a pass would leave as it is tells the truth about its mirrored status. *)
LEMMA FixpointReports ==
  ASSUME Types, NEW target \in Targets, Reconciled(rtj, target) = rtj,
         InitializePhase1Status(rtj) = rtj
  PROVE  ReportFollowsMirror
<1>1. rtj \in RTJs
  BY DEF Types
<1>2. rtj.status.generation = rtj.generation
  BY <1>1, InitializedType
<1> QED
  BY <1>1, <1>2, ReconciledFields DEF ReportFollowsMirror

(* Whenever the operator has nothing left to do, the RTJ on the manager agrees with the last
   mirror of its copy, although each mirror drops the summary and the observed generation and may
   fall between the read and the write of a pass, or between the pass that observes the generation
   and the one that rebuilds the summary. *)
THEOREM ReportIsTrue == Spec => []ReportFollowsMirror
<1>1. Types /\ ReportInv => ReportFollowsMirror
  BY FixpointReports DEF ReportInv, ReportFollowsMirror
<1> QED
  BY <1>1, TypesAlways, ReportInit, ReportStep, PTL DEF Spec
=============================================================================
