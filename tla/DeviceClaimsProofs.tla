------------------------- MODULE DeviceClaimsProofs -------------------------
(* Templates and launches of an RTJ with devices, for any claims, requests, edits and failures. *)
EXTENDS DeviceClaims, SequenceTheorems, WellFoundedInduction, TLAPS

USE DevicesAssumption

-----------------------------------------------------------------------------
\* The claim a pass works on

LEMMA NatMin ==
  ASSUME NEW S, S \subseteq Nat, S # {}
  PROVE  Min(S) \in S
<1> DEFINE R == OpToRel(<, Nat)
<1>1. IsWellFoundedOn(R, Nat)
  BY NatLessThanWellFounded
<1>2. \A x, y \in Nat : x < y => <<x, y>> \in R
  <2> SUFFICES ASSUME NEW x \in Nat, NEW y \in Nat, x < y  PROVE <<x, y>> \in R
    OBVIOUS
  <2> QED
    BY Zenon DEF OpToRel
<1> HIDE DEF R
<1>3. PICK x \in S : \A y \in S : ~(<<y, x>> \in R)
  BY <1>1, WFMin
<1>4. \A y \in S : ~(y < x)
  BY <1>2, <1>3, Zenon
<1>5. \A y \in S : x <= y
  BY <1>4, x \in Nat, \A y \in S : y \in Nat, SMT
<1> QED
  BY <1>5 DEF Min

-----------------------------------------------------------------------------
\* Types

Statuses == [profile : {BuildProfile(d) : d \in Devices}, refs : SUBSET Claims]

RTJs == [devices : Devices, held : BOOLEAN, status : Statuses, active : BOOLEAN]

PCs == {"idle", "template", "recreate", "cleanup", "status", "launch", "mark"}

Ctls == [pc : PCs, job : RTJs, fresh : BOOLEAN, todo : SUBSET Claims, ready : BOOLEAN]

Types ==
    /\ rtj \in RTJs /\ seen \in RTJs
    /\ tmpl \in Devices /\ cache \in Devices
    /\ events \in [Claims -> Seq(Requests \cup {0})]
    /\ ctl \in Ctls
    /\ {fresh, queued, timer} \subseteq BOOLEAN
    /\ ctl.pc = "recreate" => ctl.todo # {} /\ tmpl[claim] = 0

LEMMA NoneType == [c \in Claims |-> 0] \in Devices
  BY DEF Devices

LEMMA NoDeviceStatusType == NoDeviceStatus \in Statuses
  BY NoneType DEF NoDeviceStatus, Statuses

LEMMA DesiredType ==
  ASSUME NEW d \in Devices
  PROVE  /\ DesiredDeviceStatus(d) \in Statuses
         /\ DesiredDeviceStatus(d).refs = Requested(d)
  BY DEF DesiredDeviceStatus, Statuses, Requested

LEMMA IdleType == Idle \in Ctls /\ Idle.pc = "idle"
  BY NoneType, NoDeviceStatusType DEF Idle, Ctls, PCs, NewRTJ, RTJs

LEMMA ClaimType ==
  ASSUME Types, ctl.todo # {}
  PROVE  claim \in ctl.todo /\ claim \in Claims
<1>1. ctl.todo \subseteq Claims
  BY DEF Types, Ctls
<1> QED
  BY <1>1, NatMin DEF claim

LEMMA SyncedType ==
  ASSUME Types
  PROVE  /\ Synced \in RTJs
         /\ Synced.devices = ctl.job.devices
         /\ Synced.held = ctl.job.held /\ Synced.active = ctl.job.active
         /\ Synced.status = IF IsDevicesEnabled(ctl.job) THEN DesiredDeviceStatus(ctl.job.devices)
                            ELSE NoDeviceStatus
<1> DEFINE s == IF IsDevicesEnabled(ctl.job) THEN DesiredDeviceStatus(ctl.job.devices)
                ELSE NoDeviceStatus
<1>1. ctl.job \in RTJs /\ ctl.job.devices \in Devices
  BY DEF Types, Ctls, RTJs
<1>2. s \in Statuses
  BY <1>1, DesiredType, NoDeviceStatusType
<1>3. Synced = [ctl.job EXCEPT !.status = s]
  BY DEF Synced, Current, syncDeviceStatus, deviceStatusEqual
<1> HIDE DEF s
<1>4. Synced \in RTJs /\ Synced.status = s /\ Synced.devices = ctl.job.devices
      /\ Synced.held = ctl.job.held /\ Synced.active = ctl.job.active
  BY <1>1, <1>2, <1>3 DEF RTJs
<1> QED
  BY <1>4 DEF s

LEMMA SetTemplateType ==
  ASSUME Types, NEW c \in Claims, NEW r \in Requests \cup {0}, SetTemplate(c, r)
  PROVE  /\ tmpl' \in Devices /\ cache' = cache /\ events' \in [Claims -> Seq(Requests \cup {0})]
         /\ tmpl'[c] = r
         /\ \A e \in Claims \ {c} : tmpl'[e] = tmpl[e] /\ events'[e] = events[e]
<1>1. tmpl' = [tmpl EXCEPT ![c] = r] /\ cache' = cache
  BY DEF SetTemplate
<1>2. Append(events[c], r) \in Seq(Requests \cup {0})
  BY DEF Types
<1>3. events' \in [Claims -> Seq(Requests \cup {0})] /\ \A e \in Claims \ {c} : events'[e] = events[e]
  BY <1>2 DEF SetTemplate, Types
<1> QED
  BY <1>1, <1>3 DEF Types, Devices

LEMMA DoneType ==
  ASSUME Types, ctl.todo # {}, NEW ready \in BOOLEAN
  PROVE  /\ Done(ready) \in Ctls /\ Done(ready).pc = "template" /\ Done(ready).job = ctl.job
         /\ Done(ready).fresh = ctl.fresh /\ Done(ready).todo = ctl.todo \ {claim}
  BY DEF Done, Types, Ctls, PCs

LEMMA GateType ==
  ASSUME Types, NEW j \in RTJs, Gate(j)
  PROVE  /\ ctl' \in Ctls /\ timer' \in BOOLEAN
         /\ \/ ctl' = Idle
            \/ ctl'.pc = "launch" /\ ctl'.job = j /\ ctl'.fresh = ctl.fresh
  BY IdleType DEF Gate, RequeueAfter, Types, Ctls, PCs

LEMMA InitTypes == Init => Types
<1> SUFFICES ASSUME Init  PROVE Types
  OBVIOUS
<1>1. Min(Requests) \in Requests
  BY NatMin
<1>2. [c \in Claims |-> IF c = Min(Claims) THEN Min(Requests) ELSE 0] \in Devices
  BY <1>1 DEF Devices
<1>3. rtj \in RTJs
  BY <1>2, NoDeviceStatusType DEF Init, NewRTJ, RTJs
<1>4. events \in [Claims -> Seq(Requests \cup {0})]
  BY DEF Init
<1> QED
  BY <1>3, <1>4, NoneType, IdleType DEF Init, Types

(* The steps at a claim: one template may change, the pass moves on within the templates. *)
LEMMA TemplateSteps ==
  ASSUME Types,
         \/ TemplateMatches \/ CreateTemplate \/ CreateLosesRace \/ DeleteDrifted
         \/ RecreateTemplate \/ cleanupOrphanedTemplates \/ DeleteOrphan \/ CleanedUp
  PROVE  Types'
<1>1. ctl.job.devices \in Devices
  BY DEF Types, Ctls, RTJs
<1>2. ASSUME ctl.todo # {}  PROVE ctl.job.devices[claim] \in Requests \cup {0}
  BY <1>1, <1>2, ClaimType DEF Devices
<1>3. UNCHANGED <<rtj, seen, fresh, queued, timer>>
  BY DEF TemplateMatches, CreateTemplate, CreateLosesRace, DeleteDrifted, RecreateTemplate,
         cleanupOrphanedTemplates, DeleteOrphan, CleanedUp, GoOn, Store
<1>4. /\ tmpl' \in Devices /\ cache' \in Devices /\ events' \in [Claims -> Seq(Requests \cup {0})]
      /\ ctl' \in Ctls /\ (ctl'.pc = "recreate" => ctl'.todo # {} /\ tmpl'[claim'] = 0)
  <2>1. CASE TemplateMatches
    BY <2>1, DoneType DEF TemplateMatches, AtTemplate, GoOn, Templates, Types
  <2>2. CASE CreateTemplate
    <3>1. ctl.todo # {} /\ SetTemplate(claim, ctl.job.devices[claim]) /\ ctl' = Done(TRUE)
      BY <2>2 DEF CreateTemplate, AtTemplate, GoOn, Current
    <3> QED
      BY <3>1, <1>2, ClaimType, SetTemplateType, DoneType DEF Types
  <2>3. CASE CreateLosesRace
    BY <2>3, DoneType DEF CreateLosesRace, AtTemplate, GoOn, Templates, Types
  <2>4. CASE DeleteDrifted
    <3>1. ctl.todo # {} /\ SetTemplate(claim, 0) /\ ctl' = [ctl EXCEPT !.pc = "recreate"]
      BY <2>4 DEF DeleteDrifted, AtTemplate, GoOn
    <3>2. ctl' \in Ctls /\ ctl'.todo = ctl.todo
      BY <3>1 DEF Types, Ctls, PCs
    <3>3. claim' = claim
      BY <3>2 DEF claim
    <3> QED
      BY <3>1, <3>2, <3>3, ClaimType, SetTemplateType DEF Types
  <2>5. CASE RecreateTemplate
    <3>1. ctl.todo # {} /\ SetTemplate(claim, ctl.job.devices[claim]) /\ ctl' = Done(TRUE)
      BY <2>5 DEF RecreateTemplate, GoOn, Current, Types
    <3> QED
      BY <3>1, <1>2, ClaimType, SetTemplateType, DoneType DEF Types
  <2>6. CASE cleanupOrphanedTemplates
    <3>1. Orphans \subseteq Claims
      BY DEF Orphans
    <3>2. ctl' = [ctl EXCEPT !.pc = "cleanup", !.todo = Orphans] /\ UNCHANGED <<tmpl, cache, events>>
      BY <2>6 DEF cleanupOrphanedTemplates, GoOn, Templates
    <3>3. ctl' \in Ctls /\ ctl'.pc = "cleanup"
      BY <3>1, <3>2 DEF Types, Ctls, PCs
    <3> QED
      BY <3>2, <3>3 DEF Types
  <2>7. CASE DeleteOrphan
    <3>1. ctl.todo # {} /\ SetTemplate(claim, 0) /\ ctl' = [ctl EXCEPT !.todo = @ \ {claim}] /\ ctl.pc = "cleanup"
      BY <2>7 DEF DeleteOrphan, GoOn
    <3>2. ctl' \in Ctls /\ ctl'.pc = "cleanup"
      BY <3>1 DEF Types, Ctls
    <3> QED
      BY <3>1, <3>2, ClaimType, SetTemplateType DEF Types
  <2>8. CASE CleanedUp
    BY <2>8 DEF CleanedUp, GoOn, Templates, Types, Ctls, PCs
  <2> QED
    BY <2>1, <2>2, <2>3, <2>4, <2>5, <2>6, <2>7, <2>8
<1> QED
  BY <1>3, <1>4 DEF Types

(* The user, Kueue and the end of a run change the RTJ and nothing else of this. *)
LEMMA OutsideChanges ==
  ASSUME Types, EditDevices \/ HoldOrRelease \/ RunEnds
  PROVE  /\ rtj' \in RTJs /\ rtj' # rtj /\ fresh' = FALSE /\ seen' = seen
         /\ ctl' = [ctl EXCEPT !.fresh = FALSE]
         /\ UNCHANGED <<lags, tmpl, cache, events, queued, timer>>
         /\ jobset' = jobset \/ jobset' = NoJobSet
<1>1. PICK new \in RTJs : Outside(new) /\ new # rtj
  <2>1. CASE EditDevices
    <3>1. PICK d \in Devices \ {rtj.devices} : Outside([rtj EXCEPT !.devices = d])
      BY <2>1 DEF EditDevices
    <3>2. [rtj EXCEPT !.devices = d] \in RTJs /\ [rtj EXCEPT !.devices = d].devices = d
      BY DEF Types, RTJs
    <3> QED
      BY <3>1, <3>2
  <2>2. CASE HoldOrRelease
    <3>1. Outside([rtj EXCEPT !.held = ~rtj.held]) /\ rtj.held \in BOOLEAN
      BY <2>2 DEF HoldOrRelease, Types, RTJs
    <3>2. [rtj EXCEPT !.held = ~rtj.held] \in RTJs /\ [rtj EXCEPT !.held = ~rtj.held].held # rtj.held
      BY <3>1 DEF Types, RTJs
    <3> QED
      BY <3>1, <3>2
  <2>3. CASE RunEnds
    <3>1. Outside([rtj EXCEPT !.active = FALSE]) /\ rtj.active
      BY <2>3 DEF RunEnds
    <3>2. [rtj EXCEPT !.active = FALSE] \in RTJs /\ [rtj EXCEPT !.active = FALSE].active # rtj.active
      BY <3>1 DEF Types, RTJs
    <3> QED
      BY <3>1, <3>2
  <2> QED
    BY <2>1, <2>2, <2>3
<1>2. jobset' = jobset \/ jobset' = NoJobSet
  BY DEF EditDevices, HoldOrRelease, RunEnds
<1> QED
  BY <1>1, <1>2 DEF Outside, WriteRTJ, Templates

AnyTemplateStep ==
    \/ TemplateMatches \/ CreateTemplate \/ CreateLosesRace \/ DeleteDrifted
    \/ RecreateTemplate \/ cleanupOrphanedTemplates \/ DeleteOrphan \/ CleanedUp

AnyOutside == EditDevices \/ HoldOrRelease \/ RunEnds

LEMMA NextCases ==
  ASSUME [Next]_vars
  PROVE  \/ Pass \/ AnyTemplateStep \/ StatusUnchanged \/ StatusUpdate \/ createIfMissing
         \/ markStarting \/ CallFails \/ Timer \/ Deliver \/ (\E c \in Claims : DeliverTemplate(c))
         \/ Restart \/ AnyOutside \/ UNCHANGED vars
  BY DEF Next, AnyTemplateStep, AnyOutside

LEMMA MarkedType ==
  ASSUME Types
  PROVE  /\ [ctl.job EXCEPT !.active = TRUE] \in RTJs
         /\ [ctl.job EXCEPT !.active = TRUE].devices = ctl.job.devices
         /\ [ctl.job EXCEPT !.active = TRUE].status = ctl.job.status
  BY DEF Types, Ctls, RTJs

LEMMA StepTypes == Types /\ [Next]_vars => Types'
<1> SUFFICES ASSUME Types, [Next]_vars  PROVE Types'
  OBVIOUS
<1>1. CASE Pass
  <2>1. seen \in RTJs /\ fresh \in BOOLEAN /\ Requested(seen.devices) \subseteq Claims
    BY DEF Types, Requested
  <2>2. ctl' \in Ctls /\ ctl'.pc # "recreate"
    BY <1>1, <2>1 DEF Pass, Ctls, PCs
  <2> QED
    BY <1>1, <2>2 DEF Pass, Types, Store, Templates
<1>2. CASE AnyTemplateStep
  BY <1>2, TemplateSteps DEF AnyTemplateStep
<1>3. CASE StatusUnchanged
  <2>1. ctl.job \in RTJs /\ Gate(ctl.job)
    BY <1>3 DEF StatusUnchanged, Current, Types, Ctls
  <2>2. ctl' \in Ctls /\ timer' \in BOOLEAN /\ ctl'.pc # "recreate"
    BY <2>1, GateType, IdleType
  <2> QED
    BY <1>3, <2>2 DEF StatusUnchanged, Types, Store, Templates
<1>4. CASE StatusUpdate
  <2>1. Synced \in RTJs /\ Gate(Synced) /\ WriteRTJ(Synced)
    BY <1>4, SyncedType DEF StatusUpdate
  <2>2. ctl' \in Ctls /\ timer' \in BOOLEAN /\ ctl'.pc # "recreate"
    BY <2>1, GateType, IdleType
  <2>3. rtj' \in RTJs /\ seen' = seen /\ fresh' \in BOOLEAN
    BY <2>1 DEF WriteRTJ
  <2> QED
    BY <1>4, <2>2, <2>3 DEF StatusUpdate, Types, Templates
<1>5. CASE createIfMissing
  <2>1. ctl' \in Ctls /\ ctl'.pc = "mark"
    BY <1>5 DEF createIfMissing, GoOn, Types, Ctls, PCs
  <2> QED
    BY <1>5, <2>1 DEF createIfMissing, GoOn, Types, Templates
<1>6. CASE markStarting
  <2>1. rtj' \in RTJs /\ seen' = seen /\ fresh' \in BOOLEAN
    BY <1>6, MarkedType DEF markStarting, WriteRTJ, Current
  <2> QED
    BY <1>6, <2>1, IdleType DEF markStarting, Types, Templates
<1>7. CASE CallFails
  BY <1>7, IdleType DEF CallFails, Types, Store, Templates
<1>8. CASE Timer
  <2>1. UNCHANGED <<rtj, seen, fresh, tmpl, cache, events, ctl>> /\ timer' = FALSE /\ queued' = TRUE
    BY <1>8 DEF Timer, Store, Templates
  <2> QED
    BY <2>1 DEF Types, claim
<1>9. CASE Deliver
  <2>1. UNCHANGED <<rtj, tmpl, cache, events, ctl, timer>> /\ seen' = rtj /\ fresh' = TRUE /\ queued' = TRUE
    BY <1>9 DEF Deliver, Templates
  <2> QED
    BY <2>1 DEF Types, claim
<1>10. CASE \E c \in Claims : DeliverTemplate(c)
  <2>1. PICK c \in Claims : DeliverTemplate(c)
    BY <1>10
  <2>2. Head(events[c]) \in Requests \cup {0} /\ Tail(events[c]) \in Seq(Requests \cup {0})
    <3>1. events[c] \in Seq(Requests \cup {0}) /\ events[c] # <<>>
      BY <2>1 DEF DeliverTemplate, Types
    <3> QED
      BY <3>1, HeadTailProperties
  <2>3. cache' \in Devices /\ events' \in [Claims -> Seq(Requests \cup {0})]
    BY <2>1, <2>2 DEF DeliverTemplate, Types, Devices
  <2> QED
    BY <2>1, <2>3 DEF DeliverTemplate, Types, Store, claim
<1>11. CASE Restart
  <2>1. [c \in Claims |-> <<>>] \in [Claims -> Seq(Requests \cup {0})]
    OBVIOUS
  <2> QED
    BY <1>11, <2>1, IdleType DEF Restart, Types
<1>12. CASE AnyOutside
  <2>1. ctl' = [ctl EXCEPT !.fresh = FALSE] /\ rtj' \in RTJs /\ fresh' = FALSE
        /\ UNCHANGED <<seen, tmpl, cache, events, queued, timer>>
    BY <1>12, OutsideChanges DEF AnyOutside
  <2>2. ctl' \in Ctls /\ ctl'.pc = ctl.pc /\ ctl'.todo = ctl.todo
    BY <2>1 DEF Types, Ctls
  <2> QED
    BY <2>1, <2>2 DEF Types, claim
<1>13. CASE UNCHANGED vars
  BY <1>13 DEF vars, Types, claim
<1> QED
  BY <1>1, <1>2, <1>3, <1>4, <1>5, <1>6, <1>7, <1>8, <1>9, <1>10, <1>11, <1>12, <1>13, NextCases

LEMMA TypesImplyTypeOK == Types => TypeOK
<1> SUFFICES ASSUME Types  PROVE TypeOK
  OBVIOUS
<1>1. \A j \in RTJs : j.devices \in Devices /\ j.status.refs \subseteq Claims /\ {j.held, j.active} \subseteq BOOLEAN
  BY DEF RTJs, Statuses
<1>2. {rtj, seen, ctl.job} \subseteq RTJs /\ ctl.pc \in PCs
  BY DEF Types, Ctls
<1> QED
  BY <1>1, <1>2 DEF TypeOK, Types, PCs

(* The types of all state, and that a deleted template stays deleted until it is created again. *)
THEOREM TypeCorrect == Spec => []TypeOK
<1>1. Spec => []Types
  BY InitTypes, StepTypes, PTL DEF Spec
<1> QED
  BY <1>1, TypesImplyTypeOK, PTL

-----------------------------------------------------------------------------
\* What the pass knows of the RTJ

(* A copy that is said to be up to date is; the pass that writes works on the RTJ as it is; and
   while nothing else is queued the pass is about the RTJ as it is. *)
CopyInv ==
    /\ fresh => seen = rtj
    /\ ctl.pc # "idle" /\ ctl.fresh => ctl.job = rtj
    /\ ctl.pc # "idle" /\ fresh /\ ~queued => ctl.fresh

(* Once past its status update the pass has the references of its own spec. *)
StatusInv ==
    ctl.pc \in {"launch", "mark"} /\ IsDevicesEnabled(ctl.job) =>
        ctl.job.status = DesiredDeviceStatus(ctl.job.devices)

LEMMA InitCopy == Init => CopyInv /\ StatusInv
<1> SUFFICES ASSUME Init  PROVE CopyInv /\ StatusInv
  OBVIOUS
<1>1. ctl.pc = "idle"
  BY IdleType DEF Init
<1> QED
  BY <1>1 DEF Init, CopyInv, StatusInv

(* What the steps at the templates leave alone. *)
LEMMA TemplateStepsKeep ==
  ASSUME Types, AnyTemplateStep
  PROVE  /\ UNCHANGED <<lags, rtj, seen, fresh, jobset, queued, timer>>
         /\ ctl'.job = ctl.job /\ ctl'.fresh = ctl.fresh
         /\ ctl.pc \in {"template", "recreate", "cleanup"}
         /\ ctl'.pc \in {"template", "recreate", "cleanup", "status"}
<1>1. UNCHANGED <<lags, rtj, seen, fresh, jobset, queued, timer>>
  BY DEF AnyTemplateStep, TemplateMatches, CreateTemplate, CreateLosesRace, DeleteDrifted, RecreateTemplate,
         cleanupOrphanedTemplates, DeleteOrphan, CleanedUp, GoOn, Store, Env
<1>2. ctl.pc \in {"template", "recreate", "cleanup"}
  BY DEF AnyTemplateStep, TemplateMatches, CreateTemplate, CreateLosesRace, DeleteDrifted, RecreateTemplate,
         cleanupOrphanedTemplates, DeleteOrphan, CleanedUp, AtTemplate
<1>3. /\ ctl'.job = ctl.job /\ ctl'.fresh = ctl.fresh
      /\ ctl'.pc \in {"template", "recreate", "cleanup", "status"}
  <2>0. ctl \in Ctls
    BY DEF Types
  <2>1. CASE TemplateMatches \/ CreateTemplate \/ CreateLosesRace \/ RecreateTemplate
    <3>1. ctl.todo # {} /\ (ctl' = Done(TRUE) \/ ctl' = Done(FALSE))
      BY <2>1 DEF TemplateMatches, CreateTemplate, CreateLosesRace, RecreateTemplate, GoOn, AtTemplate, Types
    <3> QED
      BY <3>1, DoneType
  <2>2. CASE DeleteDrifted
    BY <2>0, <2>2 DEF DeleteDrifted, GoOn, Ctls
  <2>3. CASE cleanupOrphanedTemplates
    BY <2>0, <2>3 DEF cleanupOrphanedTemplates, GoOn, Ctls
  <2>4. CASE DeleteOrphan
    BY <2>0, <2>4 DEF DeleteOrphan, GoOn, Ctls
  <2>5. CASE CleanedUp
    BY <2>0, <2>5 DEF CleanedUp, GoOn, Ctls
  <2> QED
    BY <2>1, <2>2, <2>3, <2>4, <2>5 DEF AnyTemplateStep
<1> QED
  BY <1>1, <1>2, <1>3

LEMMA StepCopy == Types /\ CopyInv /\ StatusInv /\ [Next]_vars => CopyInv' /\ StatusInv'
<1> SUFFICES ASSUME Types, CopyInv, StatusInv, [Next]_vars  PROVE CopyInv' /\ StatusInv'
  OBVIOUS
<1>0. ctl \in Ctls /\ {fresh, queued} \subseteq BOOLEAN
  BY DEF Types
<1>1. CASE Pass
  BY <1>0, <1>1 DEF Pass, CopyInv, StatusInv, Store
<1>2. CASE AnyTemplateStep
  BY <1>2, TemplateStepsKeep DEF CopyInv, StatusInv
<1>3. CASE StatusUnchanged
  <2>1. /\ ctl' = Idle \/ (ctl'.pc = "launch" /\ ctl'.job = ctl.job /\ ctl'.fresh = ctl.fresh)
        /\ UNCHANGED <<rtj, seen, fresh, queued>> /\ ctl.pc = "status" /\ Synced = ctl.job
    BY <1>0, <1>3, GateType DEF StatusUnchanged, Current, Store, Ctls
  <2>2. IsDevicesEnabled(ctl.job) => ctl.job.status = DesiredDeviceStatus(ctl.job.devices)
    BY <2>1, SyncedType
  <2> QED
    BY <2>1, <2>2, IdleType DEF CopyInv, StatusInv
<1>4. CASE StatusUpdate
  <2>1. /\ ctl' = Idle \/ (ctl'.pc = "launch" /\ ctl'.job = Synced /\ ctl'.fresh = ctl.fresh)
        /\ UNCHANGED <<seen, queued>> /\ ctl.pc = "status" /\ Synced # ctl.job /\ ctl.fresh
        /\ rtj' = Synced /\ fresh' = (fresh /\ Synced = rtj)
    BY <1>4, GateType, SyncedType DEF StatusUpdate, Current, WriteRTJ
  <2>2. IsDevicesEnabled(Synced) => Synced.status = DesiredDeviceStatus(Synced.devices)
    BY SyncedType DEF IsDevicesEnabled
  <2>3. fresh' = FALSE
    BY <2>1 DEF CopyInv
  <2> QED
    BY <2>1, <2>2, <2>3, IdleType DEF CopyInv, StatusInv
<1>5. CASE createIfMissing
  <2>1. ctl'.pc = "mark" /\ ctl'.job = ctl.job /\ ctl'.fresh = ctl.fresh /\ ctl.pc = "launch"
        /\ UNCHANGED <<rtj, seen, fresh, queued>>
    BY <1>0, <1>5 DEF createIfMissing, GoOn, Ctls
  <2> QED
    BY <2>1 DEF CopyInv, StatusInv
<1>6. CASE markStarting
  <2>1. ctl'.pc = "idle" /\ (fresh' => fresh /\ rtj' = rtj /\ seen' = seen)
    BY <1>6, IdleType DEF markStarting, WriteRTJ
  <2> QED
    BY <2>1 DEF CopyInv, StatusInv
<1>7. CASE CallFails
  <2>1. ctl'.pc = "idle" /\ UNCHANGED <<rtj, seen, fresh>>
    BY <1>7, IdleType DEF CallFails, Store
  <2> QED
    BY <2>1 DEF CopyInv, StatusInv
<1>8. CASE Timer
  BY <1>8 DEF Timer, CopyInv, StatusInv, Store
<1>9. CASE Deliver
  <2>1. UNCHANGED <<rtj, ctl>> /\ seen' = rtj /\ queued' = TRUE
    BY <1>9 DEF Deliver
  <2> QED
    BY <2>1 DEF CopyInv, StatusInv
<1>10. CASE \E c \in Claims : DeliverTemplate(c)
  BY <1>10 DEF DeliverTemplate, CopyInv, StatusInv, Store
<1>11. CASE Restart
  <2>1. ctl'.pc = "idle" /\ rtj' = rtj /\ seen' = rtj
    BY <1>11, IdleType DEF Restart
  <2> QED
    BY <2>1 DEF CopyInv, StatusInv
<1>12. CASE AnyOutside
  <2>1. ctl' = [ctl EXCEPT !.fresh = FALSE] /\ fresh' = FALSE
    BY <1>12, OutsideChanges DEF AnyOutside
  <2>2. ctl'.fresh = FALSE /\ ctl'.pc = ctl.pc /\ ctl'.job = ctl.job
    BY <1>0, <2>1 DEF Ctls
  <2> QED
    BY <2>1, <2>2 DEF CopyInv, StatusInv
<1>13. CASE UNCHANGED vars
  BY <1>13 DEF vars, CopyInv, StatusInv
<1> QED
  BY <1>1, <1>2, <1>3, <1>4, <1>5, <1>6, <1>7, <1>8, <1>9, <1>10, <1>11, <1>12, <1>13, NextCases

-----------------------------------------------------------------------------
\* What the cache knows of the templates

(* The cache and the events it has not heard of end in the template as it is. *)
EventsInv ==
    \A c \in Claims :
        IF events[c] = <<>> THEN cache[c] = tmpl[c] ELSE events[c][Len(events[c])] = tmpl[c]

LEMMA LastOfTail ==
  ASSUME NEW S, NEW s \in Seq(S), s # <<>>
  PROVE  IF Tail(s) = <<>> THEN Head(s) = s[Len(s)] ELSE Tail(s)[Len(Tail(s))] = s[Len(s)]
<1>1. /\ Tail(s) \in Seq(S) /\ Len(Tail(s)) = Len(s) - 1 /\ Len(s) \in Nat /\ Len(s) # 0
      /\ \A i \in 1 .. Len(Tail(s)) : Tail(s)[i] = s[i + 1]
  BY HeadTailProperties, EmptySeq, LenProperties
<1>2. CASE Tail(s) = <<>>
  <2>1. Len(Tail(s)) = 0
    BY <1>1, <1>2, EmptySeq, Zenon
  <2>2. 0 = Len(s) - 1
    BY <1>1, <2>1, Zenon
  <2>3. \A n \in Nat : 0 = n - 1 => n = 1
    OBVIOUS
  <2>4. Len(s) = 1
    BY <1>1, <2>2, <2>3, Zenon
  <2> QED
    BY <1>2, <2>4
<1>3. CASE Tail(s) # <<>>
  <2>1. Len(Tail(s)) \in Nat /\ Len(Tail(s)) # 0
    BY <1>1, <1>3, EmptySeq, LenProperties
  <2>2. Len(Tail(s)) \in 1 .. Len(Tail(s)) /\ Len(Tail(s)) + 1 = Len(s)
    BY <1>1, <2>1
  <2> QED
    BY <1>1, <1>3, <2>2
<1> QED
  BY <1>2, <1>3

LEMMA SetTemplateEvents ==
  ASSUME Types, EventsInv, NEW c \in Claims, NEW r \in Requests \cup {0}, SetTemplate(c, r)
  PROVE  EventsInv'
<1>1. tmpl' = [tmpl EXCEPT ![c] = r] /\ cache' = cache
  BY DEF SetTemplate
<1>2. ASSUME NEW e \in Claims \ {c}
      PROVE  tmpl'[e] = tmpl[e] /\ events'[e] = events[e]
  BY SetTemplateType
<1>3. IF events'[c] = <<>> THEN cache'[c] = tmpl'[c] ELSE events'[c][Len(events'[c])] = tmpl'[c]
  <2>1. CASE tmpl[c] = r
    BY <1>1, <2>1 DEF EventsInv, SetTemplate, Types, Devices
  <2>2. CASE tmpl[c] # r
    <3>1. events'[c] = Append(events[c], r) /\ events[c] \in Seq(Requests \cup {0})
      BY <2>2 DEF SetTemplate, Types
    <3>2. events'[c] # <<>> /\ events'[c][Len(events'[c])] = r
      BY <3>1, AppendProperties
    <3> QED
      BY <3>2, SetTemplateType
  <2> QED
    BY <2>1, <2>2
<1> QED
  BY <1>1, <1>2, <1>3 DEF EventsInv

(* Which templates a step changes. *)
LEMMA TemplateChange ==
  ASSUME Types, AnyTemplateStep
  PROVE  \/ UNCHANGED <<tmpl, cache, events>>
         \/ \E c \in Claims, r \in Requests \cup {0} : SetTemplate(c, r)
<1>1. ctl.job.devices \in Devices
  BY DEF Types, Ctls, RTJs
<1>2. ASSUME ctl.todo # {}
      PROVE  claim \in Claims /\ ctl.job.devices[claim] \in Requests \cup {0}
  BY <1>1, <1>2, ClaimType DEF Devices
<1>3. CASE TemplateMatches \/ CreateLosesRace \/ cleanupOrphanedTemplates \/ CleanedUp
  BY <1>3 DEF TemplateMatches, CreateLosesRace, cleanupOrphanedTemplates, CleanedUp, Templates
<1>4. CASE CreateTemplate \/ RecreateTemplate
  <2>1. ctl.todo # {} /\ SetTemplate(claim, ctl.job.devices[claim])
    BY <1>4 DEF CreateTemplate, RecreateTemplate, AtTemplate, Current, Types
  <2> QED
    BY <1>2, <2>1
<1>5. CASE DeleteDrifted \/ DeleteOrphan
  <2>1. ctl.todo # {} /\ SetTemplate(claim, 0)
    BY <1>5 DEF DeleteDrifted, DeleteOrphan, AtTemplate
  <2> QED
    BY <1>2, <2>1
<1> QED
  BY <1>3, <1>4, <1>5 DEF AnyTemplateStep

LEMMA InitEvents == Init => EventsInv
  BY DEF Init, EventsInv

LEMMA StepEvents == Types /\ EventsInv /\ [Next]_vars => EventsInv'
<1> SUFFICES ASSUME Types, EventsInv, [Next]_vars  PROVE EventsInv'
  OBVIOUS
<1>1. CASE UNCHANGED <<tmpl, cache, events>>
  BY <1>1 DEF EventsInv
<1>2. CASE AnyTemplateStep
  BY <1>1, <1>2, TemplateChange, SetTemplateEvents
<1>3. CASE \E c \in Claims : DeliverTemplate(c)
  <2>1. PICK c \in Claims : DeliverTemplate(c)
    BY <1>3
  <2>2. events[c] \in Seq(Requests \cup {0}) /\ events[c] # <<>> /\ tmpl' = tmpl
    BY <2>1 DEF DeliverTemplate, Types
  <2>3. /\ events'[c] = Tail(events[c]) /\ cache'[c] = Head(events[c])
        /\ \A e \in Claims \ {c} : events'[e] = events[e] /\ cache'[e] = cache[e]
    BY <2>1 DEF DeliverTemplate, Types, Devices
  <2>4. IF Tail(events[c]) = <<>> THEN Head(events[c]) = events[c][Len(events[c])]
        ELSE Tail(events[c])[Len(Tail(events[c]))] = events[c][Len(events[c])]
    BY <2>2, LastOfTail
  <2> QED
    BY <2>2, <2>3, <2>4 DEF EventsInv
<1>4. CASE Restart
  BY <1>4 DEF Restart, EventsInv
<1>5. CASE AnyOutside
  BY <1>1, <1>5, OutsideChanges DEF AnyOutside
<1>6. CASE Pass \/ StatusUnchanged \/ StatusUpdate \/ createIfMissing \/ markStarting \/ CallFails
           \/ Timer \/ Deliver \/ UNCHANGED vars
  BY <1>1, <1>6 DEF Pass, StatusUnchanged, StatusUpdate, createIfMissing, markStarting, CallFails, Timer,
                    Deliver, vars, Templates
<1> QED
  BY <1>2, <1>3, <1>4, <1>5, <1>6, NextCases

-----------------------------------------------------------------------------
\* What a pass with a cache that had heard of everything has done so far

(* Claims the pass is through with have the template of its spec; about the others, and about
   templates nobody asks for, the cache has heard everything. *)
AtTemplatesInv ==
    ctl.pc \in {"template", "recreate"} =>
        /\ ctl.todo \subseteq Requested(ctl.job.devices)
        /\ \A c \in Requested(ctl.job.devices) \ ctl.todo : tmpl[c] = ctl.job.devices[c]
        /\ \A c \in Claims :
            c \in ctl.todo \/ c \notin Requested(ctl.job.devices) =>
                events[c] = <<>> \/ (ctl.pc = "recreate" /\ c = claim)

AtCleanupInv ==
    ctl.pc = "cleanup" =>
        \A c \in Claims :
            IF c \in Requested(ctl.job.devices)
            THEN c \notin ctl.todo /\ tmpl[c] = ctl.job.devices[c]
            ELSE c \in ctl.todo \/ tmpl[c] = 0

PastTemplatesInv ==
    ctl.pc \in {"status", "launch", "mark"} /\ IsDevicesEnabled(ctl.job) => tmpl = ctl.job.devices

WorkInv == ~lags => AtTemplatesInv /\ AtCleanupInv /\ PastTemplatesInv

LEMMA InitWork == Init => WorkInv
<1> SUFFICES ASSUME Init  PROVE WorkInv
  OBVIOUS
<1>1. ctl.pc = "idle"
  BY IdleType DEF Init
<1> QED
  BY <1>1 DEF WorkInv, AtTemplatesInv, AtCleanupInv, PastTemplatesInv

LEMMA SameDevices ==
  ASSUME NEW d \in Devices, NEW e \in Devices, \A c \in Claims : d[c] = e[c]
  PROVE  d = e
<1>1. d = [c \in Claims |-> d[c]] /\ e = [c \in Claims |-> e[c]]
  BY DEF Devices
<1>2. [c \in Claims |-> d[c]] = [c \in Claims |-> e[c]]
  BY Zenon
<1> QED
  BY <1>1, <1>2, Zenon

LEMMA RequestedOf ==
  ASSUME NEW d \in Devices, NEW c \in Claims
  PROVE  c \in Requested(d) <=> d[c] # 0
  BY DEF Requested

(* The claim at hand is done with. *)
LEMMA DoneWork ==
  ASSUME Types, Types', WorkInv, ~lags, ~lags', NEW ready \in BOOLEAN,
         ctl.pc \in {"template", "recreate"}, ctl.todo # {}, ctl' = Done(ready),
         tmpl'[claim] = ctl.job.devices[claim],
         \A c \in Claims \ {claim} : tmpl'[c] = tmpl[c] /\ events'[c] = events[c]
  PROVE  WorkInv'
<1>1. ctl'.pc = "template" /\ ctl'.job = ctl.job /\ ctl'.todo = ctl.todo \ {claim}
  BY DoneType
<1>2. claim \in ctl.todo /\ claim \in Claims /\ claim \in Requested(ctl.job.devices)
  BY ClaimType DEF WorkInv, AtTemplatesInv
<1>3. Requested(ctl.job.devices) \subseteq Claims
  BY DEF Requested
<1>4. AtTemplatesInv'
  <2>1. ctl'.todo \subseteq Requested(ctl'.job.devices)
    BY <1>1 DEF WorkInv, AtTemplatesInv
  <2>2. ASSUME NEW c \in Requested(ctl'.job.devices) \ ctl'.todo
        PROVE  tmpl'[c] = ctl'.job.devices[c]
    BY <1>1, <1>3 DEF WorkInv, AtTemplatesInv
  <2>3. ASSUME NEW c \in Claims, c \in ctl'.todo \/ c \notin Requested(ctl'.job.devices)
        PROVE  events'[c] = <<>>
    BY <1>1, <1>2, <2>3 DEF WorkInv, AtTemplatesInv
  <2> QED
    BY <2>1, <2>2, <2>3 DEF AtTemplatesInv
<1> QED
  BY <1>1, <1>4 DEF WorkInv, AtCleanupInv, PastTemplatesInv

LEMMA TemplateStepsWork ==
  ASSUME Types, Types', EventsInv, WorkInv, ~lags, ~lags', AnyTemplateStep
  PROVE  WorkInv'
<1>0. ctl \in Ctls /\ ctl.job.devices \in Devices /\ tmpl \in Devices /\ cache \in Devices
  BY DEF Types, Ctls, RTJs
<1>1. CASE TemplateMatches
  <2>1. /\ ctl.pc = "template" /\ ctl.todo # {} /\ ctl' = Done(TRUE)
        /\ cache[claim] = ctl.job.devices[claim] /\ UNCHANGED <<tmpl, cache, events>>
    BY <1>1 DEF TemplateMatches, AtTemplate, TemplateSpecMatches, Current, GoOn, Templates
  <2>2. claim \in Claims /\ events[claim] = <<>>
    BY <2>1, ClaimType DEF WorkInv, AtTemplatesInv
  <2>3. tmpl[claim] = ctl.job.devices[claim]
    BY <2>1, <2>2 DEF EventsInv
  <2> QED
    BY <2>1, <2>3, DoneWork
<1>2. CASE CreateTemplate \/ RecreateTemplate
  <2>1. /\ ctl.pc \in {"template", "recreate"} /\ ctl.todo # {} /\ ctl' = Done(TRUE)
        /\ SetTemplate(claim, ctl.job.devices[claim])
    BY <1>2 DEF CreateTemplate, RecreateTemplate, AtTemplate, Current, GoOn, Types
  <2>2. claim \in Claims /\ ctl.job.devices[claim] \in Requests \cup {0}
    BY <1>0, <2>1, ClaimType DEF Devices
  <2>3. /\ tmpl'[claim] = ctl.job.devices[claim]
        /\ \A c \in Claims \ {claim} : tmpl'[c] = tmpl[c] /\ events'[c] = events[c]
    BY <2>1, <2>2, SetTemplateType
  <2> QED
    BY <2>1, <2>3, DoneWork
<1>3. CASE CreateLosesRace
  <2>1. ctl.pc = "template" /\ ctl.todo # {} /\ cache[claim] = 0 /\ tmpl[claim] # 0
    BY <1>3 DEF CreateLosesRace, AtTemplate
  <2>2. claim \in Claims /\ events[claim] = <<>>
    BY <2>1, ClaimType DEF WorkInv, AtTemplatesInv
  <2> QED
    BY <2>1, <2>2 DEF EventsInv
<1>4. CASE DeleteDrifted
  <2>1. /\ ctl.pc = "template" /\ ctl.todo # {} /\ ctl' = [ctl EXCEPT !.pc = "recreate"]
        /\ SetTemplate(claim, 0)
    BY <1>4 DEF DeleteDrifted, AtTemplate, GoOn
  <2>2. ctl'.pc = "recreate" /\ ctl'.job = ctl.job /\ ctl'.todo = ctl.todo
    BY <1>0, <2>1 DEF Ctls
  <2>3. claim' = claim /\ claim \in ctl.todo /\ claim \in Claims
    BY <2>1, <2>2, ClaimType DEF claim
  <2>4. \A c \in Claims \ {claim} : tmpl'[c] = tmpl[c] /\ events'[c] = events[c]
    BY <2>1, <2>3, SetTemplateType
  <2>5. Requested(ctl.job.devices) \subseteq Claims
    BY DEF Requested
  <2>6. AtTemplatesInv'
    BY <2>1, <2>2, <2>3, <2>4, <2>5 DEF WorkInv, AtTemplatesInv
  <2> QED
    BY <2>2, <2>6 DEF WorkInv, AtCleanupInv, PastTemplatesInv
<1>5. CASE cleanupOrphanedTemplates
  <2>1. /\ ctl.pc = "template" /\ ctl.todo = {} /\ UNCHANGED <<tmpl, cache, events>>
        /\ ctl' = [ctl EXCEPT !.pc = "cleanup", !.todo = Orphans]
    BY <1>5 DEF cleanupOrphanedTemplates, GoOn, Templates
  <2>2. ctl'.pc = "cleanup" /\ ctl'.job = ctl.job /\ ctl'.todo = Orphans
    BY <1>0, <2>1 DEF Ctls
  <2>3. ASSUME NEW c \in Claims, c \in Requested(ctl.job.devices)
        PROVE  c \notin Orphans /\ tmpl[c] = ctl.job.devices[c]
    BY <2>1, <2>3 DEF WorkInv, AtTemplatesInv, Orphans, Current
  <2>4. ASSUME NEW c \in Claims, c \notin Requested(ctl.job.devices)
        PROVE  c \in Orphans \/ tmpl[c] = 0
    <3>1. cache[c] = tmpl[c]
      BY <2>1, <2>4 DEF WorkInv, AtTemplatesInv, EventsInv
    <3> QED
      BY <2>4, <3>1 DEF Orphans, Current
  <2>5. AtCleanupInv'
    BY <2>1, <2>2, <2>3, <2>4 DEF AtCleanupInv
  <2> QED
    BY <2>2, <2>5 DEF WorkInv, AtTemplatesInv, PastTemplatesInv
<1>6. CASE DeleteOrphan
  <2>1. /\ ctl.pc = "cleanup" /\ ctl.todo # {} /\ ctl' = [ctl EXCEPT !.todo = @ \ {claim}]
        /\ SetTemplate(claim, 0)
    BY <1>6 DEF DeleteOrphan, GoOn
  <2>2. ctl'.pc = "cleanup" /\ ctl'.job = ctl.job /\ ctl'.todo = ctl.todo \ {claim}
    BY <1>0, <2>1 DEF Ctls
  <2>3. claim \in ctl.todo /\ claim \in Claims
    BY <2>1, ClaimType
  <2>4. tmpl'[claim] = 0 /\ \A c \in Claims \ {claim} : tmpl'[c] = tmpl[c]
    BY <2>1, <2>3, SetTemplateType
  <2>5. AtCleanupInv'
    BY <2>1, <2>2, <2>3, <2>4 DEF WorkInv, AtCleanupInv
  <2> QED
    BY <2>2, <2>5 DEF WorkInv, AtTemplatesInv, PastTemplatesInv
<1>7. CASE CleanedUp
  <2>1. ctl.pc = "cleanup" /\ ctl.todo = {} /\ tmpl' = tmpl /\ ctl' = [ctl EXCEPT !.pc = "status"]
    BY <1>7 DEF CleanedUp, GoOn, Templates
  <2>2. ctl'.pc = "status" /\ ctl'.job = ctl.job
    BY <1>0, <2>1 DEF Ctls
  <2>3. ASSUME NEW c \in Claims  PROVE tmpl[c] = ctl.job.devices[c]
    BY <1>0, <2>1, RequestedOf DEF WorkInv, AtCleanupInv
  <2>4. tmpl = ctl.job.devices
    BY <1>0, <2>3, SameDevices
  <2> QED
    BY <2>1, <2>2, <2>4 DEF WorkInv, AtTemplatesInv, AtCleanupInv, PastTemplatesInv
<1> QED
  BY <1>1, <1>2, <1>3, <1>4, <1>5, <1>6, <1>7 DEF AnyTemplateStep

LEMMA LagsFixed == [Next]_vars => lags' = lags
<1> SUFFICES ASSUME [Next]_vars  PROVE lags' = lags
  OBVIOUS
<1>1. CASE AnyTemplateStep
  BY <1>1 DEF AnyTemplateStep, TemplateMatches, CreateTemplate, CreateLosesRace, DeleteDrifted,
              RecreateTemplate, cleanupOrphanedTemplates, DeleteOrphan, CleanedUp, Env
<1>2. CASE AnyOutside
  BY <1>2 DEF AnyOutside, EditDevices, HoldOrRelease, RunEnds, Outside
<1>3. CASE ~AnyTemplateStep /\ ~AnyOutside
  BY <1>3, NextCases DEF Pass, StatusUnchanged, StatusUpdate, createIfMissing, markStarting, CallFails,
              Timer, Deliver, DeliverTemplate, Restart, vars, Env
<1> QED
  BY <1>1, <1>2, <1>3

LEMMA StepWork == Types /\ EventsInv /\ WorkInv /\ [Next]_vars => WorkInv'
<1> SUFFICES ASSUME Types, EventsInv, WorkInv, [Next]_vars, ~lags'  PROVE WorkInv'
  BY DEF WorkInv
<1>0. Types' /\ ~lags /\ ctl \in Ctls
  BY StepTypes, LagsFixed DEF Types
<1>i. ASSUME ctl'.pc = "idle"  PROVE WorkInv'
  BY <1>i DEF WorkInv, AtTemplatesInv, AtCleanupInv, PastTemplatesInv
<1>1. CASE Pass
  <2>1. /\ ctl'.pc = (IF IsDevicesEnabled(seen) THEN "template" ELSE "status")
        /\ ctl'.job = seen /\ ctl'.todo = Requested(seen.devices) /\ UNCHANGED <<tmpl, cache, events>>
    BY <1>1 DEF Pass, Templates
  <2>2. \A c \in Claims : events[c] = <<>>
    BY <1>0, <1>1, EmptySeq DEF Pass, Types
  <2>3. AtTemplatesInv'
    BY <2>1, <2>2 DEF AtTemplatesInv
  <2> QED
    BY <2>1, <2>3 DEF WorkInv, AtCleanupInv, PastTemplatesInv
<1>2. CASE AnyTemplateStep
  BY <1>0, <1>2, TemplateStepsWork
<1>3. CASE StatusUnchanged
  <2>1. /\ ctl' = Idle \/ (ctl'.pc = "launch" /\ ctl'.job = ctl.job)
        /\ tmpl' = tmpl /\ ctl.pc = "status"
    BY <1>0, <1>3, GateType DEF StatusUnchanged, Current, Templates, Ctls
  <2> QED
    BY <1>0, <1>i, <2>1, IdleType DEF WorkInv, AtTemplatesInv, AtCleanupInv, PastTemplatesInv
<1>4. CASE StatusUpdate
  <2>1. /\ ctl' = Idle \/ (ctl'.pc = "launch" /\ ctl'.job = Synced)
        /\ tmpl' = tmpl /\ ctl.pc = "status"
    BY <1>4, GateType, SyncedType DEF StatusUpdate, Templates
  <2>2. Synced.devices = ctl.job.devices /\ (IsDevicesEnabled(Synced) <=> IsDevicesEnabled(ctl.job))
    BY SyncedType DEF IsDevicesEnabled
  <2> QED
    BY <1>0, <1>i, <2>1, <2>2, IdleType DEF WorkInv, AtTemplatesInv, AtCleanupInv, PastTemplatesInv
<1>5. CASE createIfMissing
  <2>1. ctl'.pc = "mark" /\ ctl'.job = ctl.job /\ ctl.pc = "launch" /\ tmpl' = tmpl
    BY <1>0, <1>5 DEF createIfMissing, GoOn, Ctls, Templates
  <2> QED
    BY <1>0, <2>1 DEF WorkInv, AtTemplatesInv, AtCleanupInv, PastTemplatesInv
<1>6. CASE markStarting \/ CallFails \/ Restart
  BY <1>6, <1>i, IdleType DEF markStarting, CallFails, Restart
<1>7. CASE Timer \/ Deliver \/ UNCHANGED vars
  <2>1. UNCHANGED <<ctl, tmpl, events>>
    BY <1>7 DEF Timer, Deliver, vars, Templates
  <2> QED
    BY <1>0, <2>1 DEF WorkInv, AtTemplatesInv, AtCleanupInv, PastTemplatesInv, claim
<1>8. CASE \E c \in Claims : DeliverTemplate(c)
  <2>1. PICK c \in Claims : DeliverTemplate(c)
    BY <1>8
  <2>2. UNCHANGED <<ctl, tmpl>> /\ events[c] # <<>> /\ \A e \in Claims \ {c} : events'[e] = events[e]
    BY <2>1 DEF DeliverTemplate, Types
  <2>3. claim' = claim
    BY <2>2 DEF claim
  <2>4. AtTemplatesInv'
    BY <1>0, <2>2, <2>3 DEF WorkInv, AtTemplatesInv
  <2> QED
    BY <1>0, <2>2, <2>4 DEF WorkInv, AtCleanupInv, PastTemplatesInv
<1>9. CASE AnyOutside
  <2>1. ctl' = [ctl EXCEPT !.fresh = FALSE] /\ UNCHANGED <<tmpl, events>>
    BY <1>9, OutsideChanges DEF AnyOutside
  <2>2. ctl'.pc = ctl.pc /\ ctl'.job = ctl.job /\ ctl'.todo = ctl.todo
    BY <1>0, <2>1 DEF Ctls
  <2>3. claim' = claim
    BY <2>2 DEF claim
  <2> QED
    BY <1>0, <2>1, <2>2, <2>3 DEF WorkInv, AtTemplatesInv, AtCleanupInv, PastTemplatesInv
<1> QED
  BY <1>1, <1>2, <1>3, <1>4, <1>5, <1>6, <1>7, <1>8, <1>9, NextCases

-----------------------------------------------------------------------------
\* Nothing left to do, and launches

SettledInv ==
    ctl.pc = "idle" /\ ~queued /\ fresh /\ ~lags /\ IsDevicesEnabled(rtj) =>
        tmpl = rtj.devices /\ rtj.status = DesiredDeviceStatus(rtj.devices)

IInv == Types /\ CopyInv /\ StatusInv /\ EventsInv /\ WorkInv /\ SettledInv

LEMMA StepSettled == IInv /\ [Next]_vars => SettledInv'
<1> SUFFICES ASSUME IInv, [Next]_vars,
                    ctl'.pc = "idle", ~queued', fresh', ~lags', IsDevicesEnabled(rtj')
             PROVE  tmpl' = rtj'.devices /\ rtj'.status = DesiredDeviceStatus(rtj'.devices)
  BY DEF SettledInv
<1>0. Types /\ CopyInv /\ StatusInv /\ WorkInv /\ SettledInv /\ ctl \in Ctls /\ ~lags
  BY LagsFixed DEF IInv, Types
<1>1. CASE Pass \/ createIfMissing
  <2>1. CASE Pass
    <3>1. ctl'.pc = IF IsDevicesEnabled(seen) THEN "template" ELSE "status"
      BY <2>1 DEF Pass
    <3> QED
      BY <3>1
  <2>2. CASE createIfMissing
    <3>1. ctl'.pc = "mark"
      BY <1>0, <2>2 DEF createIfMissing, GoOn, Ctls
    <3> QED
      BY <3>1
  <2> QED
    BY <1>1, <2>1, <2>2
<1>2. CASE AnyTemplateStep
  BY <1>0, <1>2, TemplateStepsKeep
<1>3. CASE StatusUnchanged
  <2>1. UNCHANGED <<rtj, fresh, queued, tmpl>> /\ ctl.pc = "status" /\ Synced = ctl.job
    BY <1>3 DEF StatusUnchanged, Current, Store, Templates
  <2>2. rtj = ctl.job
    BY <1>0, <2>1 DEF CopyInv
  <2> QED
    BY <1>0, <2>1, <2>2, SyncedType DEF WorkInv, PastTemplatesInv
<1>4. CASE StatusUpdate
  <2>1. ctl.pc = "status" /\ Synced # ctl.job /\ ctl.fresh /\ fresh' = (fresh /\ Synced = rtj)
    BY <1>4 DEF StatusUpdate, WriteRTJ, Current
  <2> QED
    BY <1>0, <2>1 DEF CopyInv
<1>5. CASE markStarting
  <2>1. /\ rtj' = [ctl.job EXCEPT !.active = TRUE] /\ tmpl' = tmpl /\ ctl.pc = "mark"
    BY <1>5 DEF markStarting, WriteRTJ, Current, Templates
  <2>2. rtj'.devices = ctl.job.devices /\ rtj'.status = ctl.job.status
    BY <1>0, <2>1, MarkedType
  <2>3. IsDevicesEnabled(ctl.job)
    BY <2>2 DEF IsDevicesEnabled
  <2> QED
    BY <1>0, <2>1, <2>2, <2>3 DEF WorkInv, PastTemplatesInv, StatusInv
<1>6. CASE CallFails \/ Timer \/ Deliver \/ Restart
  <2>1. queued' = TRUE
    BY <1>6 DEF CallFails, Timer, Deliver, Restart
  <2> QED
    BY <2>1
<1>7. CASE (\E c \in Claims : DeliverTemplate(c)) \/ UNCHANGED vars
  <2>1. UNCHANGED <<rtj, fresh, queued, tmpl, ctl>>
    BY <1>7 DEF DeliverTemplate, Store, vars
  <2> QED
    BY <1>0, <2>1 DEF SettledInv
<1>8. CASE AnyOutside
  <2>1. fresh' = FALSE
    BY <1>0, <1>8, OutsideChanges DEF AnyOutside
  <2> QED
    BY <2>1
<1> QED
  BY <1>1, <1>2, <1>3, <1>4, <1>5, <1>6, <1>7, <1>8, NextCases

LEMMA Inductive == Spec => []IInv
<1>1. Init => IInv
  BY InitTypes, InitCopy, InitEvents, InitWork DEF IInv, SettledInv, Init
<1>2. IInv /\ [Next]_vars => IInv'
  BY StepTypes, StepCopy, StepEvents, StepWork, StepSettled DEF IInv
<1> QED
  BY <1>1, <1>2, PTL DEF Spec

(* Whatever calls failed and whatever was edited while a pass was under way, once nothing is left to
   do the templates and status.devices are those of the spec (dra_templates.go, device_status.go),
   if the template cache keeps up. *)
THEOREM TemplatesInTheEnd == Spec => []TemplatesSettle
<1>1. IInv => TemplatesSettle
  BY DEF IInv, SettledInv, TemplatesSettle, Settled
<1> QED
  BY <1>1, Inductive, PTL

(* A JobSet is created with exactly the claims that the spec the pass works with asks for, attached to
   the containers that the pod sets of that spec attach them to, although the references come from the
   status; with a template cache that keeps up, also on templates with the requests of that spec. *)
THEOREM LaunchesWithDevices == Spec => LaunchHasItsDevices
<1> DEFINE A == ~jobset.exists /\ jobset'.exists =>
                  /\ jobset'.attached = injectDRAIntoPodSets(Current)
                  /\ ~lags => \A c \in Requested(Current.devices) : tmpl[c] = Current.devices[c]
<1>1. IInv /\ [Next]_vars => A
  <2> SUFFICES ASSUME IInv, [Next]_vars, ~jobset.exists, jobset'.exists
               PROVE  /\ jobset'.attached = injectDRAIntoPodSets(Current)
                      /\ ~lags => \A c \in Requested(Current.devices) : tmpl[c] = Current.devices[c]
    OBVIOUS
  <2>0. Types /\ StatusInv /\ WorkInv /\ ctl.job.devices \in Devices
    BY DEF IInv, Types, Ctls, RTJs
  <2>1. createIfMissing
    <3>1. jobset' # jobset /\ jobset' # NoJobSet
      BY DEF NoJobSet
    <3>2. ~AnyTemplateStep
      BY <2>0, <3>1, TemplateStepsKeep
    <3>3. ~AnyOutside
      BY <2>0, <3>1, OutsideChanges DEF AnyOutside
    <3> QED
      BY <3>1, <3>2, <3>3, NextCases DEF Pass, StatusUnchanged, StatusUpdate, markStarting, CallFails,
           Timer, Deliver, DeliverTemplate, Restart, vars, Store
  <2>2. ctl.pc = "launch" /\ jobset'.attached = InjectDRAClaims(BuildDRAClaimInjections(ctl.job))
    BY <2>1 DEF createIfMissing, Current
  <2>3. BuildDRAClaimInjections(ctl.job) = Requested(ctl.job.devices)
    <3>1. CASE IsDevicesEnabled(ctl.job)
      <4>1. ctl.job.status.refs = Requested(ctl.job.devices)
        BY <2>0, <2>2, <3>1, DesiredType DEF StatusInv
      <4> QED
        BY <3>1, <4>1 DEF BuildDRAClaimInjections
    <3>2. CASE ~IsDevicesEnabled(ctl.job)
      BY <3>2 DEF BuildDRAClaimInjections, IsDevicesEnabled
    <3> QED
      BY <3>1, <3>2
  <2>4. jobset'.attached = injectDRAIntoPodSets(Current)
    BY <2>2, <2>3, Zenon DEF InjectDRAClaims, injectDRAIntoPodSets, Current
  <2>5. ASSUME ~lags, NEW c \in Requested(ctl.job.devices)  PROVE tmpl[c] = ctl.job.devices[c]
    <3>1. IsDevicesEnabled(ctl.job)
      BY DEF IsDevicesEnabled
    <3> QED
      BY <2>0, <2>2, <2>5, <3>1 DEF WorkInv, PastTemplatesInv
  <2> QED
    BY <2>4, <2>5 DEF Current
<1>2. IInv /\ [Next]_vars => [A]_vars
  BY <1>1
<1> QED
  BY <1>2, Inductive, PTL DEF Spec, LaunchHasItsDevices
=============================================================================
