---------------------------- MODULE DeviceClaims -----------------------------
(***************************************************************************)
(* The ResourceClaimTemplates of an RTJ with spec.devices.  Every pass of  *)
(* the reconciler first brings the templates in line with the spec, one    *)
(* API call at a time (dra_templates.go), then records profile and         *)
(* references in status.devices, and launches only if all templates were   *)
(* found or made right; the JobSet it creates refers to them by name.      *)
(*                                                                         *)
(* Templates are read from an informer cache that lags behind the          *)
(* operator's own writes, and their events start no pass: the controller   *)
(* does not watch them.  spec.devices may be edited at any time.           *)
(***************************************************************************)
EXTENDS Integers, Sequences, FiniteSets, FiniteSetsExt

CONSTANTS
    Claims,            \* claim names, numbered in the order of their names
    Requests,          \* device requests: class, count and selectors; 0 is none
    Containers,        \* [pod sets -> the containers of their pods]
    Targets,           \* [Claims -> the containers that get the claim]
    MaxLag,            \* bound: changes of a template the cache has not heard of when a pass begins
    MaxEdits,          \* bound: edits of spec.devices
    MaxHolds,          \* bound: suspensions and releases of the RTJ
    MaxFault           \* bound: failed calls and restarts

ASSUME DevicesAssumption ==
    /\ Claims \subseteq Nat /\ IsFiniteSet(Claims) /\ Claims # {}
    /\ Requests \subseteq Nat \ {0} /\ Requests # {}
    /\ DOMAIN Targets = Claims
    /\ MaxLag \in Nat /\ MaxEdits \in Nat /\ MaxHolds \in Nat /\ MaxFault \in Nat

VARIABLES
    lags,       \* the template cache may be behind when a pass begins, by up to MaxLag changes
    rtj,        \* the RTJ: spec.devices, held (paused or suspended), status
    seen, fresh,
    tmpl,       \* the templates: the request of each claim's template, or 0
    cache,      \* the templates in the informer cache
    events,     \* changes of templates the cache has not heard of
    jobset,     \* the child JobSet of the current attempt
    ctl,        \* the pass in progress
    queued, timer,
    edits, holds, faults

vars == <<lags, rtj, seen, fresh, tmpl, cache, events, jobset, ctl, queued, timer, edits, holds, faults>>

-----------------------------------------------------------------------------
(* spec.devices: a request for each claim; without any the mode is Disabled. *)
Devices == [Claims -> Requests \cup {0}]
Requested(d) == {c \in Claims : d[c] # 0}
IsDevicesEnabled(j) == Requested(j.devices) # {}

(* The fingerprint does not depend on the names of the claims. *)
BuildProfile(d) == [r \in Requests |-> Cardinality({c \in Claims : d[c] = r})]

(* status.devices, as far as syncDeviceStatus sets it; nil is NoDeviceStatus. *)
NoDeviceStatus == [profile |-> BuildProfile([c \in Claims |-> 0]), refs |-> {}]

DesiredDeviceStatus(d) == [profile |-> BuildProfile(d), refs |-> Requested(d)]

deviceStatusEqual(left, right) == left = right

syncDeviceStatus(old, d) ==
    IF deviceStatusEqual(old, DesiredDeviceStatus(d)) THEN old ELSE DesiredDeviceStatus(d)

-----------------------------------------------------------------------------
\* jobset/dra_render.go and kueue/rtj_podsets.go: claims of pods and containers

(* Mutant: the references are read from the cache again. *)
BuildDRAClaimInjections_Cached(j) == IF IsDevicesEnabled(j) THEN seen.status.refs \cap Requested(j.devices) ELSE {}

BuildDRAClaimInjections(j) == IF IsDevicesEnabled(j) THEN j.status.refs \cap Requested(j.devices) ELSE {}

shouldAttachClaim(k, c) == Targets[c] = {} \/ k \in Targets[c]

InjectDRAClaims(claims) ==
    {a \in UNION {{p} \X Containers[p] \X claims : p \in DOMAIN Containers} : shouldAttachClaim(a[2], a[3])}

injectDRAIntoPodSets(j) ==
    {a \in UNION {{p} \X Containers[p] \X Requested(j.devices) : p \in DOMAIN Containers} :
        shouldAttachClaim(a[2], a[3])}

-----------------------------------------------------------------------------
NoJobSet == [exists |-> FALSE, attached |-> {}]
NewRTJ(d) == [devices |-> d, held |-> TRUE, status |-> NoDeviceStatus, active |-> FALSE]
Idle == [pc |-> "idle", job |-> NewRTJ([c \in Claims |-> 0]), fresh |-> FALSE, todo |-> {}, ready |-> TRUE]

Init ==
    /\ lags \in BOOLEAN
    /\ rtj = NewRTJ([c \in Claims |-> IF c = Min(Claims) THEN Min(Requests) ELSE 0])
    /\ seen = rtj /\ fresh = TRUE
    /\ tmpl = [c \in Claims |-> 0] /\ cache = tmpl /\ events = [c \in Claims |-> <<>>]
    /\ jobset = NoJobSet
    /\ ctl = Idle /\ queued = TRUE /\ timer = FALSE
    /\ edits = MaxEdits /\ holds = MaxHolds /\ faults = MaxFault

Fault == faults > 0 /\ faults' = faults - 1
Env == <<lags, edits, holds>>
Store == <<rtj, seen, fresh, jobset>>
Templates == <<tmpl, cache, events>>

SetTemplate(c, r) ==
    /\ tmpl' = [tmpl EXCEPT ![c] = r]
    /\ events' = IF tmpl[c] = r THEN events ELSE [events EXCEPT ![c] = Append(@, r)]
    /\ UNCHANGED cache

GoOn(next) == ctl' = next /\ UNCHANGED <<queued, timer>>

Current == ctl.job
claim == Min(ctl.todo)
Done(ready) == [ctl EXCEPT !.todo = @ \ {claim}, !.ready = @ /\ ready, !.pc = "template"]

-----------------------------------------------------------------------------
\* reconcileDRATemplates

(* The pass reads the RTJ.  Without devices the templates are left as they are. *)
Pass ==
    /\ ctl.pc = "idle" /\ queued /\ queued' = FALSE
    /\ \A c \in Claims : Len(events[c]) <= (IF lags THEN MaxLag ELSE 0)
    /\ ctl' = [pc |-> IF IsDevicesEnabled(seen) THEN "template" ELSE "status", job |-> seen,
               fresh |-> fresh, todo |-> Requested(seen.devices), ready |-> TRUE]
    /\ UNCHANGED <<Env, Store, Templates, timer, faults>>

AtTemplate == ctl.pc = "template" /\ ctl.todo # {}

TemplateSpecMatches == cache[claim] = Current.devices[claim]

TemplateMatches ==
    /\ AtTemplate /\ TemplateSpecMatches
    /\ GoOn(Done(TRUE))
    /\ UNCHANGED <<Env, Store, Templates, faults>>

CreateTemplate ==
    /\ AtTemplate /\ cache[claim] = 0 /\ tmpl[claim] = 0
    /\ SetTemplate(claim, Current.devices[claim])
    /\ GoOn(Done(TRUE))
    /\ UNCHANGED <<Env, Store, faults>>

(* AlreadyExists, whatever its spec: the template is not ready. *)
CreateLosesRace ==
    /\ AtTemplate /\ cache[claim] = 0 /\ tmpl[claim] # 0
    /\ GoOn(Done(FALSE))
    /\ UNCHANGED <<Env, Store, Templates, faults>>

(* Mutant: a drifted template is only created, not deleted first. *)
DeleteDrifted_Skipped ==
    /\ AtTemplate /\ cache[claim] # 0 /\ ~TemplateSpecMatches
    /\ GoOn([ctl EXCEPT !.pc = "recreate"])
    /\ UNCHANGED <<Env, Store, Templates, faults>>

(* The template is deleted by its name, whether or not it is still the one that was read. *)
DeleteDrifted ==
    /\ AtTemplate /\ cache[claim] # 0 /\ ~TemplateSpecMatches
    /\ SetTemplate(claim, 0)
    /\ GoOn([ctl EXCEPT !.pc = "recreate"])
    /\ UNCHANGED <<Env, Store, faults>>

RecreateTemplate ==
    /\ ctl.pc = "recreate"
    /\ SetTemplate(claim, Current.devices[claim])
    /\ GoOn(Done(TRUE))
    /\ UNCHANGED <<Env, Store, faults>>

(* Mutant: templates of claims that are gone stay. *)
Orphans_None == {}

Orphans == {c \in Claims \ Requested(Current.devices) : cache[c] # 0}

cleanupOrphanedTemplates ==
    /\ ctl.pc = "template" /\ ctl.todo = {}
    /\ GoOn([ctl EXCEPT !.pc = "cleanup", !.todo = Orphans])
    /\ UNCHANGED <<Env, Store, Templates, faults>>

DeleteOrphan ==
    /\ ctl.pc = "cleanup" /\ ctl.todo # {}
    /\ SetTemplate(claim, 0)
    /\ GoOn([ctl EXCEPT !.todo = @ \ {claim}])
    /\ UNCHANGED <<Env, Store, faults>>

CleanedUp ==
    /\ ctl.pc = "cleanup" /\ ctl.todo = {}
    /\ GoOn([ctl EXCEPT !.pc = "status"])
    /\ UNCHANGED <<Env, Store, Templates, faults>>

-----------------------------------------------------------------------------
\* The rest of the pass: status, the gate on the templates, launch

WriteRTJ(new) ==
    /\ rtj' = new
    /\ fresh' = (fresh /\ new = rtj)
    /\ UNCHANGED seen

(* status.devices as the pass wants it. *)
Synced ==
    [Current EXCEPT !.status = IF IsDevicesEnabled(Current) THEN syncDeviceStatus(@, Current.devices)
                               ELSE NoDeviceStatus]

(* Mutant: a launch that is put off is forgotten. *)
RequeueAfter_Never(ready) == FALSE

RequeueAfter(ready) == ~ready

(* Where the pass goes with copy j after its templates and its status. *)
Gate(j) ==
    IF j.held \/ j.active \/ ~ctl.ready
    THEN ctl' = Idle /\ timer' = (timer \/ (~j.held /\ ~j.active /\ RequeueAfter(ctl.ready)))
    ELSE ctl' = [ctl EXCEPT !.pc = "launch", !.job = j] /\ UNCHANGED timer

StatusUnchanged ==
    /\ ctl.pc = "status" /\ Synced = Current
    /\ Gate(Current)
    /\ UNCHANGED <<Env, Store, Templates, queued, faults>>

StatusUpdate ==
    /\ ctl.pc = "status" /\ Synced # Current /\ ctl.fresh
    /\ WriteRTJ(Synced) /\ Gate(Synced)
    /\ UNCHANGED <<Env, jobset, Templates, queued, faults>>

createIfMissing ==
    /\ ctl.pc = "launch"
    /\ jobset' = IF jobset.exists THEN jobset
                 ELSE [exists |-> TRUE, attached |-> InjectDRAClaims(BuildDRAClaimInjections(Current))]
    /\ GoOn([ctl EXCEPT !.pc = "mark"])
    /\ UNCHANGED <<Env, rtj, seen, fresh, Templates, faults>>

markStarting ==
    /\ ctl.pc = "mark" /\ ctl.fresh
    /\ WriteRTJ([Current EXCEPT !.active = TRUE])
    /\ ctl' = Idle
    /\ UNCHANGED <<Env, jobset, Templates, queued, timer, faults>>

Conflict == (ctl.pc = "mark" \/ (ctl.pc = "status" /\ Synced # Current)) /\ ~ctl.fresh /\ UNCHANGED faults

Calls ==
    \/ AtTemplate /\ ~TemplateSpecMatches
    \/ ctl.pc \in {"recreate", "launch", "mark"}
    \/ ctl.pc = "cleanup" /\ ctl.todo # {}
    \/ ctl.pc = "status" /\ Synced # Current

(* A call fails: the error ends the pass and queues the next. *)
CallFails ==
    /\ Conflict \/ (Calls /\ Fault)
    /\ ctl' = Idle /\ queued' = TRUE
    /\ UNCHANGED <<Env, Store, Templates, timer>>

Timer ==
    /\ timer /\ timer' = FALSE /\ queued' = TRUE
    /\ UNCHANGED <<Env, Store, Templates, ctl, faults>>

Deliver ==
    /\ ~fresh /\ seen' = rtj /\ fresh' = TRUE /\ queued' = TRUE
    /\ UNCHANGED <<Env, rtj, jobset, Templates, ctl, timer, faults>>

DeliverTemplate(c) ==
    /\ events[c] # <<>>
    /\ cache' = [cache EXCEPT ![c] = Head(events[c])]
    /\ events' = [events EXCEPT ![c] = Tail(@)]
    /\ UNCHANGED <<Env, Store, tmpl, ctl, queued, timer, faults>>

Restart ==
    /\ Fault
    /\ ctl' = Idle /\ queued' = TRUE /\ timer' = FALSE
    /\ seen' = rtj /\ fresh' = TRUE /\ cache' = tmpl /\ events' = [c \in Claims |-> <<>>]
    /\ UNCHANGED <<Env, rtj, jobset, tmpl>>

-----------------------------------------------------------------------------
\* The user, Kueue and the end of a run

Outside(new) ==
    /\ WriteRTJ(new)
    /\ ctl' = [ctl EXCEPT !.fresh = FALSE]
    /\ UNCHANGED <<lags, Templates, queued, timer, faults>>

EditDevices ==
    /\ edits > 0 /\ edits' = edits - 1
    /\ \E d \in Devices \ {rtj.devices} : Outside([rtj EXCEPT !.devices = d])
    /\ UNCHANGED <<jobset, holds>>

(* Pause, resume, suspension and admission. *)
HoldOrRelease ==
    /\ holds > 0 /\ holds' = holds - 1
    /\ Outside([rtj EXCEPT !.held = ~@])
    /\ UNCHANGED <<jobset, edits>>

(* The stop flow of a held RTJ has ended the attempt. *)
RunEnds ==
    /\ rtj.held /\ rtj.active
    /\ jobset' = NoJobSet
    /\ Outside([rtj EXCEPT !.active = FALSE])
    /\ UNCHANGED <<edits, holds>>

-----------------------------------------------------------------------------
Next ==
    \/ Pass \/ TemplateMatches \/ CreateTemplate \/ CreateLosesRace \/ DeleteDrifted \/ RecreateTemplate
    \/ cleanupOrphanedTemplates \/ DeleteOrphan \/ CleanedUp
    \/ StatusUnchanged \/ StatusUpdate \/ createIfMissing \/ markStarting \/ CallFails
    \/ Timer \/ Deliver \/ (\E c \in Claims : DeliverTemplate(c)) \/ Restart
    \/ EditDevices \/ HoldOrRelease \/ RunEnds

Spec == Init /\ [][Next]_vars

(* Passes, timers and informers go on; what user, Kueue and failures do is not assumed. *)
Step ==
    \/ TemplateMatches \/ CreateTemplate \/ CreateLosesRace \/ DeleteDrifted \/ RecreateTemplate
    \/ cleanupOrphanedTemplates \/ DeleteOrphan \/ CleanedUp
    \/ StatusUnchanged \/ StatusUpdate \/ createIfMissing \/ markStarting \/ CallFails

FairSpec ==
    /\ Spec /\ WF_vars(Pass) /\ WF_vars(Step) /\ WF_vars(Timer) /\ WF_vars(Deliver)
    /\ \A c \in Claims : WF_vars(DeliverTemplate(c))

-----------------------------------------------------------------------------
TypeOK ==
    /\ \A j \in {rtj, seen, ctl.job} :
        j.devices \in Devices /\ j.status.refs \subseteq Claims /\ {j.held, j.active} \subseteq BOOLEAN
    /\ {tmpl, cache} \subseteq Devices /\ \A c \in Claims : events[c] \in Seq(Requests \cup {0})
    /\ ctl.pc \in {"idle", "template", "recreate", "cleanup", "status", "launch", "mark"}
    /\ ctl.pc = "recreate" => ctl.todo # {} /\ tmpl[claim] = 0

(* A JobSet that the operator creates asks for exactly the claims that the pod sets made from the
   same copy of the RTJ ask for, although their references come from a status that another pass
   may have written; and, with a template cache that has heard of the operator's own writes, each
   of its templates exists and has the request of that copy, although they are made one by one and
   any call may fail.  The copy need not be the one whose pod sets Kueue has admitted. *)
LaunchHasItsDevices ==
    [][~jobset.exists /\ jobset'.exists =>
          /\ jobset'.attached = injectDRAIntoPodSets(Current)
          /\ ~lags => \A c \in Requested(Current.devices) : tmpl[c] = Current.devices[c]]_vars

Settled == ctl.pc = "idle" /\ ~queued /\ fresh /\ ~timer

(* With such a cache templates and status are
   those of the spec whenever nothing is left to do, whatever failed or was edited on the way. *)
TemplatesSettle ==
    Settled /\ ~lags /\ IsDevicesEnabled(rtj) => tmpl = rtj.devices /\ rtj.status = DesiredDeviceStatus(rtj.devices)

(* A launch that is put off because a template was not ready takes place in the end. *)
DeferredLaunchHappens == ~rtj.held ~> (jobset.exists \/ rtj.held)
=============================================================================
