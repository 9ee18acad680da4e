----------------------------- MODULE LaunchPlan -----------------------------
(***************************************************************************)
(* What a launch makes of a Kueue admission: the pure functions of         *)
(* internal/topology/assignment.go, internal/provisioning, launch_plan.go  *)
(* and internal/jobset that turn quota, topology assignment and the        *)
(* podSetUpdates of admission checks into the child JobSet.                *)
(*                                                                         *)
(* A pod template is one map: the keys of labels, annotations and          *)
(* nodeSelector are told apart by their names, and the code treats the     *)
(* three maps alike.                                                       *)
(***************************************************************************)
EXTENDS Integers, SequencesExt

CONSTANTS
    PodSets,       \* the replicatedJobs of spec.runtime.template
    Replicas,      \* their replicas, a function of PodSets
    Parallelism,   \* their parallelism
    Completions,   \* their completions
    WorldSize,     \* spec.identity.worldSize
    KueueKeys      \* the keys of Kueue's own labels and annotations

NoKeys == << >>    \* the empty map

NoAssignment == [levels |-> << >>, slices |-> << >>]

-----------------------------------------------------------------------------
\* Topology assignments in Kueue's compressed form

(* A slice covers a number of domains; the value of a level, or the pod count, is one
   universal value for all of them or one value for each.  Prefix and suffix are part of the
   individual values here. *)
resolveLevelValues(v, domains) ==
    IF v.universal # << >> THEN [d \in 1 .. domains |-> v.universal[1]] ELSE v.individual

resolvePodCounts(c, domains) == resolveLevelValues(c, domains)

Resolvable(v, domains) == v.universal # << >> \/ Len(v.individual) = domains

decodeDomains(levels, slice) ==
    {[labels |-> [l \in Range(levels) |->
                    resolveLevelValues(slice.values[CHOOSE i \in DOMAIN levels : levels[i] = l],
                                       slice.domains)[d]],
      count  |-> resolvePodCounts(slice.counts, slice.domains)[d]] : d \in 1 .. slice.domains}

Decodable(ta) ==
    /\ ta.levels # << >>
    /\ \A slice \in Range(ta.slices) :
        /\ slice.domains >= 1
        /\ Len(slice.values) = Len(ta.levels)
        /\ \A i \in DOMAIN slice.values : Resolvable(slice.values[i], slice.domains)
        /\ Resolvable(slice.counts, slice.domains)

parsePodSetAssignment(ta) ==
    [levels |-> ta.levels,
     domains |-> UNION {decodeDomains(ta.levels, slice) : slice \in Range(ta.slices)}]

(* The PodSets of an admission that carry a topology assignment, and their domains. *)
Assigned(a) == {p \in PodSets : a.topology[p] # NoAssignment}

ParseFails(a) == \E p \in Assigned(a) : ~Decodable(a.topology[p])

ParseFromAdmission(a) == [p \in Assigned(a) |-> parsePodSetAssignment(a.topology[p])]

IsSingleDomain(t) == Cardinality(t.domains) = 1

IsHomogeneous(t) ==
    \A d, e \in t.domains, i \in 1 .. Len(t.levels) - 1 :
        d.labels[t.levels[i]] = e.labels[t.levels[i]]

CanRepresentInJobSet(t) ==
    \/ t.domains = {}
    \/ IsSingleDomain(t)
    \/ Len(t.levels) # 1 /\ IsHomogeneous(t)

CommonNodeSelector(t) ==
    LET common == {l \in Range(t.levels) : \A d, e \in t.domains : d.labels[l] = e.labels[l]}
    IN  IF t.domains = {} THEN NoKeys
        ELSE [l \in common |-> (CHOOSE d \in t.domains : TRUE).labels[l]]

-----------------------------------------------------------------------------
\* podSetUpdates

mergeMapInto(dst, src) == [k \in DOMAIN dst \cup DOMAIN src |-> IF k \in DOMAIN src THEN src[k] ELSE dst[k]]

(* Checks in the order of the Workload; for a key that two of them set, the later one wins. *)
MergePodSetUpdates(sets) ==
    [p \in PodSets |->
        [k \in UNION {DOMAIN sets[i][p] : i \in DOMAIN sets} |->
            sets[Max({i \in DOMAIN sets : k \in DOMAIN sets[i][p]})][p][k]]]

(* Mutant: an update overwrites what the template and the topology say. *)
Conflicts_Never(templates, updates) == FALSE

Conflicts(templates, updates) ==
    \E p \in PodSets, k \in UNION {DOMAIN templates[q] : q \in PodSets} :
        /\ k \in DOMAIN templates[p] \cap DOMAIN updates[p]
        /\ templates[p][k] # updates[p][k]

ApplyPodSetUpdates(templates, updates) == [p \in PodSets |-> mergeMapInto(templates[p], updates[p])]

-----------------------------------------------------------------------------
\* Rendering

podsPerReplica(p) == IF Completions[p] < Parallelism[p] THEN Completions[p] ELSE Parallelism[p]

applyAdmittedReplicaCount(p, count) ==
    IF count <= 0 THEN Replicas[p] ELSE Max({1, count \div podsPerReplica(p)})

totalAdmittedCount(counts) == MapThenSumSet(LAMBDA p : counts[p], DOMAIN counts)

computeEffectiveWorldSize(counts) ==
    IF totalAdmittedCount(counts) > 0 THEN totalAdmittedCount(counts) ELSE WorldSize

stripKueuePodTemplateLabels(template) ==
    [k \in DOMAIN template \ KueueKeys |-> template[k]]

InjectTopology(templates, topology) ==
    [p \in PodSets |-> IF p \in DOMAIN topology
                       THEN mergeMapInto(templates[p], CommonNodeSelector(topology[p]))
                       ELSE templates[p]]

(* plan is a LaunchPlan with the RTJ's templates: admitted counts (an empty map for none),
   topology, merged updates. *)
Rendered(plan) ==
    InjectTopology([p \in PodSets |-> stripKueuePodTemplateLabels(plan.templates[p])], plan.topology)

RenderFails(plan) ==
    \/ \E p \in DOMAIN plan.topology : ~CanRepresentInJobSet(plan.topology[p])
    \/ Conflicts(Rendered(plan), plan.updates)

(* restore is the world size of the checkpoint that the runtime is told to restore, 0 for none. *)
RenderChildJobSet(plan, attempt, restore) ==
    [attempt |-> attempt, restore |-> restore,
     templates |-> ApplyPodSetUpdates(Rendered(plan), plan.updates),
     pods  |-> [p \in PodSets |->
                  podsPerReplica(p) * (IF p \in DOMAIN plan.counts
                                       THEN applyAdmittedReplicaCount(p, plan.counts[p])
                                       ELSE Replicas[p])],
     world |-> computeEffectiveWorldSize(plan.counts)]

-----------------------------------------------------------------------------
\* What a JobSet may take of an admission

(* No more pods than were admitted, in every PodSet that was admitted with a whole replica.  One
   that was admitted with less runs one replica all the same, which is more than its quota. *)
WithinQuota(r, a) ==
    /\ \A p \in PodSets : IF a.counts[p] >= podsPerReplica(p) THEN r.pods[p] <= a.counts[p]
                          ELSE r.pods[p] = podsPerReplica(p)
    /\ r.world = totalAdmittedCount(a.counts)

(* Every level on which the domains of a PodSet agree is imposed on its pods.  On a level where
   they differ nothing is, and a podSetUpdate may set it to a value of no domain. *)
WithinDomains(r, a) ==
    \A p \in Assigned(a) :
        LET common == CommonNodeSelector(parsePodSetAssignment(a.topology[p]))
        IN  \A l \in DOMAIN common : l \in DOMAIN r.templates[p] /\ r.templates[p][l] = common[l]

Fits(r, a) == WithinQuota(r, a) /\ WithinDomains(r, a)
=============================================================================
