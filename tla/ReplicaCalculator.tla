-------------------------- MODULE ReplicaCalculator --------------------------
(***************************************************************************)
(* computeReplicasForMetrics (src/pkg/controller/chpa/chpa_controller.go)  *)
(* with the ReplicaCalculator it calls: for each metric of the spec in     *)
(* turn a proposal is computed, from samples of the metrics API and then a *)
(* list of the pods, and the largest one wins.  The two calls and the      *)
(* copy of the Deployment, whose status.replicas the calculation takes for *)
(* the current size, are of different moments: pods start, fail and go,    *)
(* and samples appear and linger, between them.                            *)
(***************************************************************************)
EXTENDS ReplicaRules, Sequences

CONSTANTS
    Pods,           \* names of pods
    Usages,         \* the values a sample of a pod may have
    Demands,        \* the values an object's or external metric may have
    Request,        \* the resource request of each pod
    MetricLists,    \* the spec.metrics a round may work through
    MaxChanges      \* bound: changes of pods and samples during a round

Kinds == {"pods", "resource", "total", "perPod"}

Metric == [kind : Kinds, target : Nat \ {0}]

ASSUME CalculatorAssumption ==
    /\ IsFiniteSet(Pods)
    /\ Usages \subseteq Nat /\ Demands \subseteq Nat
    /\ Request \in [Pods -> Nat]
    /\ MetricLists \subseteq Seq(Metric)
    /\ MaxChanges \in Nat

VARIABLES
    pods,     \* the pods that exist, each with its condition
    samples,  \* what the metrics API knows of them, or of pods that were
    demand,   \* the object's or external metric
    round,    \* the computation
    changes   \* how often pods or samples have changed since the round began

vars == <<pods, samples, demand, round, changes>>

PartialFunctions(S, T) == UNION {[D -> T] : D \in SUBSET S}

\* metrics[index] is being computed; fetched are its samples; replicas and
\* winner are the result so far; proposals all the proposals so far.
Round == [phase : {"fetch", "list", "done", "failed"},
          metrics : MetricLists, index : Nat \ {0}, current : Nat,
          fetched : PartialFunctions(Pods, Usages),
          replicas : Nat, winner : Nat, proposals : Seq(Nat)]

TypeOK ==
    /\ pods \in PartialFunctions(Pods, Conditions)
    /\ samples \in PartialFunctions(Pods, Usages)
    /\ demand \in Demands
    /\ round \in Round
    /\ round.phase \in {"fetch", "list"} => round.index \in DOMAIN round.metrics
    /\ round.phase = "done" => Len(round.proposals) = Len(round.metrics)
    /\ changes \in Nat

\* The size reconcileCHPA goes on with: status.replicas counts no failed pod,
\* and is not 0.
Current == Cardinality(In(pods, {"ready", "unready"}))

Init ==
    /\ pods \in PartialFunctions(Pods, Conditions)
    /\ Current > 0
    /\ samples \in PartialFunctions(Pods, Usages)
    /\ demand \in Demands
    /\ \E metrics \in MetricLists :
         round = [phase |-> IF metrics = <<>> THEN "done" ELSE "fetch",
                  metrics |-> metrics, index |-> 1,
                  current |-> Current, fetched |-> <<>>,
                  replicas |-> 0, winner |-> 0, proposals |-> <<>>]
    /\ changes = 0

-------------------------------------------------------------------------------
M == round.metrics[round.index]

Working(phase) == round.phase = phase /\ UNCHANGED <<pods, samples, demand, changes>>

\* GetResourceMetric or GetRawMetric: no samples at all is an error.
Fetch ==
    /\ Working("fetch")
    /\ M.kind \in {"pods", "resource"}
    /\ samples # <<>>
    /\ round' = [round EXCEPT !.phase = "list", !.fetched = samples]

Fail == round' = [round EXCEPT !.phase = "failed"]

\* The metrics API or the pods API does not answer, knows no samples, a pod has
\* a container without a request, or the metric names no target: the error ends
\* the whole computation.
FetchFails ==
    /\ Working("fetch")
    /\ Fail

ListFails ==
    /\ Working("list")
    /\ Fail

\* Mutant: the last proposal wins.
BeatsNothing(proposal) == TRUE

\* The first proposal, a larger one, or one after nothing but zeros.
Beats(proposal) == round.replicas = 0 \/ proposal > round.replicas

\* Mutant: the first metric that does not win ends the computation.
MergeUntilBeaten(proposal) ==
    round' = [round EXCEPT
      !.phase = IF round.index = Len(round.metrics) \/ ~Beats(proposal)
                THEN "done" ELSE "fetch",
      !.index = @ + 1,
      !.fetched = <<>>,
      !.replicas = IF Beats(proposal) THEN proposal ELSE @,
      !.winner = IF Beats(proposal) THEN round.index ELSE @,
      !.proposals = Append(@, proposal)]

Merge(proposal) ==
    round' = [round EXCEPT
      !.phase = IF round.index = Len(round.metrics) THEN "done" ELSE "fetch",
      !.index = @ + 1,
      !.fetched = <<>>,
      !.replicas = IF Beats(proposal) THEN proposal ELSE @,
      !.winner = IF Beats(proposal) THEN round.index ELSE @,
      !.proposals = Append(@, proposal)]

PodOutcomes ==
    IF M.kind = "pods" THEN PlainReplicas(round.fetched, pods, round.current, M.target)
    ELSE ResourceReplicas(round.fetched, pods, Request, round.current, M.target)

List ==
    /\ Working("list")
    /\ \E proposal \in PodOutcomes : Merge(proposal)

\* No pods are listed, or no sample is of use.
NothingUsable ==
    /\ Working("list")
    /\ PodOutcomes = {}
    /\ Fail

Total ==
    /\ Working("fetch")
    /\ M.kind = "total"
    /\ \E proposal \in TotalReplicas(demand, round.current, M.target) : Merge(proposal)

PerPod ==
    /\ Working("fetch")
    /\ M.kind = "perPod"
    /\ \E proposal \in PerPodReplicas(demand, round.current, M.target) : Merge(proposal)

-------------------------------------------------------------------------------
(* Outside: the cluster while the computation runs.                           *)

Change ==
    /\ round.phase \in {"fetch", "list"}
    /\ changes < MaxChanges
    /\ changes' = changes + 1
    /\ UNCHANGED <<demand, round>>

PodStarts(p) ==
    /\ Change
    /\ p \notin DOMAIN pods
    /\ pods' = Filled(pods, Constant({p}, "unready"))
    /\ UNCHANGED samples

PodTurns(p, condition) ==
    /\ Change
    /\ p \in DOMAIN pods
    /\ pods[p] \notin {"failed", condition}
    /\ pods' = [pods EXCEPT ![p] = condition]
    /\ UNCHANGED samples

\* Its last sample may stay.
PodGoes(p) ==
    /\ Change
    /\ p \in DOMAIN pods
    /\ pods' = Restrict(pods, DOMAIN pods \ {p})
    /\ UNCHANGED samples

Sample(p, usage) ==
    /\ Change
    /\ p \in DOMAIN pods
    /\ samples' = Filled(samples, Constant({p}, usage))
    /\ UNCHANGED pods

SampleExpires(p) ==
    /\ Change
    /\ p \in DOMAIN samples
    /\ samples' = Restrict(samples, DOMAIN samples \ {p})
    /\ UNCHANGED pods

\* The computation returned.
Returned == round.phase \in {"done", "failed"} /\ UNCHANGED vars

Compute == Fetch \/ List \/ Total \/ PerPod

Errors == FetchFails \/ ListFails \/ NothingUsable

Cluster ==
    \E p \in Pods :
      \/ PodStarts(p)
      \/ \E condition \in Conditions : PodTurns(p, condition)
      \/ PodGoes(p)
      \/ \E usage \in Usages : Sample(p, usage)
      \/ SampleExpires(p)

Next == Compute \/ Errors \/ Cluster \/ Returned

Spec == Init /\ [][Next]_vars

===============================================================================
