----------------------------- MODULE ConstantLoad -----------------------------
(***************************************************************************)
(* The closed loop of calculation and scaling: a load that does not change *)
(* is spread over the pods, every pod is ready and measured, the windows   *)
(* have passed, and the pods follow each decision before the next one.     *)
(* One step is reconcileCHPA (src/pkg/controller/chpa/chpa_controller.go)  *)
(* with one metric.                                                        *)
(***************************************************************************)
EXTENDS ReplicaRules, ScaleRules

CONSTANTS
    Loads,      \* the whole of what the pods have to do
    Targets,    \* of the metric
    Sizes,      \* the sizes the Deployment may start with
    Specs       \* the CHPA specs

ASSUME LoadAssumption ==
    /\ Loads \subseteq Nat
    /\ Targets \subseteq Nat \ {0}
    /\ Sizes \subseteq Nat \ {0}
    /\ Specs \subseteq CHPASpec

VARIABLES
    load,
    metric,     \* over the pods, or external and per pod
    spec,
    replicas,
    lowered     \* for the properties: has a decision lowered the size

vars == <<load, metric, spec, replicas, lowered>>

TypeOK ==
    /\ load \in Loads
    /\ metric \in [kind : {"pods", "perPod"}, target : Targets]
    /\ spec \in CHPASpec
    /\ replicas \in Nat \ {0}
    /\ lowered \in BOOLEAN

Init ==
    /\ load \in Loads
    /\ metric \in [kind : {"pods", "perPod"}, target : Targets]
    /\ \E s \in Specs : spec = WithDefaults(s)
    /\ replicas \in Sizes
    /\ lowered = FALSE

\* calcPlainMetricReplicas over the pods there are; GetExternalPerPodMetricReplicas.
LoadProposals(n) ==
    IF metric.kind = "pods" THEN Propose(load \div n, metric.target, n, n)
    ELSE PerPodReplicas(load, n, metric.target)

\* A size outside the bounds is corrected without a look at the metrics.
Decisions(n) ==
    IF OutOfBounds(spec, n) THEN {BoundsTarget(spec, n)}
    ELSE {NormalizeDesired(spec, n, proposal) : proposal \in LoadProposals(n)}

Step ==
    /\ replicas' \in Decisions(replicas)
    /\ lowered' = (lowered \/ replicas' < replicas)
    /\ UNCHANGED <<load, metric, spec>>

Next == Step

Spec == Init /\ [][Next]_vars

\* The controller comes back every syncPeriod.
FairSpec == Spec /\ WF_vars(Step)

-------------------------------------------------------------------------------
\* A pod's share of the load is never less than 10 units (milli units in the
\* code), so that the average loses less than a tenth when it is truncated.
FineGrained == load >= 10 * spec.max

\* Once a decision has lowered the size no later one raises it: the loop does
\* not swing, although it may overshoot once on its way up.
NeverRegrows ==
    [][lowered /\ FineGrained /\ spec.min <= spec.max => replicas' <= replicas]_vars

\* Why: from a size a decision has lowered to, every decision keeps or lowers it.
LoweredIsEnough ==
    lowered /\ FineGrained /\ spec.min <= spec.max =>
      \A n \in Decisions(replicas) : n <= replicas

\* An overloaded Deployment that may grow does grow: neither the tolerance nor
\* rounding holds it where it is, and the scale-up limit only where the factor
\* allows less than one replica more, as 1.5 does for a single one, and the
\* minimum does not help.
OverloadIsAnswered ==
    /\ replicas < spec.max
    /\ spec.floor > replicas \/ (spec.factor2 - 2) * replicas >= 2
    /\ 10 * load >= 11 * metric.target * replicas + 10 * replicas
    => \A n \in Decisions(replicas) : n > replicas

\* The loop comes to rest: under a constant load the size stops changing, within
\* the bounds, although it depends on rounded averages of the load over itself.
ComesToRest ==
    FineGrained /\ spec.min <= spec.max =>
      /\ <>[][UNCHANGED replicas]_vars
      /\ <>[](replicas \in MinAllowed(spec)..spec.max)

===============================================================================
