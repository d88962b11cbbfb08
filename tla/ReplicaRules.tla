----------------------------- MODULE ReplicaRules -----------------------------
(***************************************************************************)
(* How ReplicaCalculator (src/pkg/controller/chpa/replica_calculator.go)   *)
(* turns one metric into a proposed number of replicas.  No state.         *)
(*                                                                         *)
(* Values and targets are whole numbers of one unit (the code's milli      *)
(* units, or percents), so a usage ratio value / target is kept as the     *)
(* pair.  A target of 0 is excluded: the code divides by it in float64 and *)
(* converts an infinity to int32.  An operator that stands for a           *)
(* calculation yields the set of its possible proposals, which is empty    *)
(* when the calculation returns an error.                                  *)
(***************************************************************************)
EXTENDS Integers, FiniteSets, Functions

CeilDiv(a, b) == (a + b - 1) \div b

\* math.Abs(1.0 - usageRatio) <= c.tolerance, which is always 0.1.  In float64
\* 1 - 0.9 is just below 0.1, so the lower end is within the tolerance;
\* 1.1 - 1 is just above it, so the upper end is not.
WithinTolerance(value, target) == 10 * value >= 9 * target /\ 10 * value < 11 * target

\* Mutant: rounded down.
ScaledDown(value, target, count) == {(value * count) \div target}

\* int32(math.Ceil(usageRatio * float64(count))).  A product that should be
\* whole may come out of float64 just above, unless the ratio itself is whole.
Scaled(value, target, count) ==
    LET exact == CeilDiv(value * count, target) IN
    {exact} \cup IF /\ count > 0
                    /\ value % target # 0
                    /\ (value * count) % target = 0
                 THEN {exact + 1}
                 ELSE {}

\* The proposal that follows from a usage ratio, counted over count pods.
Propose(value, target, count, current) ==
    IF WithinTolerance(value, target) THEN {current}
    ELSE Scaled(value, target, count)

\* The corrected ratio asks for the other direction than the first one.
Turned(first, second, target) ==
    \/ first < target /\ second > target
    \/ first > target /\ second < target

\* Mutant: the direction is not looked at.
ProposeCorrectedAnyWay(first, second, target, count, current) ==
    Propose(second, target, count, current)

ProposeCorrected(first, second, target, count, current) ==
    IF Turned(first, second, target) THEN {current}
    ELSE Propose(second, target, count, current)

-------------------------------------------------------------------------------
(* The pods: listed maps the names the pods API returned to a condition,      *)
(* samples those the metrics API returned to a value.                         *)

Conditions == {"unready", "ready", "failed"}

In(listed, conditions) == {p \in DOMAIN listed : listed[p] \in conditions}

\* Mutant: the samples of unready pods are kept.
UsableUnlessFailed(samples, listed) ==
    Restrict(samples, DOMAIN samples \ In(listed, {"failed"}))

\* The metrics map once the pods that are not ready are deleted from it; names
\* that are no listed pod's stay.
Usable(samples, listed) ==
    Restrict(samples, DOMAIN samples \ In(listed, {"unready", "failed"}))

Missing(samples, listed) == In(listed, {"ready"}) \ DOMAIN samples

\* Pods that got no value are given one: fill maps them to it.
Filled(samples, fill) ==
    [p \in DOMAIN samples \cup DOMAIN fill |->
       IF p \in DOMAIN fill THEN fill[p] ELSE samples[p]]

Constant(S, value) == [p \in S |-> value]

\* GetMetricUtilizationRatio
Average(samples) == SumFunction(samples) \div Cardinality(DOMAIN samples)

\* GetResourceUtilizationRatio: per cent of the requests, over known pods only.
Utilization(samples, requests) ==
    LET known == DOMAIN samples \cap DOMAIN requests IN
    (100 * SumFunction(Restrict(samples, known)))
      \div SumFunction(Restrict(requests, known))

\* calcPlainMetricReplicas: GetMetricReplicas and GetRawResourceReplicas.
\* A missing pod is taken to be at the target when the others are below it, and
\* at 0 otherwise; an unready one at 0 when they are above it.
PlainReplicas(samples, listed, current, target) ==
    LET used == Usable(samples, listed)
        missing == Missing(samples, listed)
        unready == In(listed, {"unready", "failed"})
        first == Average(used)
        rebalance == unready # {} /\ first > target
        idle == Constant(IF rebalance THEN unready ELSE {}, 0)
        fill == Constant(missing, IF first < target THEN target ELSE 0)
        corrected == Filled(Filled(used, fill), idle)
    IN  IF DOMAIN listed = {} \/ DOMAIN used = {} THEN {}
        ELSE IF ~rebalance /\ missing = {}
        THEN Propose(first, target, Cardinality(In(listed, {"ready"})), current)
        ELSE ProposeCorrected(first, Average(corrected), target,
                              Cardinality(DOMAIN corrected), current)

\* GetResourceReplicas, for a target in per cent of the requests.  Failed pods
\* are not unready; a missing pod is taken to use its request when the others
\* are below the target, nothing when they are above it, and is left out when
\* they are at it.
ResourceReplicas(samples, listed, requests, current, target) ==
    LET asked == Restrict(requests, DOMAIN listed)
        used == Usable(samples, listed)
        missing == Missing(samples, listed)
        unready == In(listed, {"unready"})
        first == Utilization(used, asked)
        rebalance == unready # {} /\ first > target
        idle == Constant(IF rebalance THEN unready ELSE {}, 0)
        fill == IF first < target THEN Restrict(requests, missing)
                ELSE IF first > target THEN Constant(missing, 0)
                ELSE <<>>
        corrected == Filled(Filled(used, fill), idle)
    IN  IF \/ DOMAIN listed = {}
           \/ SumFunction(Restrict(asked, DOMAIN used \cap DOMAIN asked)) = 0
        THEN {}
        ELSE IF ~rebalance /\ missing = {}
        THEN Propose(first, target, Cardinality(In(listed, {"ready"})), current)
        ELSE ProposeCorrected(first, Utilization(corrected, asked), target,
                              Cardinality(DOMAIN corrected), current)

\* GetObjectMetricReplicas and GetExternalMetricReplicas, of the object's value
\* or of the sum of the external ones.
TotalReplicas(value, current, target) == Propose(value, target, current, current)

\* GetExternalPerPodMetricReplicas
PerPodReplicas(value, current, target) ==
    IF WithinTolerance(value, target * current) THEN {current}
    ELSE {CeilDiv(value, target)}

===============================================================================
