-------------------------- MODULE ConstantLoadProofs --------------------------
(***************************************************************************)
(* The closed loop of ConstantLoad does not swing, for every load, target, *)
(* spec and size.  The inductive invariant is LoweredIsEnough: the step    *)
(* that lowers the size from n to m leaves an average below 1.1 of the     *)
(* target, because m * target >= (load \div n) * n, and what truncation    *)
(* and the rounding up lose is less than the tolerance.  And an overloaded *)
(* Deployment grows: the average it is judged by lies above the tolerance. *)
(***************************************************************************)
EXTENDS ConstantLoad, ReplicaRulesProofs, ScaleRulesProofs

IInv ==
    /\ TypeOK
    /\ Completed(spec)
    /\ LoweredIsEnough

\* The quotient of a division, in the form the provers can use.
LEMMA DivBounds ==
    ASSUME NEW a \in Nat, NEW b \in Nat \ {0}
    PROVE  /\ a \div b \in Nat
           /\ b * (a \div b) <= a
           /\ a < b * (a \div b) + b
<1> DEFINE q == a \div b
<1>1. /\ q \in Int
      /\ b * q <= a
      /\ a < b * (q + 1)
  OBVIOUS
<1>2. b * (q + 1) = b * q + b
  BY <1>1
<1>3. q >= 0
  BY <1>1, <1>2
<1> QED
  BY <1>1, <1>2, <1>3

\* A proposal is a count.
LEMMA ProposalsAreCounts ==
    ASSUME TypeOK, NEW n \in Nat \ {0}, NEW p \in LoadProposals(n)
    PROVE  p \in Nat
<1>1. load \in Nat /\ metric.target \in Nat \ {0}
  BY LoadAssumption DEF TypeOK
<1>2. CASE metric.kind = "pods"
  <2>1. load \div n \in Nat
    BY <1>1, DivBounds
  <2>2. p \in Propose(load \div n, metric.target, n, n)
    BY <1>2 DEF LoadProposals
  <2> QED
    BY <1>1, <2>1, <2>2, ProposeKeepsDirection
<1>3. CASE metric.kind # "pods"
  <2>1. p = n \/ p = CeilDiv(load, metric.target)
    BY <1>3 DEF LoadProposals, PerPodReplicas
  <2> QED
    BY <1>1, <2>1, CeilDivBounds
<1> QED
  BY <1>2, <1>3

\* A decision is a size: never 0.
LEMMA DecisionsAreSizes ==
    ASSUME TypeOK, Completed(spec), NEW n \in Nat \ {0}, NEW m \in Decisions(n)
    PROVE  m \in Nat \ {0}
<1>1. CASE OutOfBounds(spec, n)
  BY <1>1, BoundsTargetIsPositive DEF Decisions
<1>2. CASE ~OutOfBounds(spec, n)
  <2>1. PICK p \in LoadProposals(n) : m = NormalizeDesired(spec, n, p)
    BY <1>2 DEF Decisions
  <2> QED
    BY <2>1, ProposalsAreCounts, NormalizedIsPositive
<1> QED
  BY <1>1, <1>2

\* A proposal no larger than the size, at a size within the bounds, is
\* normalized to no more than the size.
LEMMA NormalizedIsNoMore ==
    ASSUME Completed(spec), NEW n \in Nat \ {0}, ~OutOfBounds(spec, n),
           NEW p \in Nat, p <= n
    PROVE  NormalizeDesired(spec, n, p) <= n
<1>1. spec.min \in Nat /\ spec.max \in Nat \ {0} /\ spec.min <= n
  BY DEF Completed, CHPASpec, OutOfBounds
<1>2. ScaleUpLimit(spec, n) \in Nat
  BY ScaleUpLimitBounds
<1> QED
  BY <1>1, <1>2 DEF NormalizeDesired, MinAllowed, MaxAllowed, Smaller

\* A decision that lowers the size on account of the metric proposed no more
\* than what it came to.
LEMMA LoweringProposal ==
    ASSUME Completed(spec), NEW n \in Nat \ {0}, ~OutOfBounds(spec, n),
           NEW p \in Nat, NormalizeDesired(spec, n, p) < n
    PROVE  /\ p <= NormalizeDesired(spec, n, p)
           /\ ~OutOfBounds(spec, NormalizeDesired(spec, n, p))
<1>1. /\ spec.min \in Nat /\ spec.max \in Nat \ {0}
      /\ spec.min <= n /\ n <= spec.max
  BY DEF Completed, CHPASpec, OutOfBounds
<1>2. ScaleUpLimit(spec, n) \in Nat /\ ScaleUpLimit(spec, n) >= n
  BY ScaleUpLimitBounds
<1> QED
  BY <1>1, <1>2
     DEF NormalizeDesired, MinAllowed, MaxAllowed, Smaller, OutOfBounds

\* The arithmetic of a metric over the pods: a proposal p below the size n that
\* the average at n led to leaves, at any size m that is no less, an average
\* within the tolerance or below the target.
LEMMA LoweredAverage ==
    ASSUME NEW total \in Nat, NEW target \in Nat \ {0},
           NEW n \in Nat \ {0}, NEW m \in Nat \ {0}, total >= 10 * n,
           NEW p \in Propose(total \div n, target, n, n), p <= m, m < n
    PROVE  10 * (total \div m) < 11 * target
<1> DEFINE u == total \div n
           v == total \div m
<1>1. /\ u \in Nat /\ n * u <= total /\ total < n * u + n
  BY DivBounds
<1>2. /\ v \in Nat /\ m * v <= total
  BY DivBounds
<1>3. p \in Nat /\ p \in Scaled(u, target, n)
  <2>1. p # n
    BY <1>1, ProposeKeepsDirection
  <2> QED
    BY <1>1, <2>1, ProposeKeepsDirection DEF Propose
<1>4. target * p >= u * n
  <2>1. u * n \in Nat
    BY <1>1
  <2>2. /\ CeilDiv(u * n, target) \in Nat
        /\ target * CeilDiv(u * n, target) >= u * n
    BY <2>1, CeilDivBounds
  <2>3. p >= CeilDiv(u * n, target)
    BY <1>3, <2>2 DEF Scaled
  <2>4. CeilDiv(u * n, target) * target <= p * target
    BY <1>3, <2>2, <2>3, ProductOrder
  <2> QED
    BY <1>3, <2>1, <2>2, <2>4
<1>5. target * m >= u * n
  <2>1. p * target <= m * target
    BY <1>3, ProductOrder
  <2> QED
    BY <1>1, <1>3, <1>4, <2>1
<1>6. u >= 10
  <2>1. n * 10 < n * (u + 1)
    <3>1. n * (u + 1) = n * u + n
      BY <1>1
    <3> QED
      BY <1>1, <3>1
  <2> QED
    BY <1>1, <2>1, Cancel
<1>7. 10 * n <= u * n
  BY <1>1, <1>6, ProductOrder
<1>8. 10 * (m * v) < 11 * (target * m)
  <2>1. n * u = u * n /\ u * n \in Nat /\ m * v \in Nat /\ target * m \in Nat
    BY <1>1, <1>2
  <2> QED
    BY <1>1, <1>2, <1>5, <1>7, <2>1
<1>9. m * (10 * v) < m * (11 * target)
  <2>1. m * (10 * v) = 10 * (m * v) /\ m * (11 * target) = 11 * (target * m)
    BY <1>2
  <2> QED
    BY <1>8, <2>1
<1> QED
  BY <1>2, <1>9, Cancel

\* What the metric proposes at a size m a decision has lowered n to is no more
\* than m.
LEMMA ProposalsAfterLowering ==
    ASSUME TypeOK, Completed(spec), FineGrained,
           NEW n \in Nat \ {0}, NEW m \in Nat \ {0}, n <= spec.max, m < n,
           NEW p \in LoadProposals(n), p <= m,
           NEW q \in LoadProposals(m)
    PROVE  q <= m
<1> DEFINE target == metric.target
<1>1. /\ load \in Nat /\ target \in Nat \ {0} /\ spec.max \in Nat
      /\ p \in Nat /\ q \in Nat
  BY LoadAssumption, ProposalsAreCounts DEF TypeOK, CHPASpec
<1>2. CASE metric.kind = "pods"
  <2>1. load >= 10 * n
    BY <1>1 DEF FineGrained
  <2>2. /\ p \in Propose(load \div n, target, n, n)
        /\ q \in Propose(load \div m, target, m, m)
    BY <1>2 DEF LoadProposals
  <2>3. 10 * (load \div m) < 11 * target
    BY <1>1, <2>1, <2>2, LoweredAverage
  <2>4. load \div m \in Nat
    BY <1>1, DivBounds
  <2>5. CASE WithinTolerance(load \div m, target)
    BY <2>2, <2>5 DEF Propose
  <2>6. CASE ~WithinTolerance(load \div m, target)
    <3>1. load \div m < target
      BY <1>1, <2>3, <2>4, <2>6 DEF WithinTolerance
    <3> QED
      BY <1>1, <2>2, <2>4, <3>1, ProposeKeepsDirection
  <2> QED
    BY <2>5, <2>6
<1>3. CASE metric.kind # "pods"
  <2>1. /\ p = n \/ p = CeilDiv(load, target)
        /\ q = m \/ q = CeilDiv(load, target)
    BY <1>3 DEF LoadProposals, PerPodReplicas
  <2> QED
    BY <1>1, <2>1
<1> QED
  BY <1>2, <1>3

\* A decision that lowers the size leaves one from which no decision raises it.
LEMMA LoweringIsEnough ==
    ASSUME TypeOK, Completed(spec), FineGrained, spec.min <= spec.max,
           NEW n \in Nat \ {0}, NEW m \in Decisions(n), m < n,
           NEW k \in Decisions(m)
    PROVE  k <= m
<1>1. m \in Nat \ {0} /\ k \in Nat \ {0}
  BY DecisionsAreSizes
<1>2. spec.min \in Nat /\ spec.max \in Nat \ {0}
  BY DEF Completed, CHPASpec
<1>3. CASE OutOfBounds(spec, n)
  <2>1. m = spec.max
    BY <1>2, <1>3 DEF Decisions, OutOfBounds, BoundsTarget
  <2>2. ~OutOfBounds(spec, m)
    BY <1>2, <2>1 DEF OutOfBounds
  <2>3. PICK q \in LoadProposals(m) : k = NormalizeDesired(spec, m, q)
    BY <2>2 DEF Decisions
  <2>4. q \in Nat
    BY <1>1, <2>3, ProposalsAreCounts
  <2>5. ScaleUpLimit(spec, m) \in Nat
    BY <1>1, ScaleUpLimitBounds
  <2> QED
    BY <1>1, <1>2, <2>1, <2>3, <2>4, <2>5
       DEF NormalizeDesired, MinAllowed, MaxAllowed, Smaller
<1>4. CASE ~OutOfBounds(spec, n)
  <2>1. PICK p \in LoadProposals(n) : m = NormalizeDesired(spec, n, p)
    BY <1>4 DEF Decisions
  <2>2. p \in Nat
    BY <2>1, ProposalsAreCounts
  <2>3. p <= m /\ ~OutOfBounds(spec, m)
    BY <1>4, <2>1, <2>2, LoweringProposal
  <2>4. n <= spec.max
    BY <1>2, <1>4 DEF OutOfBounds
  <2>5. PICK q \in LoadProposals(m) : k = NormalizeDesired(spec, m, q)
    BY <2>3 DEF Decisions
  <2>6. q \in Nat /\ q <= m
    BY <1>1, <2>1, <2>3, <2>4, <2>5, ProposalsAreCounts, ProposalsAfterLowering
  <2> QED
    BY <1>1, <2>3, <2>5, <2>6, NormalizedIsNoMore
<1> QED
  BY <1>3, <1>4

-------------------------------------------------------------------------------
\* The invariant holds initially.
LEMMA InitIInv == Init => IInv
<1> SUFFICES ASSUME Init PROVE IInv
  OBVIOUS
<1>1. PICK s \in Specs : spec = WithDefaults(s)
  BY DEF Init
<1>2. s \in CHPASpec
  BY LoadAssumption
<1>3. Completed(spec) /\ spec \in CHPASpec
  BY <1>1, <1>2, WithDefaultsCompletes
<1>4. TypeOK
  BY <1>3, LoadAssumption DEF Init, TypeOK
<1>5. LoweredIsEnough
  BY DEF Init, LoweredIsEnough
<1> QED
  BY <1>3, <1>4, <1>5 DEF IInv

\* A step keeps it.
LEMMA NextIInv == IInv /\ [Next]_vars => IInv'
<1> SUFFICES ASSUME IInv, [Next]_vars PROVE IInv'
  OBVIOUS
<1> USE DEF IInv
<1>1. CASE UNCHANGED vars
  BY <1>1 DEF vars, TypeOK, LoweredIsEnough, FineGrained, Decisions, LoadProposals
<1>2. CASE Step
  <2>1. /\ load' = load /\ metric' = metric /\ spec' = spec
        /\ replicas' \in Decisions(replicas)
        /\ lowered' = (lowered \/ replicas' < replicas)
    BY <1>2 DEF Step
  <2>2. replicas \in Nat \ {0} /\ replicas' \in Nat \ {0}
    BY <2>1, DecisionsAreSizes DEF TypeOK
  <2>3. TypeOK'
    BY <2>1, <2>2 DEF TypeOK
  <2>4. LoweredIsEnough'
    <3> SUFFICES ASSUME lowered', FineGrained, spec.min <= spec.max,
                        NEW k \in Decisions(replicas')
                 PROVE  k <= replicas'
      BY <2>1 DEF LoweredIsEnough, FineGrained, Decisions, LoadProposals
    <3>1. CASE replicas' < replicas
      BY <2>1, <2>2, <3>1, LoweringIsEnough
    <3>2. CASE ~(replicas' < replicas)
      <4>1. replicas' <= replicas
        BY <2>1, <3>2 DEF LoweredIsEnough
      <4>2. replicas' = replicas
        BY <2>2, <3>2, <4>1
      <4> QED
        BY <2>1, <3>2, <4>2 DEF LoweredIsEnough
    <3> QED
      BY <3>1, <3>2
  <2> QED
    BY <2>1, <2>3, <2>4
<1> QED
  BY <1>1, <1>2 DEF Next

\* Every size the loop comes to is a positive count.
THEOREM LoadTypeCorrect == Spec => []TypeOK
<1>1. IInv => TypeOK
  BY DEF IInv
<1> QED
  BY <1>1, InitIInv, NextIInv, PTL DEF Spec

\* The loop does not swing: for every load, target and spec with min <= max, no
\* decision raises the size once one has lowered it.
THEOREM NeverRegrowsSafe == Spec => NeverRegrows
<1>1. IInv /\ [Next]_vars =>
        [lowered /\ FineGrained /\ spec.min <= spec.max => replicas' <= replicas]_vars
  <2> SUFFICES ASSUME IInv, Step, lowered, FineGrained, spec.min <= spec.max
               PROVE  replicas' <= replicas
    BY DEF Next
  <2> QED
    BY DEF IInv, Step, LoweredIsEnough
<1> QED
  BY <1>1, InitIInv, NextIInv, PTL DEF Spec, NeverRegrows

-------------------------------------------------------------------------------
(* The load and the pods.                                                     *)

\* What LoadProposals leaves out is not missed: the calculator, given ready pods
\* that are all measured and share the load in whatever way, proposes just that.
THEOREM LoadIsShared ==
    ASSUME TypeOK, metric.kind = "pods",
           NEW P, IsFiniteSet(P), P # {},
           NEW samples \in [P -> Nat], SumFunction(samples) = load
    PROVE  LoadProposals(Cardinality(P)) =
             PlainReplicas(samples, Constant(P, "ready"), Cardinality(P), metric.target)
<1> DEFINE listed == Constant(P, "ready")
           n == Cardinality(P)
<1>1. /\ DOMAIN listed = P /\ In(listed, {"ready"}) = P
      /\ In(listed, {"unready", "failed"}) = {}
  BY DEF Constant, In
<1> HIDE DEF listed
<1>2. Usable(samples, listed) = samples
  <2>1. Restrict(samples, P) = samples
    BY DEF Restrict
  <2>2. DOMAIN samples \ In(listed, {"unready", "failed"}) = P
    BY <1>1
  <2> QED
    BY <2>1, <2>2 DEF Usable
<1>3. Missing(samples, listed) = {}
  BY <1>1 DEF Missing
<1>4. Average(samples) = load \div n
  BY DEF Average
<1>5. PlainReplicas(samples, listed, n, metric.target)
        = Propose(load \div n, metric.target, n, n)
  BY <1>1, <1>2, <1>3, <1>4 DEF PlainReplicas
<1> QED
  BY <1>5 DEF LoadProposals, listed

-------------------------------------------------------------------------------
(* Overload.                                                                  *)

\* More than a tenth and a unit per pod above the target, every proposal is for
\* more pods than there are.
LEMMA OverloadAsksForMore ==
    ASSUME TypeOK, NEW n \in Nat \ {0},
           10 * load >= 11 * metric.target * n + 10 * n,
           NEW p \in LoadProposals(n)
    PROVE  p \in Nat /\ p > n
<1> DEFINE t == metric.target
<1>1. load \in Nat /\ t \in Nat \ {0}
  BY LoadAssumption DEF TypeOK
<1> HIDE DEF t
<1>2. /\ t * n \in Nat
      /\ 11 * t * n = 11 * (t * n)
      /\ 10 * load >= 11 * (t * n) + 10 * n
  <2>1. 11 * t * n = 11 * (t * n) /\ t * n \in Nat
    BY <1>1
  <2> QED
    BY <2>1 DEF t
<1>3. CASE metric.kind = "pods"
  <2> DEFINE q == load \div n
             c == CeilDiv(q * n, t)
  <2>1. /\ q \in Nat /\ load < n * q + n /\ n * q \in Nat
    BY <1>1, DivBounds
  <2> HIDE DEF q
  <2>2. n * (11 * t) = 11 * (t * n) /\ n * (10 * q) = 10 * (n * q) /\ q * n = n * q
    BY <1>1, <2>1
  <2>3. n * (11 * t) < n * (10 * q)
    BY <1>1, <1>2, <2>1, <2>2
  <2>4. 11 * t < 10 * q
    BY <1>1, <2>1, <2>3, Cancel
  <2>5. /\ c \in Nat /\ t * c >= n * q
    BY <1>1, <2>1, <2>2, CeilDivBounds
  <2> HIDE DEF c
  <2>6. t * n < t * c
    BY <1>1, <1>2, <2>1, <2>2, <2>3, <2>5
  <2>7. n < c
    BY <1>1, <2>5, <2>6, Cancel
  <2>8. p \in Propose(q, t, n, n)
    BY <1>3 DEF LoadProposals, q, t
  <2>9. p \in Scaled(q, t, n)
    BY <1>1, <2>1, <2>4, <2>8 DEF Propose, WithinTolerance
  <2>10. p = c \/ p = c + 1
    BY <2>9 DEF Scaled, c
  <2> QED
    BY <2>5, <2>7, <2>10
<1>4. CASE metric.kind # "pods"
  <2> DEFINE c == CeilDiv(load, t)
  <2>0. c \in Nat /\ t * c >= load
    BY <1>1, CeilDivBounds
  <2>1. c \in Nat /\ t * c >= load /\ t * c \in Nat
    <3> HIDE DEF c
    <3> QED
      BY <1>1, <2>0
  <2>2. p \in PerPodReplicas(load, n, t)
    BY <1>4 DEF LoadProposals, t
  <2>3. ~WithinTolerance(load, t * n)
    BY <1>1, <1>2 DEF WithinTolerance
  <2>4. p = c
    BY <2>2, <2>3 DEF PerPodReplicas
  <2> HIDE DEF c
  <2>5. t * n < t * c
    BY <1>1, <1>2, <2>1
  <2>6. n < c
    BY <1>1, <2>1, <2>5, Cancel
  <2> QED
    BY <2>1, <2>4, <2>6
<1> QED
  BY <1>3, <1>4

\* A size below the maximum that the scale-up limit lets grow does grow when
\* more is asked for.
LEMMA NormalizedIsMore ==
    ASSUME Completed(spec), NEW n \in Nat \ {0}, ~OutOfBounds(spec, n), n < spec.max,
           spec.floor > n \/ (spec.factor2 - 2) * n >= 2,
           NEW p \in Nat, p > n
    PROVE  NormalizeDesired(spec, n, p) > n
<1>1. /\ spec.min \in Nat /\ spec.max \in Nat \ {0} /\ spec.min <= n
      /\ spec.factor2 \in Nat /\ spec.factor2 >= 2 /\ spec.floor \in Nat
  BY DEF Completed, CHPASpec, OutOfBounds
<1>2. ScaleUpLimit(spec, n) \in Nat /\ ScaleUpLimit(spec, n) > n
  <2> DEFINE f == spec.factor2
             h == (f * n) \div 2
  <2>1. f \in Nat /\ f * n \in Nat /\ (f - 2) * n = f * n - 2 * n
    BY <1>1
  <2>2. h \in Nat /\ f * n < 2 * h + 2
    BY <2>1, DivBounds
  <2>3. (f - 2) * n >= 2 => h > n
    BY <2>1, <2>2
  <2> HIDE DEF h
  <2>4. ScaleUpLimit(spec, n) = Larger(h, spec.floor)
    BY DEF ScaleUpLimit, h
  <2> QED
    BY <1>1, <2>2, <2>3, <2>4 DEF Larger
<1> QED
  BY <1>1, <1>2 DEF NormalizeDesired, MinAllowed, MaxAllowed, Smaller

\* An overloaded Deployment that may grow does grow, whatever the load, the
\* target and the spec: neither tolerance nor rounding holds it where it is.
THEOREM OverloadAnswered == Spec => []OverloadIsAnswered
<1>1. IInv => OverloadIsAnswered
  <2> SUFFICES ASSUME IInv, replicas < spec.max,
                      spec.floor > replicas \/ (spec.factor2 - 2) * replicas >= 2,
                      10 * load >= 11 * metric.target * replicas + 10 * replicas,
                      NEW n \in Decisions(replicas)
               PROVE  n > replicas
    BY DEF OverloadIsAnswered
  <2>1. TypeOK /\ Completed(spec) /\ replicas \in Nat \ {0}
    BY DEF IInv, TypeOK
  <2>2. CASE OutOfBounds(spec, replicas)
    <3>1. spec.min \in Nat /\ spec.max \in Nat
      BY <2>1 DEF Completed, CHPASpec
    <3> QED
      BY <2>1, <2>2, <3>1 DEF Decisions, OutOfBounds, BoundsTarget
  <2>3. CASE ~OutOfBounds(spec, replicas)
    <3>1. PICK p \in LoadProposals(replicas) : n = NormalizeDesired(spec, replicas, p)
      BY <2>3 DEF Decisions
    <3>2. p \in Nat /\ p > replicas
      BY <2>1, OverloadAsksForMore
    <3> QED
      BY <2>1, <2>3, <3>1, <3>2, NormalizedIsMore
  <2> QED
    BY <2>2, <2>3
<1> QED
  BY <1>1, InitIInv, NextIInv, PTL DEF Spec

===============================================================================
