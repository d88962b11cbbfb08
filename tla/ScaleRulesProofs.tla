--------------------------- MODULE ScaleRulesProofs ---------------------------
(* Facts about the arithmetic of ScaleRules, for every spec and every count. *)
EXTENDS ScaleRules, TLAPS

\* setCHPADefaults completes every spec the CRD admits, and leaves the rest of
\* it alone.
LEMMA WithDefaultsCompletes ==
    ASSUME NEW spec \in CHPASpec
    PROVE  /\ Completed(WithDefaults(spec))
           /\ WithDefaults(spec) \in CHPASpec
           /\ WithDefaults(spec).min = spec.min
           /\ WithDefaults(spec).max = spec.max
  <1> DEFINE d == WithDefaults(spec)
  <1>1. /\ OrDefault(spec.down, defaultDownscaleForbiddenWindow) \in Nat \ {0}
        /\ OrDefault(spec.up, defaultUpscaleForbiddenWindow) \in Nat \ {0}
        /\ OrDefault(spec.factor2, 4) \in {n \in Nat : n >= 2}
        /\ OrDefault(spec.floor, 4) \in Nat \ {0}
        /\ OrDefault(spec.tolerance, 10) \in Nat
    BY DefaultWindowsAssumption DEF OrDefault, CHPASpec
  <1>2. /\ d.down \in Nat \ {0} /\ d.up \in Nat \ {0}
        /\ d.factor2 \in {n \in Nat : n >= 2} /\ d.floor \in Nat \ {0}
        /\ d.min = spec.min /\ d.max = spec.max
    BY <1>1 DEF WithDefaults, CHPASpec
  <1>3. d \in CHPASpec
    BY <1>1 DEF WithDefaults, CHPASpec
  <1> QED
    BY <1>2, <1>3 DEF Completed

\* The truncated product with a factor counted in halves is a count, and no
\* less than the size when the factor is at least 1.
LEMMA HalfOfProduct ==
    ASSUME NEW n \in Nat, NEW f \in Nat
    PROVE  /\ (f * n) \div 2 \in Nat
           /\ f >= 2 => (f * n) \div 2 >= n
  <1>1. f * n \in Nat
    OBVIOUS
  <1>2. \A k \in Nat : k \div 2 \in Nat /\ 2 * (k \div 2) <= k /\ k <= 2 * (k \div 2) + 1
    OBVIOUS
  <1>3. ASSUME f >= 2 PROVE f * n >= 2 * n
    <2>1. f - 2 \in Nat
      BY <1>3
    <2>2. (f - 2) * n \in Nat
      BY <2>1
    <2>3. (f - 2) * n = f * n - 2 * n
      BY <2>1
    <2> QED
      BY <2>2, <2>3, <1>1
  <1> QED
    BY <1>1, <1>2, <1>3

\* ScaleUpLimit = max(ScaleUpLimitMinimum, ScaleUpLimitFactor * currentReplicas)
\* is never below the current count, since the factor is at least 1.
LEMMA ScaleUpLimitBounds ==
    ASSUME NEW spec, Completed(spec), NEW current \in Nat
    PROVE  /\ ScaleUpLimit(spec, current) \in Nat
           /\ ScaleUpLimit(spec, current) >= current
           /\ ScaleUpLimit(spec, current) >= 1
  <1>1. spec.factor2 \in Nat /\ spec.factor2 >= 2 /\ spec.floor \in Nat /\ spec.floor >= 1
    BY DEF Completed, CHPASpec
  <1>2. /\ (spec.factor2 * current) \div 2 \in Nat
        /\ (spec.factor2 * current) \div 2 >= current
    BY <1>1, HalfOfProduct
  <1> QED
    BY <1>1, <1>2 DEF ScaleUpLimit, Larger

\* normalizeDesiredReplicas returns a positive count, whatever the bounds.
LEMMA NormalizedIsPositive ==
    ASSUME NEW spec, Completed(spec), NEW current \in Nat, NEW desired \in Int
    PROVE  NormalizeDesired(spec, current, desired) \in Nat \ {0}
  <1>1. spec.min \in Nat /\ spec.max \in Nat \ {0}
    BY DEF Completed, CHPASpec
  <1>2. ScaleUpLimit(spec, current) \in Nat /\ ScaleUpLimit(spec, current) >= 1
    BY ScaleUpLimitBounds
  <1> QED
    BY <1>1, <1>2 DEF NormalizeDesired, MinAllowed, MaxAllowed, Smaller

\* Whatever the metrics propose, be it the outcome of an undefined conversion of
\* a ratio, a count that was within its bounds is sent to a count within them
\* that the scale-up limit allows.
THEOREM NormalizedWithinLimits ==
    ASSUME NEW spec, Completed(spec), spec.min <= spec.max,
           NEW current \in Nat, ~OutOfBounds(spec, current),
           NEW desired \in Int
    PROVE  WithinLimits(spec, current, NormalizeDesired(spec, current, desired))
  <1>1. /\ spec.min \in Nat /\ spec.max \in Nat \ {0}
        /\ current # 0 /\ spec.min <= current /\ current <= spec.max
    BY DEF Completed, CHPASpec, OutOfBounds
  <1>2. /\ ScaleUpLimit(spec, current) \in Nat
        /\ ScaleUpLimit(spec, current) >= current
    BY ScaleUpLimitBounds
  <1> QED
    BY <1>1, <1>2
       DEF WithinLimits, NormalizeDesired, MinAllowed, MaxAllowed, Smaller, Larger

\* The branches that look at no metric stay within the limits as well.
THEOREM BoundsWithinLimits ==
    ASSUME NEW spec, Completed(spec), spec.min <= spec.max,
           NEW current \in Nat, OutOfBounds(spec, current)
    PROVE  WithinLimits(spec, current, BoundsTarget(spec, current))
  <1>1. spec.min \in Nat /\ spec.max \in Nat \ {0}
    BY DEF Completed, CHPASpec
  <1>2. /\ ScaleUpLimit(spec, current) \in Nat
        /\ ScaleUpLimit(spec, current) >= current
    BY ScaleUpLimitBounds
  <1> QED
    BY <1>1, <1>2 DEF WithinLimits, OutOfBounds, BoundsTarget, MinAllowed, Larger

\* Correcting a size against the bounds never asks for 0.
LEMMA BoundsTargetIsPositive ==
    ASSUME NEW spec, Completed(spec), NEW current \in Nat
    PROVE  BoundsTarget(spec, current) \in Nat \ {0}
  BY DEF Completed, CHPASpec, BoundsTarget

===============================================================================
