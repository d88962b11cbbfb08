------------------------------ MODULE ScaleRules ------------------------------
(***************************************************************************)
(* The arithmetic of one scaling decision of the CHPA controller           *)
(* (src/pkg/controller/chpa/chpa_controller.go): the defaults a spec is    *)
(* completed with, the bounds and the scale-up limit a proposal is pushed  *)
(* into, and the forbidden windows that hold a rescale back.  No state.    *)
(*                                                                         *)
(* Units.  A spec's windows, and every time, are counted in ticks (the     *)
(* modules that use this one choose what a tick is); ScaleUpLimitFactor is *)
(* counted in halves (factor2 = 3 is 1.5), because a multiple of 1/2 times *)
(* a replica count is exact in float64, so the truncation in               *)
(* calculateScaleUpLimit is \div; Tolerance is counted in hundredths.      *)
(* As in the Go struct, 0 in an optional field means "not set"; the CRD    *)
(* (src/config/crds/autoscalers_v1beta1_chpa.yaml) accepts no explicit 0,  *)
(* and minReplicas = nil behaves as 0 everywhere.                          *)
(***************************************************************************)
EXTENDS Integers

CONSTANTS
    defaultDownscaleForbiddenWindow,  \* 300 s in the code, in ticks here
    defaultUpscaleForbiddenWindow

ASSUME DefaultWindowsAssumption ==
    /\ defaultDownscaleForbiddenWindow \in Nat \ {0}
    /\ defaultUpscaleForbiddenWindow \in Nat \ {0}

\* A time that was never set: nil LastScaleTime, no pending timer.
Never == -1

Times == Nat \cup {Never}

\* What the CRD validation lets into the API server.  valid abstracts
\* scaleTargetRef.kind and the metric sources: the answer of
\* checkCHPAValidity.
CHPASpec == [valid : BOOLEAN,
             min : Nat, max : Nat \ {0},
             down : Nat, up : Nat,
             factor2 : {0} \cup {n \in Nat : n >= 2}, floor : Nat,
             tolerance : Nat]

Larger(a, b) == IF a >= b THEN a ELSE b

Smaller(a, b) == IF a <= b THEN a ELSE b

-------------------------------------------------------------------------------
\* setCHPADefaults: ScaleUpLimitFactor 2.0, ScaleUpLimitMinimum 4, Tolerance 0.1
OrDefault(value, default) == IF value = 0 THEN default ELSE value

\* Mutant: a default factor the CRD validation refuses.
WithRefusedDefaults(spec) ==
    [spec EXCEPT !.down = OrDefault(@, defaultDownscaleForbiddenWindow),
                 !.up = OrDefault(@, defaultUpscaleForbiddenWindow),
                 !.factor2 = OrDefault(@, 1),
                 !.floor = OrDefault(@, 4),
                 !.tolerance = OrDefault(@, 10)]

WithDefaults(spec) ==
    [spec EXCEPT !.down = OrDefault(@, defaultDownscaleForbiddenWindow),
                 !.up = OrDefault(@, defaultUpscaleForbiddenWindow),
                 !.factor2 = OrDefault(@, 4),
                 !.floor = OrDefault(@, 4),
                 !.tolerance = OrDefault(@, 10)]

\* Mutant: the smaller of the two limits.
ScaleUpLimitSmaller(spec, current) ==
    Smaller((spec.factor2 * current) \div 2, spec.floor)

\* calculateScaleUpLimit
ScaleUpLimit(spec, current) == Larger((spec.factor2 * current) \div 2, spec.floor)

\* Mutant: an unset minimum lets the size drop to 0.
MinAllowedAsIs(spec) == spec.min

MinAllowed(spec) == IF spec.min = 0 THEN 1 ELSE spec.min

MaxAllowed(spec, current) == Smaller(spec.max, ScaleUpLimit(spec, current))

\* Mutant: the scale-up limit is forgotten.
NormalizeByBoundsOnly(spec, current, desired) ==
    IF desired < MinAllowed(spec) THEN MinAllowed(spec)
    ELSE Smaller(desired, spec.max)

\* Mutant: the maximum is left to the next reconcile.
NormalizeByRateOnly(spec, current, desired) ==
    IF desired < MinAllowed(spec) THEN MinAllowed(spec)
    ELSE Smaller(desired, ScaleUpLimit(spec, current))

\* convertDesiredReplicasWithRules: the lower bound is tested first, so it
\* wins when it lies above the upper one.
NormalizeDesired(spec, current, desired) ==
    IF desired < MinAllowed(spec) THEN MinAllowed(spec)
    ELSE Smaller(desired, MaxAllowed(spec, current))

-------------------------------------------------------------------------------
\* The three branches of reconcileCHPA that look at no metric: more pods than
\* max, fewer than min, or none at all.
OutOfBounds(spec, current) ==
    \/ current > spec.max
    \/ current < spec.min
    \/ current = 0

BoundsTarget(spec, current) ==
    IF current > spec.max THEN spec.max
    ELSE IF current < spec.min THEN spec.min
    ELSE 1

\* LastScaleTime.Add(window).Before(timestamp)
WindowPassed(last, window, timestamp) == last + window < timestamp

\* Mutant: either window lets a rescale pass.
ShouldScaleByEitherWindow(spec, last, current, desired, timestamp) ==
    /\ desired # current
    /\ \/ last = Never
       \/ WindowPassed(last, spec.down, timestamp)
       \/ WindowPassed(last, spec.up, timestamp)

\* shouldScale
ShouldScale(spec, last, current, desired, timestamp) ==
    /\ desired # current
    /\ \/ last = Never
       \/ desired < current /\ WindowPassed(last, spec.down, timestamp)
       \/ desired > current /\ WindowPassed(last, spec.up, timestamp)

-------------------------------------------------------------------------------
\* A spec completed by setCHPADefaults: no optional number is left unset.
Completed(spec) ==
    /\ spec \in CHPASpec
    /\ spec.factor2 >= 2 /\ spec.floor >= 1
    /\ spec.down >= 1 /\ spec.up >= 1

\* What a write of the Deployment must respect, as the documents have it: the
\* spec's bounds, and the scale-up limit unless the lower bound lies above it.
WithinLimits(spec, current, target) ==
    /\ target \in MinAllowed(spec)..spec.max
    /\ target <= Larger(MinAllowed(spec), ScaleUpLimit(spec, current))

===============================================================================
