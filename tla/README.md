# Verification of the configurable HPA controller

TLA+ models of the CHPA controller: a Kubernetes controller that, every
`syncPeriod`, computes from metrics how many replicas a Deployment should have
and, within per-object limits on speed, writes that number. TLC checks the
models on small instances; TLAPS proves the safety properties that hold, all of
them, for every value of their constants.

Paths are relative to the repository. `chpa_controller.go` and
`replica_calculator.go` are those of `src/pkg/controller/chpa/`.

## The system

| Component | State | Operations | Interacts with |
|---|---|---|---|
| Control loop (`chpa_controller.go`: `Reconcile`, `reconcileCHPA`) | none of its own between reconciles; the CHPA status (`LastScaleTime`, `CurrentReplicas`, `DesiredReplicas`, conditions) is its memory, and lives in the API server | read CHPA and Deployment from the informer caches, default and validate the spec, decide, write the Deployment, write the CHPA | API server (two optimistic writes), informers (two cached reads), work queue, calculator |
| Scaling rules (`setCHPADefaults`, `normalizeDesiredReplicas`, `calculateScaleUpLimit`, `shouldScale`) | none | bounds, scale-up limit, forbidden windows | called by the loop |
| Replica calculator (`replica_calculator.go`, `computeReplicasForMetrics`) | none; one computation holds samples, pod lists and the best proposal so far | fetch samples, list pods, correct for unready and missing ones, propose, merge | metrics API, pods API |
| Work queue and informers (vendored controller-runtime and client-go) | dirty and processing sets, delaying heap, object stores | add, add after, get, done; deliver events | calls `Reconcile`, filtered by `updatePredicate` |
| Status conditions and events (`setCondition`) | conditions in the status | set a condition, emit an event | written with the status |
| API types, CRD validation (`src/pkg/apis`, `src/config/crds`) | the objects | validate, default | API server |
| Manager bootstrap (`src/cmd/manager/main.go`) | process | start, exit on error; no leader election | everything |
| Metrics client (vendored `podautoscaler/metrics`) | none | requests, averages, utilization | metrics API |

What is hard about it:

* **Interleaving.** A reconcile is at least four calls. Users edit the CHPA or
  scale the Deployment, the deployment controller moves `status.replicas`, pods
  fail, and, during a rollout, a second process reconciles the same object,
  between any two of them.
* **Stale reads.** Both objects come from informer caches that lag, and the
  metrics, the pod list and `status.replicas` are of three different moments.
* **Partial failure.** The rescale and the record of it (`LastScaleTime`) are two
  writes; the error of the second is dropped. A write may be applied and its
  answer lost; the process may stop in between.
* **Time.** The windows compare a stored time, a metric's own timestamp and the
  clock.
* **Convergence.** Bounds, scale-up limit, windows, tolerance and rounding act
  together over many reconciles.

What makes each part correct: the loop never writes a Deployment it should not
(disabled, owned by another, changed since), never writes a size outside the
limits, never takes back a user's edit, never records a rescale that did not
happen or forgets a CHPA, honours the windows, and settles; all its steps and
failures together amount to atomic decisions on the Deployment as it is; the
conditions it leaves behind are true and its in-place changes stay its own; the
rules always yield a size within the limits; the calculator never turns the
direction the load asks for and picks the largest proposal in any order; the
loop of both comes to rest under a constant load.

## Modules

| Module | Contents |
|---|---|
| `ScaleRules` | pure: `CHPASpec`, `WithDefaults`, `ScaleUpLimit`, `NormalizeDesired`, `OutOfBounds`/`BoundsTarget`, `ShouldScale` |
| `ChpaController` | the control loop, its queue, informers and environment as a state machine; extends `ScaleRules` |
| `ChpaProperties` | its properties, and the conjuncts of its inductive invariant |
| `AtomicScaler` | the abstract specification of the loop: one atomic rescale at a time, no caches, queues or failures |
| `StatusConditions` | the conditions, metrics and times a reconcile leaves in the status, with the arrays they are kept in, and the properties of them; extends `ScaleRules` |
| `ReplicaRules` | pure: one metric turned into the set of its possible proposals |
| `ReplicaCalculator` | one run of `computeReplicasForMetrics` with the cluster changing under it; extends `ReplicaRules` |
| `CalculatorProperties` | its properties |
| `ConstantLoad` | composes `ReplicaRules` and `ScaleRules` into the closed loop under a constant load |
| `MC*` | the constants of the instances TLC checks |
| `*Proofs` | the theorems |

Operators whose comment begins with *Mutant:* are deliberately wrong variants of
the definition that follows them; no specification uses them. Each property has
one that it is known to catch (PROJECT.json, "mutants").

### ChpaController and the code

One CHPA object (`chpa`) and one Deployment (`dep`) are in the API server, each
with a resourceVersion `rv`. Each process of `Controllers` has informer copies
of both (`cache`), a work queue with one entry (`queue`: is it ready, when does
its timer add it again) and the reconcile in progress (`worker`).

| Action | Code |
|---|---|
| `StopReconcile`, `RepeatReconcile`, `ReadFails` | the early returns of `Reconcile`, `:173-212` |
| `StartReconcile` | both Gets, `setCHPADefaults`, `SetControllerReference`, and `time.Now()` of `reconcileCHPA`: the reconcile now works on copies |
| `SkipDisabled`, `CorrectBounds`, `FollowMetrics`, `MetricsFail` | the branches of `:250-321`; the proposal is any member of `Proposals`, its timestamp at most `MetricLag` old |
| `Rescale`, `ScaleRefused`, `ScaleLost`, `ScaleUnacknowledged` | `r.Update(deploy)`, `:323-339`: accepted, refused for its rv, lost, or applied with its answer lost |
| `StatusWritten`, `StatusSkipped`, `StatusRefused`, `StatusLost` | `updateStatusIfNeeded` at `:268`, `:329` and `:346`, all with the same effect, and the return of `resRepeat` |
| `TimerFires` | the delaying queue |
| `SyncChpa`, `SyncDep` | the informers, the one of the CHPA with `updatePredicate` |
| `Crash` | the process stops and a new one takes its place |
| `PodsFollow`, `EditSpec`, `ScaleDeployment`, `TakeOver`, `Delete*`, `Create*`, `Tick` | the deployment controller, users, the clock |

The reads of CHPA and Deployment are one step: both come from memory, and each
copy may be arbitrarily old anyway. The status write writes the whole object,
because the CRD has no status subresource. Conditions and `CurrentMetrics` are
not kept here (they are in `StatusConditions`), so `StatusWritten` is possible
even when the three fields kept are unchanged. `Rescale` applies the update and
takes the time of `LastScaleTime` in one step; the code reads the clock after the
answer (`:368`), so its time may be later than the write by the length of a call,
which is less than a tick. A proposal is any integer: what
`int32` makes of an infinite ratio (a target of 0) or of one too large is
undefined, so `Proposals` of the runs contains a negative number.

### AtomicScaler, and how the loop implements it

`AtomicScaler` says what the loop is for, in terms of the Deployment alone: a
`Rescale` looks at `status.replicas` as it is, at the windows against the
`LastScaleTime` the API server holds, and writes `spec.replicas`, all at once.
It grants the implementation two kinds of lateness only: a rescale may be
recorded late or never (`Record` is a separate step), and an edit of the CHPA may
come into force one rescale late (`known` against `wanted`). It states the
windows itself rather than through `ShouldScale`.

`ScalesAtomically` (in `ChpaProperties`) is `AtomicScaler`'s specification under
this mapping:

| `AtomicScaler` | `ChpaController` |
|---|---|
| `wanted` | `SpecInForce`: the completed spec of the CHPA, if it is there and valid |
| `known` | `SpecActedOn`: the spec the reconcile in progress has read, otherwise `SpecInForce` |
| `live`, `foreign`, `size`, `pods` | existence, owner, `spec.replicas`, `status.replicas` of `dep` |
| `rescaled` | `history.rescaled` |
| `recorded` | `chpa.status.last` |

`Rescale` and `ScaleUnacknowledged` map to `Rescale`, a `StatusWritten` after
them to `Record`, the end of a reconcile whose CHPA was edited meanwhile to
`Learn`, users and clock to themselves, everything else to stuttering.
It holds for one process whose informers show the current objects when a
reconcile starts. With a cache that does not show the last status write yet, the
Deployment's cache would have to be just as old for its write to be refused, and
nothing in the code ties the one to the other; with two processes, one may
rescale on a status the other is about to write.

### StatusConditions and the code

One process, one CHPA whose Deployment exists and may be of any size each time
it is read. `chpa` is the object in the API server, `cache` the informer's copy,
`worker` the reconcile in progress with its two copies of the status: `status`,
which becomes the new one, and `original`, which `updateStatusIfNeeded` compares
it with. A status holds a *reference* to its conditions: `heap` maps the three
arrays (`store`, `chpa`, `original`) to their contents, because
`setConditionInList` changes elements in place and `DeepCopy` is what keeps the
arrays apart.

| Action | Code |
|---|---|
| `Stop` | `FailedSpecCheck` and `resStop`, `:185-194` |
| `Read` | the copies and `SucceededGetScale`, `:231-237` |
| `Disabled`, `CorrectBounds`, `FollowMetrics`, `MetricsFail` | the branches of `:250-321` with `ScalingActive`, `ScalingLimited` and the back-off reasons; all causes of `ScalingActive=False` in `computeReplicasForMetrics` are `FailedGetMetric` |
| `Rescale`, `ScaleFails` | `:323-339`: `SucceededRescale` with `LastScaleTime`, or `FailedUpdateScale` |
| `Skipped`, `Written`, `NotWritten` | `updateStatusIfNeeded`: nothing new, accepted, refused or lost |
| `Sync`, `Edit`, `Tick` | informer and `updatePredicate`, a user, the clock |

Times slide: `now` is always `Horizon`, and a tick makes each stored time one
older until it is 0, "long ago"; `StatusAssumption` has `Horizon` above every
window plus the metric lag, so times are told apart as far as a window can.
A condition's transition time is kept as "in this tick" or "before". This makes
the state space finite without stopping the clock, which liveness needs. A
reconcile takes less than a tick. Of a resourceVersion it keeps whether a copy
is current. Stopping and restarting is not in this module: a reconcile that is
cut short leaves what `NotWritten` leaves.

### ReplicaRules, ReplicaCalculator and the code

A pod is ready, unready or failed, has a sample or has none, and a sample may
outlive its pod. `Fetch` takes the samples, `List` lists the pods and merges the
proposal, and pods and samples may change between them (`MaxChanges`). Ratios
are kept as pairs of integers. Where `float64` matters it is modelled by what it
does: `WithinTolerance` includes its lower end and excludes its upper one, as
`1 - 0.9 <= 0.1` and `1.1 - 1 > 0.1` in float64, and `Scaled` is the set of results
`math.Ceil` of the rounded product may have. Both were compared with IEEE
doubles for all ratios of values below 600 and targets below 400. `GetObjectMetricReplicas` and
`GetExternalMetricReplicas` are one kind of metric, `total`; `GetMetricReplicas`
and `GetRawResourceReplicas` another, `pods`.

### ConstantLoad and the code

One step is `reconcileCHPA` with one metric, after the windows have passed and
the pods have followed the previous step; all pods are ready and measured, and
share `load`.

## Runs

| Run | Question | Result |
|---|---|---|
| `core` | one process, all six kinds of fault, users editing and scaling: does it implement `AtomicScaler`, and is what it records true? | holds |
| `two` | two processes at once, lagging caches, all user operations, invalid specs, the CHPA and the Deployment replaced | holds |
| `settle` | liveness: a constant demand is met, with one fault | holds |
| `calculator` | three pods in every condition, one change during the computation, every metric kind | holds |
| `constant_load` | loads 0 to 450, three targets, four specs, sizes 1 to 14: growth, no swings, and rest | holds |
| `conditions` | every branch of a reconcile, its failures, lagging caches, edits: is the status true, and does back-off end in it? | holds |
| `edit_race` | does the upscale window hold while users edit? | **violated** |
| `slow_pods` | does the downscale window hold while pods start? | **violated** |
| `crossed` | does every ScaleUp wait for the window, if `minReplicas > maxReplicas` is not refused? | **violated** |
| `at_target` | do pods exactly at a plain metric's target keep the size? | **violated** |
| `stale_samples` | is the size counted over the pods considered? | **violated** |
| `invalid_spec` | does a CHPA whose spec is invalid come to say so? | **violated** |

What each property says stands as a comment above it. The violations:

* `edit_race`. A user edits the CHPA after the reconcile read it. The Deployment
  is rescaled, the status write is refused for its resourceVersion, `:346` drops
  the error, and `LastScaleTime` is lost: the next reconcile scales up again at
  once. `ScalesAtomically` shows what does hold: the windows are respected
  against the time that *is* recorded.
* `slow_pods`. Direction is judged against `status.replicas`. While pods start, a
  target between `status.replicas` and `spec.replicas` counts as an upscale, and
  lowers `spec.replicas` after the upscale window only.
* `crossed`. Neither the CRD nor `checkCHPAValidity` compares `minReplicas` with
  `maxReplicas`, although the types these fields come from
  (`src/vendor/k8s.io/api/autoscaling/v1/types.go:44`, named at
  `chpa_types.go:57`) say that the maximum "cannot be smaller". With 3 and 2 every
  reconcile corrects the size to the bound the last one left. The branches that
  do so look at no window, so a ScaleUp follows a ScaleUp inside the window that
  README.md:64-65 promises. The properties of the other runs state `min <= max`
  where they need it.
* `at_target`. `calcPlainMetricReplicas` takes a ratio of exactly 1 for a
  scale-up when pods miss a sample, so two pods of which the one measured is at
  its target become one. `GetResourceReplicas` treats the same case as no change.
* `stale_samples`. `GetResourceReplicas` counts samples of pods that are gone as
  replicas, after leaving them out of the utilization.
* `invalid_spec`. Reconcile sets `FailedSpecCheck` on its copy of the CHPA and
  stops (`:192-193`) without a status write, so the condition never reaches the
  API server: the conditions, which README.md:147 names as the place to look, stay
  those of the last valid spec. An event is sent. `InvalidSpecTold` asks it of a
  CHPA that stays invalid while nothing else happens.

Four more things the documents and the code disagree on, or do not speak of, show
without a run. `spec.tolerance` is read nowhere: `newReconciler` (`:95`) gives the
calculator `defaultTolerance`, whatever README.md:80-86 says. `AbleToScale` is set
to True at the start of every reconcile (`:237`) and to False again when its update
fails or a window still runs; both flips are stamped, so a condition that has been
False for many periods is written with a new `lastTransitionTime` in each, against
`autoscaling/v2beta1/types.go:233-234` (`QuietWhenAble` states the half that
holds). The bounds branches write a size the Deployment may already have, and move
`LastScaleTime` on with it, so while pods do not follow the windows begin anew in
every period. And for a plain metric a sample of a pod that is gone is enough for a
proposal, although no ready pod is measured (`ResourceNeedsReadyPod` is true of
resources only).

### Bounds, and why they are enough

A tick stands for one sync period; windows are 1, 2 and 5 ticks, sizes up to 5.

* `MaxTime` stops the clock. In `core` three ticks are a rescale, a window of one
  tick and a rescale after it; `two` needs one only, as what it is about happens
  between the steps of overlapping reconciles; `settle` has nine, in which every
  behaviour of the instance has settled long before the end. At the horizon the
  model only stutters on (`Horizon`), so a missing step before it still shows as a
  deadlock.
* `MaxUserOps` and `MaxFaults`, one or two. Each refused or lost write, and each
  object that changed, already shows with one; replacing an object takes two.
* `Prompt` names what is quicker than a tick. It is empty in `two`; `core` starts
  reconciles on current caches, because `ScalesAtomically` is true only then.
* `two` uses the symmetry of the two processes, which run the same program; all
  its properties are safety properties.
* `conditions`: windows of two ticks and one, a metric lag of one, `Horizon` 4; the
  Deployment is disabled or not, within its bounds or above them; two proposals,
  one of them wanting none. Time has no end in it.
* `MaxChanges` is one: a change either lies between `Fetch` and `List` or does not.
* `Scaled` and the integers are unbounded, and the calculator's instances exclude
  targets of 0; what comes of either in an `int32` is the negative proposal of
  `core`.

### Fairness

`FairSpec` assumes weak fairness of each worker's next step, of a due timer, of
each informer, of the deployment controller and of the clock. The code justifies
them: the worker goroutine loops on its queue without priorities, the delaying
queue wakes for each due entry (and every 10 s), informers watch and resync, and
the deployment controller is eventually consistent. No fairness is assumed of
faults or users. `Settles` needs `Prompt`, so that a bounded clock does not run
out before the processes have done anything: the property is about what the loop
does with enough time, not about how fast it is.

`StatusConditions` assumes the same of worker, informer and clock. Success and
failure of a call are alternatives of one fair step, so fairness never makes a
call succeed: `AbleAgain` states as its precondition that from some moment on no
call fails and the user leaves the CHPA alone, and so does `InvalidSpecTold`, which
is violated all the same. `ConstantLoad` assumes that `Step`
comes again and again, as the request is put back after each reconcile.

## Theorems

All are proved by TLAPS for every value of the constants that meets
`ControllerAssumption`, `DefaultWindowsAssumption`, `CalculatorAssumption`,
`LoadAssumption` and `StatusAssumption` (which TLC evaluates in the runs): any
number of processes, any specs the CRD admits with a `ScaleUpLimitFactor` that is a
multiple of 1/2 (others may truncate differently in float64), any proposals, any lag, any number
of faults and user operations, any finite set of pods, no bound on time.

*Control loop* (`ChpaControllerProofs`). The safety properties are not inductive.
They rest on one fact, `CopiesAreVersions`: whatever an informer or a reconcile
holds is a version of the object in the API server, never newer, and the object
itself (apart from the defaults or the owner filled in) if the versions are
equal. It needs `TypeOK` only. With it, a write the API server accepts was
decided on exactly what it overwrites, and this turns facts about decisions into
facts about writes:

* `TypeOK`, then `CopiesAreVersions` (`CopiesFromStep`: where a copy comes from;
  `EveryStepMoves`: no object changes under its version);
* `DecisionsSound`, from the arithmetic of `ScaleRulesProofs`
  (`NormalizedWithinLimits`, `BoundsWithinLimits`);
* `NeverWakesNorDisables`, `WritesWithinLimits`, `NeverWritesOthers`,
  `UserSpecPreserved`, from both;
* `TimesOrdered`, then `NoPhantomScale` and, with the versions,
  `LastScaleTimeMonotone`;
* `NeverForgotten`, which is inductive over `TypeOK`, with a process at a time.

*Arithmetic of the calculator* (`ReplicaRulesProofs`).
`ProposeKeepsDirection` and `ProposeCorrectedKeepsDirection`: for every value,
target and count a proposal lies on the side of the current size that the ratio
asks for, rounding, tolerance and float slack included. `PlainKeepsDirection` and
`ResourceKeepsDirection` say it of whole computations, for every finite set of
pods, whichever are starting, failed or not measured: pods above the target never
lose replicas if the list holds the current ones, pods below it never gain any if
the samples are of listed pods. They need to know of averages and utilizations
that they are counts, so of `SumFunction` that a finite sum of naturals is a
natural, and 0 only if all of them are (`SumFacts`). `SumFunction` is defined by a
recursion over finite sets; the library's induction theorems are of no use here
(see below), but its well-foundedness of inclusion is: a set of subsets has a least
member (`LeastSubset`), so one of counterexamples is empty. `SumsExist` shows in
this way that the recursion has a solution, `SumFacts` what it yields.

*Calculator* (`CalculatorProofs`), for every finite set of pods, list of metrics,
samples and requests, and any number of changes. The inductive invariant `IInv` has
`TypeOK`, `LargestWins`, `DirectionKept` and what they need of the round:
`Progress` (one proposal for each metric worked through), `WinnerProposed` (the
winner is one of the proposals) and `Undisturbed` (as long as nothing changes, the
size and the samples fetched are those there are). `CalculatorAssumption` has the
pods finite, as the lists of an API are. `ResourceNeedsReadyPod` needs `TypeOK`
only, as it must hold whatever changes between `Fetch` and `List`.

*Closed loop* (`ConstantLoadProofs`). `NeverRegrows` is strengthened to
`LoweredIsEnough`: from a size a decision has lowered to, every decision keeps or
lowers it. It takes `FineGrained`: per-pod averages are truncated to milli units,
and a share of less than ten of them could lose more than the tolerance.
`LoweredAverage` is the arithmetic core, `LoweringIsEnough` the step.
`OverloadAnswered` shows that the loop does not stop short either: beyond the
tolerance the metric asks for more pods than there are (`OverloadAsksForMore`), and
the normalization keeps that where the limits leave room (`NormalizedIsMore`).
The module keeps a load and a size where the calculator sees pods and samples;
`LoadIsShared` shows that nothing is lost by it: however ready and measured pods
share the load, `PlainReplicas` proposes what `LoadProposals` does.

*Refinement* (`AtomicScalerProofs`). `ScalesAtomicallySafe` proves that the loop
implements `AtomicScaler`, for a process `c` with `Alone(c)`: it is the only one,
and its reconciles start on current caches. Nothing else is bounded. Initial
states map to initial states (`RefinesInit`), and each step to a step or a stutter
(`RefinesNext`). Besides the versions and times above it takes one more invariant,
`ReconcileCurrent`: a rescale that is under way is what the copies it was decided
on ask for (`Follows`, which the passing of time does not undo, `FollowsLater`),
and the `LastScaleTime` in the API server is still the one the reconcile read, or
gone with its CHPA. With `CopiesAreVersions` the copies are the objects themselves
when the write is accepted.

*Conditions* (`StatusConditionsProofs`), for every spec, proposal and size. The
inductive invariant `IInv` has `TypeOK` and five parts:
`Unshared` (store, copy and original never share an array, so that a
`setCondition` changes the copy only), `StoreIntact`, `CurrentIsTrue` (a reconcile
whose copy is current knows the CHPA's `LastScaleTime`),
`AllExplained` (whoever holds metrics, the store and the reconcile included, holds
conditions that explain them) and `ScaleTold` (the copy says `SucceededRescale`
exactly when the reconcile has scaled). `StoreIntact`, `MetricsExplained` and
`RescaleTold` follow.

`QuietWhenAble` compares what a reconcile read with what it writes, through all the
conditions it has set in place in between, and takes a second invariant on top,
`CopyHonest`: `OriginalTrue` (the original of a current reconcile is what the API
server holds), `OthersHonest` (`ScalingActive` and `ScalingLimited` are set at most
once, so their transition times move only with their statuses) and `AbleHonest`.
The last is the core: `AbleToScale` is set up to three times, and one that ends up
True has kept its time, unless it was set to False for a window and back by a
rescale. But a rescale within one window has passed the other, so it moves
`LastScaleTime`, and the write changes more than times. `QuietAlways` puts this
together: a write that changed nothing but transition times would, conditions being
honest, change nothing at all (`TwinsSame`), and is skipped.

Only model-checked are the liveness properties `Settles`, `AbleAgain` and
`ComesToRest`: fairness and ENABLED are out of the prover's reach. So are theorems whose parameter is an operator, which the
library's induction theorems are.

## Not modelled

* Events, which are sent and forgotten, the messages of conditions, and the
  utilization values reported in `CurrentMetrics` (a value stands for what it
  asks for).
* Printing (`chpa_tools.go`), scheme registration, manager start-up, Helm, RBAC,
  end-to-end tests: no state, and no behaviour beyond what the models assume.
* How an `int32` comes out of a float that does not fit: any proposal is possible.
* A panic in `reconcileCHPA`, which is recovered and stops the repetition
  (`:214-220`): none is reachable in what is modelled, as `checkCHPAMetricsValidity`
  excludes the nil pointers and the API server always sets `spec.replicas`.
* uids and the garbage collector (deleting the Deployment is possible any time).
* `null` for `status.currentMetrics`: after a rescale decided on bounds the field
  is nil, and the CRD requires an array; whether the API server refuses such a
  status write is not decided by this repository. Any single status write may be
  lost in `ChpaController`, so the safety properties cover the refusal.
* The inside of the vendored work queue: a ready flag and a timer stand for its
  sets and its heap.

## Plan

1. *Done:* scaling rules, control loop, calculator, closed loop and status
   conditions, and a theorem for each safety property that holds; the atomic scaler
   and the proof that the loop implements it; rest and swings of the closed loop.
2. *Next:* `RequestQueue` (the dirty and processing sets and the delaying heap of
   the vendored queue), shown to implement the ready flag and the timer of
   `ChpaController`; `ReplicaCalculator` composed with `ChpaController` in place of
   `Proposals`.
