--------------------------- MODULE StatusConditions ---------------------------
(***************************************************************************)
(* The status a reconcile leaves behind: which conditions reconcileCHPA    *)
(* (src/pkg/controller/chpa/chpa_controller.go) sets on its copy of the    *)
(* CHPA, in which order, what of them is written, and what they tell the   *)
(* user.  One process, one CHPA; the Deployment may be of any size each    *)
(* time it is read (ChpaController is about it).                           *)
(*                                                                         *)
(* Conditions are kept by reference, as in Go: a status in memory names    *)
(* the array (heap) that setCondition changes in place, so what the        *)
(* informer's store and the original status keep is what DeepCopy leaves   *)
(* them.                                                                   *)
(*                                                                         *)
(* Time slides: now is always Horizon, and a tick, one syncPeriod long,    *)
(* makes each stored time one older, down to 0, which is long ago.  A      *)
(* reconcile takes less than a tick.  Of a resourceVersion only what it is *)
(* compared for is kept: whether a copy is current.                        *)
(* Messages are left out: reason and desired determine them, but for the   *)
(* name of a metric and the text of an error.                              *)
(***************************************************************************)
EXTENDS ScaleRules

CONSTANTS
    chpaSpec,       \* the completed spec
    Proposals,      \* what the metrics may ask for
    Replicas,       \* what spec.replicas and status.replicas of the
    Pods,           \* Deployment may be
    MetricLag,      \* how old, in ticks, a metric's timestamp may be
    Horizon         \* bound: the age from which on times are not told apart

ASSUME StatusAssumption ==
    /\ Completed(chpaSpec)
    /\ Proposals \subseteq Int /\ Replicas \subseteq Nat /\ Pods \subseteq Nat
    /\ MetricLag \in Nat
    /\ Horizon \in Nat
    /\ Horizon > chpaSpec.down + MetricLag /\ Horizon > chpaSpec.up + MetricLag

VARIABLES
    chpa,       \* in the API server: is its spec valid, its status
    cache,      \* the informer's copy: is it current, is it valid, its status
    heap,       \* the arrays of conditions in memory
    queue,      \* the request: "ready", "timer" (queued again by it), "none"
    worker      \* the reconcile in progress

vars == <<chpa, cache, heap, queue, worker>>

Now == Horizon

Cells == {"store", "chpa", "original"}

Types == {"AbleToScale", "ScalingActive", "ScalingLimited"}

Reasons ==
    [type \in Types |->
       CASE type = "AbleToScale" ->
              {"SucceededGetScale", "BackoffDownscale", "BackoffBoth",
               "BackoffUpscale", "ReadyForNewScale", "SucceededRescale",
               "FailedUpdateScale", "FailedSpecCheck"}
         [] type = "ScalingActive" ->
              {"ScalingDisabled", "FailedGetMetric", "ValidMetricFound"}
         [] type = "ScalingLimited" ->
              {"DesiredWithinRange", "TooFewReplicas", "TooManyReplicas",
               "ScaleUpLimit"}]

\* Whether a condition changed its status in this very tick (LastTransitionTime).
Stamps == {"now", "before"}

Unset == [status |-> "Unset"]

Conditions ==
    {conditions \in
       [Types -> {Unset} \cup [status : {"True", "False"},
                               reason : UNION {Reasons[type] : type \in Types},
                               since : Stamps]] :
       \A type \in Types :
         conditions[type] = Unset \/ conditions[type].reason \in Reasons[type]}

NoMetrics == <<>>

\* CurrentMetrics reports what was measured: it is named by what it asks for.
Metrics == {NoMetrics} \cup {<<p>> : p \in Proposals}

StatusWith(C) ==
    [last : Times, current : Nat, desired : Nat, metrics : Metrics,
     conditions : C]

NoConditions == [type \in Types |-> Unset]

NewStatus(conditions) ==
    [last |-> Never, current |-> 0, desired |-> 0, metrics |-> NoMetrics,
     conditions |-> conditions]

Idle == [phase |-> "idle"]

\* status and original are the two copies of reconcileCHPA; metrics and target
\* what a rescale will leave.
Worker ==
    {Idle}
    \cup [phase : {"decide"}, current : BOOLEAN, status : StatusWith(Cells),
          original : StatusWith(Cells), replicas : Replicas, pods : Pods]
    \cup [phase : {"scale"}, current : BOOLEAN, status : StatusWith(Cells),
          original : StatusWith(Cells), pods : Pods, target : Nat,
          metrics : Metrics]
    \cup [phase : {"status"}, current : BOOLEAN, status : StatusWith(Cells),
          original : StatusWith(Cells)]

TypeOK ==
    /\ chpa \in [valid : BOOLEAN, status : StatusWith(Conditions)]
    /\ cache \in [current : BOOLEAN, valid : BOOLEAN, status : StatusWith(Cells)]
    /\ heap \in [Cells -> Conditions]
    /\ queue \in {"ready", "timer", "none"}
    /\ worker \in Worker

Init ==
    /\ chpa = [valid |-> TRUE, status |-> NewStatus(NoConditions)]
    /\ cache = [current |-> TRUE, valid |-> TRUE, status |-> NewStatus("store")]
    /\ heap = [cell \in Cells |-> NoConditions]
    /\ queue = "ready"
    /\ worker = Idle

-------------------------------------------------------------------------------
(* Conditions and copies.                                                     *)

\* Mutant: the transition time moves although the status stays.
SetConditionRestamps(conditions, type, status, reason) ==
    [conditions EXCEPT ![type] =
       [status |-> status, reason |-> reason, since |-> "now"]]

\* setCondition
SetCondition(conditions, type, status, reason) ==
    [conditions EXCEPT ![type] =
       [status |-> status, reason |-> reason,
        since |-> IF @.status # status THEN "now" ELSE @.since]]

\* Mutant: the copy shares the array of conditions.
DeepCopyShallow(status, cell) == status

DeepCopy(status, cell) == [status EXCEPT !.conditions = cell]

\* A status with its conditions in place of the reference to them.
Deref(status) == [status EXCEPT !.conditions = heap[@]]

\* setCondition on the reconcile's copy.
Set(type, status, reason) ==
    heap' = [heap EXCEPT ![worker.status.conditions] =
               SetCondition(@, type, status, reason)]

\* What the reconcile allocated is garbage.
Freed(arrays) ==
    [cell \in Cells |-> IF cell = "store" THEN arrays[cell] ELSE NoConditions]

-------------------------------------------------------------------------------
(* Reconcile and reconcileCHPA up to the decision.                            *)

Taken == worker = Idle /\ queue = "ready"

\* resStop: FailedSpecCheck is set on a copy nobody writes.
Stop ==
    /\ Taken
    /\ ~cache.valid
    /\ LET cell == DeepCopy(cache.status, "chpa").conditions IN
       heap' = Freed([heap EXCEPT ![cell] =
         SetCondition(heap["store"], "AbleToScale", "False", "FailedSpecCheck")])
    /\ queue' = "none"
    /\ UNCHANGED <<chpa, cache, worker>>

Read ==
    /\ Taken
    /\ cache.valid
    /\ LET status == DeepCopy(cache.status, "chpa")
           original == DeepCopy(status, "original")
           copied == [heap EXCEPT !["chpa"] = heap["store"],
                                  !["original"] = heap["store"]]
       IN  /\ heap' = [copied EXCEPT ![status.conditions] =
                SetCondition(@, "AbleToScale", "True", "SucceededGetScale")]
           /\ \E replicas \in Replicas, pods \in Pods :
                worker' = [phase |-> "decide", current |-> cache.current,
                           status |-> status, original |-> original,
                           replicas |-> replicas, pods |-> pods]
    /\ queue' = "none"
    /\ UNCHANGED <<chpa, cache>>

\* Mutant: LastScaleTime is set on every reconcile.
SetStatusAlwaysNow(status, current, desired, metrics, rescale) ==
    [last |-> Now, current |-> current, desired |-> desired, metrics |-> metrics,
     conditions |-> status.conditions]

SetStatus(status, current, desired, metrics, rescale) ==
    [last |-> IF rescale THEN Now ELSE status.last,
     current |-> current, desired |-> desired, metrics |-> metrics,
     conditions |-> status.conditions]

ToStatus(status) ==
    worker' = [phase |-> "status", current |-> worker.current, status |-> status,
               original |-> worker.original]

ToScale(target, metrics) ==
    worker' = [phase |-> "scale", current |-> worker.current,
               status |-> worker.status, original |-> worker.original,
               pods |-> worker.pods, target |-> target, metrics |-> metrics]

\* setCurrentReplicasInStatus, once something failed.
KeepTheRest ==
    ToStatus(SetStatus(worker.status, worker.pods, worker.status.desired,
                       worker.status.metrics, FALSE))

Deciding ==
    /\ worker.phase = "decide"
    /\ UNCHANGED <<chpa, cache, queue>>

\* Mutant: the wrong condition.
DisabledTellsAble ==
    /\ Deciding
    /\ worker.replicas = 0
    /\ Set("AbleToScale", "False", "ScalingDisabled")
    /\ ToStatus(SetStatus(worker.status, worker.pods, worker.pods, NoMetrics, FALSE))

\* Mutant: the metrics of before are kept.
DisabledKeepsMetrics ==
    /\ Deciding
    /\ worker.replicas = 0
    /\ Set("ScalingActive", "False", "ScalingDisabled")
    /\ KeepTheRest

\* Autoscaling is disabled.
Disabled ==
    /\ Deciding
    /\ worker.replicas = 0
    /\ Set("ScalingActive", "False", "ScalingDisabled")
    /\ ToStatus(SetStatus(worker.status, worker.pods, worker.pods, NoMetrics, FALSE))

CorrectBounds ==
    /\ Deciding
    /\ worker.replicas # 0
    /\ OutOfBounds(chpaSpec, worker.pods)
    /\ ToScale(BoundsTarget(chpaSpec, worker.pods), NoMetrics)
    /\ UNCHANGED heap

FollowsMetrics ==
    /\ Deciding
    /\ worker.replicas # 0
    /\ ~OutOfBounds(chpaSpec, worker.pods)

MetricsFail ==
    /\ FollowsMetrics
    /\ Set("ScalingActive", "False", "FailedGetMetric")
    /\ KeepTheRest

Limit(pods, proposal) ==
    IF proposal < MinAllowed(chpaSpec) THEN "TooFewReplicas"
    ELSE IF proposal <= MaxAllowed(chpaSpec, pods) THEN "DesiredWithinRange"
    ELSE IF chpaSpec.max > ScaleUpLimit(chpaSpec, pods) THEN "ScaleUpLimit"
    ELSE "TooManyReplicas"

BackoffReason(down, up) ==
    IF down /\ up THEN "BackoffBoth"
    ELSE IF down THEN "BackoffDownscale" ELSE "BackoffUpscale"

\* The conditions after the windows were looked at.
WithBackoff(conditions, timestamp) ==
    LET last == worker.status.last
        Within(window) == last # Never /\ ~WindowPassed(last, window, timestamp)
        down == Within(chpaSpec.down)
        up == Within(chpaSpec.up)
    IN  IF down \/ up
        THEN SetCondition(conditions, "AbleToScale", "False", BackoffReason(down, up))
        ELSE SetCondition(conditions, "AbleToScale", "True", "ReadyForNewScale")

FollowMetrics ==
    /\ FollowsMetrics
    /\ \E proposal \in Proposals, lag \in 0..MetricLag :
         LET timestamp == IF proposal > 0 THEN Now - lag ELSE Now
             desired == NormalizeDesired(chpaSpec, worker.pods, proposal)
             active(conditions) ==
               SetCondition(conditions, "ScalingActive", "True", "ValidMetricFound")
             limited(conditions) ==
               SetCondition(conditions, "ScalingLimited",
                            IF desired = proposal THEN "False" ELSE "True",
                            Limit(worker.pods, proposal))
         IN  /\ heap' = [heap EXCEPT ![worker.status.conditions] =
                           WithBackoff(limited(active(@)), timestamp)]
             /\ IF ShouldScale(chpaSpec, worker.status.last, worker.pods,
                               desired, timestamp)
                THEN ToScale(desired, <<proposal>>)
                ELSE ToStatus(SetStatus(worker.status, worker.pods, worker.pods,
                                        <<proposal>>, FALSE))

-------------------------------------------------------------------------------
(* The update of the Deployment, whose outcome the API server decides.        *)

Scaling ==
    /\ worker.phase = "scale"
    /\ UNCHANGED <<chpa, cache, queue>>

Rescale ==
    /\ Scaling
    /\ Set("AbleToScale", "True", "SucceededRescale")
    /\ ToStatus(SetStatus(worker.status, worker.pods, worker.target,
                          worker.metrics, TRUE))

\* Mutant: a failed update is recorded as a rescale.
ScaleFailsRecorded ==
    /\ Scaling
    /\ Set("AbleToScale", "False", "FailedUpdateScale")
    /\ ToStatus(SetStatus(worker.status, worker.pods, worker.status.desired,
                          worker.status.metrics, TRUE))

ScaleFails ==
    /\ Scaling
    /\ Set("AbleToScale", "False", "FailedUpdateScale")
    /\ KeepTheRest

-------------------------------------------------------------------------------
(* updateStatusIfNeeded, and resRepeat.  A condition set after a failed write *)
(* (FailedUpdateReplicas) is lost with the copy.                              *)

Finish ==
    /\ worker.phase = "status"
    /\ worker' = Idle
    /\ heap' = Freed(heap)
    /\ queue' = IF queue = "ready" THEN "ready" ELSE "timer"

Skipped ==
    /\ Finish
    /\ Deref(worker.original) = Deref(worker.status)
    /\ UNCHANGED <<chpa, cache>>

Written ==
    /\ Finish
    /\ Deref(worker.original) # Deref(worker.status)
    /\ worker.current
    /\ chpa' = [chpa EXCEPT !.status = Deref(worker.status)]
    /\ cache' = [cache EXCEPT !.current = FALSE]

\* Refused, as the CHPA has changed since, or lost.
NotWritten ==
    /\ Finish
    /\ Deref(worker.original) # Deref(worker.status)
    /\ UNCHANGED <<chpa, cache>>

-------------------------------------------------------------------------------
(* The informer, the user and time.                                           *)

Sync ==
    /\ ~cache.current
    /\ cache' = [current |-> TRUE, valid |-> chpa.valid,
                 status |-> [chpa.status EXCEPT !.conditions = "store"]]
    /\ heap' = [heap EXCEPT !["store"] = chpa.status.conditions]
    /\ queue' = IF cache.valid # chpa.valid THEN "ready" ELSE queue
    /\ UNCHANGED <<chpa, worker>>

\* An edit: it turns the spec from chpaSpec into an invalid one or back, or it
\* changes what is neither spec nor status.  So the two copies Sync compares
\* differ in their specs (updatePredicate) just when one of them is invalid.
Edit ==
    /\ \E valid \in BOOLEAN : chpa' = [chpa EXCEPT !.valid = valid]
    /\ cache' = [cache EXCEPT !.current = FALSE]
    /\ worker' = IF worker = Idle THEN Idle ELSE [worker EXCEPT !.current = FALSE]
    /\ UNCHANGED <<heap, queue>>

Older(time) == IF time > 0 THEN time - 1 ELSE time

OlderStatus(status) == [status EXCEPT !.last = Older(@)]

OlderConditions(conditions) ==
    [type \in Types |->
       IF conditions[type] = Unset THEN Unset
       ELSE [conditions[type] EXCEPT !.since = "before"]]

Tick ==
    /\ worker = Idle
    /\ queue # "ready"
    /\ queue' = IF queue = "timer" THEN "ready" ELSE queue
    /\ chpa' = [chpa EXCEPT !.status =
                  [OlderStatus(chpa.status) EXCEPT !.conditions = OlderConditions(@)]]
    /\ cache' = [cache EXCEPT !.status = OlderStatus(cache.status)]
    /\ heap' = [cell \in Cells |-> OlderConditions(heap[cell])]
    /\ UNCHANGED worker

-------------------------------------------------------------------------------
Reconcile == Stop \/ Read

Decide == Disabled \/ CorrectBounds \/ FollowMetrics

WorkerStep == Reconcile \/ Decide \/ Rescale \/ Skipped \/ Written

Failure == MetricsFail \/ ScaleFails \/ NotWritten

Next == WorkerStep \/ Failure \/ Sync \/ Edit \/ Tick

Spec == Init /\ [][Next]_vars

\* The worker runs, the informer delivers, time passes; a failure is a step of
\* the worker as well, whichever comes.
FairSpec ==
    /\ Spec
    /\ WF_vars(WorkerStep \/ Failure)
    /\ WF_vars(Sync)
    /\ WF_vars(Tick)

-------------------------------------------------------------------------------
\* The informer's store shows what the API server holds, or an earlier version
\* of it: although setCondition changes arrays in place, no reconcile changes
\* the store, so none starts from the conditions of one that was not written.
StoreIntact ==
    cache.current =>
      cache.valid = chpa.valid /\ chpa.status = Deref(cache.status)

\* Metrics are never reported by a CHPA that says scaling is disabled: those
\* measured before the Deployment was disabled do not outlive it, although a
\* reconcile that fails keeps what the last one reported.
MetricsExplained ==
    chpa.status.metrics # NoMetrics =>
      /\ chpa.status.conditions["ScalingActive"] # Unset
      /\ chpa.status.conditions["ScalingActive"].reason # "ScalingDisabled"

Writes == worker.phase = "status" /\ worker' = Idle /\ chpa' # chpa

\* AbleToScale and LastScaleTime tell the same story: SucceededRescale is
\* written together with the time of the rescale, and a new time with no other reason.
RescaleTold ==
    [][Writes =>
         LET able == chpa'.status.conditions["AbleToScale"] IN
         /\ able.reason = "SucceededRescale" => chpa'.status.last = Now
         /\ chpa'.status.last # chpa.status.last => able.reason = "SucceededRescale"]_vars

Unstamped(status) ==
    [status EXCEPT !.conditions =
       [type \in Types |-> IF @[type] = Unset THEN Unset
                           ELSE [@[type] EXCEPT !.since = "before"]]]

\* While nothing changes the CHPA is left alone: a write that changes no more
\* than transition times happens only while AbleToScale is False.  (Then it does
\* happen: Read sets it to True, a window or a failed update to False again, and
\* both flips are stamped.)
QuietWhenAble ==
    [][Writes /\ chpa'.status.conditions["AbleToScale"].status = "True" =>
         Unstamped(chpa'.status) # Unstamped(chpa.status)]_vars

\* Users leave the CHPA alone and no call fails any more.
Disturbance == Edit \/ MetricsFail \/ ScaleFails \/ (NotWritten /\ worker.current)

\* A CHPA that is valid is reported able to scale again and again, however the
\* size of the Deployment moves: windows end, and their end is written.
AbleAgain ==
    <>[][~Disturbance]_vars /\ <>[]chpa.valid =>
      []<>(chpa.status.conditions["AbleToScale"].status = "True")

\* README.md:147: "Conditions" are "filled by the CHPA controller. In case of any
\* problem with the CHPA, you should check these fields."  A CHPA whose spec stays
\* invalid comes to say so, by the condition Reconcile sets (FailedSpecCheck), if
\* nobody else touches it and no call fails.
InvalidSpecTold ==
    <>[][~Disturbance]_vars /\ <>[]~chpa.valid =>
      <>[]LET able == chpa.status.conditions["AbleToScale"] IN
          able # Unset /\ able.reason = "FailedSpecCheck"

===============================================================================
