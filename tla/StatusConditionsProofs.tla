------------------------ MODULE StatusConditionsProofs ------------------------
(***************************************************************************)
(* Safety of the status a reconcile leaves behind, for every spec,         *)
(* proposal, size and failure.  Everything rests on who may reach which    *)
(* array of conditions: the store, the copy and the original never share   *)
(* one (Unshared), so a setCondition changes the copy only.                *)
(* QuietWhenAble, which compares two versions of the status, takes a       *)
(* second invariant on top of that (CopyHonest).                           *)
(***************************************************************************)
EXTENDS StatusConditions, ScaleRulesProofs

Statuses == {"True", "False"}

-------------------------------------------------------------------------------
(* Conditions.                                                                *)

\* setCondition changes one condition, and turns conditions into conditions.
LEMMA SetConditionSets ==
    ASSUME NEW conditions \in Conditions, NEW type \in Types,
           NEW status \in Statuses, NEW reason \in Reasons[type]
    PROVE  LET new == SetCondition(conditions, type, status, reason) IN
           /\ new \in Conditions
           /\ new[type] # Unset /\ new[type].reason = reason
           /\ \A other \in Types \ {type} : new[other] = conditions[other]
  <1> DEFINE since == IF conditions[type].status # status THEN "now"
                      ELSE conditions[type].since
             one == [status |-> status, reason |-> reason, since |-> since]
             new == [conditions EXCEPT ![type] = one]
             Reason == UNION {Reasons[t] : t \in Types}
  <1>1. SetCondition(conditions, type, status, reason) = new
    BY DEF SetCondition
  <1>2. conditions \in [Types -> {Unset} \cup [status : {"True", "False"},
                                               reason : Reason, since : Stamps]]
    BY DEF Conditions
  <1>3. since \in Stamps
    <2>1. CASE conditions[type] = Unset
      BY <2>1 DEF Unset, Statuses, Stamps
    <2>2. CASE conditions[type] # Unset
      BY <1>2, <2>2 DEF Stamps
    <2> QED
      BY <2>1, <2>2
  <1>4. /\ one \in [status : {"True", "False"}, reason : Reason, since : Stamps]
        /\ one.reason = reason /\ one.status = status
    BY <1>3 DEF Statuses
  <1>5. one # Unset
    BY <1>4 DEF Unset, Statuses
  <1> HIDE DEF one, since
  <1>6. /\ new \in [Types -> {Unset} \cup [status : {"True", "False"},
                                            reason : Reason, since : Stamps]]
        /\ new[type] = one
        /\ \A other \in Types \ {type} : new[other] = conditions[other]
    BY <1>2, <1>4
  <1>7. \A t \in Types : new[t] = Unset \/ new[t].reason \in Reasons[t]
    BY <1>4, <1>6 DEF Conditions
  <1> QED
    BY <1>1, <1>4, <1>5, <1>6, <1>7 DEF Conditions

\* Which reasons belong to which condition.
LEMMA ReasonsOfTypes ==
    /\ Reasons["AbleToScale"] =
         {"SucceededGetScale", "BackoffDownscale", "BackoffBoth",
          "BackoffUpscale", "ReadyForNewScale", "SucceededRescale",
          "FailedUpdateScale", "FailedSpecCheck"}
    /\ Reasons["ScalingActive"] =
         {"ScalingDisabled", "FailedGetMetric", "ValidMetricFound"}
    /\ Reasons["ScalingLimited"] =
         {"DesiredWithinRange", "TooFewReplicas", "TooManyReplicas",
          "ScaleUpLimit"}
  BY DEF Reasons, Types

\* Time makes old conditions of conditions, and leaves their reasons alone.
LEMMA OlderIsSame ==
    ASSUME NEW conditions \in Conditions
    PROVE  LET old == OlderConditions(conditions) IN
           /\ old \in Conditions
           /\ \A type \in Types :
                /\ old[type] = Unset <=> conditions[type] = Unset
                /\ old[type] # Unset => old[type].reason = conditions[type].reason
  <1> DEFINE Reason == UNION {Reasons[t] : t \in Types}
             Set1 == [status : {"True", "False"}, reason : Reason, since : Stamps]
             old == OlderConditions(conditions)
             aged(type) == [conditions[type] EXCEPT !.since = "before"]
  <1>1. conditions \in [Types -> {Unset} \cup Set1]
    BY DEF Conditions
  <1>2. ASSUME NEW type \in Types, conditions[type] # Unset
        PROVE  /\ aged(type) \in Set1 /\ aged(type) # Unset
               /\ aged(type).reason = conditions[type].reason
    <2>1. conditions[type] \in Set1
      BY <1>1, <1>2
    <2>2. aged(type) \in Set1 /\ aged(type).reason = conditions[type].reason
      BY <2>1 DEF Stamps
    <2>3. aged(type).status \in {"True", "False"}
      BY <2>2
    <2> QED
      BY <2>2, <2>3 DEF Unset
  <1>3. \A type \in Types :
          old[type] = IF conditions[type] = Unset THEN Unset ELSE aged(type)
    BY DEF OlderConditions
  <1> HIDE DEF aged, Set1
  <1>4. old = [type \in Types |->
                 IF conditions[type] = Unset THEN Unset ELSE aged(type)]
    BY DEF OlderConditions, aged
  <1> HIDE DEF old
  <1>5. old \in [Types -> {Unset} \cup Set1]
    BY <1>2, <1>4
  <1>6. \A type \in Types :
          /\ old[type] = Unset <=> conditions[type] = Unset
          /\ old[type] # Unset => old[type].reason = conditions[type].reason
    BY <1>2, <1>3
  <1>7. \A type \in Types : old[type] = Unset \/ old[type].reason \in Reasons[type]
    BY <1>6 DEF Conditions
  <1> QED
    BY <1>5, <1>6, <1>7 DEF Conditions, Set1, old

-------------------------------------------------------------------------------
(* Statuses and workers.                                                      *)

\* setStatus makes a status of a status, and keeps the array of conditions.
LEMMA SetStatusSets ==
    ASSUME NEW status \in StatusWith(Cells), NEW current \in Nat,
           NEW desired \in Nat, NEW metrics \in Metrics
    PROVE  LET kept == SetStatus(status, current, desired, metrics, FALSE)
               scaled == SetStatus(status, current, desired, metrics, TRUE)
           IN  /\ kept \in StatusWith(Cells) /\ scaled \in StatusWith(Cells)
               /\ kept.conditions = status.conditions
               /\ scaled.conditions = status.conditions
               /\ kept.metrics = metrics /\ scaled.metrics = metrics
               /\ kept.last = status.last /\ scaled.last = Now
  <1>1. Now \in Times
    BY StatusAssumption DEF Now, Times
  <1> QED
    BY <1>1 DEF SetStatus, StatusWith

\* What TypeOK says of the reconcile in progress, phase by phase.
LEMMA WorkerPhases ==
    ASSUME TypeOK
    PROVE  /\ worker.phase \in {"idle", "decide", "scale", "status"}
           /\ worker = Idle <=> worker.phase = "idle"
           /\ worker # Idle => /\ worker.current \in BOOLEAN
                              /\ worker.status \in StatusWith(Cells)
                              /\ worker.original \in StatusWith(Cells)
           /\ worker.phase = "decide" =>
                worker.replicas \in Replicas /\ worker.pods \in Pods
           /\ worker.phase = "scale" =>
                /\ worker.pods \in Pods /\ worker.target \in Nat
                /\ worker.metrics \in Metrics
  BY DEF TypeOK, Worker, Idle

\* What the reconcile is once its status is set.
LEMMA ToStatusSets ==
    ASSUME TypeOK, worker # Idle, NEW status \in StatusWith(Cells), ToStatus(status)
    PROVE  /\ worker' \in Worker /\ worker' # Idle
           /\ worker'.phase = "status" /\ worker'.current = worker.current
           /\ worker'.status = status /\ worker'.original = worker.original
  <1>1. worker.current \in BOOLEAN /\ worker.original \in StatusWith(Cells)
    BY WorkerPhases
  <1> QED
    BY <1>1 DEF ToStatus, Worker, Idle

\* What the reconcile is once it will scale.
LEMMA ToScaleSets ==
    ASSUME TypeOK, worker.phase = "decide", NEW target \in Nat,
           NEW metrics \in Metrics, ToScale(target, metrics)
    PROVE  /\ worker' \in Worker /\ worker' # Idle
           /\ worker'.phase = "scale" /\ worker'.current = worker.current
           /\ worker'.status = worker.status /\ worker'.original = worker.original
           /\ worker'.metrics = metrics
  <1>1. /\ worker # Idle /\ worker.current \in BOOLEAN /\ worker.pods \in Pods
        /\ worker.status \in StatusWith(Cells)
        /\ worker.original \in StatusWith(Cells)
    BY WorkerPhases
  <1> QED
    BY <1>1 DEF ToScale, Worker, Idle

-------------------------------------------------------------------------------
(* The inductive invariant.                                                   *)

Explained(metrics, conditions) ==
    metrics # NoMetrics =>
      /\ conditions["ScalingActive"] # Unset
      /\ conditions["ScalingActive"].reason # "ScalingDisabled"

\* Nobody shares an array of conditions.
Unshared ==
    /\ cache.status.conditions = "store"
    /\ worker # Idle => /\ worker.status.conditions = "chpa"
                       /\ worker.original.conditions = "original"

\* A reconcile whose copy is current knows when the CHPA was scaled last.
CurrentIsTrue ==
    worker # Idle /\ worker.current => worker.original.last = chpa.status.last

\* Whoever holds metrics holds conditions that explain them.
AllExplained ==
    /\ Explained(chpa.status.metrics, chpa.status.conditions)
    /\ Explained(cache.status.metrics, heap["store"])
    /\ worker # Idle => Explained(worker.status.metrics, heap["chpa"])
    /\ worker.phase = "scale" => Explained(worker.metrics, heap["chpa"])

\* The copy tells of a rescale exactly when the reconcile has scaled.
ScaleTold ==
    worker # Idle =>
      LET able == heap["chpa"]["AbleToScale"] IN
      /\ able # Unset
      /\ worker.status.last =
           IF able.reason = "SucceededRescale" THEN Now ELSE worker.original.last
      /\ worker.phase # "status" => able.reason # "SucceededRescale"

IInv == TypeOK /\ Unshared /\ StoreIntact /\ CurrentIsTrue /\ AllExplained /\ ScaleTold

\* A reconcile's setCondition reaches its own copy only, and explains whatever
\* was explained unless it says that scaling is disabled.
LEMMA SetSets ==
    ASSUME TypeOK, Unshared, worker # Idle, NEW type \in Types,
           NEW status \in Statuses, NEW reason \in Reasons[type],
           Set(type, status, reason)
    PROVE  /\ heap' \in [Cells -> Conditions]
           /\ heap'["store"] = heap["store"]
           /\ heap'["chpa"][type] # Unset /\ heap'["chpa"][type].reason = reason
           /\ \A other \in Types \ {type} : heap'["chpa"][other] = heap["chpa"][other]
           /\ reason # "ScalingDisabled" =>
                \A metrics : Explained(metrics, heap["chpa"])
                              => Explained(metrics, heap'["chpa"])
  <1> DEFINE new == SetCondition(heap["chpa"], type, status, reason)
  <1>1. heap \in [Cells -> Conditions] /\ "chpa" \in Cells /\ "store" \in Cells
    BY DEF TypeOK, Cells
  <1>2. heap["chpa"] \in Conditions
    BY <1>1
  <1>3. /\ new \in Conditions /\ new[type] # Unset /\ new[type].reason = reason
        /\ \A other \in Types \ {type} : new[other] = heap["chpa"][other]
    BY <1>2, SetConditionSets
  <1>4. heap' = [heap EXCEPT !["chpa"] = new]
    BY DEF Set, Unshared
  <1> HIDE DEF new
  <1>5. heap' \in [Cells -> Conditions] /\ heap'["store"] = heap["store"] /\ heap'["chpa"] = new
    BY <1>1, <1>3, <1>4
  <1>6. ASSUME reason # "ScalingDisabled", NEW metrics, Explained(metrics, heap["chpa"])
        PROVE  Explained(metrics, new)
    <2>1. "ScalingActive" \in Types
      BY DEF Types
    <2>2. CASE type = "ScalingActive"
      BY <1>3, <1>6, <2>2 DEF Explained
    <2>3. CASE type # "ScalingActive"
      <3>1. new["ScalingActive"] = heap["chpa"]["ScalingActive"]
        BY <1>3, <2>1, <2>3
      <3> QED
        BY <1>6, <3>1 DEF Explained
    <2> QED
      BY <2>2, <2>3
  <1> QED
    BY <1>3, <1>5, <1>6

\* What is allocated by a reconcile is freed with it, the store stays.
LEMMA FreedSets ==
    ASSUME NEW arrays \in [Cells -> Conditions]
    PROVE  Freed(arrays) \in [Cells -> Conditions] /\ Freed(arrays)["store"] = arrays["store"]
  <1>1. NoConditions \in Conditions
    BY DEF NoConditions, Conditions
  <1> QED
    BY <1>1 DEF Freed, Cells

LEMMA InitIInv == Init => IInv
  <1> SUFFICES ASSUME Init PROVE IInv
    OBVIOUS
  <1>1. NoConditions \in Conditions
    BY DEF NoConditions, Conditions
  <1>2. TypeOK
    BY <1>1 DEF Init, TypeOK, NewStatus, StatusWith, Metrics, Times, Cells, Worker
  <1>3. Unshared
    BY DEF Init, Unshared, NewStatus
  <1>4. StoreIntact
    BY DEF Init, StoreIntact, NewStatus, Deref, Cells
  <1>5. CurrentIsTrue /\ AllExplained /\ ScaleTold
    BY DEF Init, CurrentIsTrue, AllExplained, ScaleTold, Explained, NewStatus, Idle
  <1> QED
    BY <1>2, <1>3, <1>4, <1>5 DEF IInv

-------------------------------------------------------------------------------
(* The steps of a reconcile.                                                  *)

\* What a step of a reconcile has to show: it keeps its copies apart and its
\* story straight.
LEMMA ReconcileStep ==
    ASSUME IInv, worker # Idle,
           UNCHANGED <<chpa, cache, queue>>,
           heap' \in [Cells -> Conditions], heap'["store"] = heap["store"],
           worker' \in Worker, worker' # Idle,
           worker'.current = worker.current, worker'.original = worker.original,
           worker'.status.conditions = "chpa",
           Explained(worker'.status.metrics, heap'["chpa"]),
           worker'.phase = "scale" => Explained(worker'.metrics, heap'["chpa"]),
           ScaleTold'
    PROVE  IInv'
  <1>1. TypeOK'
    BY DEF IInv, TypeOK
  <1>2. Unshared'
    BY DEF IInv, Unshared
  <1>3. StoreIntact'
    BY DEF IInv, Unshared, StoreIntact, Deref
  <1>4. CurrentIsTrue'
    BY DEF IInv, CurrentIsTrue
  <1>5. AllExplained'
    BY DEF IInv, AllExplained, Explained
  <1> QED
    BY <1>1, <1>2, <1>3, <1>4, <1>5 DEF IInv

\* What metrics leave in the conditions, whatever they ask for.
LEMMA MetricsSet ==
    ASSUME NEW conditions \in Conditions, NEW status \in Statuses,
           NEW limit \in Reasons["ScalingLimited"], NEW timestamp
    PROVE  LET active == SetCondition(conditions, "ScalingActive", "True",
                                      "ValidMetricFound")
               limited == SetCondition(active, "ScalingLimited", status, limit)
               new == WithBackoff(limited, timestamp)
           IN  /\ new \in Conditions
               /\ new["ScalingActive"] # Unset
               /\ new["ScalingActive"].reason = "ValidMetricFound"
               /\ new["AbleToScale"] # Unset
               /\ new["AbleToScale"].reason # "SucceededRescale"
  <1> DEFINE active == SetCondition(conditions, "ScalingActive", "True",
                                    "ValidMetricFound")
             limited == SetCondition(active, "ScalingLimited", status, limit)
  <1>1. /\ "ScalingActive" \in Types /\ "AbleToScale" \in Types
        /\ "ScalingLimited" \in Types /\ "True" \in Statuses /\ "False" \in Statuses
    BY DEF Types, Statuses
  <1>2. "ValidMetricFound" \in Reasons["ScalingActive"]
    BY ReasonsOfTypes
  <1>3. /\ active \in Conditions /\ active["ScalingActive"] # Unset
        /\ active["ScalingActive"].reason = "ValidMetricFound"
    BY <1>1, <1>2, SetConditionSets
  <1>4. /\ limited \in Conditions
        /\ limited["ScalingActive"] = active["ScalingActive"]
    <2> HIDE DEF active
    <2> QED
      BY <1>1, <1>3, SetConditionSets
  <1>5. ASSUME NEW able \in Statuses,
               NEW reason \in Reasons["AbleToScale"] \ {"SucceededRescale"}
        PROVE  LET new == SetCondition(limited, "AbleToScale", able, reason) IN
               /\ new \in Conditions
               /\ new["ScalingActive"] = active["ScalingActive"]
               /\ new["AbleToScale"] # Unset /\ new["AbleToScale"].reason = reason
    <2> HIDE DEF limited, active
    <2> QED
      BY <1>1, <1>4, SetConditionSets
  <1>6. /\ \A down, up \in BOOLEAN :
             BackoffReason(down, up) \in Reasons["AbleToScale"] \ {"SucceededRescale"}
        /\ "ReadyForNewScale" \in Reasons["AbleToScale"] \ {"SucceededRescale"}
    BY ReasonsOfTypes DEF BackoffReason
  <1>7. \E able \in Statuses, reason \in Reasons["AbleToScale"] \ {"SucceededRescale"} :
          WithBackoff(limited, timestamp)
            = SetCondition(limited, "AbleToScale", able, reason)
    <2> DEFINE Within(window) == /\ worker.status.last # Never
                                 /\ ~WindowPassed(worker.status.last, window, timestamp)
               down == Within(chpaSpec.down)
               up == Within(chpaSpec.up)
    <2>1. down \in BOOLEAN /\ up \in BOOLEAN
      OBVIOUS
    <2>2. WithBackoff(limited, timestamp) =
            IF down \/ up
            THEN SetCondition(limited, "AbleToScale", "False", BackoffReason(down, up))
            ELSE SetCondition(limited, "AbleToScale", "True", "ReadyForNewScale")
      BY DEF WithBackoff
    <2> HIDE DEF down, up, limited
    <2> QED
      BY <1>1, <1>6, <2>1, <2>2
  <1> HIDE DEF active, limited
  <1>8. PICK able \in Statuses, reason \in Reasons["AbleToScale"] \ {"SucceededRescale"} :
          WithBackoff(limited, timestamp)
            = SetCondition(limited, "AbleToScale", able, reason)
    BY <1>7
  <1>9. /\ WithBackoff(limited, timestamp) \in Conditions
        /\ WithBackoff(limited, timestamp)["ScalingActive"] = active["ScalingActive"]
        /\ WithBackoff(limited, timestamp)["AbleToScale"] # Unset
        /\ WithBackoff(limited, timestamp)["AbleToScale"].reason # "SucceededRescale"
    BY <1>5, <1>8
  <1> QED
    BY <1>3, <1>9 DEF active, limited

\* What a reconcile that decides or scales can rely on.
LEMMA AtWork ==
    ASSUME IInv, worker.phase \in {"decide", "scale"}
    PROVE  /\ worker # Idle /\ worker.status \in StatusWith(Cells)
           /\ worker.status.conditions = "chpa"
           /\ worker.status.last \in Times /\ worker.status.desired \in Nat
           /\ worker.status.metrics \in Metrics
           /\ worker.pods \in Pods /\ worker.pods \in Nat
           /\ heap \in [Cells -> Conditions] /\ heap["chpa"] \in Conditions
           /\ Explained(worker.status.metrics, heap["chpa"])
           /\ heap["chpa"]["AbleToScale"] # Unset
           /\ heap["chpa"]["AbleToScale"].reason # "SucceededRescale"
           /\ worker.status.last = worker.original.last
  <1>1. TypeOK /\ worker # Idle
    BY DEF IInv, Idle
  <1>2. /\ worker.status \in StatusWith(Cells) /\ worker.pods \in Pods
    BY <1>1, WorkerPhases
  <1>3. /\ worker.status.last \in Times /\ worker.status.desired \in Nat
        /\ worker.status.metrics \in Metrics
    BY <1>2 DEF StatusWith
  <1>4. worker.pods \in Nat
    BY <1>2, StatusAssumption
  <1>5. heap \in [Cells -> Conditions] /\ heap["chpa"] \in Conditions
    BY <1>1 DEF TypeOK, Cells
  <1>6. worker.status.conditions = "chpa"
    BY <1>1 DEF IInv, Unshared
  <1>7. Explained(worker.status.metrics, heap["chpa"])
    BY <1>1 DEF IInv, AllExplained
  <1>8. /\ heap["chpa"]["AbleToScale"] # Unset
        /\ heap["chpa"]["AbleToScale"].reason # "SucceededRescale"
        /\ worker.status.last = worker.original.last
    BY <1>1 DEF IInv, ScaleTold
  <1> QED
    BY <1>1, <1>2, <1>3, <1>4, <1>5, <1>6, <1>7, <1>8

\* Something failed: a condition says so, the rest of the status is kept.
LEMMA FailureStep ==
    ASSUME IInv, worker.phase \in {"decide", "scale"}, UNCHANGED <<chpa, cache, queue>>,
           NEW type \in Types, NEW status \in Statuses,
           NEW reason \in Reasons[type] \ {"ScalingDisabled", "SucceededRescale"},
           Set(type, status, reason), KeepTheRest
    PROVE  IInv'
  <1> DEFINE kept == SetStatus(worker.status, worker.pods, worker.status.desired,
                               worker.status.metrics, FALSE)
  <1>1. /\ worker # Idle /\ worker.status \in StatusWith(Cells)
        /\ worker.status.conditions = "chpa"
        /\ worker.status.desired \in Nat /\ worker.pods \in Nat
        /\ worker.status.metrics \in Metrics
        /\ Explained(worker.status.metrics, heap["chpa"])
        /\ heap["chpa"]["AbleToScale"] # Unset
        /\ heap["chpa"]["AbleToScale"].reason # "SucceededRescale"
        /\ worker.status.last = worker.original.last
    BY AtWork
  <1>2. /\ heap' \in [Cells -> Conditions] /\ heap'["store"] = heap["store"]
        /\ heap'["chpa"][type] # Unset /\ heap'["chpa"][type].reason = reason
        /\ \A other \in Types \ {type} : heap'["chpa"][other] = heap["chpa"][other]
        /\ Explained(worker.status.metrics, heap'["chpa"])
    BY <1>1, SetSets DEF IInv
  <1>3. /\ kept \in StatusWith(Cells) /\ kept.conditions = "chpa"
        /\ kept.metrics = worker.status.metrics /\ kept.last = worker.status.last
    BY <1>1, SetStatusSets DEF SetStatus
  <1>4. /\ worker' \in Worker /\ worker' # Idle /\ worker'.phase = "status"
        /\ worker'.current = worker.current /\ worker'.original = worker.original
        /\ worker'.status = kept
    <2>1. ToStatus(kept)
      BY DEF KeepTheRest
    <2> HIDE DEF kept
    <2> QED
      BY <1>1, <1>3, <2>1, ToStatusSets DEF IInv
  <1> HIDE DEF kept
  <1>5. /\ heap'["chpa"]["AbleToScale"] # Unset
        /\ heap'["chpa"]["AbleToScale"].reason # "SucceededRescale"
    BY <1>1, <1>2 DEF Types
  <1>6. ScaleTold'
    BY <1>1, <1>3, <1>4, <1>5 DEF ScaleTold
  <1> QED
    BY <1>1, <1>2, <1>3, <1>4, <1>6, ReconcileStep

LEMMA DisabledStep == ASSUME IInv, Disabled PROVE IInv'
  <1> DEFINE new == SetStatus(worker.status, worker.pods, worker.pods, NoMetrics, FALSE)
  <1>1. /\ worker.phase = "decide" /\ UNCHANGED <<chpa, cache, queue>>
        /\ Set("ScalingActive", "False", "ScalingDisabled") /\ ToStatus(new)
    BY DEF Disabled, Deciding
  <1>2. /\ worker # Idle /\ worker.status \in StatusWith(Cells)
        /\ worker.status.conditions = "chpa" /\ worker.pods \in Nat
        /\ heap["chpa"]["AbleToScale"] # Unset
        /\ heap["chpa"]["AbleToScale"].reason # "SucceededRescale"
        /\ worker.status.last = worker.original.last
    BY <1>1, AtWork
  <1>3. /\ "ScalingActive" \in Types /\ "AbleToScale" \in Types \ {"ScalingActive"}
        /\ "False" \in Statuses /\ "ScalingDisabled" \in Reasons["ScalingActive"]
    BY ReasonsOfTypes DEF Types, Statuses
  <1>4. /\ heap' \in [Cells -> Conditions] /\ heap'["store"] = heap["store"]
        /\ heap'["chpa"]["AbleToScale"] = heap["chpa"]["AbleToScale"]
    BY <1>1, <1>2, <1>3, SetSets DEF IInv
  <1>5. /\ new \in StatusWith(Cells) /\ new.conditions = "chpa"
        /\ new.metrics = NoMetrics /\ new.last = worker.status.last
    <2>1. NoMetrics \in Metrics
      BY DEF Metrics
    <2> QED
      BY <1>2, <2>1, SetStatusSets DEF SetStatus
  <1> HIDE DEF new
  <1>6. /\ worker' \in Worker /\ worker' # Idle /\ worker'.phase = "status"
        /\ worker'.current = worker.current /\ worker'.original = worker.original
        /\ worker'.status = new
    BY <1>1, <1>2, <1>5, ToStatusSets DEF IInv
  <1>7. ScaleTold'
    BY <1>2, <1>4, <1>5, <1>6 DEF ScaleTold
  <1>8. Explained(worker'.status.metrics, heap'["chpa"])
    BY <1>5, <1>6 DEF Explained
  <1> QED
    BY <1>1, <1>2, <1>4, <1>5, <1>6, <1>7, <1>8, ReconcileStep

LEMMA CorrectBoundsStep == ASSUME IInv, CorrectBounds PROVE IInv'
  <1> DEFINE target == BoundsTarget(chpaSpec, worker.pods)
  <1>1. /\ worker.phase = "decide" /\ UNCHANGED <<chpa, cache, queue, heap>>
        /\ ToScale(target, NoMetrics)
    BY DEF CorrectBounds, Deciding
  <1>2. /\ worker # Idle /\ worker.status.conditions = "chpa" /\ worker.pods \in Nat
        /\ heap \in [Cells -> Conditions]
        /\ Explained(worker.status.metrics, heap["chpa"])
        /\ heap["chpa"]["AbleToScale"] # Unset
        /\ heap["chpa"]["AbleToScale"].reason # "SucceededRescale"
        /\ worker.status.last = worker.original.last
    BY <1>1, AtWork
  <1>3. target \in Nat
    BY <1>2, StatusAssumption, BoundsTargetIsPositive
  <1>4. NoMetrics \in Metrics
    BY DEF Metrics
  <1> HIDE DEF target
  <1>5. /\ worker' \in Worker /\ worker' # Idle /\ worker'.phase = "scale"
        /\ worker'.current = worker.current /\ worker'.original = worker.original
        /\ worker'.status = worker.status /\ worker'.metrics = NoMetrics
    BY <1>1, <1>3, <1>4, ToScaleSets DEF IInv
  <1>6. ScaleTold'
    BY <1>1, <1>2, <1>5 DEF ScaleTold
  <1>7. Explained(worker'.metrics, heap'["chpa"]) /\ Explained(worker'.status.metrics, heap'["chpa"])
    BY <1>1, <1>2, <1>5 DEF Explained
  <1> QED
    BY <1>1, <1>2, <1>5, <1>6, <1>7, ReconcileStep

LEMMA FollowMetricsStep == ASSUME IInv, FollowMetrics PROVE IInv'
  <1>1. /\ worker.phase = "decide" /\ UNCHANGED <<chpa, cache, queue>>
    BY DEF FollowMetrics, FollowsMetrics, Deciding
  <1>2. /\ worker # Idle /\ worker.status \in StatusWith(Cells)
        /\ worker.status.conditions = "chpa" /\ worker.pods \in Nat
        /\ worker.status.metrics \in Metrics
        /\ heap \in [Cells -> Conditions] /\ heap["chpa"] \in Conditions
        /\ worker.status.last = worker.original.last
    BY <1>1, AtWork
  <1>3. PICK proposal \in Proposals, lag \in 0..MetricLag :
          LET timestamp == IF proposal > 0 THEN Now - lag ELSE Now
              desired == NormalizeDesired(chpaSpec, worker.pods, proposal)
              active == SetCondition(heap["chpa"], "ScalingActive", "True",
                                     "ValidMetricFound")
              limited == SetCondition(active, "ScalingLimited",
                                      IF desired = proposal THEN "False" ELSE "True",
                                      Limit(worker.pods, proposal))
          IN  /\ heap' = [heap EXCEPT !["chpa"] = WithBackoff(limited, timestamp)]
              /\ \/ ToScale(desired, <<proposal>>)
                 \/ ToStatus(SetStatus(worker.status, worker.pods, worker.pods,
                                       <<proposal>>, FALSE))
    BY <1>2 DEF FollowMetrics
  <1> DEFINE timestamp == IF proposal > 0 THEN Now - lag ELSE Now
             desired == NormalizeDesired(chpaSpec, worker.pods, proposal)
             status == IF desired = proposal THEN "False" ELSE "True"
             limit == Limit(worker.pods, proposal)
             active == SetCondition(heap["chpa"], "ScalingActive", "True",
                                    "ValidMetricFound")
             limited == SetCondition(active, "ScalingLimited", status, limit)
             conditions == WithBackoff(limited, timestamp)
             new == SetStatus(worker.status, worker.pods, worker.pods,
                              <<proposal>>, FALSE)
  <1>4. heap' = [heap EXCEPT !["chpa"] = conditions]
    BY <1>3
  <1>5. ToScale(desired, <<proposal>>) \/ ToStatus(new)
    BY <1>3
  <1>6. desired \in Nat
    BY <1>2, StatusAssumption, NormalizedIsPositive
  <1>7. <<proposal>> \in Metrics
    BY DEF Metrics
  <1>8. status \in Statuses /\ limit \in Reasons["ScalingLimited"]
    BY ReasonsOfTypes DEF Statuses, Limit
  <1>9. /\ conditions \in Conditions
        /\ conditions["ScalingActive"] # Unset
        /\ conditions["ScalingActive"].reason = "ValidMetricFound"
        /\ conditions["AbleToScale"] # Unset
        /\ conditions["AbleToScale"].reason # "SucceededRescale"
    <2> HIDE DEF status, limit, timestamp
    <2> QED
      BY <1>2, <1>8, MetricsSet
  <1> HIDE DEF conditions
  <1>10. /\ heap' \in [Cells -> Conditions] /\ heap'["store"] = heap["store"]
         /\ heap'["chpa"] = conditions
    BY <1>2, <1>4, <1>9 DEF Cells
  <1>11. \A metrics : Explained(metrics, heap'["chpa"])
    BY <1>9, <1>10 DEF Explained
  <1>12. CASE ToScale(desired, <<proposal>>)
    <2> HIDE DEF desired
    <2>1. /\ worker' \in Worker /\ worker' # Idle /\ worker'.phase = "scale"
          /\ worker'.current = worker.current /\ worker'.original = worker.original
          /\ worker'.status = worker.status
      BY <1>1, <1>6, <1>7, <1>12, ToScaleSets DEF IInv
    <2>2. ScaleTold'
      BY <1>2, <1>9, <1>10, <2>1 DEF ScaleTold
    <2> QED
      BY <1>1, <1>2, <1>10, <1>11, <2>1, <2>2, ReconcileStep
  <1>13. CASE ToStatus(new)
    <2>1. /\ new \in StatusWith(Cells) /\ new.conditions = "chpa"
          /\ new.last = worker.status.last
      BY <1>2, <1>7, SetStatusSets DEF SetStatus
    <2> HIDE DEF new
    <2>2. /\ worker' \in Worker /\ worker' # Idle /\ worker'.phase = "status"
          /\ worker'.current = worker.current /\ worker'.original = worker.original
          /\ worker'.status = new
      BY <1>2, <1>13, <2>1, ToStatusSets DEF IInv
    <2>3. ScaleTold'
      BY <1>2, <1>9, <1>10, <2>1, <2>2 DEF ScaleTold
    <2> QED
      BY <1>1, <1>2, <1>10, <1>11, <2>1, <2>2, <2>3, ReconcileStep
  <1> QED
    BY <1>5, <1>12, <1>13

LEMMA RescaleStep == ASSUME IInv, Rescale PROVE IInv'
  <1> DEFINE new == SetStatus(worker.status, worker.pods, worker.target,
                              worker.metrics, TRUE)
  <1>1. /\ worker.phase = "scale" /\ UNCHANGED <<chpa, cache, queue>>
        /\ Set("AbleToScale", "True", "SucceededRescale") /\ ToStatus(new)
    BY DEF Rescale, Scaling
  <1>2. /\ worker # Idle /\ worker.status \in StatusWith(Cells)
        /\ worker.status.conditions = "chpa" /\ worker.pods \in Nat
    BY <1>1, AtWork
  <1>3. worker.target \in Nat /\ worker.metrics \in Metrics
    BY <1>1, WorkerPhases DEF IInv
  <1>4. Explained(worker.metrics, heap["chpa"])
    BY <1>1 DEF IInv, AllExplained
  <1>5. /\ "AbleToScale" \in Types /\ "True" \in Statuses
        /\ "SucceededRescale" \in Reasons["AbleToScale"]
    BY ReasonsOfTypes DEF Types, Statuses
  <1>6. /\ heap' \in [Cells -> Conditions] /\ heap'["store"] = heap["store"]
        /\ heap'["chpa"]["AbleToScale"] # Unset
        /\ heap'["chpa"]["AbleToScale"].reason = "SucceededRescale"
        /\ Explained(worker.metrics, heap'["chpa"])
    BY <1>1, <1>2, <1>4, <1>5, SetSets DEF IInv
  <1>7. /\ new \in StatusWith(Cells) /\ new.conditions = "chpa"
        /\ new.metrics = worker.metrics /\ new.last = Now
    BY <1>2, <1>3, SetStatusSets DEF SetStatus
  <1> HIDE DEF new
  <1>8. /\ worker' \in Worker /\ worker' # Idle /\ worker'.phase = "status"
        /\ worker'.current = worker.current /\ worker'.original = worker.original
        /\ worker'.status = new
    BY <1>1, <1>2, <1>7, ToStatusSets DEF IInv
  <1>9. ScaleTold'
    BY <1>6, <1>7, <1>8 DEF ScaleTold, Now
  <1> QED
    BY <1>1, <1>2, <1>6, <1>7, <1>8, <1>9, ReconcileStep

-------------------------------------------------------------------------------
(* The beginning and the end of a reconcile.                                  *)

\* What holds once a reconcile has ended, if the store stays as it was.
LEMMA EndStep ==
    ASSUME IInv, worker' = Idle, cache'.valid = cache.valid,
           cache'.status = cache.status,
           cache' \in [current : BOOLEAN, valid : BOOLEAN, status : StatusWith(Cells)],
           chpa' \in [valid : BOOLEAN, status : StatusWith(Conditions)],
           heap' \in [Cells -> Conditions], heap'["store"] = heap["store"],
           queue' \in {"ready", "timer", "none"},
           cache'.current => cache.current /\ chpa' = chpa,
           Explained(chpa'.status.metrics, chpa'.status.conditions)
    PROVE  IInv'
  <1>1. TypeOK'
    BY DEF TypeOK, Worker
  <1>2. Unshared'
    BY DEF IInv, Unshared
  <1>3. StoreIntact'
    BY DEF IInv, Unshared, StoreIntact, Deref
  <1>4. CurrentIsTrue' /\ ScaleTold'
    BY DEF CurrentIsTrue, ScaleTold
  <1>5. AllExplained'
    BY DEF IInv, AllExplained, Explained, Idle
  <1> QED
    BY <1>1, <1>2, <1>3, <1>4, <1>5 DEF IInv

LEMMA StopStep == ASSUME IInv, Stop PROVE IInv'
  <1> DEFINE failed == SetCondition(heap["store"], "AbleToScale", "False",
                                    "FailedSpecCheck")
             arrays == [heap EXCEPT !["chpa"] = failed]
  <1>1. /\ heap \in [Cells -> Conditions] /\ heap["store"] \in Conditions
        /\ worker = Idle
    BY DEF IInv, TypeOK, Cells, Stop, Taken
  <1>2. /\ "AbleToScale" \in Types /\ "False" \in Statuses
        /\ "FailedSpecCheck" \in Reasons["AbleToScale"]
    BY ReasonsOfTypes DEF Types, Statuses
  <1>3. failed \in Conditions
    BY <1>1, <1>2, SetConditionSets
  <1>4. DeepCopy(cache.status, "chpa").conditions = "chpa"
    BY DEF DeepCopy, IInv, TypeOK, StatusWith
  <1>5. heap' = Freed(arrays)
    BY <1>4 DEF Stop
  <1> HIDE DEF failed
  <1>6. arrays \in [Cells -> Conditions] /\ arrays["store"] = heap["store"]
    BY <1>1, <1>3 DEF Cells
  <1> HIDE DEF arrays
  <1>7. heap' \in [Cells -> Conditions] /\ heap'["store"] = heap["store"]
    BY <1>5, <1>6, FreedSets
  <1>8. /\ worker' = Idle /\ UNCHANGED <<chpa, cache>> /\ queue' = "none"
    BY <1>1 DEF Stop
  <1>9. Explained(chpa.status.metrics, chpa.status.conditions)
    BY DEF IInv, AllExplained
  <1> QED
    BY <1>7, <1>8, <1>9, EndStep DEF IInv, TypeOK

LEMMA ReadStep == ASSUME IInv, Read PROVE IInv'
  <1> DEFINE status == [cache.status EXCEPT !.conditions = "chpa"]
             original == [cache.status EXCEPT !.conditions = "original"]
             able == SetCondition(heap["store"], "AbleToScale", "True",
                                  "SucceededGetScale")
  <1>1. /\ heap \in [Cells -> Conditions] /\ heap["store"] \in Conditions
        /\ cache.status \in StatusWith(Cells) /\ cache.current \in BOOLEAN
        /\ worker = Idle /\ cache.valid
    BY DEF IInv, TypeOK, Cells, Read, Taken
  <1>2. /\ "AbleToScale" \in Types /\ "True" \in Statuses
        /\ "SucceededGetScale" \in Reasons["AbleToScale"]
        /\ "ScalingActive" \in Types \ {"AbleToScale"}
    BY ReasonsOfTypes DEF Types, Statuses
  <1>3. /\ able \in Conditions /\ able["AbleToScale"] # Unset
        /\ able["AbleToScale"].reason = "SucceededGetScale"
        /\ able["ScalingActive"] = heap["store"]["ScalingActive"]
    BY <1>1, <1>2, SetConditionSets
  <1>4. /\ status \in StatusWith(Cells) /\ original \in StatusWith(Cells)
        /\ status.conditions = "chpa" /\ original.conditions = "original"
        /\ status.last = cache.status.last /\ original.last = cache.status.last
        /\ status.metrics = cache.status.metrics
    BY <1>1 DEF StatusWith, Cells
  <1>5. /\ DeepCopy(cache.status, "chpa") = status
        /\ DeepCopy(status, "original") = original
    BY <1>1 DEF DeepCopy, StatusWith
  <1>6. heap' = [[heap EXCEPT !["chpa"] = heap["store"], !["original"] = heap["store"]]
                   EXCEPT !["chpa"] = able]
    BY <1>1, <1>4, <1>5 DEF Read, Cells
  <1>7. PICK replicas \in Replicas, pods \in Pods :
          worker' = [phase |-> "decide", current |-> cache.current,
                     status |-> status, original |-> original,
                     replicas |-> replicas, pods |-> pods]
    BY <1>5 DEF Read
  <1>8. UNCHANGED <<chpa, cache>> /\ queue' = "none"
    BY DEF Read
  <1> HIDE DEF able, status, original
  <1>9. /\ heap' \in [Cells -> Conditions] /\ heap'["store"] = heap["store"]
        /\ heap'["chpa"] = able
    BY <1>1, <1>3, <1>6 DEF Cells
  <1>10. /\ worker' \in Worker /\ worker' # Idle /\ worker'.phase = "decide"
         /\ worker'.current = cache.current /\ worker'.status = status
         /\ worker'.original = original
    BY <1>1, <1>4, <1>7 DEF Worker, Idle
  <1>11. TypeOK'
    BY <1>8, <1>9, <1>10 DEF IInv, TypeOK
  <1>12. Unshared'
    BY <1>4, <1>8, <1>10 DEF IInv, Unshared
  <1>13. StoreIntact'
    BY <1>8, <1>9 DEF IInv, Unshared, StoreIntact, Deref
  <1>14. CurrentIsTrue'
    <2>1. cache.current => chpa.status.last = cache.status.last
      BY <1>1 DEF IInv, StoreIntact, Deref, StatusWith
    <2> QED
      BY <1>4, <1>8, <1>10, <2>1 DEF CurrentIsTrue
  <1>15. AllExplained'
    BY <1>3, <1>4, <1>8, <1>9, <1>10 DEF IInv, AllExplained, Explained
  <1>16. ScaleTold'
    BY <1>3, <1>4, <1>9, <1>10 DEF ScaleTold
  <1> QED
    BY <1>11, <1>12, <1>13, <1>14, <1>15, <1>16 DEF IInv

\* A reconcile that ends without a write.
LEMMA NoWriteStep == ASSUME IInv, Finish, UNCHANGED <<chpa, cache>> PROVE IInv'
  <1>1. /\ heap \in [Cells -> Conditions] /\ queue \in {"ready", "timer", "none"}
    BY DEF IInv, TypeOK
  <1>2. /\ worker' = Idle /\ heap' = Freed(heap)
        /\ queue' \in {"ready", "timer", "none"}
    BY DEF Finish
  <1>3. heap' \in [Cells -> Conditions] /\ heap'["store"] = heap["store"]
    BY <1>1, <1>2, FreedSets
  <1>4. Explained(chpa.status.metrics, chpa.status.conditions)
    BY DEF IInv, AllExplained
  <1> QED
    BY <1>2, <1>3, <1>4, EndStep DEF IInv, TypeOK

\* What a write leaves in the API server.
LEMMA WrittenSets ==
    ASSUME IInv, Written
    PROVE  /\ chpa' \in [valid : BOOLEAN, status : StatusWith(Conditions)]
           /\ chpa'.status.conditions = heap["chpa"]
           /\ chpa'.status.last = worker.status.last
           /\ chpa'.status.metrics = worker.status.metrics
  <1>1. /\ worker # Idle /\ worker.phase = "status"
    BY DEF Written, Finish, Idle
  <1>2. worker.status \in StatusWith(Cells) /\ worker.status.conditions = "chpa"
    BY <1>1, WorkerPhases DEF IInv, Unshared
  <1>3. heap["chpa"] \in Conditions
    BY DEF IInv, TypeOK, Cells
  <1> DEFINE new == [worker.status EXCEPT !.conditions = heap["chpa"]]
  <1>4. /\ new \in StatusWith(Conditions) /\ new.conditions = heap["chpa"]
        /\ new.last = worker.status.last /\ new.metrics = worker.status.metrics
    BY <1>2, <1>3 DEF StatusWith
  <1>5. Deref(worker.status) = new
    BY <1>2 DEF Deref, StatusWith
  <1>6. chpa \in [valid : BOOLEAN, status : StatusWith(Conditions)]
    BY DEF IInv, TypeOK
  <1>7. chpa' = [chpa EXCEPT !.status = new]
    BY <1>5 DEF Written
  <1> HIDE DEF new
  <1> QED
    BY <1>4, <1>6, <1>7

LEMMA WrittenStep == ASSUME IInv, Written PROVE IInv'
  <1>1. /\ heap \in [Cells -> Conditions] /\ queue \in {"ready", "timer", "none"}
        /\ cache \in [current : BOOLEAN, valid : BOOLEAN, status : StatusWith(Cells)]
    BY DEF IInv, TypeOK
  <1>2. /\ worker' = Idle /\ heap' = Freed(heap) /\ worker # Idle
        /\ queue' \in {"ready", "timer", "none"}
        /\ cache' = [cache EXCEPT !.current = FALSE]
    BY DEF Written, Finish, Idle
  <1>3. heap' \in [Cells -> Conditions] /\ heap'["store"] = heap["store"]
    BY <1>1, <1>2, FreedSets
  <1>4. /\ cache'.valid = cache.valid /\ cache'.status = cache.status
        /\ ~cache'.current
        /\ cache' \in [current : BOOLEAN, valid : BOOLEAN, status : StatusWith(Cells)]
    BY <1>1, <1>2
  <1>5. Explained(worker.status.metrics, heap["chpa"])
    BY <1>2 DEF IInv, AllExplained
  <1>6. /\ chpa' \in [valid : BOOLEAN, status : StatusWith(Conditions)]
        /\ Explained(chpa'.status.metrics, chpa'.status.conditions)
    BY <1>5, WrittenSets DEF Explained
  <1> QED
    BY <1>2, <1>3, <1>4, <1>6, EndStep

-------------------------------------------------------------------------------
(* The informer, the user and time.                                           *)

LEMMA SyncStep == ASSUME IInv, Sync PROVE IInv'
  <1> DEFINE status == [chpa.status EXCEPT !.conditions = "store"]
  <1>1. /\ heap \in [Cells -> Conditions] /\ queue \in {"ready", "timer", "none"}
        /\ chpa \in [valid : BOOLEAN, status : StatusWith(Conditions)]
        /\ chpa.status \in StatusWith(Conditions)
        /\ chpa.status.conditions \in Conditions
    BY DEF IInv, TypeOK, StatusWith
  <1>2. /\ status \in StatusWith(Cells) /\ status.conditions = "store"
        /\ status.metrics = chpa.status.metrics
        /\ [status EXCEPT !.conditions = chpa.status.conditions] = chpa.status
    BY <1>1 DEF StatusWith, Cells
  <1>3. /\ cache' = [current |-> TRUE, valid |-> chpa.valid, status |-> status]
        /\ heap' = [heap EXCEPT !["store"] = chpa.status.conditions]
        /\ queue' \in {"ready", "timer", "none"} /\ UNCHANGED <<chpa, worker>>
    BY <1>1 DEF Sync
  <1> HIDE DEF status
  <1>4. /\ heap' \in [Cells -> Conditions] /\ heap'["store"] = chpa.status.conditions
        /\ heap'["chpa"] = heap["chpa"]
    BY <1>1, <1>3 DEF Cells
  <1>5. /\ cache'.valid = chpa.valid /\ cache'.status = status
        /\ cache' \in [current : BOOLEAN, valid : BOOLEAN, status : StatusWith(Cells)]
    BY <1>1, <1>2, <1>3
  <1>6. TypeOK'
    BY <1>3, <1>4, <1>5 DEF IInv, TypeOK
  <1>7. Unshared'
    BY <1>2, <1>3, <1>5 DEF IInv, Unshared
  <1>8. StoreIntact'
    BY <1>2, <1>3, <1>4, <1>5 DEF StoreIntact, Deref
  <1>9. CurrentIsTrue' /\ ScaleTold'
    BY <1>3, <1>4 DEF IInv, CurrentIsTrue, ScaleTold, Now
  <1>10. AllExplained'
    BY <1>2, <1>3, <1>4, <1>5 DEF IInv, AllExplained, Explained
  <1> QED
    BY <1>6, <1>7, <1>8, <1>9, <1>10 DEF IInv

LEMMA EditStep == ASSUME IInv, Edit PROVE IInv'
  <1> DEFINE old == [worker EXCEPT !.current = FALSE]
  <1>1. /\ heap \in [Cells -> Conditions] /\ worker \in Worker
        /\ chpa \in [valid : BOOLEAN, status : StatusWith(Conditions)]
        /\ cache \in [current : BOOLEAN, valid : BOOLEAN, status : StatusWith(Cells)]
    BY DEF IInv, TypeOK
  <1>2. /\ cache' = [cache EXCEPT !.current = FALSE] /\ UNCHANGED <<heap, queue>>
        /\ worker' = IF worker = Idle THEN Idle ELSE old
    BY DEF Edit
  <1>3. PICK valid \in BOOLEAN : chpa' = [chpa EXCEPT !.valid = valid]
    BY DEF Edit
  <1>4. /\ chpa' \in [valid : BOOLEAN, status : StatusWith(Conditions)]
        /\ chpa'.status = chpa.status
    BY <1>1, <1>3
  <1>5. /\ cache' \in [current : BOOLEAN, valid : BOOLEAN, status : StatusWith(Cells)]
        /\ ~cache'.current /\ cache'.status = cache.status
    BY <1>1, <1>2
  <1>6. ASSUME worker # Idle
        PROVE  /\ old \in Worker /\ old # Idle /\ ~old.current
               /\ old.phase = worker.phase /\ old.status = worker.status
               /\ old.original = worker.original
               /\ worker.phase = "scale" => old.metrics = worker.metrics
    BY <1>1, <1>6 DEF Worker, Idle
  <1> HIDE DEF old
  <1>7. worker' \in Worker /\ (worker' # Idle <=> worker # Idle)
    BY <1>1, <1>2, <1>6
  <1>8. TypeOK'
    BY <1>2, <1>4, <1>5, <1>7 DEF IInv, TypeOK
  <1>9. Unshared' /\ StoreIntact' /\ CurrentIsTrue'
    BY <1>2, <1>5, <1>6 DEF IInv, Unshared, StoreIntact, CurrentIsTrue
  <1>10. AllExplained'
    BY <1>2, <1>4, <1>5, <1>6 DEF IInv, AllExplained, Explained, Idle
  <1>11. ScaleTold'
    BY <1>2, <1>6 DEF IInv, ScaleTold, Now
  <1> QED
    BY <1>8, <1>9, <1>10, <1>11 DEF IInv

LEMMA TickStep == ASSUME IInv, Tick PROVE IInv'
  <1>1. /\ heap \in [Cells -> Conditions] /\ queue \in {"ready", "timer", "none"}
        /\ chpa \in [valid : BOOLEAN, status : StatusWith(Conditions)]
        /\ chpa.status \in StatusWith(Conditions)
        /\ chpa.status.conditions \in Conditions
        /\ cache \in [current : BOOLEAN, valid : BOOLEAN, status : StatusWith(Cells)]
        /\ cache.status \in StatusWith(Cells) /\ cache.status.conditions = "store"
        /\ worker = Idle
    BY DEF IInv, TypeOK, StatusWith, Unshared, Tick
  <1>2. \A time \in Times : Older(time) \in Times
    BY DEF Older, Times, Never
  <1>3. \A conditions \in Conditions : OlderConditions(conditions) \in Conditions
    BY OlderIsSame
  <1>4. ASSUME NEW metrics, NEW conditions \in Conditions, Explained(metrics, conditions)
        PROVE  Explained(metrics, OlderConditions(conditions))
    <2>1. "ScalingActive" \in Types
      BY DEF Types
    <2> QED
      BY <1>4, <2>1, OlderIsSame DEF Explained
  <1> DEFINE older == [OlderStatus(chpa.status) EXCEPT
                         !.conditions = OlderConditions(chpa.status.conditions)]
             seen == OlderStatus(cache.status)
  <1>5. /\ chpa' = [chpa EXCEPT !.status = older]
        /\ cache' = [cache EXCEPT !.status = seen]
        /\ heap' = [cell \in Cells |-> OlderConditions(heap[cell])]
        /\ worker' = Idle /\ queue' \in {"ready", "timer", "none"}
    <2>1. OlderStatus(chpa.status).conditions = chpa.status.conditions
      BY <1>1 DEF OlderStatus, StatusWith
    <2> QED
      BY <1>1, <2>1 DEF Tick
  <1>6. /\ older \in StatusWith(Conditions)
        /\ older.conditions = OlderConditions(chpa.status.conditions)
        /\ older.metrics = chpa.status.metrics
    BY <1>1, <1>2, <1>3 DEF StatusWith, OlderStatus
  <1>7. /\ seen \in StatusWith(Cells) /\ seen.conditions = "store"
        /\ seen.metrics = cache.status.metrics
    BY <1>1, <1>2 DEF StatusWith, OlderStatus
  <1>8. ASSUME cache.current
        PROVE  older = [seen EXCEPT !.conditions = OlderConditions(heap["store"])]
    <2>1. chpa.status = [cache.status EXCEPT !.conditions = heap["store"]]
      BY <1>1, <1>8 DEF IInv, StoreIntact, Deref
    <2> QED
      BY <1>1, <2>1 DEF StatusWith, OlderStatus
  <1> HIDE DEF older, seen
  <1>9. /\ heap' \in [Cells -> Conditions] /\ heap["store"] \in Conditions
        /\ heap'["store"] = OlderConditions(heap["store"])
    BY <1>1, <1>3, <1>5 DEF Cells
  <1>10. /\ chpa' \in [valid : BOOLEAN, status : StatusWith(Conditions)]
         /\ chpa'.status = older /\ chpa'.valid = chpa.valid
    BY <1>1, <1>5, <1>6
  <1>11. /\ cache' \in [current : BOOLEAN, valid : BOOLEAN, status : StatusWith(Cells)]
         /\ cache'.status = seen /\ cache'.valid = cache.valid
         /\ cache'.current = cache.current
    BY <1>1, <1>5, <1>7
  <1>12. TypeOK'
    BY <1>5, <1>9, <1>10, <1>11 DEF TypeOK, Worker
  <1>13. Unshared' /\ CurrentIsTrue' /\ ScaleTold'
    BY <1>5, <1>7, <1>11 DEF Unshared, CurrentIsTrue, ScaleTold
  <1>14. StoreIntact'
    BY <1>7, <1>8, <1>9, <1>10, <1>11 DEF IInv, StoreIntact, Deref
  <1>15. AllExplained'
    <2>1. /\ Explained(chpa.status.metrics, chpa.status.conditions)
          /\ Explained(cache.status.metrics, heap["store"])
      BY DEF IInv, AllExplained
    <2>2. /\ Explained(older.metrics, older.conditions)
          /\ Explained(seen.metrics, heap'["store"])
      BY <1>1, <1>4, <1>6, <1>7, <1>9, <2>1
    <2> QED
      BY <1>5, <1>10, <1>11, <2>2 DEF AllExplained, Explained, Idle
  <1> QED
    BY <1>12, <1>13, <1>14, <1>15 DEF IInv

-------------------------------------------------------------------------------
(* The theorems.                                                              *)

LEMMA NextIInv == IInv /\ [Next]_vars => IInv'
  <1> SUFFICES ASSUME IInv, [Next]_vars PROVE IInv'
    OBVIOUS
  <1>1. CASE Stop
    BY <1>1, StopStep
  <1>2. CASE Read
    BY <1>2, ReadStep
  <1>3. CASE Disabled
    BY <1>3, DisabledStep
  <1>4. CASE CorrectBounds
    BY <1>4, CorrectBoundsStep
  <1>5. CASE FollowMetrics
    BY <1>5, FollowMetricsStep
  <1>6. CASE Rescale
    BY <1>6, RescaleStep
  <1>7. CASE Skipped
    BY <1>7, NoWriteStep DEF Skipped
  <1>8. CASE Written
    BY <1>8, WrittenStep
  <1>9. CASE MetricsFail
    <2>1. /\ "ScalingActive" \in Types /\ "False" \in Statuses
          /\ "FailedGetMetric" \in Reasons["ScalingActive"]
                                   \ {"ScalingDisabled", "SucceededRescale"}
      BY ReasonsOfTypes DEF Types, Statuses
    <2> QED
      BY <1>9, <2>1, FailureStep DEF MetricsFail, FollowsMetrics, Deciding
  <1>10. CASE ScaleFails
    <2>1. /\ "AbleToScale" \in Types /\ "False" \in Statuses
          /\ "FailedUpdateScale" \in Reasons["AbleToScale"]
                                     \ {"ScalingDisabled", "SucceededRescale"}
      BY ReasonsOfTypes DEF Types, Statuses
    <2> QED
      BY <1>10, <2>1, FailureStep DEF ScaleFails, Scaling
  <1>11. CASE NotWritten
    BY <1>11, NoWriteStep DEF NotWritten
  <1>12. CASE Sync
    BY <1>12, SyncStep
  <1>13. CASE Edit
    BY <1>13, EditStep
  <1>14. CASE Tick
    BY <1>14, TickStep
  <1>15. CASE UNCHANGED vars
    <2>1. UNCHANGED <<chpa, cache, heap, queue, worker>>
      BY <1>15 DEF vars
    <2> QED
      BY <2>1
         DEF IInv, TypeOK, Unshared, StoreIntact, CurrentIsTrue, AllExplained,
             ScaleTold, Deref, Explained, Now
  <1> QED
    BY <1>1, <1>2, <1>3, <1>4, <1>5, <1>6, <1>7, <1>8, <1>9, <1>10, <1>11, <1>12,
       <1>13, <1>14, <1>15
       DEF Next, WorkerStep, Reconcile, Decide, Failure

LEMMA AlwaysIInv == Spec => []IInv
  BY InitIInv, NextIInv, PTL DEF Spec

\* Every variable keeps its type: conditions carry reasons of their own, and a
\* reconcile in progress is in one of its phases.
THEOREM ConditionsTypeCorrect == Spec => []TypeOK
  <1>1. IInv => TypeOK
    BY DEF IInv
  <1> QED
    BY AlwaysIInv, <1>1, PTL

\* The in-place changes of setCondition never reach the informer's store: as
\* long as it is current it shows the status the API server holds.
THEOREM StoreSafe == Spec => []StoreIntact
  <1>1. IInv => StoreIntact
    BY DEF IInv
  <1> QED
    BY AlwaysIInv, <1>1, PTL

\* No CHPA reports metrics while it says that scaling is disabled, whatever
\* reconciles fail between the measurement and the write.
THEOREM MetricsAlwaysExplained == Spec => []MetricsExplained
  <1>1. IInv => MetricsExplained
    BY DEF IInv, AllExplained, Explained, MetricsExplained
  <1> QED
    BY AlwaysIInv, <1>1, PTL

\* A step that writes the status is a Written, as nothing else ends a
\* reconcile and changes the CHPA.
LEMMA WritesAreWritten ==
    ASSUME IInv, [Next]_vars, Writes
    PROVE  Written
  <1>1. /\ worker.phase = "status" /\ worker # Idle /\ worker' = Idle /\ chpa' # chpa
    BY DEF Writes, Idle
  <1>2. ~Edit
    BY <1>1 DEF Edit, Idle
  <1>3. ~Tick /\ ~Stop /\ ~Read
    BY <1>1 DEF Tick, Stop, Read, Taken
  <1>4. ~Disabled /\ ~CorrectBounds /\ ~FollowMetrics /\ ~MetricsFail
    BY <1>1 DEF Disabled, CorrectBounds, FollowMetrics, MetricsFail, FollowsMetrics, Deciding
  <1>5. ~Rescale /\ ~ScaleFails
    BY <1>1 DEF Rescale, ScaleFails, Scaling
  <1>6. ~Skipped /\ ~NotWritten /\ ~Sync
    BY <1>1 DEF Skipped, NotWritten, Sync
  <1>7. ~UNCHANGED vars
    BY <1>1 DEF vars
  <1> QED
    BY <1>2, <1>3, <1>4, <1>5, <1>6, <1>7
       DEF Next, WorkerStep, Reconcile, Decide, Failure

\* SucceededRescale and LastScaleTime are written together or not at all, so
\* that the user and the forbidden windows hear of the same rescales.
THEOREM RescaleAlwaysTold == Spec => RescaleTold
  <1> DEFINE Told ==
        LET able == chpa'.status.conditions["AbleToScale"] IN
        /\ able.reason = "SucceededRescale" => chpa'.status.last = Now
        /\ chpa'.status.last # chpa.status.last => able.reason = "SucceededRescale"
  <1>1. IInv /\ [Next]_vars => (Writes => Told)
    <2> SUFFICES ASSUME IInv, [Next]_vars, Writes PROVE Told
      OBVIOUS
    <2>1. Written
      BY WritesAreWritten
    <2>2. worker # Idle /\ worker.current
      BY <2>1 DEF Written, Finish, Idle
    <2>3. /\ chpa'.status.conditions = heap["chpa"]
          /\ chpa'.status.last = worker.status.last
      BY <2>1, WrittenSets
    <2>4. worker.original.last = chpa.status.last
      BY <2>2 DEF IInv, CurrentIsTrue
    <2>5. worker.status.last =
            IF heap["chpa"]["AbleToScale"].reason = "SucceededRescale"
            THEN Now ELSE worker.original.last
      BY <2>2 DEF IInv, ScaleTold
    <2> QED
      BY <2>3, <2>4, <2>5
  <1>2. IInv /\ [Next]_vars => [Writes => Told]_vars
    BY <1>1
  <1> QED
    BY AlwaysIInv, <1>2, PTL DEF Spec, RescaleTold

-------------------------------------------------------------------------------
(* What a write changes.                                                      *)

\* Between two versions of a condition the transition time moves only with the
\* status.
Honest(old, new) ==
    old # Unset /\ new # Unset /\ old.status = new.status => old.since = new.since

\* The copy's condition is True, and for no shorter than the original's.
StillAble ==
    LET new == heap["chpa"]["AbleToScale"] IN
    new.status = "True" /\ Honest(heap["original"]["AbleToScale"], new)

\* The original of a current reconcile is what the API server holds.
OriginalTrue ==
    worker # Idle /\ worker.current => chpa.status = Deref(worker.original)

\* ScalingActive and ScalingLimited are set at most once.
OthersHonest ==
    worker # Idle =>
      \A type \in {"ScalingActive", "ScalingLimited"} :
        LET old == heap["original"][type]
            new == heap["chpa"][type]
        IN  IF worker.phase = "decide" THEN new = old ELSE Honest(old, new)

\* AbleToScale is set again and again and keeps its time while it stays True: it
\* has a new one only if it was False for a while, in a window, out of which
\* nothing but a rescale leads.
AbleHonest ==
    /\ worker.phase = "decide" => StillAble
    /\ worker.phase = "scale" => StillAble \/ worker.original.last # Now
    /\ worker.phase = "status" /\ heap["chpa"]["AbleToScale"].status = "True" =>
         StillAble \/ worker.status.last # worker.original.last

CopyHonest == OriginalTrue /\ OthersHonest /\ AbleHonest

\* setCondition moves the transition time only with the status.
LEMMA SetConditionHonest ==
    ASSUME NEW conditions \in Conditions, NEW type \in Types,
           NEW status \in Statuses, NEW reason \in Reasons[type]
    PROVE  LET new == SetCondition(conditions, type, status, reason)[type] IN
           /\ new.status = status
           /\ Honest(conditions[type], new)
           /\ conditions[type].status = status => new.since = conditions[type].since
  <1> DEFINE one == [status |-> status, reason |-> reason,
                     since |-> IF conditions[type].status # status THEN "now"
                               ELSE conditions[type].since]
  <1>1. SetCondition(conditions, type, status, reason)[type] = one
    BY DEF SetCondition, Conditions
  <1> QED
    BY <1>1 DEF Honest

\* A condition that stays as it is, or that is set to the same status again, keeps
\* what was honest.
LEMMA HonestAgain ==
    ASSUME NEW old, NEW one, NEW new, Honest(old, one),
           one # Unset, new.status = one.status, new.since = one.since
    PROVE  Honest(old, new)
  BY DEF Honest

\* A reconcile's setCondition does not touch the original.
LEMMA SetHonest ==
    ASSUME TypeOK, Unshared, worker # Idle, NEW type \in Types,
           NEW status \in Statuses, NEW reason \in Reasons[type],
           Set(type, status, reason)
    PROVE  LET old == heap["chpa"][type]
               new == heap'["chpa"][type]
           IN  /\ heap'["original"] = heap["original"]
               /\ new.status = status
               /\ Honest(old, new)
               /\ old.status = status => new.since = old.since
  <1> DEFINE new == SetCondition(heap["chpa"], type, status, reason)
  <1>1. heap \in [Cells -> Conditions] /\ heap["chpa"] \in Conditions
    BY DEF TypeOK, Cells
  <1>2. heap' = [heap EXCEPT !["chpa"] = new]
    BY DEF Set, Unshared
  <1>3. /\ new[type].status = status /\ Honest(heap["chpa"][type], new[type])
        /\ heap["chpa"][type].status = status => new[type].since = heap["chpa"][type].since
    BY <1>1, SetConditionHonest
  <1> HIDE DEF new
  <1>4. heap'["chpa"] = new /\ heap'["original"] = heap["original"]
    BY <1>1, <1>2 DEF Cells
  <1> QED
    BY <1>3, <1>4

\* The original's conditions are out of reach, so what the reconcile is current
\* with stays what it read.
LEMMA OriginalKept ==
    ASSUME IInv, CopyHonest, worker # Idle, worker' # Idle,
           worker'.current = worker.current, worker'.original = worker.original,
           chpa' = chpa, heap'["original"] = heap["original"]
    PROVE  OriginalTrue'
  <1>1. worker.original.conditions = "original"
    BY DEF IInv, Unshared
  <1> QED
    BY <1>1 DEF CopyHonest, OriginalTrue, Deref

LEMMA ReadHonest == ASSUME IInv, Read PROVE CopyHonest'
  <1> DEFINE status == [cache.status EXCEPT !.conditions = "chpa"]
             original == [cache.status EXCEPT !.conditions = "original"]
             able == SetCondition(heap["store"], "AbleToScale", "True",
                                  "SucceededGetScale")
  <1>1. /\ heap \in [Cells -> Conditions] /\ heap["store"] \in Conditions
        /\ cache.status \in StatusWith(Cells) /\ cache.status.conditions = "store"
        /\ chpa' = chpa
    BY DEF IInv, TypeOK, Cells, Unshared, Read
  <1>2. /\ DeepCopy(cache.status, "chpa") = status
        /\ DeepCopy(status, "original") = original
        /\ status.conditions = "chpa" /\ original.conditions = "original"
        /\ [original EXCEPT !.conditions = heap["store"]]
             = [cache.status EXCEPT !.conditions = heap["store"]]
    BY <1>1 DEF DeepCopy, StatusWith
  <1>3. heap' = [[heap EXCEPT !["chpa"] = heap["store"], !["original"] = heap["store"]]
                   EXCEPT !["chpa"] = able]
    BY <1>1, <1>2 DEF Read, Cells
  <1>4. /\ worker'.phase = "decide" /\ worker'.current = cache.current
        /\ worker'.original = original
    BY <1>2 DEF Read
  <1>5. /\ "AbleToScale" \in Types /\ "True" \in Statuses
        /\ "SucceededGetScale" \in Reasons["AbleToScale"]
        /\ {"ScalingActive", "ScalingLimited"} = Types \ {"AbleToScale"}
    BY ReasonsOfTypes DEF Types, Statuses
  <1>6. /\ able["AbleToScale"].status = "True"
        /\ Honest(heap["store"]["AbleToScale"], able["AbleToScale"])
        /\ \A type \in {"ScalingActive", "ScalingLimited"} :
             able[type] = heap["store"][type]
    BY <1>1, <1>5, SetConditionSets, SetConditionHonest
  <1> HIDE DEF able, status, original
  <1>7. heap'["chpa"] = able /\ heap'["original"] = heap["store"]
    BY <1>1, <1>3 DEF Cells
  <1>8. OriginalTrue'
    <2>1. cache.current => chpa.status = [cache.status EXCEPT !.conditions = heap["store"]]
      BY <1>1 DEF IInv, StoreIntact, Deref
    <2> QED
      BY <1>1, <1>2, <1>4, <1>7, <2>1 DEF OriginalTrue, Deref
  <1>9. OthersHonest'
    BY <1>4, <1>6, <1>7 DEF OthersHonest
  <1>10. AbleHonest'
    BY <1>4, <1>6, <1>7 DEF AbleHonest, StillAble
  <1> QED
    BY <1>8, <1>9, <1>10 DEF CopyHonest

\* A step that sets ScalingActive and has done.
LEMMA ActiveHonest ==
    ASSUME IInv, CopyHonest, worker.phase = "decide", UNCHANGED chpa,
           NEW status \in Statuses, NEW reason \in Reasons["ScalingActive"],
           Set("ScalingActive", status, reason),
           NEW new \in StatusWith(Cells), ToStatus(new)
    PROVE  CopyHonest'
  <1>1. /\ worker # Idle /\ TypeOK /\ Unshared
        /\ "ScalingActive" \in Types /\ "ScalingLimited" \in Types \ {"ScalingActive"}
        /\ "AbleToScale" \in Types \ {"ScalingActive"}
    BY DEF IInv, Idle, Types
  <1>2. /\ heap'["original"] = heap["original"]
        /\ Honest(heap["chpa"]["ScalingActive"], heap'["chpa"]["ScalingActive"])
        /\ heap'["chpa"]["ScalingLimited"] = heap["chpa"]["ScalingLimited"]
        /\ heap'["chpa"]["AbleToScale"] = heap["chpa"]["AbleToScale"]
    BY <1>1, SetHonest, SetSets
  <1>3. /\ worker' # Idle /\ worker'.phase = "status"
        /\ worker'.current = worker.current /\ worker'.original = worker.original
    BY <1>1, ToStatusSets
  <1>4. OriginalTrue'
    BY <1>1, <1>2, <1>3, OriginalKept
  <1>5. OthersHonest'
    BY <1>1, <1>2, <1>3 DEF CopyHonest, OthersHonest, Honest
  <1>6. AbleHonest'
    BY <1>1, <1>2, <1>3 DEF CopyHonest, AbleHonest, StillAble
  <1> QED
    BY <1>4, <1>5, <1>6 DEF CopyHonest

\* The update of the Deployment is told by AbleToScale alone.
LEMMA ScaledHonest ==
    ASSUME IInv, CopyHonest, worker.phase = "scale", UNCHANGED chpa,
           NEW status \in Statuses, NEW reason \in Reasons["AbleToScale"],
           Set("AbleToScale", status, reason),
           NEW new \in StatusWith(Cells), ToStatus(new),
           status = "True" => new.last = Now
    PROVE  CopyHonest'
  <1>1. /\ worker # Idle /\ TypeOK /\ Unshared
        /\ "AbleToScale" \in Types
        /\ {"ScalingActive", "ScalingLimited"} = Types \ {"AbleToScale"}
    BY DEF IInv, Idle, Types
  <1>2. /\ heap'["original"] = heap["original"]
        /\ heap'["chpa"]["AbleToScale"].status = status
        /\ heap["chpa"]["AbleToScale"].status = status =>
             heap'["chpa"]["AbleToScale"].since = heap["chpa"]["AbleToScale"].since
        /\ \A type \in {"ScalingActive", "ScalingLimited"} :
             heap'["chpa"][type] = heap["chpa"][type]
    BY <1>1, SetHonest, SetSets
  <1>3. /\ worker' # Idle /\ worker'.phase = "status" /\ worker'.status = new
        /\ worker'.current = worker.current /\ worker'.original = worker.original
    BY <1>1, ToStatusSets
  <1>4. OriginalTrue'
    BY <1>1, <1>2, <1>3, OriginalKept
  <1>5. heap["chpa"]["AbleToScale"] # Unset
    BY <1>1 DEF IInv, ScaleTold
  <1>6. OthersHonest'
    BY <1>1, <1>2, <1>3 DEF CopyHonest, OthersHonest
  <1>7. ASSUME status = "True"
        PROVE  StillAble' \/ worker'.status.last # worker'.original.last
    <2>1. CASE StillAble
      <3>1. Honest(heap["original"]["AbleToScale"], heap'["chpa"]["AbleToScale"])
        BY <1>2, <1>5, <1>7, <2>1, HonestAgain DEF StillAble
      <3> QED
        BY <1>2, <1>7, <3>1 DEF StillAble
    <2>2. CASE worker.original.last # Now
      BY <1>3, <1>7, <2>2
    <2> QED
      BY <2>1, <2>2 DEF CopyHonest, AbleHonest
  <1>8. AbleHonest'
    BY <1>2, <1>3, <1>7 DEF AbleHonest
  <1> QED
    BY <1>4, <1>6, <1>8 DEF CopyHonest

\* Some forbidden window has not passed.
Windowed(timestamp) ==
    \E window \in {chpaSpec.down, chpaSpec.up} :
      worker.status.last # Never /\ ~WindowPassed(worker.status.last, window, timestamp)

\* What metrics leave in the conditions is honest, and AbleToScale is False just
\* when a window has not passed.
LEMMA MetricsHonest ==
    ASSUME NEW conditions \in Conditions, NEW status \in Statuses,
           NEW limit \in Reasons["ScalingLimited"], NEW timestamp
    PROVE  LET active == SetCondition(conditions, "ScalingActive", "True",
                                      "ValidMetricFound")
               limited == SetCondition(active, "ScalingLimited", status, limit)
               new == WithBackoff(limited, timestamp)
           IN  /\ \A type \in {"ScalingActive", "ScalingLimited"} :
                    Honest(conditions[type], new[type])
               /\ new["AbleToScale"].status =
                    IF Windowed(timestamp) THEN "False" ELSE "True"
               /\ conditions["AbleToScale"].status = new["AbleToScale"].status =>
                    new["AbleToScale"].since = conditions["AbleToScale"].since
  <1> DEFINE active == SetCondition(conditions, "ScalingActive", "True",
                                    "ValidMetricFound")
             limited == SetCondition(active, "ScalingLimited", status, limit)
             able == IF Windowed(timestamp) THEN "False" ELSE "True"
  <1>1. /\ "True" \in Statuses /\ "False" \in Statuses /\ able \in Statuses
        /\ "AbleToScale" \in Types /\ "ScalingActive" \in Types
        /\ "ScalingLimited" \in Types
        /\ "ValidMetricFound" \in Reasons["ScalingActive"]
    BY ReasonsOfTypes DEF Types, Statuses
  <1>2. /\ active \in Conditions
        /\ Honest(conditions["ScalingActive"], active["ScalingActive"])
        /\ active["ScalingLimited"] = conditions["ScalingLimited"]
        /\ active["AbleToScale"] = conditions["AbleToScale"]
    BY <1>1, SetConditionSets, SetConditionHonest
  <1> HIDE DEF active
  <1>3. /\ limited \in Conditions
        /\ Honest(active["ScalingLimited"], limited["ScalingLimited"])
        /\ limited["ScalingActive"] = active["ScalingActive"]
        /\ limited["AbleToScale"] = active["AbleToScale"]
    BY <1>1, <1>2, SetConditionSets, SetConditionHonest
  <1> HIDE DEF limited
  <1>4. PICK reason \in Reasons["AbleToScale"] :
          WithBackoff(limited, timestamp)
            = SetCondition(limited, "AbleToScale", able, reason)
    <2> DEFINE Within(window) == /\ worker.status.last # Never
                                 /\ ~WindowPassed(worker.status.last, window, timestamp)
               down == Within(chpaSpec.down)
               up == Within(chpaSpec.up)
    <2>1. down \in BOOLEAN /\ up \in BOOLEAN /\ (Windowed(timestamp) <=> down \/ up)
      BY DEF Windowed
    <2>2. WithBackoff(limited, timestamp) =
            IF down \/ up
            THEN SetCondition(limited, "AbleToScale", "False", BackoffReason(down, up))
            ELSE SetCondition(limited, "AbleToScale", "True", "ReadyForNewScale")
      BY DEF WithBackoff
    <2> HIDE DEF down, up
    <2>3. /\ BackoffReason(down, up) \in Reasons["AbleToScale"]
          /\ "ReadyForNewScale" \in Reasons["AbleToScale"]
      BY ReasonsOfTypes DEF BackoffReason
    <2> QED
      BY <2>1, <2>2, <2>3
  <1> DEFINE new == WithBackoff(limited, timestamp)
  <1> HIDE DEF able
  <1>5. /\ new["AbleToScale"].status = able
        /\ limited["AbleToScale"].status = able =>
             new["AbleToScale"].since = limited["AbleToScale"].since
        /\ new["ScalingActive"] = limited["ScalingActive"]
        /\ new["ScalingLimited"] = limited["ScalingLimited"]
    <2>1. new = SetCondition(limited, "AbleToScale", able, reason)
      BY <1>4 DEF new
    <2> HIDE DEF new
    <2>2. /\ new["AbleToScale"].status = able
          /\ limited["AbleToScale"].status = able =>
               new["AbleToScale"].since = limited["AbleToScale"].since
      BY <1>1, <1>3, <2>1, SetConditionHonest
    <2>3. \A other \in Types \ {"AbleToScale"} : new[other] = limited[other]
      <3>1. limited \in Conditions /\ "AbleToScale" \in Types /\ able \in Statuses
        BY <1>1, <1>3
      <3> QED
        BY <2>1, <3>1, SetConditionSets
    <2> QED
      BY <1>1, <2>2, <2>3
  <1> HIDE DEF new
  <1> QED
    BY <1>2, <1>3, <1>5 DEF able, new, limited, active

LEMMA FollowMetricsHonest == ASSUME IInv, CopyHonest, FollowMetrics PROVE CopyHonest'
  <1>1. /\ worker.phase = "decide" /\ UNCHANGED <<chpa, cache, queue>>
    BY DEF FollowMetrics, FollowsMetrics, Deciding
  <1>2. /\ worker # Idle /\ worker.status \in StatusWith(Cells) /\ TypeOK
        /\ worker.status.conditions = "chpa" /\ worker.pods \in Nat
        /\ worker.status.metrics \in Metrics /\ worker.status.last \in Times
        /\ heap \in [Cells -> Conditions] /\ heap["chpa"] \in Conditions
        /\ heap["chpa"]["AbleToScale"] # Unset
        /\ worker.status.last = worker.original.last
    BY <1>1, AtWork DEF IInv
  <1>3. PICK proposal \in Proposals, lag \in 0..MetricLag :
          LET timestamp == IF proposal > 0 THEN Now - lag ELSE Now
              desired == NormalizeDesired(chpaSpec, worker.pods, proposal)
              active == SetCondition(heap["chpa"], "ScalingActive", "True",
                                     "ValidMetricFound")
              limited == SetCondition(active, "ScalingLimited",
                                      IF desired = proposal THEN "False" ELSE "True",
                                      Limit(worker.pods, proposal))
          IN  /\ heap' = [heap EXCEPT !["chpa"] = WithBackoff(limited, timestamp)]
              /\ IF ShouldScale(chpaSpec, worker.status.last, worker.pods,
                                desired, timestamp)
                 THEN ToScale(desired, <<proposal>>)
                 ELSE ToStatus(SetStatus(worker.status, worker.pods, worker.pods,
                                         <<proposal>>, FALSE))
    BY <1>2 DEF FollowMetrics
  <1> DEFINE timestamp == IF proposal > 0 THEN Now - lag ELSE Now
             desired == NormalizeDesired(chpaSpec, worker.pods, proposal)
             status == IF desired = proposal THEN "False" ELSE "True"
             limit == Limit(worker.pods, proposal)
             active == SetCondition(heap["chpa"], "ScalingActive", "True",
                                    "ValidMetricFound")
             limited == SetCondition(active, "ScalingLimited", status, limit)
             conditions == WithBackoff(limited, timestamp)
             scales == ShouldScale(chpaSpec, worker.status.last, worker.pods,
                                   desired, timestamp)
             new == SetStatus(worker.status, worker.pods, worker.pods,
                              <<proposal>>, FALSE)
  <1>4. heap' = [heap EXCEPT !["chpa"] = conditions]
    BY <1>3
  <1>5. IF scales THEN ToScale(desired, <<proposal>>) ELSE ToStatus(new)
    BY <1>3
  <1>6. desired \in Nat
    BY <1>2, StatusAssumption, NormalizedIsPositive
  <1>7. <<proposal>> \in Metrics
    BY DEF Metrics
  <1>8. status \in Statuses /\ limit \in Reasons["ScalingLimited"]
    BY ReasonsOfTypes DEF Statuses, Limit
  <1>9. timestamp \in Int /\ timestamp <= Now /\ Now \in Nat
    BY StatusAssumption DEF Now
  <1>10. scales /\ Windowed(timestamp) => worker.original.last # Now
    <2>1. chpaSpec.down \in Nat \ {0} /\ chpaSpec.up \in Nat \ {0}
      BY StatusAssumption DEF Completed, CHPASpec
    <2> HIDE DEF timestamp, desired
    <2> QED
      BY <1>2, <1>9, <2>1 DEF ShouldScale, Windowed, WindowPassed, Times, Never
  <1> HIDE DEF timestamp, status, limit, scales
  <1>11. /\ \A type \in {"ScalingActive", "ScalingLimited"} :
              Honest(heap["chpa"][type], conditions[type])
         /\ conditions["AbleToScale"].status =
              IF Windowed(timestamp) THEN "False" ELSE "True"
         /\ heap["chpa"]["AbleToScale"].status = conditions["AbleToScale"].status =>
              conditions["AbleToScale"].since = heap["chpa"]["AbleToScale"].since
    BY <1>2, <1>8, MetricsHonest
  <1> HIDE DEF conditions, desired
  <1>12. heap'["chpa"] = conditions /\ heap'["original"] = heap["original"]
    BY <1>2, <1>4 DEF Cells
  <1>13. new \in StatusWith(Cells) /\ new.last = worker.status.last
    BY <1>2, <1>7, SetStatusSets
  <1> HIDE DEF new
  <1>14. /\ worker' # Idle /\ worker'.current = worker.current
         /\ worker'.original = worker.original
         /\ worker'.phase = IF scales THEN "scale" ELSE "status"
    <2>1. CASE scales
      BY <1>1, <1>2, <1>5, <1>6, <1>7, <2>1, ToScaleSets
    <2>2. CASE ~scales
      BY <1>1, <1>2, <1>5, <1>13, <2>2, ToStatusSets
    <2> QED
      BY <2>1, <2>2
  <1>15. OriginalTrue'
    BY <1>1, <1>2, <1>12, <1>14, OriginalKept
  <1>16. OthersHonest'
    BY <1>1, <1>2, <1>11, <1>12, <1>14 DEF CopyHonest, OthersHonest
  <1>17. ~Windowed(timestamp) => StillAble'
    <2> SUFFICES ASSUME ~Windowed(timestamp) PROVE StillAble'
      OBVIOUS
    <2>1. /\ heap["chpa"]["AbleToScale"].status = "True"
          /\ Honest(heap["original"]["AbleToScale"], heap["chpa"]["AbleToScale"])
      BY <1>1 DEF CopyHonest, AbleHonest, StillAble
    <2>2. Honest(heap["original"]["AbleToScale"], conditions["AbleToScale"])
      BY <1>2, <1>11, <2>1, HonestAgain
    <2> QED
      BY <1>11, <1>12, <2>2 DEF StillAble
  <1>18. AbleHonest'
    BY <1>10, <1>11, <1>12, <1>14, <1>17 DEF AbleHonest
  <1> QED
    BY <1>15, <1>16, <1>18 DEF CopyHonest

LEMMA CorrectBoundsHonest == ASSUME IInv, CopyHonest, CorrectBounds PROVE CopyHonest'
  <1> DEFINE target == BoundsTarget(chpaSpec, worker.pods)
  <1>1. /\ worker.phase = "decide" /\ UNCHANGED <<chpa, cache, queue, heap>>
        /\ ToScale(target, NoMetrics)
    BY DEF CorrectBounds, Deciding
  <1>2. worker # Idle /\ worker.pods \in Nat
    BY <1>1, AtWork
  <1>3. target \in Nat
    BY <1>2, StatusAssumption, BoundsTargetIsPositive
  <1>4. NoMetrics \in Metrics
    BY DEF Metrics
  <1> HIDE DEF target
  <1>5. /\ worker' # Idle /\ worker'.phase = "scale"
        /\ worker'.current = worker.current /\ worker'.original = worker.original
    BY <1>1, <1>3, <1>4, ToScaleSets DEF IInv
  <1>6. OriginalTrue'
    BY <1>1, <1>2, <1>5, OriginalKept
  <1>7. OthersHonest'
    BY <1>1, <1>2, <1>5 DEF CopyHonest, OthersHonest, Honest
  <1>8. AbleHonest'
    BY <1>1, <1>5 DEF CopyHonest, AbleHonest, StillAble
  <1> QED
    BY <1>6, <1>7, <1>8 DEF CopyHonest

LEMMA InitHonest == Init => CopyHonest
  BY DEF Init, CopyHonest, OriginalTrue, OthersHonest, AbleHonest, Idle

\* CopyHonest is about a reconcile in progress.
LEMMA IdleHonest == ASSUME worker' = Idle PROVE CopyHonest'
  BY DEF CopyHonest, OriginalTrue, OthersHonest, AbleHonest, Idle

\* While a reconcile is in progress the informer touches the store only.
LEMMA SyncHonest == ASSUME IInv, CopyHonest, Sync PROVE CopyHonest'
  <1>1. /\ heap \in [Cells -> Conditions] /\ UNCHANGED <<chpa, worker>>
        /\ heap' = [heap EXCEPT !["store"] = chpa.status.conditions]
    BY DEF IInv, TypeOK, Sync
  <1>2. heap'["chpa"] = heap["chpa"] /\ heap'["original"] = heap["original"]
    BY <1>1 DEF Cells
  <1>3. worker # Idle => worker.original.conditions = "original"
    BY DEF IInv, Unshared
  <1>4. OriginalTrue'
    BY <1>1, <1>2, <1>3 DEF CopyHonest, OriginalTrue, Deref
  <1> QED
    BY <1>1, <1>2, <1>4 DEF CopyHonest, OthersHonest, AbleHonest, StillAble

\* An edit makes the copy stale and leaves the conditions alone.
LEMMA EditHonest == ASSUME IInv, CopyHonest, Edit PROVE CopyHonest'
  <1>1. heap' = heap /\ (worker = Idle => worker' = Idle)
    BY DEF Edit
  <1>2. ASSUME worker # Idle
        PROVE  /\ worker' # Idle /\ ~worker'.current /\ worker'.phase = worker.phase
               /\ worker'.status = worker.status /\ worker'.original = worker.original
    <2>1. worker' = [worker EXCEPT !.current = FALSE]
      BY <1>2 DEF Edit
    <2> QED
      BY <1>2, <2>1, WorkerPhases DEF IInv, TypeOK, Worker, Idle
  <1>3. CASE worker = Idle
    BY <1>1, <1>3, IdleHonest
  <1>4. CASE worker # Idle
    BY <1>1, <1>2, <1>4 DEF CopyHonest, OriginalTrue, OthersHonest, AbleHonest, StillAble
  <1> QED
    BY <1>3, <1>4

LEMMA NextHonest == IInv /\ CopyHonest /\ [Next]_vars => CopyHonest'
  <1> SUFFICES ASSUME IInv, CopyHonest, [Next]_vars PROVE CopyHonest'
    OBVIOUS
  <1>1. /\ "True" \in Statuses /\ "False" \in Statuses
        /\ "ScalingDisabled" \in Reasons["ScalingActive"]
        /\ "FailedGetMetric" \in Reasons["ScalingActive"]
        /\ "SucceededRescale" \in Reasons["AbleToScale"]
        /\ "FailedUpdateScale" \in Reasons["AbleToScale"]
    BY ReasonsOfTypes DEF Statuses
  <1> DEFINE kept == SetStatus(worker.status, worker.pods, worker.status.desired,
                               worker.status.metrics, FALSE)
  <1>2. worker.phase \in {"decide", "scale"} => kept \in StatusWith(Cells)
    BY AtWork, SetStatusSets
  <1>3. CASE Read
    BY <1>3, ReadHonest
  <1>4. CASE Disabled
    <2> DEFINE new == SetStatus(worker.status, worker.pods, worker.pods, NoMetrics, FALSE)
    <2>1. /\ worker.phase = "decide" /\ UNCHANGED chpa
          /\ Set("ScalingActive", "False", "ScalingDisabled") /\ ToStatus(new)
      BY <1>4 DEF Disabled, Deciding
    <2>2. new \in StatusWith(Cells)
      BY <2>1, AtWork, SetStatusSets DEF Metrics
    <2> HIDE DEF new
    <2> QED
      BY <1>1, <2>1, <2>2, ActiveHonest
  <1>5. CASE CorrectBounds
    BY <1>5, CorrectBoundsHonest
  <1>6. CASE FollowMetrics
    BY <1>6, FollowMetricsHonest
  <1>7. CASE MetricsFail
    <2>1. /\ worker.phase = "decide" /\ UNCHANGED chpa
          /\ Set("ScalingActive", "False", "FailedGetMetric") /\ ToStatus(kept)
      BY <1>7 DEF MetricsFail, FollowsMetrics, Deciding, KeepTheRest
    <2> HIDE DEF kept
    <2> QED
      BY <1>1, <1>2, <2>1, ActiveHonest
  <1>8. CASE Rescale
    <2> DEFINE new == SetStatus(worker.status, worker.pods, worker.target,
                                worker.metrics, TRUE)
    <2>1. /\ worker.phase = "scale" /\ UNCHANGED chpa
          /\ Set("AbleToScale", "True", "SucceededRescale") /\ ToStatus(new)
      BY <1>8 DEF Rescale, Scaling
    <2>2. worker.target \in Nat /\ worker.metrics \in Metrics
      BY <2>1, WorkerPhases DEF IInv
    <2>3. worker.status \in StatusWith(Cells) /\ worker.pods \in Nat
      BY <2>1, AtWork
    <2>4. new \in StatusWith(Cells) /\ new.last = Now
      BY <2>2, <2>3, SetStatusSets DEF SetStatus
    <2> HIDE DEF new
    <2> QED
      BY <1>1, <2>1, <2>4, ScaledHonest
  <1>9. CASE ScaleFails
    <2>1. /\ worker.phase = "scale" /\ UNCHANGED chpa
          /\ Set("AbleToScale", "False", "FailedUpdateScale") /\ ToStatus(kept)
      BY <1>9 DEF ScaleFails, Scaling, KeepTheRest
    <2> HIDE DEF kept
    <2> QED
      BY <1>1, <1>2, <2>1, ScaledHonest
  <1>10. CASE Stop \/ Skipped \/ Written \/ NotWritten \/ Tick
    <2>1. worker' = Idle
      BY <1>10 DEF Stop, Taken, Skipped, Written, NotWritten, Finish, Tick
    <2> QED
      BY <2>1, IdleHonest
  <1>11. CASE Sync
    BY <1>11, SyncHonest
  <1>12. CASE Edit
    BY <1>12, EditHonest
  <1>13. CASE UNCHANGED vars
    <2>1. UNCHANGED <<chpa, cache, heap, queue, worker>>
      BY <1>13 DEF vars
    <2> QED
      BY <2>1
         DEF CopyHonest, OriginalTrue, OthersHonest, AbleHonest, StillAble, Deref, Now
  <1> QED
    BY <1>3, <1>4, <1>5, <1>6, <1>7, <1>8, <1>9, <1>10, <1>11, <1>12, <1>13
       DEF Next, WorkerStep, Reconcile, Decide, Failure

LEMMA AlwaysHonest == Spec => [](IInv /\ CopyHonest)
  <1>1. Init => IInv /\ CopyHonest
    BY InitIInv, InitHonest
  <1>2. IInv /\ CopyHonest /\ [Next]_vars => (IInv /\ CopyHonest)'
    BY NextIInv, NextHonest
  <1> QED
    BY <1>1, <1>2, PTL DEF Spec

\* Two versions of a condition that differ in their transition times at most.
Twins(old, new) ==
    /\ new = Unset <=> old = Unset
    /\ new # Unset => new.status = old.status /\ new.reason = old.reason

\* Versions of a condition that differ in their times at most, and honestly, do
\* not differ.
LEMMA TwinsSame ==
    ASSUME NEW old \in Conditions, NEW new \in Conditions,
           \A type \in Types : Twins(old[type], new[type]) /\ Honest(old[type], new[type])
    PROVE  new = old
  <1> DEFINE Reason == UNION {Reasons[t] : t \in Types}
             Known == [status : {"True", "False"}, reason : Reason, since : Stamps]
  <1>1. old \in [Types -> {Unset} \cup Known] /\ new \in [Types -> {Unset} \cup Known]
    BY DEF Conditions
  <1>2. ASSUME NEW type \in Types PROVE new[type] = old[type]
    <2>1. CASE new[type] = Unset
      BY <2>1 DEF Twins
    <2>2. CASE new[type] # Unset
      <3>1. old[type] \in Known /\ new[type] \in Known
        BY <1>1, <2>2 DEF Twins
      <3>2. /\ new[type].status = old[type].status /\ new[type].reason = old[type].reason
            /\ new[type].since = old[type].since
        BY <2>2 DEF Twins, Honest
      <3> HIDE DEF Reason
      <3> QED
        BY <3>1, <3>2
    <2> QED
      BY <2>1, <2>2
  <1> HIDE DEF Known
  <1> QED
    BY <1>1, <1>2

\* Statuses that are the same but for their transition times.
LEMMA UnstampedSame ==
    ASSUME NEW old \in StatusWith(Conditions), NEW new \in StatusWith(Conditions),
           Unstamped(new) = Unstamped(old), new # old
    PROVE  /\ new.last = old.last
           /\ \A type \in Types : Twins(old.conditions[type], new.conditions[type])
           /\ new.conditions # old.conditions
  <1> DEFINE bare(conditions) ==
               [type \in Types |-> IF conditions[type] = Unset THEN Unset
                                   ELSE [conditions[type] EXCEPT !.since = "before"]]
  <1>1. /\ Unstamped(old) = [old EXCEPT !.conditions = bare(old.conditions)]
        /\ Unstamped(new) = [new EXCEPT !.conditions = bare(new.conditions)]
    BY DEF Unstamped, StatusWith
  <1> HIDE DEF bare
  <1>2. /\ new.last = old.last /\ new.current = old.current /\ new.desired = old.desired
        /\ new.metrics = old.metrics /\ bare(new.conditions) = bare(old.conditions)
    BY <1>1 DEF StatusWith
  <1>3. new.conditions # old.conditions
    BY <1>2 DEF StatusWith
  <1> DEFINE Reason == UNION {Reasons[t] : t \in Types}
             Known == [status : {"True", "False"}, reason : Reason, since : Stamps]
  <1>4. /\ old.conditions \in [Types -> {Unset} \cup Known]
        /\ new.conditions \in [Types -> {Unset} \cup Known]
    BY DEF StatusWith, Conditions
  <1>5. ASSUME NEW type \in Types
        PROVE  Twins(old.conditions[type], new.conditions[type])
    <2> DEFINE aged(one) == IF one = Unset THEN Unset ELSE [one EXCEPT !.since = "before"]
    <2>1. aged(new.conditions[type]) = aged(old.conditions[type])
      <3>1. bare(new.conditions)[type] = bare(old.conditions)[type]
        BY <1>2
      <3> QED
        BY <3>1 DEF bare
    <2>2. ASSUME NEW one \in Known
          PROVE  /\ one # Unset /\ aged(one) # Unset
                 /\ aged(one).status = one.status /\ aged(one).reason = one.reason
      <3> HIDE DEF Reason
      <3>1. one.status \in {"True", "False"}
        OBVIOUS
      <3>2. one # Unset
        BY <3>1 DEF Unset
      <3>3. aged(one) = [one EXCEPT !.since = "before"]
        BY <3>2
      <3>4. aged(one).status = one.status /\ aged(one).reason = one.reason
        BY <3>3
      <3> QED
        BY <3>1, <3>2, <3>4 DEF Unset
    <2>3. aged(Unset) = Unset
      OBVIOUS
    <2> HIDE DEF aged, Known
    <2> QED
      BY <1>4, <2>1, <2>2, <2>3 DEF Twins
  <1> QED
    BY <1>2, <1>3, <1>5

\* A write that changes no more than transition times happens only while AbleToScale
\* is False: a CHPA that is able to scale and has nothing new to tell causes no
\* writes, however many reconciles set its conditions in place.
THEOREM QuietAlways == Spec => QuietWhenAble
  <1> DEFINE Quiet ==
        Writes /\ chpa'.status.conditions["AbleToScale"].status = "True" =>
          Unstamped(chpa'.status) # Unstamped(chpa.status)
  <1>1. IInv /\ CopyHonest /\ [Next]_vars => Quiet
    <2> SUFFICES ASSUME IInv, CopyHonest, [Next]_vars, Writes,
                        chpa'.status.conditions["AbleToScale"].status = "True",
                        Unstamped(chpa'.status) = Unstamped(chpa.status)
                 PROVE  FALSE
      OBVIOUS
    <2> DEFINE old == chpa.status
               new == chpa'.status
    <2>1. Written
      BY WritesAreWritten
    <2>2. /\ worker # Idle /\ worker.phase = "status" /\ worker.current
      BY <2>1 DEF Written, Finish, Idle
    <2>3. /\ new \in StatusWith(Conditions) /\ new.conditions = heap["chpa"]
          /\ new.last = worker.status.last
      BY <2>1, WrittenSets
    <2>4. /\ old \in StatusWith(Conditions) /\ old = Deref(worker.original)
          /\ worker.original \in StatusWith(Cells)
          /\ worker.original.conditions = "original"
      BY <2>2, WorkerPhases DEF IInv, TypeOK, Unshared, CopyHonest, OriginalTrue
    <2>5. old.conditions = heap["original"] /\ old.last = worker.original.last
      BY <2>4 DEF Deref, StatusWith
    <2>6. new # old
      <3>1. chpa \in [valid : BOOLEAN, status : StatusWith(Conditions)]
        BY DEF IInv, TypeOK
      <3>2. chpa' # chpa /\ chpa' = [chpa EXCEPT !.status = Deref(worker.status)]
        BY <2>1 DEF Written, Writes
      <3> QED
        BY <3>1, <3>2
    <2> HIDE DEF old, new
    <2>7. /\ new.last = old.last
          /\ \A type \in Types : Twins(old.conditions[type], new.conditions[type])
          /\ new.conditions # old.conditions
      BY <2>3, <2>4, <2>6, UnstampedSame DEF old, new
    <2>8. StillAble
      BY <2>2, <2>3, <2>5, <2>7 DEF CopyHonest, AbleHonest, new
    <2>9. \A type \in Types : Honest(old.conditions[type], new.conditions[type])
      BY <2>2, <2>3, <2>5, <2>8 DEF CopyHonest, OthersHonest, StillAble, Types
    <2>10. old.conditions \in Conditions /\ new.conditions \in Conditions
      BY <2>3, <2>4 DEF StatusWith
    <2> QED
      BY <2>7, <2>9, <2>10, TwinsSame
  <1>2. IInv /\ CopyHonest /\ [Next]_vars => [Quiet]_vars
    BY <1>1
  <1> QED
    BY AlwaysHonest, <1>2, PTL DEF Spec, QuietWhenAble

===============================================================================
