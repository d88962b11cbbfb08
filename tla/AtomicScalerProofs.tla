--------------------------- MODULE AtomicScalerProofs ---------------------------
(***************************************************************************)
(* The control loop implements AtomicScaler when one process runs and its  *)
(* informers are current whenever a reconcile starts.  Besides the         *)
(* versions and times of ChpaControllerProofs this rests on one invariant: *)
(* what a reconcile is about to write follows from the copies it read, and *)
(* nobody but itself has recorded a rescale since.                         *)
(***************************************************************************)
EXTENDS ChpaControllerProofs

\* Process c is the only one, and reads what the API server holds.
Alone(c) == Controllers = {c} /\ "caches" \in Prompt

\* The decision behind a rescale, for the time it is written.
Follows(w) ==
    LET spec == w.chpa.spec
        pods == w.dep.pods
    IN  \/ OutOfBounds(spec, pods) /\ w.target = BoundsTarget(spec, pods)
        \/ /\ ~OutOfBounds(spec, pods)
           /\ \E proposal \in Proposals :
                w.target = NormalizeDesired(spec, pods, proposal)
           /\ ShouldScale(spec, w.chpa.status.last, pods, w.target, now)

\* The invariant.
ReconcileCurrent(c) ==
    LET w == worker[c] IN
    /\ w # Idle => /\ w.chpa.spec.valid
                   /\ chpa.status.last \in {Never, w.chpa.status.last}
    /\ w.phase = "decide" => w.stamp <= now
    /\ w.phase = "scale" => w.dep.replicas # 0 /\ Follows(w)
    /\ w.phase = "status" =>
         w.status.last \in {w.chpa.status.last, history.rescaled}

-------------------------------------------------------------------------------
\* Completing a completed spec changes nothing.
LEMMA WithDefaultsTwice ==
    ASSUME NEW spec \in CHPASpec
    PROVE  /\ WithDefaults(WithDefaults(spec)) = WithDefaults(spec)
           /\ WithDefaults(spec).valid = spec.valid
  <1>1. /\ OrDefault(OrDefault(spec.down, defaultDownscaleForbiddenWindow),
                     defaultDownscaleForbiddenWindow)
             = OrDefault(spec.down, defaultDownscaleForbiddenWindow)
        /\ OrDefault(OrDefault(spec.up, defaultUpscaleForbiddenWindow),
                     defaultUpscaleForbiddenWindow)
             = OrDefault(spec.up, defaultUpscaleForbiddenWindow)
        /\ OrDefault(OrDefault(spec.factor2, 4), 4) = OrDefault(spec.factor2, 4)
        /\ OrDefault(OrDefault(spec.floor, 4), 4) = OrDefault(spec.floor, 4)
        /\ OrDefault(OrDefault(spec.tolerance, 10), 10) = OrDefault(spec.tolerance, 10)
    BY DEF OrDefault
  <1> QED
    BY <1>1 DEF WithDefaults, CHPASpec

\* A rescale the windows allow is allowed ever after.
LEMMA ShouldScaleLater ==
    ASSUME NEW spec \in CHPASpec, NEW last \in Times, NEW current, NEW desired,
           NEW t \in Nat, NEW u \in Nat, t <= u,
           ShouldScale(spec, last, current, desired, t)
    PROVE  ShouldScale(spec, last, current, desired, u)
  <1>1. /\ spec.down \in Nat /\ spec.up \in Nat /\ last \in Int
    BY DEF CHPASpec, Times, Never
  <1>2. /\ WindowPassed(last, spec.down, t) => WindowPassed(last, spec.down, u)
        /\ WindowPassed(last, spec.up, t) => WindowPassed(last, spec.up, u)
    BY <1>1 DEF WindowPassed
  <1> QED
    BY <1>2 DEF ShouldScale

\* shouldScale lets nothing pass inside the window of its direction.
LEMMA ShouldScaleWindows ==
    ASSUME NEW spec \in CHPASpec, NEW last \in Times, NEW current \in Nat,
           NEW desired \in Nat, NEW t \in Nat,
           ShouldScale(spec, last, current, desired, t)
    PROVE  /\ desired # current
           /\ last # Never =>
                /\ desired < current => t > last + spec.down
                /\ desired > current => t > last + spec.up
  <1>1. /\ spec.down \in Nat /\ spec.up \in Nat /\ last \in Int
    BY DEF CHPASpec, Times, Never
  <1> QED
    BY <1>1 DEF ShouldScale, WindowPassed

\* A decision stays one as time passes.
LEMMA FollowsLater ==
    ASSUME TypeOK, TypeOK', now <= now', NEW w \in ScaleWorker, Follows(w)
    PROVE  Follows(w)'
  <1>1. /\ w.chpa.spec \in CHPASpec /\ w.chpa.status.last \in Times
        /\ now \in Nat /\ now' \in Nat
    BY DEF TypeOK, ScaleWorker, Chpa, Status
  <1> QED
    BY <1>1, ShouldScaleLater DEF Follows

\* The clock never runs backwards.
LEMMA ClockForward ==
    ASSUME TypeOK, [Next]_vars
    PROVE  now <= now'
  <1>1. now \in Nat
    BY DEF TypeOK
  <1>2. CASE UNCHANGED vars
    BY <1>1, <1>2 DEF vars
  <1>3. CASE Tick
    BY <1>1, <1>3 DEF Tick
  <1>4. CASE PodsFollow \/ Horizon
    BY <1>1, <1>4 DEF PodsFollow, Horizon, vars
  <1>5. CASE Users
    <2>1. PICK op : UserOp(op)
      BY <1>5 DEF Users, EditSpec, ScaleDeployment, TakeOver, DeleteChpa,
                  CreateChpa, DeleteDeployment, CreateDeployment
    <2> QED
      BY <1>1, <2>1 DEF UserOp
  <1>6. ASSUME NEW d \in Controllers,
               WorkerStep(d) \/ TimerFires(d) \/ Failure(d) \/ Informers(d)
        PROVE  now' = now
    BY <1>6
       DEF WorkerStep, Reconcile, StopReconcile, RepeatReconcile, StartReconcile,
           Decide, SkipDisabled, CorrectBounds, FollowMetrics, MetricsFail,
           FollowsMetrics, Deciding, UpdateDeploy, Rescale, ScaleRefused, ScaleLost,
           ScaleUnacknowledged, Scaling, UpdateStatus, StatusSkipped, StatusWritten,
           StatusRefused, StatusLost, Finish, Failure, ReadFails, Crash, TimerFires,
           Informers, SyncChpa, SyncDep
  <1> QED
    BY <1>1, <1>2, <1>3, <1>4, <1>5, <1>6 DEF Next

-------------------------------------------------------------------------------
(* The invariant.                                                             *)

\* Initially nothing is under way.
LEMMA CurrentInit ==
    ASSUME NEW c, Alone(c), Init
    PROVE  ReconcileCurrent(c)
  BY DEF Alone, Init, ReconcileCurrent, Idle

\* A step that leaves the reconcile and the times alone, or drops LastScaleTime
\* with its CHPA, keeps the reconcile current.
LEMMA CurrentKept ==
    ASSUME NEW c \in Controllers, TypeOK, TypeOK', now <= now', ReconcileCurrent(c),
           worker'[c] = worker[c], history'.rescaled = history.rescaled,
           chpa'.status.last \in {Never, chpa.status.last}
    PROVE  ReconcileCurrent(c)'
  <1>1. /\ worker[c].phase = "scale" => worker[c] \in ScaleWorker
        /\ worker[c].phase = "decide" => worker[c].stamp \in Nat
        /\ now \in Nat /\ now' \in Nat
    BY WorkerPhases DEF TypeOK, DecideWorker
  <1>2. worker[c].phase = "scale" => Follows(worker[c])'
    BY <1>1, FollowsLater DEF ReconcileCurrent
  <1> QED
    BY <1>1, <1>2 DEF ReconcileCurrent, Follows

\* What users do keeps the reconcile current.
LEMMA CurrentUsers ==
    ASSUME NEW c \in Controllers, TypeOK, TypeOK', ReconcileCurrent(c), Users
    PROVE  ReconcileCurrent(c)'
  <1>1. PICK op : UserOp(op)
    BY DEF Users, EditSpec, ScaleDeployment, TakeOver, DeleteChpa,
           CreateChpa, DeleteDeployment, CreateDeployment
  <1>2. /\ worker'[c] = worker[c] /\ history' = history /\ now' = now /\ now \in Nat
    BY <1>1 DEF UserOp, TypeOK
  <1>3. chpa'.status.last \in {Never, chpa.status.last}
    <2>0. chpa \in Chpa
      BY DEF TypeOK
    <2>1. CASE EditSpec
      BY <2>0, <2>1 DEF EditSpec, Chpa
    <2>2. CASE DeleteChpa
      BY <2>0, <2>2 DEF DeleteChpa, Chpa
    <2>3. CASE CreateChpa
      BY <2>3 DEF CreateChpa, NoStatus
    <2>4. CASE ScaleDeployment \/ TakeOver \/ DeleteDeployment \/ CreateDeployment
      BY <2>4 DEF ScaleDeployment, TakeOver, DeleteDeployment, CreateDeployment
    <2> QED
      BY <2>1, <2>2, <2>3, <2>4 DEF Users
  <1> QED
    BY <1>2, <1>3, CurrentKept

\* A reconcile starts from what the API server holds.
LEMMA CurrentStart ==
    ASSUME NEW c, Alone(c), TypeOK, StartReconcile(c)
    PROVE  ReconcileCurrent(c)'
  <1>0. /\ c \in Controllers /\ worker \in [Controllers -> Worker] /\ chpa \in Chpa
    BY DEF Alone, TypeOK
  <1>1. cache[c].chpa = chpa /\ chpa' = chpa
    BY DEF StartReconcile, Dequeue, CachesReady, Alone
  <1>2. /\ worker'[c].phase = "decide" /\ worker'[c].stamp = now
        /\ worker'[c].chpa = [chpa EXCEPT !.spec = WithDefaults(@)]
        /\ now' = now /\ now \in Nat
    BY <1>0, <1>1 DEF StartReconcile, TypeOK
  <1>3. chpa.spec.valid /\ chpa.spec \in CHPASpec
    BY <1>0, <1>1 DEF StartReconcile, Invalid, Chpa
  <1>4. /\ worker'[c].chpa.spec = WithDefaults(chpa.spec)
        /\ worker'[c].chpa.status = chpa.status
    BY <1>0, <1>2 DEF Chpa
  <1> QED
    BY <1>1, <1>2, <1>3, <1>4, WithDefaultsTwice DEF ReconcileCurrent

\* A decision follows from the copies it is made on.
LEMMA CurrentDecide ==
    ASSUME NEW c, Alone(c), TypeOK, ReconcileCurrent(c), Decide(c) \/ MetricsFail(c)
    PROVE  ReconcileCurrent(c)'
  <1> DEFINE w == worker[c]
  <1>0. /\ c \in Controllers /\ worker \in [Controllers -> Worker]
    BY DEF Alone, TypeOK
  <1>1. /\ w.phase = "decide" /\ chpa' = chpa /\ history' = history /\ now' = now
    BY DEF Decide, SkipDisabled, CorrectBounds, FollowMetrics, MetricsFail,
           FollowsMetrics, Deciding
  <1>2. /\ w \in DecideWorker /\ w # Idle /\ w.chpa \in Chpa
        /\ w.chpa.status \in Status /\ w.chpa.spec \in CHPASpec
    BY <1>0, <1>1, WorkerPhases DEF DecideWorker, Idle, Chpa
  <1>3. /\ w.chpa.spec.valid /\ chpa.status.last \in {Never, w.chpa.status.last}
    BY <1>2 DEF ReconcileCurrent
  <1>4. ASSUME NEW desired, ToStatus(c, desired)
        PROVE  ReconcileCurrent(c)'
    <2>1. /\ worker'[c].phase = "status" /\ worker'[c].chpa = w.chpa
          /\ worker'[c].status.last = w.chpa.status.last
      BY <1>0, <1>2, <1>4 DEF ToStatus, Status
    <2> QED
      BY <1>1, <1>3, <2>1 DEF ReconcileCurrent
  <1>5. ASSUME NEW target, NEW why, ToScale(c, target, why), w.dep.replicas # 0,
               \/ OutOfBounds(w.chpa.spec, w.dep.pods)
                  /\ target = BoundsTarget(w.chpa.spec, w.dep.pods)
               \/ /\ ~OutOfBounds(w.chpa.spec, w.dep.pods)
                  /\ \E proposal \in Proposals :
                       target = NormalizeDesired(w.chpa.spec, w.dep.pods, proposal)
                  /\ ShouldScale(w.chpa.spec, w.chpa.status.last, w.dep.pods, target, now)
        PROVE  ReconcileCurrent(c)'
    <2>1. /\ worker'[c].phase = "scale" /\ worker'[c].chpa = w.chpa
          /\ worker'[c].dep = w.dep /\ worker'[c].target = target
      BY <1>0, <1>5 DEF ToScale
    <2> QED
      BY <1>1, <1>3, <1>5, <2>1 DEF ReconcileCurrent, Follows
  <1>6. CASE SkipDisabled(c) \/ MetricsFail(c)
    BY <1>4, <1>6 DEF SkipDisabled, MetricsFail
  <1>7. CASE CorrectBounds(c)
    BY <1>5, <1>7 DEF CorrectBounds
  <1>8. CASE FollowMetrics(c)
    <2>0. FollowsMetrics(c)
      BY <1>8 DEF FollowMetrics
    <2>1. PICK proposal \in Proposals, metricTime \in MetricTimes :
            LET timestamp == IF proposal > 0 THEN metricTime ELSE w.stamp
                desired == NormalizeDesired(w.chpa.spec, w.dep.pods, proposal)
            IN  IF ShouldScale(w.chpa.spec, w.chpa.status.last, w.dep.pods,
                               desired, timestamp)
                THEN ToScale(c, desired, "metrics")
                ELSE ToStatus(c, w.dep.pods)
      BY <1>8 DEF FollowMetrics
    <2> DEFINE timestamp == IF proposal > 0 THEN metricTime ELSE w.stamp
               desired == NormalizeDesired(w.chpa.spec, w.dep.pods, proposal)
    <2>2. CASE ~ShouldScale(w.chpa.spec, w.chpa.status.last, w.dep.pods,
                            desired, timestamp)
      BY <1>4, <2>1, <2>2
    <2>3. CASE ShouldScale(w.chpa.spec, w.chpa.status.last, w.dep.pods,
                           desired, timestamp)
      <3>1. /\ timestamp \in Nat /\ now \in Nat /\ timestamp <= now
            /\ w.chpa.status.last \in Times
        BY <1>1, <1>2, <2>1 DEF MetricTimes, TypeOK, DecideWorker, Status,
                                ReconcileCurrent
      <3>2. ShouldScale(w.chpa.spec, w.chpa.status.last, w.dep.pods, desired, now)
        BY <1>2, <2>3, <3>1, ShouldScaleLater
      <3>3. /\ ToScale(c, desired, "metrics") /\ w.dep.replicas # 0
            /\ ~OutOfBounds(w.chpa.spec, w.dep.pods)
        BY <2>0, <2>1, <2>3 DEF FollowsMetrics
      <3> QED
        BY <1>5, <2>1, <3>2, <3>3
    <2> QED
      BY <2>2, <2>3
  <1> QED
    BY <1>6, <1>7, <1>8 DEF Decide

\* After the Deployment was written, or the write failed, the status tells of
\* this rescale or of none that the copy did not tell of.
LEMMA CurrentScale ==
    ASSUME NEW c, Alone(c), TypeOK, ReconcileCurrent(c),
           UpdateDeploy(c) \/ ScaleLost(c) \/ ScaleUnacknowledged(c)
    PROVE  ReconcileCurrent(c)'
  <1> DEFINE w == worker[c]
  <1>0. /\ c \in Controllers /\ worker \in [Controllers -> Worker]
    BY DEF Alone, TypeOK
  <1>1. w.phase = "scale" /\ chpa' = chpa
    BY DEF UpdateDeploy, Rescale, ScaleRefused, ScaleLost, ScaleUnacknowledged, Scaling
  <1>2. w \in ScaleWorker /\ w # Idle /\ w.chpa.status \in Status
    BY <1>0, <1>1, WorkerPhases DEF ScaleWorker, Idle, Chpa
  <1>3. w.chpa.spec.valid /\ chpa.status.last \in {Never, w.chpa.status.last}
    BY <1>2 DEF ReconcileCurrent
  <1>4. CASE Rescale(c)
    <2>1. /\ worker'[c].phase = "status" /\ worker'[c].chpa = w.chpa
          /\ worker'[c].status.last = history'.rescaled
      BY <1>0, <1>4 DEF Rescale, ApplyScale
    <2> QED
      BY <1>1, <1>3, <2>1 DEF ReconcileCurrent
  <1>5. CASE ScaleRefused(c) \/ ScaleLost(c) \/ ScaleUnacknowledged(c)
    <2>1. PICK desired : ToStatus(c, desired)
      BY <1>5 DEF ScaleRefused, ScaleLost, ScaleUnacknowledged
    <2>2. /\ worker'[c].phase = "status" /\ worker'[c].chpa = w.chpa
          /\ worker'[c].status.last = w.chpa.status.last
      BY <1>0, <1>2, <2>1 DEF ToStatus, Status
    <2> QED
      BY <1>1, <1>3, <2>2 DEF ReconcileCurrent
  <1> QED
    BY <1>4, <1>5 DEF UpdateDeploy

\* Every step leaves the reconcile current.
LEMMA CurrentNext ==
    ASSUME NEW c, Alone(c)
    PROVE  TypeOK /\ ReconcileCurrent(c) /\ [Next]_vars => ReconcileCurrent(c)'
  <1> SUFFICES ASSUME TypeOK, ReconcileCurrent(c), [Next]_vars
               PROVE  ReconcileCurrent(c)'
    OBVIOUS
  <1>0. /\ TypeOK' /\ now <= now' /\ c \in Controllers
        /\ worker \in [Controllers -> Worker]
    BY TypeNext, ClockForward DEF Alone, TypeOK
  <1>1. ASSUME worker' = worker, history' = history, chpa' = chpa
        PROVE  ReconcileCurrent(c)'
    BY <1>0, <1>1, CurrentKept
  <1>2. CASE UNCHANGED vars \/ PodsFollow \/ Tick \/ Horizon
    BY <1>1, <1>2 DEF vars, PodsFollow, Tick, Horizon
  <1>3. CASE Users
    BY <1>0, <1>3, CurrentUsers
  <1>4. CASE TimerFires(c) \/ Informers(c) \/ ReadFails(c)
             \/ StopReconcile(c) \/ RepeatReconcile(c)
    BY <1>1, <1>4 DEF TimerFires, Informers, SyncChpa, SyncDep, ReadFails,
                      StopReconcile, RepeatReconcile
  <1>5. CASE StartReconcile(c)
    BY <1>5, CurrentStart
  <1>6. CASE Decide(c) \/ MetricsFail(c)
    BY <1>6, CurrentDecide
  <1>7. CASE UpdateDeploy(c) \/ ScaleLost(c) \/ ScaleUnacknowledged(c)
    BY <1>7, CurrentScale
  <1>8. CASE UpdateStatus(c) \/ StatusLost(c) \/ Crash(c)
    <2>1. worker'[c] = Idle
      BY <1>0, <1>8 DEF UpdateStatus, StatusSkipped, StatusWritten, StatusRefused,
                        StatusLost, Finish, Crash
    <2> QED
      BY <2>1 DEF ReconcileCurrent, Idle
  <1> QED
    BY <1>2, <1>3, <1>4, <1>5, <1>6, <1>7, <1>8
       DEF Alone, Next, WorkerStep, Reconcile, Failure

-------------------------------------------------------------------------------
(* The refinement.                                                            *)

\* The spec a single process acts on, by the state of its reconcile.
LEMMA ActedOn ==
    ASSUME NEW c, Alone(c)
    PROVE  /\ SpecActedOn = IF worker[c] = Idle THEN SpecInForce
                                               ELSE {worker[c].chpa.spec}
           /\ SpecActedOn' = IF worker'[c] = Idle THEN SpecInForce'
                                                 ELSE {worker'[c].chpa.spec}
  <1>1. (CHOOSE d \in Controllers : TRUE) = c
    BY DEF Alone
  <1> QED
    BY <1>1 DEF SpecActedOn

\* AtomicScaler decides by the same rules.
LEMMA SameRules ==
    /\ Scaler!Never = Never
    /\ \A spec : Scaler!WithDefaults(spec) = WithDefaults(spec)
    /\ \A spec, n : Scaler!OutOfBounds(spec, n) = OutOfBounds(spec, n)
    /\ \A spec, n : Scaler!BoundsTarget(spec, n) = BoundsTarget(spec, n)
    /\ \A spec, n, m : Scaler!NormalizeDesired(spec, n, m) = NormalizeDesired(spec, n, m)
  <1>1. Scaler!Never = Never
    BY DEF Scaler!Never, Never
  <1>2. \A spec : Scaler!WithDefaults(spec) = WithDefaults(spec)
    BY DEF Scaler!WithDefaults, WithDefaults, Scaler!OrDefault, OrDefault
  <1>3. \A spec, n : Scaler!OutOfBounds(spec, n) = OutOfBounds(spec, n)
    BY DEF Scaler!OutOfBounds, OutOfBounds
  <1>4. \A spec, n : Scaler!BoundsTarget(spec, n) = BoundsTarget(spec, n)
    BY DEF Scaler!BoundsTarget, BoundsTarget
  <1>5. \A spec, n, m :
          Scaler!NormalizeDesired(spec, n, m) = NormalizeDesired(spec, n, m)
    BY DEF Scaler!NormalizeDesired, NormalizeDesired, Scaler!MinAllowed, MinAllowed,
           Scaler!MaxAllowed, MaxAllowed, Scaler!ScaleUpLimit, ScaleUpLimit,
           Scaler!Smaller, Smaller, Scaler!Larger, Larger
  <1> QED
    BY <1>1, <1>2, <1>3, <1>4, <1>5

\* Initial states map to initial states.
LEMMA RefinesInit ==
    ASSUME NEW c, Alone(c), Init
    PROVE  Scaler!Init
  <1>1. SpecActedOn = SpecInForce
    BY ActedOn DEF Init, Alone
  <1>2. PICK spec \in Specs :
          chpa = [rv |-> 0, live |-> TRUE, spec |-> spec, status |-> NoStatus]
    BY DEF Init
  <1>3. SpecInForce = Scaler!InForce(spec)
    BY <1>2, SameRules DEF SpecInForce, Scaler!InForce
  <1>4. /\ dep.live = TRUE /\ (dep.owner = "other") = FALSE
        /\ dep.replicas \in InitialPods /\ dep.pods = dep.replicas
    BY DEF Init
  <1> QED
    BY <1>1, <1>2, <1>3, <1>4, SameRules DEF Init, Scaler!Init, NoStatus

\* Steps that touch neither object and leave the reconcile with its copy of the
\* CHPA are not visible.
LEMMA Invisible ==
    ASSUME NEW c, Alone(c), UNCHANGED <<now, chpa, dep, history>>,
           \/ worker'[c] = worker[c]
           \/ /\ worker[c] # Idle /\ worker'[c] # Idle
              /\ worker'[c].chpa = worker[c].chpa
    PROVE  UNCHANGED Scaler!vars
  <1>1. SpecInForce' = SpecInForce
    BY DEF SpecInForce
  <1>2. SpecActedOn' = SpecActedOn
    <2>1. CASE worker'[c] = worker[c]
      BY <1>1, <2>1, ActedOn
    <2>2. CASE /\ worker[c] # Idle /\ worker'[c] # Idle
               /\ worker'[c].chpa = worker[c].chpa
      BY <2>2, ActedOn
    <2> QED
      BY <2>1, <2>2
  <1> QED
    BY <1>1, <1>2 DEF Scaler!vars, Scaler!deployment

\* The write of the Deployment is the atomic rescale.
LEMMA RefinesRescale ==
    ASSUME NEW c, Alone(c), TypeOK, CopiesAreVersions, ReconcileCurrent(c),
           Rescale(c) \/ ScaleUnacknowledged(c)
    PROVE  Scaler!Rescale
  <1> DEFINE w == worker[c]
             spec == w.chpa.spec
  <1>0. /\ c \in Controllers /\ worker \in [Controllers -> Worker]
        /\ dep \in Deployment /\ dep.replicas \in Nat /\ dep.rv \in Nat
    BY DEF Alone, TypeOK, Deployment
  <1>1. /\ w.phase = "scale" /\ ApplyScale(w) /\ now' = now /\ chpa' = chpa
    BY DEF Rescale, ScaleUnacknowledged, Scaling
  <1>2. /\ w \in ScaleWorker /\ w # Idle /\ spec \in CHPASpec /\ w.target \in Nat
    BY <1>0, <1>1, WorkerPhases DEF ScaleWorker, Idle, Chpa
  <1>3. worker'[c] # Idle /\ worker'[c].chpa = w.chpa
    BY <1>0 DEF Rescale, ScaleUnacknowledged, ToStatus, Idle
  <1>4. /\ SpecInForce' = SpecInForce /\ SpecActedOn = {spec}
        /\ SpecActedOn' = SpecActedOn
    BY <1>1, <1>2, <1>3, ActedOn DEF SpecInForce
  <1>5. /\ dep.live /\ dep.owner # "other"
        /\ w.dep = [dep EXCEPT !.owner = "self"]
    BY <1>0, <1>1 DEF ApplyScale, DepAccepts, CopiesAreVersions, IsReadDep
  <1>6. w.dep.pods = dep.pods /\ w.dep.replicas = dep.replicas
    BY <1>0, <1>5 DEF Deployment
  <1>7. /\ dep'.live = dep.live /\ dep'.owner # "other"
        /\ dep'.replicas = w.target /\ dep'.pods = dep.pods
    <2> DEFINE written == [dep EXCEPT !.replicas = w.target, !.owner = "self"]
    <2>1. /\ written.live = dep.live /\ written.owner = "self"
          /\ written.replicas = w.target /\ written.pods = dep.pods
          /\ written \in Deployment
      BY <1>0, <1>2, DeploymentUpdates DEF Deployment
    <2>2. dep' = IF written = dep THEN dep ELSE [written EXCEPT !.rv = @ + 1]
      BY <1>1 DEF ApplyScale
    <2> HIDE DEF written
    <2> QED
      BY <2>1, <2>2 DEF Deployment
  <1>8. history'.rescaled = now
    BY <1>1 DEF ApplyScale
  <1>9. /\ w.dep.replicas # 0 /\ Follows(w)
        /\ chpa.status.last \in {Never, w.chpa.status.last}
    BY <1>1, <1>2 DEF ReconcileCurrent
  <1>10. CASE /\ OutOfBounds(spec, w.dep.pods)
              /\ w.target = BoundsTarget(spec, w.dep.pods)
    BY <1>1, <1>4, <1>5, <1>6, <1>7, <1>8, <1>9, <1>10, SameRules
       DEF Scaler!Rescale, Scaler!ToBounds
  <1>11. CASE /\ ~OutOfBounds(spec, w.dep.pods)
              /\ \E proposal \in Proposals :
                   w.target = NormalizeDesired(spec, w.dep.pods, proposal)
              /\ ShouldScale(spec, w.chpa.status.last, w.dep.pods, w.target, now)
    <2>1. ShouldScale(spec, chpa.status.last, dep.pods, w.target, now)
      BY <1>6, <1>9, <1>11 DEF ShouldScale
    <2>2. /\ w.target # dep.pods
          /\ chpa.status.last # Never =>
               /\ w.target < dep.pods => now > chpa.status.last + spec.down
               /\ w.target > dep.pods => now > chpa.status.last + spec.up
      BY <1>0, <1>2, <2>1, ShouldScaleWindows DEF TypeOK, Chpa, Status, Deployment
    <2>3. Scaler!WindowsAllow(spec)
      BY <1>7, <2>2, SameRules DEF Scaler!WindowsAllow
    <2> QED
      BY <1>1, <1>4, <1>5, <1>6, <1>7, <1>8, <1>9, <1>11, <2>2, <2>3,
         SameRules
         DEF Scaler!Rescale, Scaler!ToProposal
  <1> QED
    BY <1>9, <1>10, <1>11 DEF Follows

\* An accepted status write records the rescale, or nothing of the Deployment.
LEMMA RefinesRecord ==
    ASSUME NEW c, Alone(c), TypeOK, CopiesAreVersions, TimesOrdered,
           ReconcileCurrent(c), StatusWritten(c)
    PROVE  Scaler!Record \/ UNCHANGED Scaler!vars
  <1> DEFINE w == worker[c]
  <1>0. /\ c \in Controllers /\ worker \in [Controllers -> Worker]
        /\ chpa \in Chpa /\ chpa.spec \in CHPASpec
    BY DEF Alone, TypeOK, Chpa
  <1>1. /\ w.phase = "status" /\ ChpaAccepts(w) /\ worker'[c] = Idle
        /\ chpa' = [chpa EXCEPT !.rv = @ + 1, !.spec = w.chpa.spec, !.status = w.status]
        /\ UNCHANGED <<now, dep, history>>
    BY <1>0 DEF StatusWritten, Finish
  <1>2. /\ w \in StatusWorker /\ w # Idle /\ w.chpa.spec \in CHPASpec
        /\ w.chpa.spec.valid
    BY <1>0, <1>1, WorkerPhases DEF StatusWorker, Idle, Chpa, ReconcileCurrent
  <1>3. /\ chpa.live /\ w.chpa = [chpa EXCEPT !.spec = WithDefaults(@)]
    BY <1>0, <1>1, <1>2 DEF ChpaAccepts, CopiesAreVersions, IsReadChpa
  <1>4. w.chpa.spec = WithDefaults(chpa.spec) /\ w.chpa.status = chpa.status
    BY <1>0, <1>3 DEF Chpa
  <1>5. /\ chpa'.live /\ chpa'.spec = w.chpa.spec
        /\ chpa'.status.last = w.status.last
    BY <1>0, <1>1, <1>3 DEF Chpa
  <1>6. /\ SpecInForce = {w.chpa.spec} /\ SpecInForce' = {w.chpa.spec}
    BY <1>0, <1>2, <1>3, <1>4, <1>5, WithDefaultsTwice DEF SpecInForce
  <1>7. /\ SpecActedOn = SpecInForce /\ SpecActedOn' = SpecActedOn
    BY <1>1, <1>2, <1>6, ActedOn
  <1>8. w.status.last \in {chpa.status.last, history.rescaled}
    BY <1>1, <1>4 DEF ReconcileCurrent
  <1>9. CASE chpa'.status.last = chpa.status.last
    BY <1>1, <1>6, <1>7, <1>9 DEF Scaler!vars, Scaler!deployment
  <1>10. CASE chpa'.status.last # chpa.status.last
    <2>1. /\ chpa'.status.last = history.rescaled
          /\ history.rescaled # Never
      BY <1>0, <1>5, <1>8, <1>10
         DEF TimesOrdered, TypeOK, History, Chpa, Status, Times, Never
    <2> QED
      BY <1>1, <1>6, <1>7, <2>1, SameRules DEF Scaler!Record, Scaler!deployment
  <1> QED
    BY <1>9, <1>10

\* A reconcile that ends without a record, or is lost with its process.
LEMMA RefinesLearn ==
    ASSUME NEW c, Alone(c), UNCHANGED <<now, chpa, dep, history>>, worker'[c] = Idle
    PROVE  Scaler!Learn
  <1>1. SpecInForce' = SpecInForce
    BY DEF SpecInForce
  <1>2. SpecActedOn' = SpecInForce'
    BY ActedOn
  <1> QED
    BY <1>1, <1>2 DEF Scaler!Learn, Scaler!deployment

\* A reconcile starts with the spec in force.
LEMMA RefinesStart ==
    ASSUME NEW c, Alone(c), TypeOK, StartReconcile(c)
    PROVE  UNCHANGED Scaler!vars
  <1>0. /\ c \in Controllers /\ worker \in [Controllers -> Worker] /\ chpa \in Chpa
    BY DEF Alone, TypeOK
  <1>1. /\ cache[c].chpa = chpa /\ worker[c] = Idle
        /\ UNCHANGED <<now, chpa, dep, history>>
    BY DEF StartReconcile, Dequeue, CachesReady, Alone
  <1>2. /\ worker'[c] # Idle
        /\ worker'[c].chpa = [chpa EXCEPT !.spec = WithDefaults(@)]
    BY <1>0, <1>1 DEF StartReconcile, Idle
  <1>3. chpa.live /\ chpa.spec.valid /\ worker'[c].chpa.spec = WithDefaults(chpa.spec)
    BY <1>0, <1>1, <1>2 DEF StartReconcile, Invalid, Chpa
  <1>4. SpecInForce = {WithDefaults(chpa.spec)} /\ SpecInForce' = SpecInForce
    BY <1>1, <1>3 DEF SpecInForce
  <1>5. SpecActedOn = SpecInForce /\ SpecActedOn' = SpecInForce
    BY <1>1, <1>2, <1>3, <1>4, ActedOn
  <1> QED
    BY <1>1, <1>4, <1>5 DEF Scaler!vars, Scaler!deployment

\* What users do to the CHPA.
LEMMA RefinesChpaOps ==
    ASSUME NEW c, Alone(c), TypeOK, EditSpec \/ DeleteChpa \/ CreateChpa
    PROVE  Scaler!Edit \/ Scaler!Recreate
  <1>0. chpa \in Chpa
    BY DEF TypeOK
  <1>1. UNCHANGED <<now, dep, worker, history>>
    BY DEF EditSpec, DeleteChpa, CreateChpa, UserOp
  <1>2. SpecActedOn' \in {SpecActedOn, SpecInForce'}
    BY <1>1, ActedOn
  <1>3. ASSUME NEW spec, chpa'.live, chpa'.spec = spec
        PROVE  SpecInForce' = Scaler!InForce(spec)
    BY <1>3, SameRules DEF SpecInForce, Scaler!InForce
  <1>4. CASE EditSpec
    <2>1. PICK spec \in Specs : chpa' = [chpa EXCEPT !.rv = @ + 1, !.spec = spec]
      BY <1>4 DEF EditSpec
    <2>2. /\ chpa'.live /\ chpa'.spec = spec /\ chpa'.status = chpa.status
      BY <1>0, <1>4, <2>1 DEF EditSpec, Chpa
    <2> QED
      BY <1>1, <1>2, <1>3, <2>2 DEF Scaler!Edit, Scaler!deployment
  <1>5. CASE DeleteChpa
    <2>1. ~chpa'.live /\ chpa'.status = chpa.status
      BY <1>0, <1>5 DEF DeleteChpa, Chpa
    <2>2. SpecInForce' = {}
      BY <2>1 DEF SpecInForce
    <2> QED
      BY <1>1, <1>2, <2>1, <2>2 DEF Scaler!Edit, Scaler!deployment
  <1>6. CASE CreateChpa
    <2>1. PICK spec \in Specs :
            chpa' = [rv |-> chpa.rv + 1, live |-> TRUE, spec |-> spec,
                     status |-> NoStatus]
      BY <1>6 DEF CreateChpa
    <2>2. /\ chpa'.live /\ chpa'.spec = spec /\ chpa'.status.last = Never
      BY <2>1 DEF NoStatus
    <2>3. SpecInForce = {}
      BY <1>6 DEF CreateChpa, SpecInForce
    <2> QED
      BY <1>1, <1>2, <1>3, <2>2, <2>3, SameRules DEF Scaler!Recreate, Scaler!deployment
  <1> QED
    BY <1>4, <1>5, <1>6

\* What happens to the Deployment outside the controller.
LEMMA RefinesDeploymentOps ==
    ASSUME NEW c, Alone(c), TypeOK,
           PodsFollow \/ ScaleDeployment \/ TakeOver \/ DeleteDeployment
             \/ CreateDeployment
    PROVE  \/ Scaler!PodFollows \/ Scaler!Resize \/ Scaler!TakeOver
           \/ Scaler!Delete \/ Scaler!Create
  <1>0. dep \in Deployment
    BY DEF TypeOK
  <1>1. UNCHANGED <<now, chpa, worker, history>>
    BY DEF PodsFollow, ScaleDeployment, TakeOver, DeleteDeployment, CreateDeployment,
           UserOp
  <1>2. SpecInForce' = SpecInForce /\ SpecActedOn' = SpecActedOn
    BY <1>1, ActedOn DEF SpecInForce
  <1>3. CASE PodsFollow
    BY <1>0, <1>1, <1>2, <1>3 DEF PodsFollow, Scaler!PodFollows, Deployment
  <1>4. CASE ScaleDeployment
    BY <1>0, <1>1, <1>2, <1>4 DEF ScaleDeployment, Scaler!Resize, Deployment
  <1>5. CASE TakeOver
    BY <1>0, <1>1, <1>2, <1>5 DEF TakeOver, Scaler!TakeOver, Deployment
  <1>6. CASE DeleteDeployment
    BY <1>0, <1>1, <1>2, <1>6 DEF DeleteDeployment, Scaler!Delete, Deployment
  <1>7. CASE CreateDeployment
    BY <1>0, <1>1, <1>2, <1>7 DEF CreateDeployment, Scaler!Create, Deployment
  <1> QED
    BY <1>3, <1>4, <1>5, <1>6, <1>7

\* Every step maps to a step or to none.
LEMMA RefinesNext ==
    ASSUME NEW c, Alone(c)
    PROVE  /\ TypeOK /\ CopiesAreVersions /\ TimesOrdered /\ ReconcileCurrent(c)
           /\ [Next]_vars
           => [Scaler!Next]_(Scaler!vars)
  <1> SUFFICES ASSUME TypeOK, CopiesAreVersions, TimesOrdered, ReconcileCurrent(c),
                      [Next]_vars
               PROVE  Scaler!Next \/ UNCHANGED Scaler!vars
    OBVIOUS
  <1>0. c \in Controllers /\ worker \in [Controllers -> Worker]
    BY DEF Alone, TypeOK
  <1>1. CASE UNCHANGED vars \/ Horizon
    BY <1>1, Invisible DEF vars, Horizon
  <1>2. CASE TimerFires(c) \/ Informers(c) \/ ReadFails(c)
             \/ StopReconcile(c) \/ RepeatReconcile(c)
    BY <1>2, Invisible DEF TimerFires, Informers, SyncChpa, SyncDep, ReadFails,
                           StopReconcile, RepeatReconcile
  <1>3. CASE StartReconcile(c)
    BY <1>3, RefinesStart
  <1>4. CASE Decide(c) \/ MetricsFail(c) \/ ScaleRefused(c) \/ ScaleLost(c)
    <2>1. /\ UNCHANGED <<now, chpa, dep, history>>
          /\ worker[c].phase \in {"decide", "scale"}
      BY <1>4 DEF Decide, SkipDisabled, CorrectBounds, FollowMetrics, MetricsFail,
                  FollowsMetrics, Deciding, ScaleRefused, ScaleLost, Scaling
    <2>2. \/ \E desired : ToStatus(c, desired)
          \/ \E target, why : ToScale(c, target, why)
      BY <1>4 DEF Decide, SkipDisabled, CorrectBounds, FollowMetrics, MetricsFail,
                  ScaleRefused, ScaleLost
    <2>3. worker[c] # Idle
      BY <2>1 DEF Idle
    <2>4. /\ worker'[c].phase \in {"scale", "status"}
          /\ worker'[c].chpa = worker[c].chpa
      <3>1. CASE \E desired : ToStatus(c, desired)
        BY <1>0, <3>1 DEF ToStatus
      <3>2. CASE \E target, why : ToScale(c, target, why)
        BY <1>0, <3>2 DEF ToScale
      <3> QED
        BY <2>2, <3>1, <3>2
    <2>5. worker'[c] # Idle
      BY <2>4 DEF Idle
    <2> QED
      BY <2>1, <2>3, <2>4, <2>5, Invisible
  <1>5. CASE Rescale(c) \/ ScaleUnacknowledged(c)
    BY <1>5, RefinesRescale DEF Scaler!Next
  <1>6. CASE StatusWritten(c)
    BY <1>6, RefinesRecord DEF Scaler!Next
  <1>7. CASE StatusSkipped(c) \/ StatusRefused(c) \/ StatusLost(c) \/ Crash(c)
    <2>1. UNCHANGED <<now, chpa, dep, history>> /\ worker'[c] = Idle
      BY <1>0, <1>7 DEF StatusSkipped, StatusRefused, StatusLost, Finish, Crash
    <2> QED
      BY <2>1, RefinesLearn DEF Scaler!Next
  <1>8. CASE EditSpec \/ DeleteChpa \/ CreateChpa
    BY <1>8, RefinesChpaOps DEF Scaler!Next
  <1>9. CASE PodsFollow \/ ScaleDeployment \/ TakeOver \/ DeleteDeployment
             \/ CreateDeployment
    BY <1>9, RefinesDeploymentOps DEF Scaler!Next
  <1>10. CASE Tick
    <2>1. UNCHANGED <<chpa, dep, worker, history>> /\ now' = now + 1
      BY <1>10 DEF Tick
    <2>2. SpecInForce' = SpecInForce /\ SpecActedOn' = SpecActedOn
      BY <2>1, ActedOn DEF SpecInForce
    <2> QED
      BY <2>1, <2>2 DEF Scaler!Tick, Scaler!Next, Scaler!deployment
  <1> QED
    BY <1>1, <1>2, <1>3, <1>4, <1>5, <1>6, <1>7, <1>8, <1>9, <1>10
       DEF Alone, Next, WorkerStep, Reconcile, UpdateDeploy, UpdateStatus, Failure, Users

\* One process whose informers are current when a reconcile starts scales as if
\* every rescale were atomic (ScalesAtomically), whatever specs, proposals, faults
\* and user operations there are.
THEOREM ScalesAtomicallySafe ==
    ASSUME NEW c, Alone(c)
    PROVE  Spec => ScalesAtomically
  <1>1. Init => Scaler!Init /\ ReconcileCurrent(c)
    BY RefinesInit, CurrentInit
  <1>2. TypeOK /\ ReconcileCurrent(c) /\ [Next]_vars => ReconcileCurrent(c)'
    BY CurrentNext
  <1>3. /\ TypeOK /\ CopiesAreVersions /\ TimesOrdered /\ ReconcileCurrent(c)
        /\ [Next]_vars
        => [Scaler!Next]_(Scaler!vars)
    BY RefinesNext
  <1> QED
    BY TypeCorrect, CopiesCorrect, TimesCorrect, <1>1, <1>2, <1>3, PTL
       DEF Spec, ScalesAtomically, Scaler!Spec

===============================================================================
