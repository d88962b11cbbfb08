------------------------- MODULE ChpaControllerProofs -------------------------
(***************************************************************************)
(* The safety properties of the control loop, for every set of controller  *)
(* processes, every set of specs, proposals and user operations, any lag   *)
(* of the caches and any number of faults.                                 *)
(***************************************************************************)
EXTENDS ChpaProperties, ScaleRulesProofs

\* The phase of a reconcile says which copies it holds.
LEMMA WorkerPhases ==
    ASSUME NEW w \in Worker
    PROVE  /\ w.phase = "decide" => w \in DecideWorker
           /\ w.phase = "scale" => w \in ScaleWorker
           /\ w.phase = "status" => w \in StatusWorker
  BY DEF Worker, Idle, DecideWorker, ScaleWorker, StatusWorker

\* Initially every variable is in its type.
LEMMA TypeInit == Init => TypeOK
  <1> SUFFICES ASSUME Init PROVE TypeOK
    OBVIOUS
  <1>1. chpa \in Chpa
    BY ControllerAssumption DEF Init, Chpa, Status, NoStatus, Times, Never
  <1>2. dep \in Deployment
    BY ControllerAssumption DEF Init, Deployment
  <1>3. cache \in [Controllers -> Cache]
    BY <1>1, <1>2 DEF Init, Cache
  <1>4. queue \in [Controllers -> [ready : BOOLEAN, timer : Times]]
    BY DEF Init, Times
  <1>5. worker \in [Controllers -> Worker]
    BY DEF Init, Worker
  <1>6. history \in History
    BY DEF Init, History, Times
  <1> QED
    BY <1>1, <1>2, <1>3, <1>4, <1>5, <1>6 DEF Init, TypeOK

\* What the steps do to an object in the API server leaves it one.
LEMMA DeploymentUpdates ==
    ASSUME NEW d \in Deployment, NEW r \in Nat, NEW n \in Nat
    PROVE  /\ [d EXCEPT !.replicas = n, !.owner = "self"] \in Deployment
           /\ [d EXCEPT !.rv = r] \in Deployment
           /\ [d EXCEPT !.rv = r, !.pods = n] \in Deployment
           /\ [d EXCEPT !.rv = r, !.replicas = n] \in Deployment
           /\ [d EXCEPT !.rv = r, !.owner = "other"] \in Deployment
           /\ [d EXCEPT !.rv = r, !.live = FALSE] \in Deployment
           /\ [d EXCEPT !.owner = "self"] \in Deployment
  BY DEF Deployment

\* The updates of a CHPA that the actions make keep it a CHPA.
LEMMA ChpaUpdates ==
    ASSUME NEW h \in Chpa, NEW r \in Nat, NEW spec \in CHPASpec,
           NEW status \in Status
    PROVE  /\ [h EXCEPT !.rv = r, !.spec = spec, !.status = status] \in Chpa
           /\ [h EXCEPT !.rv = r, !.spec = spec] \in Chpa
           /\ [h EXCEPT !.rv = r, !.live = FALSE] \in Chpa
           /\ [h EXCEPT !.spec = spec] \in Chpa
  BY DEF Chpa

\* The requeue after syncPeriod keeps the queue in its type.
LEMMA RequeueType ==
    ASSUME TypeOK, NEW c \in Controllers, NEW ready \in BOOLEAN, Requeue(c, ready)
    PROVE  queue' \in [Controllers -> [ready : BOOLEAN, timer : Times]]
  BY ControllerAssumption DEF TypeOK, Requeue, AddAfter, Smaller, Times, Never

\* Deciding on a rescale keeps the workers in their type.
LEMMA ToScaleType ==
    ASSUME TypeOK, NEW c \in Controllers, worker[c].phase = "decide",
           NEW target \in Nat, NEW why \in {"bounds", "metrics"},
           ToScale(c, target, why)
    PROVE  worker' \in [Controllers -> Worker]
  <1>1. worker[c] \in DecideWorker
    BY WorkerPhases DEF TypeOK
  <1>2. [phase |-> "scale", chpa |-> worker[c].chpa, dep |-> worker[c].dep,
         target |-> target, why |-> why] \in ScaleWorker
    BY <1>1 DEF DecideWorker, ScaleWorker
  <1> QED
    BY <1>2 DEF TypeOK, ToScale, Worker

\* Going on to the status write keeps the workers in their type.
LEMMA ToStatusType ==
    ASSUME TypeOK, NEW c \in Controllers,
           worker[c].phase \in {"decide", "scale"},
           NEW desired \in Nat, ToStatus(c, desired)
    PROVE  worker' \in [Controllers -> Worker]
  <1>1. worker[c].chpa \in Chpa /\ worker[c].dep \in Deployment
    BY WorkerPhases DEF TypeOK, DecideWorker, ScaleWorker
  <1>2. [worker[c].chpa.status EXCEPT !.current = worker[c].dep.pods,
                                      !.desired = desired] \in Status
    BY <1>1 DEF Chpa, Deployment, Status
  <1>3. [phase |-> "status", chpa |-> worker[c].chpa,
         status |-> [worker[c].chpa.status EXCEPT !.current = worker[c].dep.pods,
                                                  !.desired = desired]]
        \in StatusWorker
    BY <1>1, <1>2 DEF StatusWorker
  <1> QED
    BY <1>3 DEF TypeOK, ToStatus, Worker

\* An applied update of the Deployment leaves a Deployment and a history.
LEMMA ApplyScaleType ==
    ASSUME TypeOK, NEW c \in Controllers, worker[c].phase = "scale",
           ApplyScale(worker[c])
    PROVE  dep' \in Deployment /\ history' \in History
  <1>1. worker[c] \in ScaleWorker
    BY WorkerPhases DEF TypeOK
  <1> DEFINE w == worker[c]
             written == [dep EXCEPT !.replicas = w.target, !.owner = "self"]
  <1>2. w.target \in Nat /\ dep \in Deployment /\ now \in Nat /\ history \in History
    BY <1>1 DEF TypeOK, ScaleWorker
  <1>3. written \in Deployment
    BY <1>2, DeploymentUpdates, Zenon
  <1>a. written.rv + 1 \in Nat
    <2>1. \A d \in Deployment : d.rv + 1 \in Nat
      BY DEF Deployment
    <2> HIDE DEF written
    <2> QED
      BY <1>3, <2>1
  <1>b. [written EXCEPT !.rv = @ + 1] \in Deployment
    BY <1>3, <1>a, DeploymentUpdates, Zenon
  <1>4. dep' \in Deployment
    BY <1>2, <1>3, <1>b DEF ApplyScale
  <1>5. history' \in History
    BY <1>2 DEF ApplyScale, History, Times
  <1> QED
    BY <1>4, <1>5

-------------------------------------------------------------------------------
\* The early returns and the read of the caches keep the types.
LEMMA ReconcileType ==
    ASSUME TypeOK, NEW c \in Controllers, Reconcile(c) \/ ReadFails(c)
    PROVE  TypeOK'
  <1>1. CASE StopReconcile(c)
    BY <1>1 DEF StopReconcile, TypeOK
  <1>2. CASE RepeatReconcile(c)
    BY <1>2, RequeueType DEF RepeatReconcile, TypeOK
  <1>3. CASE ReadFails(c)
    <2>1. faults' \in Nat
      BY <1>3 DEF ReadFails, Fault, TypeOK
    <2> QED
      BY <1>3, <2>1, RequeueType DEF ReadFails, TypeOK
  <1>4. CASE StartReconcile(c)
    <2>1. cache[c].chpa \in Chpa /\ cache[c].dep \in Deployment
      BY DEF TypeOK, Cache
    <2>2. [cache[c].chpa EXCEPT !.spec = WithDefaults(@)] \in Chpa
      BY <2>1, WithDefaultsCompletes DEF Chpa
    <2>3. [cache[c].dep EXCEPT !.owner = "self"] \in Deployment
      BY <2>1, DeploymentUpdates
    <2>4. worker' \in [Controllers -> Worker]
      BY <1>4, <2>2, <2>3 DEF StartReconcile, TypeOK, Worker, DecideWorker
    <2> QED
      BY <1>4, <2>4 DEF StartReconcile, TypeOK
  <1> QED
    BY <1>1, <1>2, <1>3, <1>4 DEF Reconcile

\* A decision keeps the types.
LEMMA DecideType ==
    ASSUME TypeOK, NEW c \in Controllers, Decide(c) \/ MetricsFail(c)
    PROVE  TypeOK'
  <1>1. worker[c].phase = "decide"
    BY DEF Decide, SkipDisabled, CorrectBounds, FollowMetrics, MetricsFail,
           FollowsMetrics, Deciding
  <1>2. worker[c] \in DecideWorker
    BY <1>1, WorkerPhases DEF TypeOK
  <1>3. /\ worker[c].dep.pods \in Nat
        /\ worker[c].chpa.status.desired \in Nat
        /\ worker[c].chpa.spec \in CHPASpec
    BY <1>2 DEF DecideWorker, Chpa, Deployment, Status
  <1>4. worker' \in [Controllers -> Worker]
    <2>1. CASE SkipDisabled(c)
      BY <2>1, <1>1, <1>3, ToStatusType DEF SkipDisabled
    <2>2. CASE CorrectBounds(c)
      <3>1. BoundsTarget(worker[c].chpa.spec, worker[c].dep.pods) \in Nat
        BY <1>3 DEF BoundsTarget, CHPASpec
      <3> QED
        BY <2>2, <1>1, <3>1, ToScaleType DEF CorrectBounds
    <2>3. CASE FollowMetrics(c)
      <3> DEFINE w == worker[c]
                 desired(proposal) == NormalizeDesired(w.chpa.spec, w.dep.pods, proposal)
      <3>1. PICK proposal \in Proposals :
              \/ ToScale(c, desired(proposal), "metrics")
              \/ ToStatus(c, w.dep.pods)
        BY <2>3 DEF FollowMetrics
      <3>2. desired(proposal) \in Nat
        <4>1. proposal \in Int
          BY ControllerAssumption
        <4>2. (w.chpa.spec.factor2 * w.dep.pods) \div 2 \in Nat
          BY <1>3, HalfOfProduct DEF CHPASpec
        <4> QED
          BY <4>1, <4>2, <1>3
             DEF NormalizeDesired, MinAllowed, MaxAllowed, ScaleUpLimit,
                 Larger, Smaller, CHPASpec
      <3> HIDE DEF desired
      <3> QED
        BY <3>1, <3>2, <1>1, <1>3, ToScaleType, ToStatusType
    <2>4. CASE MetricsFail(c)
      BY <2>4, <1>1, <1>3, ToStatusType DEF MetricsFail
    <2> QED
      BY <2>1, <2>2, <2>3, <2>4 DEF Decide
  <1>5. UNCHANGED <<now, chpa, dep, cache, queue, userOps, history>> /\ faults' \in Nat
    BY DEF Decide, SkipDisabled, CorrectBounds, FollowMetrics, MetricsFail,
           FollowsMetrics, Deciding, Fault, TypeOK
  <1> QED
    BY <1>4, <1>5 DEF TypeOK

\* The update of the Deployment keeps the types, however it ends.
LEMMA ScaleType ==
    ASSUME TypeOK, NEW c \in Controllers,
           UpdateDeploy(c) \/ ScaleLost(c) \/ ScaleUnacknowledged(c)
    PROVE  TypeOK'
  <1>1. worker[c].phase = "scale"
    BY DEF UpdateDeploy, Rescale, ScaleRefused, ScaleLost, ScaleUnacknowledged, Scaling
  <1>2. worker[c] \in ScaleWorker
    BY <1>1, WorkerPhases DEF TypeOK
  <1>3. worker[c].chpa \in Chpa /\ worker[c].dep \in Deployment
        /\ worker[c].target \in Nat
    BY <1>2 DEF ScaleWorker
  <1>4. worker[c].chpa.status.desired \in Nat /\ worker[c].dep.pods \in Nat
    BY <1>3 DEF Chpa, Status, Deployment
  <1>5. worker' \in [Controllers -> Worker]
    <2>1. CASE Rescale(c)
      <3>1. [phase |-> "status", chpa |-> worker[c].chpa,
             status |-> [last |-> now, current |-> worker[c].dep.pods,
                         desired |-> worker[c].target]] \in StatusWorker
        BY <1>3, <1>4 DEF StatusWorker, Status, Times, TypeOK
      <3> QED
        BY <2>1, <3>1 DEF Rescale, TypeOK, Worker
    <2>2. CASE ~Rescale(c)
      BY <2>2, <1>1, <1>4, ToStatusType
         DEF UpdateDeploy, ScaleRefused, ScaleLost, ScaleUnacknowledged
    <2> QED
      BY <2>1, <2>2
  <1>6. dep' \in Deployment /\ history' \in History
    BY <1>1, ApplyScaleType
       DEF UpdateDeploy, Rescale, ScaleRefused, ScaleLost, ScaleUnacknowledged, TypeOK
  <1>7. UNCHANGED <<now, chpa, cache, queue, userOps>> /\ faults' \in Nat
    BY DEF UpdateDeploy, Rescale, ScaleRefused, ScaleLost, ScaleUnacknowledged,
           Scaling, Fault, TypeOK
  <1> QED
    BY <1>5, <1>6, <1>7 DEF TypeOK

\* The update of the status keeps the types, however it ends.
LEMMA StatusType ==
    ASSUME TypeOK, NEW c \in Controllers, UpdateStatus(c) \/ StatusLost(c)
    PROVE  TypeOK'
  <1>1. Finish(c)
    BY DEF UpdateStatus, StatusSkipped, StatusWritten, StatusRefused, StatusLost
  <1>2. worker[c] \in StatusWorker
    BY <1>1, WorkerPhases DEF Finish, TypeOK
  <1>3. queue[c].ready \in BOOLEAN
    BY DEF TypeOK
  <1>4. queue' \in [Controllers -> [ready : BOOLEAN, timer : Times]]
    BY <1>1, <1>3, RequeueType DEF Finish
  <1>5. worker' \in [Controllers -> Worker]
    BY <1>1 DEF Finish, TypeOK, Worker
  <1>6. chpa' \in Chpa
    <2>1. CASE StatusWritten(c)
      <3>1. /\ chpa \in Chpa /\ chpa.rv + 1 \in Nat
            /\ worker[c].chpa.spec \in CHPASpec /\ worker[c].status \in Status
        BY <1>2 DEF TypeOK, StatusWorker, Chpa
      <3> QED
        BY <2>1, <3>1, ChpaUpdates DEF StatusWritten
    <2>2. CASE ~StatusWritten(c)
      BY <2>2 DEF UpdateStatus, StatusSkipped, StatusRefused, StatusLost, TypeOK
    <2> QED
      BY <2>1, <2>2
  <1>7. faults' \in Nat
    BY DEF UpdateStatus, StatusSkipped, StatusWritten, StatusRefused, StatusLost,
           Fault, TypeOK
  <1> QED
    BY <1>1, <1>4, <1>5, <1>6, <1>7 DEF Finish, TypeOK

\* Timers, restarts and informers keep the types.
LEMMA ProcessType ==
    ASSUME TypeOK, NEW c \in Controllers, TimerFires(c) \/ Crash(c) \/ Informers(c)
    PROVE  TypeOK'
  <1>1. CASE TimerFires(c)
    BY <1>1 DEF TimerFires, TypeOK, Times
  <1>2. CASE Crash(c)
    <2>1. chpa.live \in BOOLEAN
      BY DEF TypeOK, Chpa
    <2> QED
      BY <1>2, <2>1 DEF Crash, Fault, TypeOK, Cache, Worker, Times
  <1>3. CASE SyncChpa(c)
    BY <1>3 DEF SyncChpa, TypeOK, Cache
  <1>4. CASE SyncDep(c)
    BY <1>4 DEF SyncDep, TypeOK, Cache
  <1> QED
    BY <1>1, <1>2, <1>3, <1>4 DEF Informers

\* The deployment controller, users and the clock keep the types.
LEMMA EnvironmentType ==
    ASSUME TypeOK, PodsFollow \/ Users \/ Tick \/ Horizon
    PROVE  TypeOK'
  <1>0. /\ chpa \in Chpa /\ dep \in Deployment
        /\ chpa.rv + 1 \in Nat /\ dep.rv + 1 \in Nat
        /\ dep.pods \in Nat /\ dep.replicas \in Nat
    BY DEF TypeOK, Chpa, Deployment
  <1>1. CASE PodsFollow
    <2>1. (IF dep.pods < dep.replicas THEN dep.pods + 1 ELSE dep.pods - 1) \in Nat
      BY <1>0, <1>1 DEF PodsFollow
    <2>2. dep' \in Deployment
      BY <1>0, <1>1, <2>1, DeploymentUpdates DEF PodsFollow
    <2> QED
      BY <1>1, <2>2 DEF PodsFollow, TypeOK
  <1>2. CASE Users
    <2>1. UNCHANGED <<now, cache, queue, worker, faults, history>> /\ userOps' \in Nat
      <3>1. PICK op : UserOp(op)
        BY <1>2 DEF Users, EditSpec, ScaleDeployment, TakeOver, DeleteChpa,
                    CreateChpa, DeleteDeployment, CreateDeployment
      <3> QED
        BY <3>1 DEF UserOp, TypeOK
    <2>2. chpa' \in Chpa /\ dep' \in Deployment
      <3>1. CASE EditSpec
        <4>1. PICK spec \in Specs : chpa' = [chpa EXCEPT !.rv = @ + 1, !.spec = spec]
          BY <3>1 DEF EditSpec
        <4>2. spec \in CHPASpec
          BY ControllerAssumption
        <4>3. chpa' \in Chpa
          BY <1>0, <4>1, <4>2 DEF Chpa
        <4> QED
          BY <1>0, <3>1, <4>3 DEF EditSpec
      <3>2. CASE ScaleDeployment
        <4>1. PICK n \in ScaleSizes :
                dep' = [dep EXCEPT !.rv = @ + 1, !.replicas = n]
          BY <3>2 DEF ScaleDeployment
        <4>2. n \in Nat
          BY ControllerAssumption
        <4> QED
          BY <1>0, <3>2, <4>1, <4>2, DeploymentUpdates DEF ScaleDeployment
      <3>3. CASE TakeOver
        BY <1>0, <3>3, DeploymentUpdates DEF TakeOver
      <3>4. CASE DeleteChpa
        BY <1>0, <3>4 DEF DeleteChpa, Chpa
      <3>5. CASE CreateChpa
        BY <1>0, <3>5, ControllerAssumption
           DEF CreateChpa, Chpa, Status, NoStatus, Times
      <3>6. CASE DeleteDeployment
        BY <1>0, <3>6, DeploymentUpdates DEF DeleteDeployment
      <3>7. CASE CreateDeployment
        BY <1>0, <3>7, ControllerAssumption DEF CreateDeployment, Deployment
      <3> QED
        BY <1>2, <3>1, <3>2, <3>3, <3>4, <3>5, <3>6, <3>7 DEF Users
    <2> QED
      BY <2>1, <2>2 DEF TypeOK
  <1>3. CASE Tick
    BY <1>3 DEF Tick, TypeOK
  <1>4. CASE Horizon
    BY <1>4 DEF Horizon, vars, TypeOK
  <1> QED
    BY <1>1, <1>2, <1>3, <1>4

\* Every step keeps the types.
LEMMA TypeNext == TypeOK /\ [Next]_vars => TypeOK'
  <1> SUFFICES ASSUME TypeOK, [Next]_vars PROVE TypeOK'
    OBVIOUS
  <1>1. CASE UNCHANGED vars
    BY <1>1 DEF vars, TypeOK
  <1>2. CASE Next
    BY <1>2, ReconcileType, DecideType, ScaleType, StatusType, ProcessType,
       EnvironmentType
       DEF Next, WorkerStep, Failure
  <1> QED
    BY <1>1, <1>2

\* Every variable keeps to its type (the type invariant of ChpaController).
THEOREM TypeCorrect == Spec => []TypeOK
  BY TypeInit, TypeNext, PTL DEF Spec

-------------------------------------------------------------------------------
(* Copies are versions of the objects.                                        *)

\* The API server moves an object's version with every change of it.
ObjectsMove ==
    /\ chpa' = chpa \/ chpa'.rv = chpa.rv + 1
    /\ dep' = dep \/ dep'.rv = dep.rv + 1

\* An applied update of the Deployment moves its resourceVersion if it changes
\* the Deployment.
LEMMA ApplyScaleMoves ==
    ASSUME TypeOK, NEW c \in Controllers, worker[c].phase = "scale",
           ApplyScale(worker[c])
    PROVE  dep' = dep \/ dep'.rv = dep.rv + 1
  <1>1. dep \in Deployment /\ worker[c].target \in Nat
    BY WorkerPhases DEF TypeOK, ScaleWorker
  <1> QED
    BY <1>1 DEF ApplyScale, Deployment

\* No step changes an object without moving its resourceVersion by one.
LEMMA EveryStepMoves ==
    ASSUME TypeOK, Next
    PROVE  ObjectsMove
  <1>0. chpa \in Chpa /\ dep \in Deployment
    BY DEF TypeOK
  <1>1. ASSUME NEW c \in Controllers, WorkerStep(c) \/ Failure(c)
        PROVE  ObjectsMove
    <2>1. CASE StatusWritten(c)
      BY <1>0, <2>1 DEF StatusWritten, Finish, ObjectsMove, Chpa
    <2>2. CASE Rescale(c) \/ ScaleUnacknowledged(c)
      BY <2>2, ApplyScaleMoves DEF Rescale, ScaleUnacknowledged, Scaling, ObjectsMove
    <2>3. CASE Reconcile(c) \/ ReadFails(c) \/ Crash(c)
      BY <2>3 DEF Reconcile, StopReconcile, RepeatReconcile, ReadFails, StartReconcile,
                  Crash, ObjectsMove
    <2>4. CASE Decide(c) \/ MetricsFail(c)
      BY <2>4 DEF Decide, SkipDisabled, CorrectBounds, FollowMetrics, MetricsFail,
                  FollowsMetrics, Deciding, ObjectsMove
    <2>5. CASE ScaleRefused(c) \/ ScaleLost(c)
      BY <2>5 DEF ScaleRefused, ScaleLost, Scaling, ObjectsMove
    <2>6. CASE StatusSkipped(c) \/ StatusRefused(c) \/ StatusLost(c)
      BY <2>6 DEF StatusSkipped, StatusRefused, StatusLost, Finish, ObjectsMove
    <2> QED
      BY <1>1, <2>1, <2>2, <2>3, <2>4, <2>5, <2>6
         DEF WorkerStep, Failure, UpdateDeploy, UpdateStatus
  <1>2. ASSUME NEW c \in Controllers, TimerFires(c) \/ Informers(c)
        PROVE  ObjectsMove
    BY <1>2 DEF TimerFires, Informers, SyncChpa, SyncDep, ObjectsMove
  <1>3. CASE PodsFollow
    BY <1>0, <1>3 DEF PodsFollow, ObjectsMove, Deployment
  <1>4. CASE Users
    <2>1. CASE EditSpec
      BY <1>0, <2>1 DEF EditSpec, ObjectsMove, Chpa
    <2>2. CASE ScaleDeployment
      BY <1>0, <2>2 DEF ScaleDeployment, ObjectsMove, Deployment
    <2>3. CASE TakeOver
      BY <1>0, <2>3 DEF TakeOver, ObjectsMove, Deployment
    <2>4. CASE DeleteChpa
      BY <1>0, <2>4 DEF DeleteChpa, ObjectsMove, Chpa
    <2>5. CASE CreateChpa
      BY <1>0, <2>5 DEF CreateChpa, ObjectsMove
    <2>6. CASE DeleteDeployment
      BY <1>0, <2>6 DEF DeleteDeployment, ObjectsMove, Deployment
    <2>7. CASE CreateDeployment
      BY <1>0, <2>7 DEF CreateDeployment, ObjectsMove
    <2> QED
      BY <1>4, <2>1, <2>2, <2>3, <2>4, <2>5, <2>6, <2>7 DEF Users
  <1>5. CASE Tick \/ Horizon
    BY <1>5 DEF Tick, Horizon, vars, ObjectsMove
  <1> QED
    BY <1>1, <1>2, <1>3, <1>4, <1>5 DEF Next

\* What was a version of an object stays one.
LEMMA VersionsStay ==
    ASSUME TypeOK, TypeOK', ObjectsMove
    PROVE  /\ \A copy \in Chpa :
                /\ IsChpaVersion(copy) => IsChpaVersion(copy)'
                /\ IsReadChpa(copy) => IsReadChpa(copy)'
           /\ \A copy \in Deployment :
                /\ IsDepVersion(copy) => IsDepVersion(copy)'
                /\ IsReadDep(copy) => IsReadDep(copy)'
  <1>1. /\ chpa.rv \in Nat /\ chpa'.rv \in Nat /\ dep.rv \in Nat /\ dep'.rv \in Nat
        /\ \A copy \in Chpa : copy.rv \in Nat
        /\ \A copy \in Deployment : copy.rv \in Nat
    BY DEF TypeOK, Chpa, Deployment
  <1>2. ASSUME NEW copy \in Chpa
        PROVE  /\ IsChpaVersion(copy) => IsChpaVersion(copy)'
               /\ IsReadChpa(copy) => IsReadChpa(copy)'
    BY <1>1 DEF ObjectsMove, IsChpaVersion, IsReadChpa
  <1>3. ASSUME NEW copy \in Deployment
        PROVE  /\ IsDepVersion(copy) => IsDepVersion(copy)'
               /\ IsReadDep(copy) => IsReadDep(copy)'
    BY <1>1 DEF ObjectsMove, IsDepVersion, IsReadDep
  <1> QED
    BY <1>2, <1>3

\* Where a process's copies come from: it had them, its informer got the object
\* as it is, or a reconcile took its informer's.
CopiesFrom(c) ==
    /\ cache'[c].chpa = cache[c].chpa \/ (cache'[c].chpa = chpa /\ chpa' = chpa)
    /\ cache'[c].dep = cache[c].dep \/ (cache'[c].dep = dep /\ dep' = dep)
    /\ worker'[c] # Idle =>
         \/ worker[c] # Idle /\ worker'[c].chpa = worker[c].chpa
         \/ /\ worker'[c].chpa = [cache[c].chpa EXCEPT !.spec = WithDefaults(@)]
            /\ cache[c].chpa.live
    /\ worker'[c].phase \in {"decide", "scale"} =>
         \/ /\ worker[c].phase \in {"decide", "scale"}
            /\ worker'[c].dep = worker[c].dep
         \/ /\ worker'[c].dep = [cache[c].dep EXCEPT !.owner = "self"]
            /\ cache[c].dep.live /\ cache[c].dep.owner # "other"

\* Every copy a step makes is of an object or of a copy that was there before.
LEMMA CopiesFromStep ==
    ASSUME TypeOK, Next, NEW c \in Controllers
    PROVE  CopiesFrom(c)
  <1>0. /\ cache \in [Controllers -> Cache] /\ worker \in [Controllers -> Worker]
        /\ chpa \in Chpa /\ dep \in Deployment
    BY DEF TypeOK
  <1>1. ASSUME cache'[c] = cache[c], worker'[c] = worker[c]
        PROVE  CopiesFrom(c)
    BY <1>1 DEF CopiesFrom
  <1>2. ASSUME NEW d \in Controllers, WorkerStep(d) \/ Failure(d)
        PROVE  CopiesFrom(c)
    <2>1. CASE StopReconcile(d) \/ RepeatReconcile(d) \/ ReadFails(d)
      BY <1>1, <2>1 DEF StopReconcile, RepeatReconcile, ReadFails
    <2>0. CASE c # d
      <3>1. worker'[c] = worker[c]
        BY <1>0, <1>2, <2>0
           DEF WorkerStep, Failure, Reconcile, StopReconcile, RepeatReconcile, ReadFails,
               StartReconcile, Decide, SkipDisabled, CorrectBounds, FollowMetrics,
               MetricsFail, FollowsMetrics, Deciding, ToScale, ToStatus,
               UpdateDeploy, Rescale, ScaleRefused, ScaleLost, ScaleUnacknowledged,
               Scaling, UpdateStatus, StatusSkipped, StatusWritten, StatusRefused,
               StatusLost, Finish, Crash
      <3>2. cache'[c] = cache[c]
        BY <1>0, <1>2, <2>0
           DEF WorkerStep, Failure, Reconcile, StopReconcile, RepeatReconcile, ReadFails,
               StartReconcile, Decide, SkipDisabled, CorrectBounds, FollowMetrics,
               MetricsFail, FollowsMetrics, Deciding,
               UpdateDeploy, Rescale, ScaleRefused, ScaleLost, ScaleUnacknowledged,
               Scaling, UpdateStatus, StatusSkipped, StatusWritten, StatusRefused,
               StatusLost, Finish, Crash
      <3> QED
        BY <1>1, <3>1, <3>2
    <2>2. CASE c = d /\ StartReconcile(d)
      BY <1>0, <2>2 DEF StartReconcile, CopiesFrom, Invalid, NoTarget
    <2>3. CASE c = d /\ (Decide(d) \/ MetricsFail(d))
      <3>1. worker[c].phase = "decide" /\ worker[c] # Idle /\ cache' = cache
        BY <2>3
           DEF Decide, SkipDisabled, CorrectBounds, FollowMetrics, MetricsFail,
               FollowsMetrics, Deciding, Idle
      <3>2. /\ worker'[c].chpa = worker[c].chpa
            /\ worker'[c].phase = "scale" => worker'[c].dep = worker[c].dep
            /\ worker'[c].phase \in {"scale", "status"}
        BY <1>0, <2>3
           DEF Decide, SkipDisabled, CorrectBounds, FollowMetrics, MetricsFail,
               FollowsMetrics, Deciding, ToScale, ToStatus
      <3> QED
        BY <3>1, <3>2 DEF CopiesFrom
    <2>4. CASE c = d /\ (UpdateDeploy(d) \/ ScaleLost(d) \/ ScaleUnacknowledged(d))
      <3>1. worker[c].phase = "scale" /\ worker[c] # Idle /\ cache' = cache
        BY <2>4 DEF UpdateDeploy, Rescale, ScaleRefused, ScaleLost, ScaleUnacknowledged,
                    Scaling, Idle
      <3>2. worker'[c].chpa = worker[c].chpa /\ worker'[c].phase = "status"
        BY <1>0, <2>4
           DEF UpdateDeploy, Rescale, ScaleRefused, ScaleLost, ScaleUnacknowledged, ToStatus
      <3> QED
        BY <3>1, <3>2 DEF CopiesFrom
    <2>5. CASE c = d /\ (UpdateStatus(d) \/ StatusLost(d))
      <3>1. worker'[c] = Idle /\ cache' = cache
        BY <1>0, <2>5
           DEF UpdateStatus, StatusSkipped, StatusWritten, StatusRefused, StatusLost, Finish
      <3> QED
        BY <3>1 DEF CopiesFrom, Idle
    <2>6. CASE c = d /\ Crash(d)
      BY <1>0, <2>6 DEF Crash, CopiesFrom, Idle
    <2> QED
      BY <1>2, <2>0, <2>1, <2>2, <2>3, <2>4, <2>5, <2>6 DEF WorkerStep, Failure, Reconcile
  <1>3. ASSUME NEW d \in Controllers, Informers(d)
        PROVE  CopiesFrom(c)
    <2>1. worker' = worker
      BY <1>3 DEF Informers, SyncChpa, SyncDep
    <2>2. CASE c # d
      BY <1>0, <1>1, <1>3, <2>1, <2>2 DEF Informers, SyncChpa, SyncDep
    <2>3. CASE c = d /\ SyncChpa(d)
      BY <1>0, <2>1, <2>3 DEF SyncChpa, CopiesFrom, Cache
    <2>4. CASE c = d /\ SyncDep(d)
      BY <1>0, <2>1, <2>4 DEF SyncDep, CopiesFrom, Cache
    <2> QED
      BY <1>3, <2>2, <2>3, <2>4 DEF Informers
  <1>4. ASSUME NEW d \in Controllers, TimerFires(d)
        PROVE  CopiesFrom(c)
    BY <1>1, <1>4 DEF TimerFires
  <1>5. CASE PodsFollow \/ Tick \/ Horizon
    BY <1>1, <1>5 DEF PodsFollow, Tick, Horizon, vars
  <1>6. CASE Users
    <2>1. PICK op : UserOp(op)
      BY <1>6 DEF Users, EditSpec, ScaleDeployment, TakeOver, DeleteChpa,
                  CreateChpa, DeleteDeployment, CreateDeployment
    <2> QED
      BY <1>1, <2>1 DEF UserOp
  <1> QED
    BY <1>2, <1>3, <1>4, <1>5, <1>6 DEF Next

\* The informers start with the objects themselves.
LEMMA VersionsInit == Init => CopiesAreVersions
  <1> SUFFICES ASSUME Init PROVE CopiesAreVersions
    OBVIOUS
  <1>1. TypeOK
    BY TypeInit
  <1>2. chpa.rv \in Nat /\ dep.rv \in Nat
    BY <1>1 DEF TypeOK, Chpa, Deployment
  <1>3. \A c \in Controllers :
          /\ cache[c].chpa = chpa /\ cache[c].dep = dep
          /\ worker[c] = Idle /\ worker[c].phase = "idle"
    BY DEF Init, Idle
  <1> QED
    BY <1>2, <1>3 DEF CopiesAreVersions, IsChpaVersion, IsDepVersion

\* Every step leaves the copies versions of the objects.
LEMMA VersionsNext ==
    TypeOK /\ CopiesAreVersions /\ [Next]_vars => CopiesAreVersions'
  <1> SUFFICES ASSUME TypeOK, CopiesAreVersions, [Next]_vars PROVE CopiesAreVersions'
    OBVIOUS
  <1>1. TypeOK'
    BY TypeNext
  <1>2. CASE UNCHANGED vars
    BY <1>2 DEF vars, CopiesAreVersions, IsChpaVersion, IsDepVersion,
                IsReadChpa, IsReadDep
  <1>3. CASE Next
    <2> SUFFICES ASSUME NEW c \in Controllers
                 PROVE  /\ IsChpaVersion(cache[c].chpa)'
                        /\ IsDepVersion(cache[c].dep)'
                        /\ (worker[c] # Idle => IsReadChpa(worker[c].chpa))'
                        /\ (worker[c].phase \in {"decide", "scale"}
                              => IsReadDep(worker[c].dep))'
      BY DEF CopiesAreVersions
    <2>1. CopiesFrom(c)
      BY <1>3, CopiesFromStep
    <2>2. /\ \A copy \in Chpa :
               /\ IsChpaVersion(copy) => IsChpaVersion(copy)'
               /\ IsReadChpa(copy) => IsReadChpa(copy)'
          /\ \A copy \in Deployment :
               /\ IsDepVersion(copy) => IsDepVersion(copy)'
               /\ IsReadDep(copy) => IsReadDep(copy)'
      BY <1>1, <1>3, EveryStepMoves, VersionsStay
    <2>3. /\ cache[c].chpa \in Chpa /\ cache[c].dep \in Deployment
          /\ chpa \in Chpa /\ dep \in Deployment
          /\ chpa.rv \in Nat /\ dep.rv \in Nat
      BY DEF TypeOK, Cache, Chpa, Deployment
    <2>4. /\ IsChpaVersion(cache[c].chpa)
          /\ IsDepVersion(cache[c].dep)
          /\ worker[c] # Idle => IsReadChpa(worker[c].chpa)
          /\ worker[c].phase \in {"decide", "scale"} => IsReadDep(worker[c].dep)
      BY DEF CopiesAreVersions
    <2>5. IsChpaVersion(cache[c].chpa)'
      BY <2>1, <2>2, <2>3, <2>4 DEF CopiesFrom, IsChpaVersion
    <2>6. IsDepVersion(cache[c].dep)'
      BY <2>1, <2>2, <2>3, <2>4 DEF CopiesFrom, IsDepVersion
    <2>7. ASSUME worker'[c] # Idle
          PROVE  IsReadChpa(worker[c].chpa)'
      <3>1. CASE worker[c] # Idle /\ worker'[c].chpa = worker[c].chpa
        <4>1. worker[c].chpa \in Chpa
          BY <3>1 DEF TypeOK, Worker, DecideWorker, ScaleWorker, StatusWorker
        <4> QED
          BY <3>1, <4>1, <2>2, <2>4 DEF IsReadChpa
      <3>2. CASE /\ worker'[c].chpa = [cache[c].chpa EXCEPT !.spec = WithDefaults(@)]
                 /\ cache[c].chpa.live
        <4> DEFINE copy == [cache[c].chpa EXCEPT !.spec = WithDefaults(@)]
        <4>1. copy \in Chpa
          BY <2>3, WithDefaultsCompletes DEF Chpa
        <4>2. IsReadChpa(copy)
          BY <2>3, <2>4, <3>2 DEF IsReadChpa, IsChpaVersion, Chpa
        <4> HIDE DEF copy
        <4> QED
          BY <3>2, <4>1, <4>2, <2>2 DEF IsReadChpa, copy
      <3> QED
        BY <2>1, <2>7, <3>1, <3>2 DEF CopiesFrom
    <2>8. ASSUME worker'[c].phase \in {"decide", "scale"}
          PROVE  IsReadDep(worker[c].dep)'
      <3>1. CASE /\ worker[c].phase \in {"decide", "scale"}
                 /\ worker'[c].dep = worker[c].dep
        <4>1. worker[c].dep \in Deployment
          BY <3>1, WorkerPhases DEF TypeOK, DecideWorker, ScaleWorker
        <4> QED
          BY <3>1, <4>1, <2>2, <2>4 DEF IsReadDep
      <3>2. CASE /\ worker'[c].dep = [cache[c].dep EXCEPT !.owner = "self"]
                 /\ cache[c].dep.live /\ cache[c].dep.owner # "other"
        <4> DEFINE copy == [cache[c].dep EXCEPT !.owner = "self"]
        <4>1. copy \in Deployment
          BY <2>3, DeploymentUpdates
        <4>2. IsReadDep(copy)
          BY <2>3, <2>4, <3>2 DEF IsReadDep, IsDepVersion, Deployment
        <4> HIDE DEF copy
        <4> QED
          BY <3>2, <4>1, <4>2, <2>2 DEF IsReadDep, copy
      <3> QED
        BY <2>1, <2>8, <3>1, <3>2 DEF CopiesFrom
    <2> QED
      BY <2>5, <2>6, <2>7, <2>8
  <1> QED
    BY <1>2, <1>3

\* Informers and reconciles hold versions of the objects (what the rv checks of
\* the API server build on).
THEOREM CopiesCorrect == Spec => []CopiesAreVersions
  BY TypeInit, TypeNext, VersionsInit, VersionsNext, PTL DEF Spec

-------------------------------------------------------------------------------
(* Whose step it is.                                                          *)

\* A process's reconcile moves by its own steps only.
OwnStep(c) ==
    \/ StartReconcile(c)
    \/ Decide(c) \/ MetricsFail(c)
    \/ UpdateDeploy(c) \/ ScaleLost(c) \/ ScaleUnacknowledged(c)
    \/ UpdateStatus(c) \/ StatusLost(c)
    \/ Crash(c)

\* Only a step of its own, or a restart, changes a process's reconcile.
LEMMA OwnSteps ==
    ASSUME TypeOK, Next, NEW c \in Controllers, worker'[c] # worker[c]
    PROVE  OwnStep(c)
  <1>0. worker \in [Controllers -> Worker]
    BY DEF TypeOK
  <1>1. PICK d \in Controllers : WorkerStep(d) \/ Failure(d)
    <2>1. CASE PodsFollow \/ Tick \/ Horizon
      BY <2>1 DEF PodsFollow, Tick, Horizon, vars
    <2>2. CASE Users
      <3>1. PICK op : UserOp(op)
        BY <2>2 DEF Users, EditSpec, ScaleDeployment, TakeOver, DeleteChpa,
                    CreateChpa, DeleteDeployment, CreateDeployment
      <3> QED
        BY <3>1 DEF UserOp
    <2>3. ASSUME NEW d \in Controllers, TimerFires(d) \/ Informers(d)
          PROVE  FALSE
      BY <2>3 DEF TimerFires, Informers, SyncChpa, SyncDep
    <2> QED
      BY <2>1, <2>2, <2>3 DEF Next
  <1>2. ~(StopReconcile(d) \/ RepeatReconcile(d) \/ ReadFails(d))
    BY DEF StopReconcile, RepeatReconcile, ReadFails
  <1>3. OwnStep(d)
    BY <1>1, <1>2 DEF OwnStep, WorkerStep, Failure, Reconcile
  <1>4. c = d
    BY <1>0, <1>3
       DEF OwnStep, StartReconcile, Decide, SkipDisabled, CorrectBounds, FollowMetrics,
           MetricsFail, FollowsMetrics, Deciding, ToScale, ToStatus,
           UpdateDeploy, Rescale, ScaleRefused, ScaleLost, ScaleUnacknowledged,
           Scaling, UpdateStatus, StatusSkipped, StatusWritten, StatusRefused,
           StatusLost, Finish, Crash
  <1> QED
    BY <1>3, <1>4

\* A write of the Deployment is an accepted update, acknowledged or not, of the
\* decided target.
LEMMA WritesAreScales ==
    ASSUME TypeOK, Next, NEW c \in Controllers, Writes(c)
    PROVE  /\ Rescale(c) \/ ScaleUnacknowledged(c)
           /\ worker[c] \in ScaleWorker
           /\ ApplyScale(worker[c]) /\ DepAccepts(worker[c])
           /\ dep'.replicas = worker[c].target
  <1>1. OwnStep(c) /\ worker[c].phase = "scale" /\ dep' # dep
    BY OwnSteps DEF Writes
  <1>2. Rescale(c) \/ ScaleUnacknowledged(c)
    BY <1>1
       DEF OwnStep, StartReconcile, Decide, SkipDisabled, CorrectBounds, FollowMetrics,
           MetricsFail, FollowsMetrics, Deciding, UpdateDeploy, ScaleRefused, ScaleLost,
           UpdateStatus, StatusSkipped, StatusWritten, StatusRefused, StatusLost, Finish,
           Crash
  <1>3. worker[c] \in ScaleWorker /\ dep \in Deployment
    BY <1>1, WorkerPhases DEF TypeOK
  <1>4. ApplyScale(worker[c])
    BY <1>2 DEF Rescale, ScaleUnacknowledged
  <1>5. dep'.replicas = worker[c].target
    BY <1>1, <1>3, <1>4 DEF ApplyScale, Deployment, ScaleWorker
  <1> QED
    BY <1>2, <1>3, <1>4, <1>5 DEF ApplyScale

\* A write of the CHPA is an accepted write of the status.
LEMMA RecordsAreStatusWrites ==
    ASSUME TypeOK, Next, NEW c \in Controllers, Records(c)
    PROVE  StatusWritten(c) /\ worker[c] \in StatusWorker
  <1>1. OwnStep(c) /\ worker[c].phase = "status" /\ chpa' # chpa
    BY OwnSteps DEF Records
  <1>2. StatusWritten(c)
    BY <1>1
       DEF OwnStep, StartReconcile, Decide, SkipDisabled, CorrectBounds, FollowMetrics,
           MetricsFail, FollowsMetrics, Deciding, UpdateDeploy, Rescale, ScaleRefused,
           ScaleLost, ScaleUnacknowledged, Scaling, UpdateStatus, StatusSkipped,
           StatusRefused, StatusLost, Crash
  <1> QED
    BY <1>1, <1>2, WorkerPhases DEF TypeOK

\* A status write takes back no edit (UserSpecPreserved): by the version check it
\* is only accepted on the very spec it was read with.
THEOREM UserSpecSafe == Spec => UserSpecPreserved
  <1>1. TypeOK /\ CopiesAreVersions /\ [Next]_vars =>
          [\A c \in Controllers :
             Records(c) => chpa.live /\ chpa'.spec = WithDefaults(chpa.spec)]_vars
    <2> SUFFICES ASSUME TypeOK, CopiesAreVersions, Next, NEW c \in Controllers, Records(c)
                 PROVE  chpa.live /\ chpa'.spec = WithDefaults(chpa.spec)
      OBVIOUS
    <2>1. StatusWritten(c) /\ worker[c] \in StatusWorker
      BY RecordsAreStatusWrites
    <2>2. worker[c].chpa.rv = chpa.rv /\ chpa.live /\ chpa'.spec = worker[c].chpa.spec
      BY <2>1 DEF StatusWritten, ChpaAccepts, TypeOK, Chpa
    <2>3. worker[c] # Idle
      BY <2>1 DEF StatusWorker, Idle
    <2>4. worker[c].chpa = [chpa EXCEPT !.spec = WithDefaults(@)]
      BY <2>2, <2>3 DEF CopiesAreVersions, IsReadChpa
    <2> QED
      BY <2>2, <2>4 DEF TypeOK, Chpa
  <1> QED
    BY TypeCorrect, CopiesCorrect, <1>1, PTL DEF Spec, UserSpecPreserved

\* A Deployment that is gone or has another owner by now is not written
\* (NeverWritesOthers).
THEOREM OthersSafe == Spec => NeverWritesOthers
  <1>1. TypeOK /\ CopiesAreVersions /\ [Next]_vars =>
          [\A c \in Controllers :
             Writes(c) => dep.live /\ dep.owner # "other"]_vars
    <2> SUFFICES ASSUME TypeOK, CopiesAreVersions, Next, NEW c \in Controllers, Writes(c)
                 PROVE  dep.live /\ dep.owner # "other"
      OBVIOUS
    <2>1. worker[c] \in ScaleWorker /\ DepAccepts(worker[c])
      BY WritesAreScales
    <2>2. worker[c].phase = "scale" /\ worker[c].dep.rv = dep.rv
      BY <2>1 DEF DepAccepts, ScaleWorker
    <2> QED
      BY <2>2 DEF CopiesAreVersions, IsReadDep
  <1> QED
    BY TypeCorrect, CopiesCorrect, <1>1, PTL DEF Spec, NeverWritesOthers

-------------------------------------------------------------------------------
(* What has been decided.                                                     *)

\* Initially nothing is decided.
LEMMA DecisionsInit == Init => DecisionsSound
  BY DEF Init, DecisionsSound, Idle

\* Every step leaves the decisions sound.
LEMMA DecisionsNext ==
    TypeOK /\ DecisionsSound /\ [Next]_vars => DecisionsSound'
  <1> SUFFICES ASSUME TypeOK, DecisionsSound, [Next]_vars PROVE DecisionsSound'
    OBVIOUS
  <1> DEFINE Sound(w) ==
        /\ w # Idle => w.chpa.live /\ Completed(w.chpa.spec)
        /\ w.phase = "scale" =>
             /\ w.dep.replicas # 0 /\ w.target # 0
             /\ w.chpa.spec.min <= w.chpa.spec.max =>
                  WithinLimits(w.chpa.spec, w.dep.pods, w.target)
  <1> SUFFICES ASSUME NEW c \in Controllers PROVE Sound(worker'[c])
    BY DEF DecisionsSound
  <1>1. Sound(worker[c])
    BY DEF DecisionsSound
  <1>2. worker[c] \in Worker /\ worker \in [Controllers -> Worker]
    BY DEF TypeOK
  <1>3. CASE worker'[c] = worker[c]
    BY <1>1, <1>3
  <1>4. CASE worker'[c] # worker[c]
    <2>0. OwnStep(c)
      BY <1>4, OwnSteps DEF vars
    <2>1. CASE StartReconcile(c)
      <3>1. /\ worker'[c].phase = "decide"
            /\ worker'[c].chpa = [cache[c].chpa EXCEPT !.spec = WithDefaults(@)]
            /\ cache[c].chpa.live
        BY <1>2, <2>1 DEF StartReconcile, Invalid
      <3>2. cache[c].chpa \in Chpa /\ cache[c].chpa.spec \in CHPASpec
        BY DEF TypeOK, Cache, Chpa
      <3>3. worker'[c].chpa.live /\ worker'[c].chpa.spec = WithDefaults(cache[c].chpa.spec)
        BY <3>1, <3>2 DEF Chpa
      <3> QED
        BY <3>1, <3>2, <3>3, WithDefaultsCompletes
    <2>2. CASE Decide(c) \/ MetricsFail(c)
      <3> DEFINE w == worker[c]
                 spec == w.chpa.spec
                 pods == w.dep.pods
      <3>1. w.phase = "decide" /\ w # Idle
        BY <2>2 DEF Decide, SkipDisabled, CorrectBounds, FollowMetrics, MetricsFail,
                    FollowsMetrics, Deciding, Idle
      <3>2. pods \in Nat /\ Completed(spec) /\ w.chpa.live
        BY <1>1, <1>2, <3>1, WorkerPhases DEF DecideWorker, Deployment
      <3>3. CASE SkipDisabled(c) \/ MetricsFail(c)
        <4>1. worker'[c].chpa = w.chpa /\ worker'[c].phase = "status"
          BY <1>2, <3>3 DEF SkipDisabled, MetricsFail, ToStatus
        <4> QED
          BY <4>1, <3>2
      <3>4. CASE CorrectBounds(c)
        <4>1. /\ worker'[c].phase = "scale" /\ worker'[c].chpa = w.chpa
              /\ worker'[c].dep = w.dep /\ worker'[c].target = BoundsTarget(spec, pods)
              /\ w.dep.replicas # 0 /\ OutOfBounds(spec, pods)
          BY <1>2, <3>4 DEF CorrectBounds, ToScale
        <4>2. BoundsTarget(spec, pods) \in Nat \ {0}
          BY <3>2, BoundsTargetIsPositive
        <4>3. spec.min <= spec.max => WithinLimits(spec, pods, BoundsTarget(spec, pods))
          BY <3>2, <4>1, BoundsWithinLimits
        <4> QED
          BY <3>2, <4>1, <4>2, <4>3
      <3>5. CASE FollowMetrics(c)
        <4> DEFINE desired(proposal) == NormalizeDesired(spec, pods, proposal)
        <4>1. PICK proposal \in Proposals :
                ToScale(c, desired(proposal), "metrics") \/ ToStatus(c, pods)
          BY <3>5 DEF FollowMetrics
        <4>2. proposal \in Int
          BY ControllerAssumption
        <4>3. w.dep.replicas # 0 /\ ~OutOfBounds(spec, pods)
          BY <3>5 DEF FollowMetrics, FollowsMetrics
        <4>4. desired(proposal) \in Nat \ {0}
          BY <3>2, <4>2, NormalizedIsPositive
        <4>5. spec.min <= spec.max => WithinLimits(spec, pods, desired(proposal))
          BY <3>2, <4>2, <4>3, NormalizedWithinLimits
        <4> HIDE DEF desired
        <4>6. CASE ToScale(c, desired(proposal), "metrics")
          <5>1. /\ worker'[c].phase = "scale" /\ worker'[c].chpa = w.chpa
                /\ worker'[c].dep = w.dep /\ worker'[c].target = desired(proposal)
            BY <1>2, <4>6 DEF ToScale
          <5> QED
            BY <3>2, <4>3, <4>4, <4>5, <5>1
        <4>7. CASE ToStatus(c, pods)
          <5>1. worker'[c].chpa = w.chpa /\ worker'[c].phase = "status"
            BY <1>2, <4>7 DEF ToStatus
          <5> QED
            BY <3>2, <5>1
        <4> QED
          BY <4>1, <4>6, <4>7
      <3> QED
        BY <2>2, <3>3, <3>4, <3>5 DEF Decide
    <2>3. CASE UpdateDeploy(c) \/ ScaleLost(c) \/ ScaleUnacknowledged(c)
      <3>1. /\ worker[c].phase = "scale" /\ worker[c] # Idle
            /\ worker'[c].chpa = worker[c].chpa /\ worker'[c].phase = "status"
        BY <1>2, <2>3
           DEF UpdateDeploy, Rescale, ScaleRefused, ScaleLost, ScaleUnacknowledged,
               Scaling, ToStatus, Idle
      <3> QED
        BY <1>1, <3>1
    <2>4. CASE UpdateStatus(c) \/ StatusLost(c) \/ Crash(c)
      <3>1. worker'[c] = Idle /\ Idle.phase = "idle"
        BY <1>2, <2>4
           DEF UpdateStatus, StatusSkipped, StatusWritten, StatusRefused, StatusLost,
               Finish, Crash, Idle
      <3> QED
        BY <3>1
    <2> QED
      BY <2>0, <2>1, <2>2, <2>3, <2>4 DEF OwnStep
  <1> QED
    BY <1>3, <1>4

\* Reconciles write only what the limits of the spec they read allow, given the
\* pods they read.
THEOREM DecisionsCorrect == Spec => []DecisionsSound
  BY TypeInit, TypeNext, DecisionsInit, DecisionsNext, PTL DEF Spec

\* No process wakes a disabled Deployment or disables one (NeverWakesNorDisables).
THEOREM DisabledSafe == Spec => NeverWakesNorDisables
  <1>1. TypeOK /\ CopiesAreVersions /\ DecisionsSound /\ [Next]_vars =>
          [\A c \in Controllers :
             Writes(c) => dep.replicas # 0 /\ dep'.replicas # 0]_vars
    <2> SUFFICES ASSUME TypeOK, CopiesAreVersions, DecisionsSound, Next,
                        NEW c \in Controllers, Writes(c)
                 PROVE  dep.replicas # 0 /\ dep'.replicas # 0
      OBVIOUS
    <2>1. /\ worker[c] \in ScaleWorker /\ DepAccepts(worker[c])
          /\ dep'.replicas = worker[c].target
      BY WritesAreScales
    <2>2. worker[c].phase = "scale" /\ worker[c].dep.rv = dep.rv /\ dep \in Deployment
      BY <2>1 DEF DepAccepts, ScaleWorker, TypeOK
    <2>3. worker[c].dep.replicas = dep.replicas
      BY <2>2 DEF CopiesAreVersions, IsReadDep, Deployment
    <2> QED
      BY <2>1, <2>2, <2>3 DEF DecisionsSound
  <1> QED
    BY TypeCorrect, CopiesCorrect, DecisionsCorrect, <1>1, PTL
       DEF Spec, NeverWakesNorDisables

\* Every write of the Deployment lies within the bounds of its spec and the
\* scale-up limit of the pods there are (WritesWithinLimits).
THEOREM LimitsSafe == Spec => WritesWithinLimits
  <1>1. TypeOK /\ CopiesAreVersions /\ DecisionsSound /\ [Next]_vars =>
          [\A c \in Controllers :
             LET spec == worker[c].chpa.spec IN
             Writes(c) /\ spec.min <= spec.max =>
               WithinLimits(spec, dep.pods, dep'.replicas)]_vars
    <2> SUFFICES ASSUME TypeOK, CopiesAreVersions, DecisionsSound, Next,
                        NEW c \in Controllers, Writes(c),
                        worker[c].chpa.spec.min <= worker[c].chpa.spec.max
                 PROVE  WithinLimits(worker[c].chpa.spec, dep.pods, dep'.replicas)
      OBVIOUS
    <2>1. /\ worker[c] \in ScaleWorker /\ DepAccepts(worker[c])
          /\ dep'.replicas = worker[c].target
      BY WritesAreScales
    <2>2. worker[c].phase = "scale" /\ worker[c].dep.rv = dep.rv /\ dep \in Deployment
      BY <2>1 DEF DepAccepts, ScaleWorker, TypeOK
    <2>3. worker[c].dep.pods = dep.pods
      BY <2>2 DEF CopiesAreVersions, IsReadDep, Deployment
    <2> QED
      BY <2>1, <2>2, <2>3 DEF DecisionsSound
  <1> QED
    BY TypeCorrect, CopiesCorrect, DecisionsCorrect, <1>1, PTL
       DEF Spec, WritesWithinLimits

-------------------------------------------------------------------------------
(* LastScaleTime.                                                             *)

\* Time, and the time of the last rescale, only grow.
LEMMA TimesGrow ==
    ASSUME TypeOK, Next, history.rescaled <= now
    PROVE  /\ history.rescaled <= history'.rescaled
           /\ history'.rescaled <= now'
           /\ history'.rescaled \in Int
  <1>0. history.rescaled \in Int /\ now \in Nat
    BY DEF TypeOK, History, Times, Never
  <1>1. ASSUME history' = history, now' = now \/ now' = now + 1
        PROVE  history'.rescaled <= now' /\ history.rescaled <= history'.rescaled
               /\ history'.rescaled \in Int
    BY <1>0, <1>1
  <1>2. CASE Tick \/ Horizon
    BY <1>1, <1>2 DEF Tick, Horizon, vars
  <1>3. CASE PodsFollow
    BY <1>1, <1>3 DEF PodsFollow
  <1>4. CASE Users
    <2>1. PICK op : UserOp(op)
      BY <1>4 DEF Users, EditSpec, ScaleDeployment, TakeOver, DeleteChpa,
                  CreateChpa, DeleteDeployment, CreateDeployment
    <2> QED
      BY <1>1, <2>1 DEF UserOp
  <1>5. ASSUME NEW c \in Controllers,
               WorkerStep(c) \/ TimerFires(c) \/ Failure(c) \/ Informers(c)
        PROVE  history'.rescaled <= now' /\ history.rescaled <= history'.rescaled
               /\ history'.rescaled \in Int
    <2>1. CASE Rescale(c) \/ ScaleUnacknowledged(c)
      <3>1. history'.rescaled = now /\ now' = now
        BY <2>1 DEF Rescale, ScaleUnacknowledged, ApplyScale, Scaling
      <3> QED
        BY <1>0, <3>1
    <2>2. CASE ~(Rescale(c) \/ ScaleUnacknowledged(c))
      <3>1. history' = history /\ now' = now
        BY <1>5, <2>2
           DEF WorkerStep, Reconcile, StopReconcile, RepeatReconcile, StartReconcile,
               Decide, SkipDisabled, CorrectBounds, FollowMetrics, MetricsFail,
               FollowsMetrics, Deciding, UpdateDeploy, ScaleRefused, ScaleLost, Scaling,
               UpdateStatus, StatusSkipped, StatusWritten, StatusRefused, StatusLost,
               Finish, Failure, ReadFails, Crash, TimerFires, Informers, SyncChpa, SyncDep
      <3> QED
        BY <1>1, <3>1
    <2> QED
      BY <2>1, <2>2
  <1> QED
    BY <1>2, <1>3, <1>4, <1>5 DEF Next

\* Initially no rescale has happened and none is recorded.
LEMMA TimesInit == Init => TimesOrdered
  <1> SUFFICES ASSUME Init PROVE TimesOrdered
    OBVIOUS
  <1>1. chpa.status.last = Never /\ history.rescaled = Never /\ now = 0
    BY DEF Init, NoStatus
  <1>2. \A c \in Controllers :
          /\ cache[c].chpa = chpa /\ worker[c] = Idle /\ worker[c].phase = "idle"
    BY DEF Init, Idle
  <1> QED
    BY <1>1, <1>2 DEF TimesOrdered, Never

\* What a step may do to the LastScaleTime in the API server: replace it by the
\* one a reconcile carries, or drop it with its CHPA.
LEMMA LastMoves ==
    ASSUME TypeOK, Next
    PROVE  \/ chpa'.status.last = chpa.status.last
           \/ chpa'.status.last = Never /\ ~chpa.live
           \/ \E c \in Controllers :
                /\ worker[c].phase = "status" /\ ChpaAccepts(worker[c])
                /\ chpa'.status.last = worker[c].status.last
  <1>0. chpa \in Chpa
    BY DEF TypeOK
  <1>1. CASE \E c \in Controllers : StatusWritten(c)
    BY <1>0, <1>1 DEF StatusWritten, Finish, Chpa
  <1>2. ASSUME NEW c \in Controllers, ~StatusWritten(c),
               WorkerStep(c) \/ TimerFires(c) \/ Failure(c) \/ Informers(c)
        PROVE  chpa' = chpa
    BY <1>2
       DEF WorkerStep, Reconcile, StopReconcile, RepeatReconcile, StartReconcile,
           Decide, SkipDisabled, CorrectBounds, FollowMetrics, MetricsFail,
           FollowsMetrics, Deciding, UpdateDeploy, Rescale, ScaleRefused, ScaleLost,
           ScaleUnacknowledged, Scaling, UpdateStatus, StatusSkipped, StatusRefused,
           StatusLost, Finish, Failure, ReadFails, Crash, TimerFires, Informers,
           SyncChpa, SyncDep
  <1>3. CASE PodsFollow \/ Tick \/ Horizon
    BY <1>3 DEF PodsFollow, Tick, Horizon, vars
  <1>4. CASE Users
    <2>1. CASE EditSpec
      BY <1>0, <2>1 DEF EditSpec, Chpa
    <2>2. CASE DeleteChpa
      BY <1>0, <2>2 DEF DeleteChpa, Chpa
    <2>3. CASE CreateChpa
      BY <2>3 DEF CreateChpa, NoStatus
    <2>4. CASE ScaleDeployment \/ TakeOver \/ DeleteDeployment \/ CreateDeployment
      BY <2>4 DEF ScaleDeployment, TakeOver, DeleteDeployment, CreateDeployment
    <2> QED
      BY <1>4, <2>1, <2>2, <2>3, <2>4 DEF Users
  <1> QED
    BY <1>1, <1>2, <1>3, <1>4 DEF Next

\* Every step leaves the times in order.
LEMMA TimesNext == TypeOK /\ TimesOrdered /\ [Next]_vars => TimesOrdered'
  <1> SUFFICES ASSUME TypeOK, TimesOrdered, [Next]_vars PROVE TimesOrdered'
    OBVIOUS
  <1>1. CASE UNCHANGED vars
    BY <1>1 DEF vars, TimesOrdered
  <1>2. CASE Next
    <2> DEFINE old == history.rescaled
               new == history'.rescaled
    <2>1. old <= new /\ new <= now' /\ old \in Int /\ new \in Int /\ -1 <= old
      BY <1>2, TimesGrow DEF TimesOrdered, TypeOK, History, Times, Never
    <2>2. chpa.status.last <= old /\ chpa.status.last \in Int
      BY DEF TimesOrdered, TypeOK, Chpa, Status, Times, Never
    <2>3. \A c \in Controllers : worker[c].phase = "status" =>
            worker[c].status.last <= old /\ worker[c].status.last \in Int
      BY WorkerPhases DEF TimesOrdered, TypeOK, StatusWorker, Status, Times, Never
    <2>4. chpa'.status.last <= new
      BY <1>2, <2>1, <2>2, <2>3, LastMoves DEF Never
    <2>5. ASSUME NEW c \in Controllers
          PROVE  cache'[c].chpa.status.last <= new
      <3>1. /\ cache[c].chpa.status.last <= old
            /\ cache[c].chpa.status.last \in Int
        BY DEF TimesOrdered, TypeOK, Cache, Chpa, Status, Times, Never
      <3>2. cache'[c].chpa = cache[c].chpa \/ cache'[c].chpa = chpa
        BY <1>2, CopiesFromStep DEF CopiesFrom
      <3> QED
        BY <2>1, <2>2, <3>1, <3>2
    <2>6. ASSUME NEW c \in Controllers, worker'[c] # Idle
          PROVE  worker'[c].chpa.status.last <= new
      <3>1. CASE worker[c] # Idle /\ worker'[c].chpa = worker[c].chpa
        <4>1. /\ worker[c].chpa.status.last <= old
              /\ worker[c].chpa.status.last \in Int
          BY <3>1 DEF TimesOrdered, TypeOK, Worker, DecideWorker, ScaleWorker,
                      StatusWorker, Chpa, Status, Times, Never
        <4> QED
          BY <2>1, <3>1, <4>1
      <3>2. CASE worker'[c].chpa = [cache[c].chpa EXCEPT !.spec = WithDefaults(@)]
        <4>1. /\ cache[c].chpa.status.last <= old
              /\ cache[c].chpa.status.last \in Int
              /\ cache[c].chpa \in Chpa
          BY DEF TimesOrdered, TypeOK, Cache, Chpa, Status, Times, Never
        <4>2. worker'[c].chpa.status = cache[c].chpa.status
          BY <3>2, <4>1 DEF Chpa
        <4> QED
          BY <2>1, <4>1, <4>2
      <3> QED
        BY <1>2, <2>6, <3>1, <3>2, CopiesFromStep DEF CopiesFrom
    <2>7. ASSUME NEW c \in Controllers, worker'[c].phase = "status"
          PROVE  /\ worker'[c].chpa.status.last <= worker'[c].status.last
                 /\ worker'[c].status.last <= new
      <3>0. worker \in [Controllers -> Worker]
        BY DEF TypeOK
      <3>1. CASE worker'[c] = worker[c]
        BY <2>1, <2>3, <2>7, <3>1 DEF TimesOrdered
      <3>2. CASE worker'[c] # worker[c]
        <4>0. OwnStep(c)
          BY <1>2, <3>2, OwnSteps
        <4>1. worker[c].phase \in {"decide", "scale"}
          BY <2>7, <3>0, <4>0
             DEF OwnStep, StartReconcile, Decide, SkipDisabled, CorrectBounds,
                 FollowMetrics, MetricsFail, FollowsMetrics, Deciding, UpdateDeploy,
                 Rescale, ScaleRefused, ScaleLost, ScaleUnacknowledged, Scaling,
                 UpdateStatus, StatusSkipped, StatusWritten, StatusRefused, StatusLost,
                 Finish, Crash, Idle
        <4>2. /\ worker[c].chpa \in Chpa /\ worker[c] # Idle
              /\ worker[c].chpa.status \in Status
              /\ worker[c].chpa.status.last \in Int
              /\ worker[c].chpa.status.last <= old
          BY <4>1, WorkerPhases
             DEF TimesOrdered, TypeOK, DecideWorker, ScaleWorker, Chpa, Status, Times,
                 Never, Idle
        <4>3. CASE Rescale(c)
          <5>1. /\ worker'[c].chpa = worker[c].chpa /\ worker'[c].status.last = now
                /\ new = now
            BY <3>0, <4>3 DEF Rescale, ApplyScale
          <5> QED
            BY <2>1, <4>2, <5>1
        <4>4. CASE ~Rescale(c)
          <5>1. \E desired : ToStatus(c, desired)
            <6>1. CASE SkipDisabled(c) \/ MetricsFail(c) \/ ScaleRefused(c)
                       \/ ScaleLost(c) \/ ScaleUnacknowledged(c)
              BY <6>1 DEF SkipDisabled, MetricsFail, ScaleRefused, ScaleLost,
                          ScaleUnacknowledged
            <6>2. CASE CorrectBounds(c)
              BY <2>7, <3>0, <6>2 DEF CorrectBounds, ToScale
            <6>3. CASE FollowMetrics(c)
              BY <2>7, <3>0, <6>3 DEF FollowMetrics, ToScale
            <6>4. ~(StartReconcile(c) \/ UpdateStatus(c) \/ StatusLost(c) \/ Crash(c))
              BY <2>7, <3>0
                 DEF StartReconcile, UpdateStatus, StatusSkipped, StatusWritten,
                     StatusRefused, StatusLost, Finish, Crash, Idle
            <6> QED
              BY <4>0, <4>4, <6>1, <6>2, <6>3, <6>4 DEF OwnStep, Decide, UpdateDeploy
          <5>2. /\ worker'[c].chpa = worker[c].chpa
                /\ worker'[c].status.last = worker[c].chpa.status.last
            BY <3>0, <4>2, <5>1 DEF ToStatus, Status
          <5> QED
            BY <2>1, <4>2, <5>2
        <4> QED
          BY <4>3, <4>4
      <3> QED
        BY <3>1, <3>2
    <2> QED
      BY <2>1, <2>4, <2>5, <2>6, <2>7 DEF TimesOrdered
  <1> QED
    BY <1>1, <1>2

\* No copy of LastScaleTime is ahead of the rescales there were.
THEOREM TimesCorrect == Spec => []TimesOrdered
  BY TypeInit, TypeNext, TimesInit, TimesNext, PTL DEF Spec

\* LastScaleTime never tells of a rescale that did not happen (NoPhantomScale).
THEOREM NoPhantomSafe == Spec => []NoPhantomScale
  <1>1. TimesOrdered => NoPhantomScale
    BY DEF TimesOrdered, NoPhantomScale
  <1> QED
    BY TimesCorrect, <1>1, PTL

\* The LastScaleTime of a CHPA never goes back (LastScaleTimeMonotone).
THEOREM LastScaleTimeSafe == Spec => LastScaleTimeMonotone
  <1>1. TypeOK /\ CopiesAreVersions /\ TimesOrdered /\ [Next]_vars =>
          [chpa.live /\ chpa'.live => chpa.status.last <= chpa'.status.last]_vars
    <2> SUFFICES ASSUME TypeOK, CopiesAreVersions, TimesOrdered, Next, chpa.live
                 PROVE  chpa.status.last <= chpa'.status.last
      OBVIOUS
    <2>1. chpa \in Chpa /\ chpa.status.last \in Int
      BY DEF TypeOK, Chpa, Status, Times, Never
    <2>2. CASE chpa'.status.last = chpa.status.last
      BY <2>1, <2>2
    <2>3. ASSUME NEW c \in Controllers, worker[c].phase = "status",
                 ChpaAccepts(worker[c]), chpa'.status.last = worker[c].status.last
          PROVE  chpa.status.last <= chpa'.status.last
      <3>1. worker[c].chpa.rv = chpa.rv /\ worker[c] # Idle
        BY <2>3 DEF ChpaAccepts, Idle
      <3>2. worker[c].chpa.status = chpa.status
        BY <2>1, <3>1 DEF CopiesAreVersions, IsReadChpa, Chpa
      <3>3. worker[c].chpa.status.last <= worker[c].status.last
        BY <2>3 DEF TimesOrdered
      <3> QED
        BY <2>3, <3>2, <3>3
    <2> QED
      BY <2>2, <2>3, LastMoves
  <1> QED
    BY TypeCorrect, CopiesCorrect, TimesCorrect, <1>1, PTL
       DEF Spec, LastScaleTimeMonotone

-------------------------------------------------------------------------------
(* No request is forgotten.                                                   *)

\* Process c has its next reconcile ahead of it, or its informer shows a CHPA
\* there is nothing to do for.
Remembered(c) ==
    \/ Invalid(c)
    \/ worker[c] # Idle
    \/ queue[c].ready
    \/ queue[c].timer # Never

\* A requeue leaves a timer running.
LEMMA RequeueSetsTimer ==
    ASSUME TypeOK, NEW c \in Controllers, NEW ready \in BOOLEAN, Requeue(c, ready)
    PROVE  queue'[c].timer # Never
  <1>1. /\ queue \in [Controllers -> [ready : BOOLEAN, timer : Times]]
        /\ queue[c].timer \in Times /\ now \in Nat
    BY DEF TypeOK
  <1>2. AddAfter(queue[c].timer, syncPeriod) # Never
    BY <1>1, ControllerAssumption DEF AddAfter, Smaller, Times, Never
  <1>3. queue'[c].timer = AddAfter(queue[c].timer, syncPeriod)
    BY <1>1 DEF Requeue
  <1> QED
    BY <1>2, <1>3

\* No step makes a process forget a valid CHPA.
LEMMA RememberedNext ==
    ASSUME TypeOK, Next, NEW c \in Controllers, Remembered(c)
    PROVE  Remembered(c)'
  <1>0. /\ worker \in [Controllers -> Worker] /\ cache \in [Controllers -> Cache]
        /\ queue \in [Controllers -> [ready : BOOLEAN, timer : Times]]
    BY DEF TypeOK
  <1>1. ASSUME cache'[c] = cache[c], worker'[c] = worker[c], queue'[c] = queue[c]
        PROVE  Remembered(c)'
    BY <1>1 DEF Remembered, Invalid
  <1>2. CASE OwnStep(c)
    <2>1. CASE UpdateStatus(c) \/ StatusLost(c)
      <3>1. Requeue(c, queue[c].ready) /\ queue[c].ready \in BOOLEAN
        BY <1>0, <2>1
           DEF UpdateStatus, StatusSkipped, StatusWritten, StatusRefused, StatusLost, Finish
      <3> QED
        BY <3>1, RequeueSetsTimer DEF Remembered
    <2>2. CASE Crash(c)
      <3>1. cache'[c].chpa = chpa /\ queue'[c].ready = chpa.live
        BY <1>0, <2>2 DEF Crash
      <3> QED
        BY <3>1 DEF Remembered, Invalid
    <2>3. CASE StartReconcile(c) \/ Decide(c) \/ MetricsFail(c) \/ UpdateDeploy(c)
               \/ ScaleLost(c) \/ ScaleUnacknowledged(c)
      <3>1. worker'[c].phase \in {"decide", "scale", "status"}
        BY <1>0, <2>3
           DEF StartReconcile, Decide, SkipDisabled, CorrectBounds, FollowMetrics,
               MetricsFail, UpdateDeploy, Rescale, ScaleRefused, ScaleLost,
               ScaleUnacknowledged, ToScale, ToStatus
      <3> QED
        BY <3>1 DEF Remembered, Idle
    <2> QED
      BY <1>2, <2>1, <2>2, <2>3 DEF OwnStep
  <1>3. CASE ~OwnStep(c)
    <2>0. worker'[c] = worker[c]
      BY <1>3, OwnSteps
    <2>1. CASE PodsFollow \/ Tick \/ Horizon
      BY <1>1, <2>0, <2>1 DEF PodsFollow, Tick, Horizon, vars
    <2>2. CASE Users
      <3>1. PICK op : UserOp(op)
        BY <2>2 DEF Users, EditSpec, ScaleDeployment, TakeOver, DeleteChpa,
                    CreateChpa, DeleteDeployment, CreateDeployment
      <3> QED
        BY <1>1, <2>0, <3>1 DEF UserOp
    <2>3. ASSUME NEW d \in Controllers, d # c,
                 WorkerStep(d) \/ TimerFires(d) \/ Failure(d) \/ Informers(d)
          PROVE  Remembered(c)'
      <3>1. cache'[c] = cache[c]
        BY <1>0, <2>3
           DEF WorkerStep, Reconcile, StopReconcile, RepeatReconcile, StartReconcile,
               Decide, SkipDisabled, CorrectBounds, FollowMetrics, MetricsFail,
               FollowsMetrics, Deciding, UpdateDeploy, Rescale, ScaleRefused, ScaleLost,
               ScaleUnacknowledged, Scaling, UpdateStatus, StatusSkipped, StatusWritten,
               StatusRefused, StatusLost, Finish, Failure, ReadFails, Crash, TimerFires,
               Informers, SyncChpa, SyncDep
      <3>2. queue'[c] = queue[c]
        BY <1>0, <2>3
           DEF WorkerStep, Reconcile, StopReconcile, RepeatReconcile, StartReconcile,
               Decide, SkipDisabled, CorrectBounds, FollowMetrics, MetricsFail,
               FollowsMetrics, Deciding, UpdateDeploy, Rescale, ScaleRefused, ScaleLost,
               ScaleUnacknowledged, Scaling, UpdateStatus, StatusSkipped, StatusWritten,
               StatusRefused, StatusLost, Finish, Failure, ReadFails, Crash, TimerFires,
               Informers, SyncChpa, SyncDep, Requeue
      <3> QED
        BY <1>1, <2>0, <3>1, <3>2
    <2>4. CASE TimerFires(c)
      BY <1>0, <2>4 DEF TimerFires, Remembered
    <2>5. CASE SyncDep(c)
      BY <1>0, <2>0, <2>5 DEF SyncDep, Remembered, Invalid, Cache
    <2>6. CASE SyncChpa(c)
      <3>1. /\ cache'[c].chpa = chpa /\ queue'[c].timer = queue[c].timer
            /\ queue'[c].ready = \/ queue[c].ready
                                 \/ cache[c].chpa.live # chpa.live
                                 \/ cache[c].chpa.spec # chpa.spec
        BY <1>0, <2>6 DEF SyncChpa, Cache
      <3> QED
        BY <2>0, <3>1 DEF Remembered, Invalid
    <2>7. CASE StopReconcile(c)
      BY <1>0, <2>7 DEF StopReconcile, Remembered, Invalid
    <2>8. CASE RepeatReconcile(c) \/ ReadFails(c)
      BY <2>8, RequeueSetsTimer DEF RepeatReconcile, ReadFails, Remembered
    <2> QED
      BY <1>3, <2>1, <2>2, <2>3, <2>4, <2>5, <2>6, <2>7, <2>8
         DEF Next, WorkerStep, Failure, Informers, Reconcile, OwnStep
  <1> QED
    BY <1>2, <1>3

\* What RememberedNext says of one process, of all of them.
LEMMA RememberedInvariant ==
    TypeOK /\ NeverForgotten /\ [Next]_vars => NeverForgotten'
  <1> SUFFICES ASSUME TypeOK, NeverForgotten, [Next]_vars PROVE NeverForgotten'
    OBVIOUS
  <1>1. CASE UNCHANGED vars
    BY <1>1 DEF vars, NeverForgotten, Invalid
  <1>2. CASE Next
    <2> SUFFICES ASSUME NEW c \in Controllers PROVE Remembered(c)'
      BY DEF NeverForgotten, Remembered, Invalid
    <2>1. Remembered(c)
      BY DEF NeverForgotten, Remembered
    <2> QED
      BY <1>2, <2>1, RememberedNext
  <1> QED
    BY <1>1, <1>2

\* A process never loses its request for a CHPA it can see and reconcile
\* (NeverForgotten).
THEOREM NeverForgottenSafe == Spec => []NeverForgotten
  <1>1. Init => NeverForgotten
    BY DEF Init, NeverForgotten
  <1> QED
    BY <1>1, TypeInit, TypeNext, RememberedInvariant, PTL DEF Spec

===============================================================================
