---------------------------- MODULE ChpaController ----------------------------
(***************************************************************************)
(* The CHPA control loop (src/pkg/controller/chpa/chpa_controller.go): one *)
(* CHPA object and the Deployment it targets live in the API server; every *)
(* controller process holds informer caches of both, a work queue for its  *)
(* single worker, and the reconcile the worker is in the middle of.  A     *)
(* reconcile is a read of the caches, a decision, an optional write of the *)
(* Deployment, and a write of the CHPA status, each a step of its own, so  *)
(* that users, the deployment controller, informers, the clock, crashes    *)
(* and other controller processes get in between.                          *)
(*                                                                         *)
(* Every write carries the resourceVersion (rv) of the copy it was made    *)
(* from and the API server refuses it when the object has moved on; a      *)
(* write that changes nothing does not move the rv.                        *)
(*                                                                         *)
(* One tick is the unit of all times.  Conditions and CurrentMetrics are   *)
(* not kept: a status write may therefore happen even when the three       *)
(* fields kept here are unchanged (another one was not).                   *)
(***************************************************************************)
EXTENDS ScaleRules

CONSTANTS
    Controllers,    \* processes: one, or two while a rollout overlaps them
    Specs,          \* the CHPA specs a user may write
    Proposals,      \* what computeReplicasForMetrics may return: a replica count,
                    \* or any int32 if a ratio does not fit into one
    InitialPods,    \* the sizes the Deployment may start with
    ScaleSizes,     \* the sizes a user may scale the Deployment to
    syncPeriod,     \* ticks from one reconcile to the next
    MetricLag,      \* how old, in ticks, a metric's timestamp may be
    UserOps,        \* which operations users perform
    Prompt,         \* what is quicker than a tick, see Tick and CachesReady
    FaultKinds,     \* which calls may fail, and "crash"
    MaxTime,        \* bound: the clock stops here
    MaxUserOps,     \* bound: operations of users in a behaviour
    MaxFaults       \* bound: faults in a behaviour

AllUserOps == {"editSpec", "scale", "takeOver", "deleteChpa", "createChpa",
               "deleteDeployment", "createDeployment"}

AllFaultKinds == {"read", "metrics", "scaleLost", "scaleUnacknowledged",
                  "statusLost", "crash"}

ASSUME ControllerAssumption ==
    /\ Specs \subseteq CHPASpec
    /\ Proposals \subseteq Int
    /\ InitialPods \subseteq Nat
    /\ ScaleSizes \subseteq Nat
    /\ syncPeriod \in Nat \ {0}
    /\ MetricLag \in Nat
    /\ UserOps \subseteq AllUserOps
    /\ FaultKinds \subseteq AllFaultKinds
    /\ Prompt \subseteq {"caches", "pods", "workers"}
    /\ MaxTime \in Nat /\ MaxUserOps \in Nat /\ MaxFaults \in Nat

VARIABLES
    now,      \* the clock
    chpa,     \* the CHPA object in the API server
    dep,      \* the Deployment object in the API server
    cache,    \* per process: its informers' copies of both
    queue,    \* per process: is the request queued, when is it re-added
    worker,   \* per process: the reconcile in progress
    userOps,  \* operations users have performed
    faults,   \* faults that have happened
    history   \* for the properties: times of the controllers' rescales

vars == <<now, chpa, dep, cache, queue, worker, userOps, faults, history>>

Status == [last : Times, current : Nat, desired : Nat]

NoStatus == [last |-> Never, current |-> 0, desired |-> 0]

Chpa == [rv : Nat, live : BOOLEAN, spec : CHPASpec, status : Status]

Deployment == [rv : Nat, live : BOOLEAN, owner : {"none", "self", "other"},
               replicas : Nat, pods : Nat]

Cache == [chpa : Chpa, dep : Deployment]

Idle == [phase |-> "idle"]

\* The copies a reconcile works on: chpa has its spec defaulted, and keeps the
\* status it was read with.  stamp is the time.Now() of reconcileCHPA; target
\* and why what a rescale will write; status what the status write will write.
DecideWorker == [phase : {"decide"}, chpa : Chpa, dep : Deployment, stamp : Nat]

ScaleWorker == [phase : {"scale"}, chpa : Chpa, dep : Deployment, target : Nat,
                why : {"bounds", "metrics"}]

StatusWorker == [phase : {"status"}, chpa : Chpa, status : Status]

Worker == {Idle} \cup DecideWorker \cup ScaleWorker \cup StatusWorker

\* The times of the last accepted rescale and of the last ones that raised and
\* lowered spec.replicas.
History == [rescaled : Times, raised : Times, lowered : Times]

TypeOK ==
    /\ now \in Nat
    /\ chpa \in Chpa
    /\ dep \in Deployment
    /\ cache \in [Controllers -> Cache]
    /\ queue \in [Controllers -> [ready : BOOLEAN, timer : Times]]
    /\ worker \in [Controllers -> Worker]
    /\ userOps \in Nat
    /\ faults \in Nat
    /\ history \in History

Init ==
    /\ now = 0
    /\ \E spec \in Specs :
         chpa = [rv |-> 0, live |-> TRUE, spec |-> spec, status |-> NoStatus]
    /\ \E n \in InitialPods :
         dep = [rv |-> 0, live |-> TRUE, owner |-> "none",
                replicas |-> n, pods |-> n]
    /\ cache = [c \in Controllers |-> [chpa |-> chpa, dep |-> dep]]
    /\ queue = [c \in Controllers |-> [ready |-> TRUE, timer |-> Never]]
    /\ worker = [c \in Controllers |-> Idle]
    /\ userOps = 0
    /\ faults = 0
    /\ history = [rescaled |-> Never, raised |-> Never, lowered |-> Never]

Fault(kind) ==
    /\ kind \in FaultKinds
    /\ faults < MaxFaults
    /\ faults' = faults + 1

-------------------------------------------------------------------------------
(* The work queue, as seen by its one worker.  RequeueAfter puts the request  *)
(* into the delaying queue, which keeps one entry, the earlier one.           *)

CachesReady(c) == "caches" \in Prompt => cache[c] = [chpa |-> chpa, dep |-> dep]

AddAfter(timer, delay) ==
    IF timer = Never THEN now + delay ELSE Smaller(timer, now + delay)

Dequeue(c) ==
    /\ worker[c] = Idle
    /\ queue[c].ready
    /\ CachesReady(c)

Requeue(c, ready) ==
    queue' = [queue EXCEPT ![c] = [ready |-> ready,
                                   timer |-> AddAfter(@.timer, syncPeriod)]]

TimerFires(c) ==
    /\ queue[c].timer # Never
    /\ queue[c].timer <= now
    /\ queue' = [queue EXCEPT ![c] = [ready |-> TRUE, timer |-> Never]]
    /\ UNCHANGED <<now, chpa, dep, cache, worker, userOps, faults, history>>

-------------------------------------------------------------------------------
(* Reconcile: the two cached Gets and the early returns.                      *)

Invalid(c) == ~cache[c].chpa.live \/ ~cache[c].chpa.spec.valid

\* Mutant: the owner of the Deployment is not looked at.
NoTargetButAnyOwner(c) == ~cache[c].dep.live

NoTarget(c) == ~cache[c].dep.live \/ cache[c].dep.owner = "other"

\* resStop: the CHPA is gone or its spec is invalid.
StopReconcile(c) ==
    /\ Dequeue(c)
    /\ Invalid(c)
    /\ queue' = [queue EXCEPT ![c].ready = FALSE]
    /\ UNCHANGED <<now, chpa, dep, cache, worker, userOps, faults, history>>

\* Mutant: a Deployment that is gone ends the repetition.
RepeatReconcileStops(c) ==
    /\ Dequeue(c)
    /\ ~Invalid(c)
    /\ NoTarget(c)
    /\ queue' = [queue EXCEPT ![c].ready = FALSE]
    /\ UNCHANGED <<now, chpa, dep, cache, worker, userOps, faults, history>>

\* resRepeat: the Deployment is gone, or has another controller.
RepeatReconcile(c) ==
    /\ Dequeue(c)
    /\ ~Invalid(c)
    /\ NoTarget(c)
    /\ Requeue(c, FALSE)
    /\ UNCHANGED <<now, chpa, dep, cache, worker, userOps, faults, history>>

\* Mutant: a failed Get ends the repetition.
ReadFailsStops(c) ==
    /\ Dequeue(c)
    /\ Fault("read")
    /\ queue' = [queue EXCEPT ![c].ready = FALSE]
    /\ UNCHANGED <<now, chpa, dep, cache, worker, userOps, history>>

\* resRepeat: one of the Gets fails.
ReadFails(c) ==
    /\ Dequeue(c)
    /\ Fault("read")
    /\ Requeue(c, FALSE)
    /\ UNCHANGED <<now, chpa, dep, cache, worker, userOps, history>>

\* Mutant: the objects of the informer's store are changed in place.
StartReconcileInPlace(c) ==
    LET read == [chpa |-> [cache[c].chpa EXCEPT !.spec = WithDefaults(@)],
                 dep |-> [cache[c].dep EXCEPT !.owner = "self"]]
    IN  /\ Dequeue(c)
        /\ ~Invalid(c)
        /\ ~NoTarget(c)
        /\ queue' = [queue EXCEPT ![c].ready = FALSE]
        /\ cache' = [cache EXCEPT ![c] = read]
        /\ worker' = [worker EXCEPT ![c] =
             [phase |-> "decide", chpa |-> read.chpa, dep |-> read.dep,
              stamp |-> now]]
        /\ UNCHANGED <<now, chpa, dep, userOps, faults, history>>

\* setCHPADefaults and SetControllerReference change the copies only.
StartReconcile(c) ==
    /\ Dequeue(c)
    /\ ~Invalid(c)
    /\ ~NoTarget(c)
    /\ queue' = [queue EXCEPT ![c].ready = FALSE]
    /\ worker' = [worker EXCEPT ![c] =
         [phase |-> "decide",
          chpa |-> [cache[c].chpa EXCEPT !.spec = WithDefaults(@)],
          dep |-> [cache[c].dep EXCEPT !.owner = "self"],
          stamp |-> now]]
    /\ UNCHANGED <<now, chpa, dep, cache, userOps, faults, history>>

-------------------------------------------------------------------------------
(* reconcileCHPA: the decision.                                               *)

ToScale(c, target, why) ==
    worker' = [worker EXCEPT ![c] =
      [phase |-> "scale", chpa |-> worker[c].chpa, dep |-> worker[c].dep,
       target |-> target, why |-> why]]

\* Mutant: the new status is built without LastScaleTime.
ToStatusForgets(c, desired) ==
    worker' = [worker EXCEPT ![c] =
      [phase |-> "status", chpa |-> worker[c].chpa,
       status |-> [last |-> Never, current |-> worker[c].dep.pods,
                   desired |-> desired]]]

\* setStatus with rescale = FALSE: LastScaleTime is kept.
ToStatus(c, desired) ==
    worker' = [worker EXCEPT ![c] =
      [phase |-> "status", chpa |-> worker[c].chpa,
       status |-> [worker[c].chpa.status EXCEPT !.current = worker[c].dep.pods,
                                                !.desired = desired]]]

Deciding(c) ==
    /\ worker[c].phase = "decide"
    /\ UNCHANGED <<now, chpa, dep, cache, queue, userOps, history>>

\* spec.replicas = 0: autoscaling is disabled.
SkipDisabled(c) ==
    /\ Deciding(c)
    /\ worker[c].dep.replicas = 0
    /\ ToStatus(c, worker[c].dep.pods)
    /\ UNCHANGED faults

\* Mutant: the bounds of a disabled Deployment are corrected as well.
CorrectBoundsEvenDisabled(c) ==
    /\ Deciding(c)
    /\ OutOfBounds(worker[c].chpa.spec, worker[c].dep.pods)
    /\ ToScale(c, BoundsTarget(worker[c].chpa.spec, worker[c].dep.pods), "bounds")
    /\ UNCHANGED faults

CorrectBounds(c) ==
    /\ Deciding(c)
    /\ worker[c].dep.replicas # 0
    /\ OutOfBounds(worker[c].chpa.spec, worker[c].dep.pods)
    /\ ToScale(c, BoundsTarget(worker[c].chpa.spec, worker[c].dep.pods), "bounds")
    /\ UNCHANGED faults

FollowsMetrics(c) ==
    /\ Deciding(c)
    /\ worker[c].dep.replicas # 0
    /\ ~OutOfBounds(worker[c].chpa.spec, worker[c].dep.pods)

\* computeReplicasForMetrics fails: one metric in error discards them all.
MetricsFail(c) ==
    /\ FollowsMetrics(c)
    /\ Fault("metrics")
    /\ ToStatus(c, worker[c].chpa.status.desired)

MetricTimes == {t \in 0..now : t + MetricLag >= now}

\* A proposal of 0 (no metrics, or no load) keeps the reconcile's own time, and
\* so does a negative one, which counts as 0: both lie below MinAllowed.
FollowMetrics(c) ==
    /\ FollowsMetrics(c)
    /\ UNCHANGED faults
    /\ \E proposal \in Proposals, metricTime \in MetricTimes :
         LET w == worker[c]
             timestamp == IF proposal > 0 THEN metricTime ELSE w.stamp
             desired == NormalizeDesired(w.chpa.spec, w.dep.pods, proposal)
         IN  IF ShouldScale(w.chpa.spec, w.chpa.status.last, w.dep.pods,
                            desired, timestamp)
             THEN ToScale(c, desired, "metrics")
             ELSE ToStatus(c, w.dep.pods)

-------------------------------------------------------------------------------
(* r.Update(deploy): spec.replicas and the owner reference.                   *)

Scaling(c) ==
    /\ worker[c].phase = "scale"
    /\ UNCHANGED <<now, chpa, cache, queue, userOps>>

DepAccepts(w) == dep.live /\ dep.rv = w.dep.rv

\* The API server applies the update; the object moves only if it changes.
ApplyScale(w) ==
    LET written == [dep EXCEPT !.replicas = w.target, !.owner = "self"] IN
    /\ DepAccepts(w)
    /\ dep' = IF written = dep THEN dep ELSE [written EXCEPT !.rv = @ + 1]
    /\ history' = [rescaled |-> now,
                   raised |-> IF w.target > dep.replicas THEN now ELSE history.raised,
                   lowered |-> IF w.target < dep.replicas THEN now ELSE history.lowered]

\* setStatus with rescale = TRUE: LastScaleTime becomes time.Now().
Rescale(c) ==
    /\ Scaling(c)
    /\ ApplyScale(worker[c])
    /\ worker' = [worker EXCEPT ![c] =
         [phase |-> "status", chpa |-> worker[c].chpa,
          status |-> [last |-> now, current |-> worker[c].dep.pods,
                      desired |-> worker[c].target]]]
    /\ UNCHANGED faults

\* Mutant: a refused rescale is recorded as one.
ScaleRefusedRecorded(c) ==
    /\ Scaling(c)
    /\ ~DepAccepts(worker[c])
    /\ worker' = [worker EXCEPT ![c] =
         [phase |-> "status", chpa |-> worker[c].chpa,
          status |-> [worker[c].chpa.status EXCEPT !.last = now]]]
    /\ UNCHANGED <<dep, faults, history>>

\* FailedUpdateScale: the update returned an error.
ScaleRefused(c) ==
    /\ Scaling(c)
    /\ ~DepAccepts(worker[c])
    /\ ToStatus(c, worker[c].chpa.status.desired)
    /\ UNCHANGED <<dep, faults, history>>

ScaleLost(c) ==
    /\ Scaling(c)
    /\ Fault("scaleLost")
    /\ ToStatus(c, worker[c].chpa.status.desired)
    /\ UNCHANGED <<dep, history>>

\* The update is applied, its answer is an error (timeout, dropped connection).
ScaleUnacknowledged(c) ==
    /\ Scaling(c)
    /\ Fault("scaleUnacknowledged")
    /\ ApplyScale(worker[c])
    /\ ToStatus(c, worker[c].chpa.status.desired)

-------------------------------------------------------------------------------
(* updateStatusIfNeeded: one write of the whole CHPA, its error ignored; then *)
(* Reconcile returns resRepeat.                                               *)

Finish(c) ==
    /\ worker[c].phase = "status"
    /\ worker' = [worker EXCEPT ![c] = Idle]
    /\ Requeue(c, queue[c].ready)
    /\ UNCHANGED <<now, dep, cache, userOps, history>>

ChpaAccepts(w) == chpa.live /\ chpa.rv = w.chpa.rv

StatusSkipped(c) ==
    /\ Finish(c)
    /\ worker[c].status = worker[c].chpa.status
    /\ UNCHANGED <<chpa, faults>>

\* Mutant: a conflict is overcome by writing over what is there.
StatusForced(c) ==
    /\ Finish(c)
    /\ chpa.live
    /\ chpa' = [chpa EXCEPT !.rv = @ + 1,
                            !.spec = worker[c].chpa.spec,
                            !.status = worker[c].status]
    /\ UNCHANGED faults

\* The defaults filled in by setCHPADefaults are written back as well.
StatusWritten(c) ==
    /\ Finish(c)
    /\ ChpaAccepts(worker[c])
    /\ chpa' = [chpa EXCEPT !.rv = @ + 1,
                            !.spec = worker[c].chpa.spec,
                            !.status = worker[c].status]
    /\ UNCHANGED faults

StatusRefused(c) ==
    /\ Finish(c)
    /\ ~ChpaAccepts(worker[c])
    /\ UNCHANGED <<chpa, faults>>

StatusLost(c) ==
    /\ Finish(c)
    /\ Fault("statusLost")
    /\ UNCHANGED chpa

-------------------------------------------------------------------------------
(* A process stops at any point and is restarted: its reconcile and queue are *)
(* gone, its informers list both objects anew and the CHPA, if it exists, is  *)
(* queued as created.                                                         *)

Crash(c) ==
    /\ Fault("crash")
    /\ worker' = [worker EXCEPT ![c] = Idle]
    /\ cache' = [cache EXCEPT ![c] = [chpa |-> chpa, dep |-> dep]]
    /\ queue' = [queue EXCEPT ![c] = [ready |-> chpa.live, timer |-> Never]]
    /\ UNCHANGED <<now, chpa, dep, userOps, history>>

(* The informers.  Creation, deletion and (updatePredicate) a change of the   *)
(* spec queue the request; nothing watches the Deployment.                    *)

SyncChpa(c) ==
    /\ cache[c].chpa # chpa
    /\ cache' = [cache EXCEPT ![c].chpa = chpa]
    /\ queue' = [queue EXCEPT ![c].ready =
         \/ @
         \/ cache[c].chpa.live # chpa.live
         \/ cache[c].chpa.spec # chpa.spec]
    /\ UNCHANGED <<now, chpa, dep, worker, userOps, faults, history>>

SyncDep(c) ==
    /\ cache[c].dep # dep
    /\ cache' = [cache EXCEPT ![c].dep = dep]
    /\ UNCHANGED <<now, chpa, dep, queue, worker, userOps, faults, history>>

-------------------------------------------------------------------------------
(* Outside this repository: the deployment controller, users, the clock.      *)

\* status.replicas follows spec.replicas, a pod at a time.
PodsFollow ==
    /\ dep.live
    /\ dep.pods # dep.replicas
    /\ dep' = [dep EXCEPT !.rv = @ + 1,
                          !.pods = IF @ < dep.replicas THEN @ + 1 ELSE @ - 1]
    /\ UNCHANGED <<now, chpa, cache, queue, worker, userOps, faults, history>>

UserOp(op) ==
    /\ op \in UserOps
    /\ userOps < MaxUserOps
    /\ userOps' = userOps + 1
    /\ UNCHANGED <<now, cache, queue, worker, faults, history>>

EditSpec ==
    /\ UserOp("editSpec")
    /\ chpa.live
    /\ \E spec \in Specs \ {chpa.spec} :
         chpa' = [chpa EXCEPT !.rv = @ + 1, !.spec = spec]
    /\ UNCHANGED dep

ScaleDeployment ==
    /\ UserOp("scale")
    /\ dep.live
    /\ \E n \in ScaleSizes \ {dep.replicas} :
         dep' = [dep EXCEPT !.rv = @ + 1, !.replicas = n]
    /\ UNCHANGED chpa

\* Another controller becomes the owner of the Deployment.
TakeOver ==
    /\ UserOp("takeOver")
    /\ dep.live
    /\ dep.owner = "none"
    /\ dep' = [dep EXCEPT !.rv = @ + 1, !.owner = "other"]
    /\ UNCHANGED chpa

DeleteChpa ==
    /\ UserOp("deleteChpa")
    /\ chpa.live
    /\ chpa' = [chpa EXCEPT !.rv = @ + 1, !.live = FALSE]
    /\ UNCHANGED dep

CreateChpa ==
    /\ UserOp("createChpa")
    /\ ~chpa.live
    /\ \E spec \in Specs :
         chpa' = [rv |-> chpa.rv + 1, live |-> TRUE, spec |-> spec,
                  status |-> NoStatus]
    /\ UNCHANGED dep

\* By a user, or by the garbage collector once the owning CHPA is deleted.
DeleteDeployment ==
    /\ UserOp("deleteDeployment")
    /\ dep.live
    /\ dep' = [dep EXCEPT !.rv = @ + 1, !.live = FALSE]
    /\ UNCHANGED chpa

CreateDeployment ==
    /\ UserOp("createDeployment")
    /\ ~dep.live
    /\ \E n \in ScaleSizes :
         dep' = [rv |-> dep.rv + 1, live |-> TRUE, owner |-> "none",
                 replicas |-> n, pods |-> 0]
    /\ UNCHANGED chpa

\* What Prompt names is finished before the clock moves on.
Tick ==
    /\ now < MaxTime
    /\ "pods" \in Prompt => dep.pods = dep.replicas \/ ~dep.live
    /\ "workers" \in Prompt =>
         \A c \in Controllers :
           /\ worker[c] = Idle
           /\ ~queue[c].ready
           /\ queue[c].timer = Never \/ queue[c].timer > now
    /\ "caches" \in Prompt =>
         \A c \in Controllers : cache[c] = [chpa |-> chpa, dep |-> dep]
    /\ now' = now + 1
    /\ UNCHANGED <<chpa, dep, cache, queue, worker, userOps, faults, history>>

\* The horizon of the model, not a state the system stops in.
Horizon == now = MaxTime /\ UNCHANGED vars

-------------------------------------------------------------------------------
Decide(c) == SkipDisabled(c) \/ CorrectBounds(c) \/ FollowMetrics(c)

Reconcile(c) == StopReconcile(c) \/ RepeatReconcile(c) \/ StartReconcile(c)

UpdateDeploy(c) == Rescale(c) \/ ScaleRefused(c)

UpdateStatus(c) == StatusSkipped(c) \/ StatusWritten(c) \/ StatusRefused(c)

WorkerStep(c) ==
    Reconcile(c) \/ Decide(c) \/ UpdateDeploy(c) \/ UpdateStatus(c)

Failure(c) ==
    \/ ReadFails(c)
    \/ MetricsFail(c)
    \/ ScaleLost(c)
    \/ ScaleUnacknowledged(c)
    \/ StatusLost(c)
    \/ Crash(c)

Informers(c) == SyncChpa(c) \/ SyncDep(c)

Users ==
    \/ EditSpec
    \/ ScaleDeployment
    \/ TakeOver
    \/ DeleteChpa
    \/ CreateChpa
    \/ DeleteDeployment
    \/ CreateDeployment

Next ==
    \/ \E c \in Controllers :
         WorkerStep(c) \/ TimerFires(c) \/ Failure(c) \/ Informers(c)
    \/ PodsFollow
    \/ Users
    \/ Tick
    \/ Horizon

Spec == Init /\ [][Next]_vars

\* Processes run, informers deliver, pods start and stop, and time passes.
Fairness ==
    /\ \A c \in Controllers :
         /\ WF_vars(WorkerStep(c))
         /\ WF_vars(TimerFires(c))
         /\ WF_vars(SyncChpa(c))
         /\ WF_vars(SyncDep(c))
    /\ WF_vars(PodsFollow)
    /\ WF_vars(Tick)

FairSpec == Spec /\ Fairness

===============================================================================
