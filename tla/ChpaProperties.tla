---------------------------- MODULE ChpaProperties ----------------------------
(***************************************************************************)
(* What the control loop of ChpaController promises, and the promises of   *)
(* the repository's documents that it does not keep.                       *)
(***************************************************************************)
EXTENDS ChpaController

\* Process c's update of the Deployment is applied and changes it.
Writes(c) ==
    /\ worker[c].phase = "scale"
    /\ worker'[c] # worker[c]
    /\ dep' # dep

\* Process c's update of the CHPA is applied and changes it.
Records(c) ==
    /\ worker[c].phase = "status"
    /\ worker'[c] # worker[c]
    /\ chpa' # chpa

-------------------------------------------------------------------------------
\* A Deployment a user has scaled to zero is never woken by a decision made
\* before, nor does the controller ever scale one to zero itself (the
\* "Autoscaling is disabled" branch, the lower bound of 1, and the
\* resourceVersion check of r.Update).
NeverWakesNorDisables ==
    [][\A c \in Controllers :
         Writes(c) => dep.replicas # 0 /\ dep'.replicas # 0]_vars

\* What is written lies within the bounds of the spec it was decided with and
\* within the scale-up limit of the pods that exist when it is written, not of
\* those that existed when it was decided.
WritesWithinLimits ==
    [][\A c \in Controllers :
         LET spec == worker[c].chpa.spec IN
         Writes(c) /\ spec.min <= spec.max =>
           WithinLimits(spec, dep.pods, dep'.replicas)]_vars

\* A Deployment another controller owns by now is not written, although the
\* check of SetControllerReference looked at a copy.
NeverWritesOthers ==
    [][\A c \in Controllers :
         Writes(c) => dep.live /\ dep.owner # "other"]_vars

\* The whole-object write of the status never takes back an edit a user made
\* since the reconcile read the CHPA: all it does to the spec is fill defaults.
UserSpecPreserved ==
    [][\A c \in Controllers :
         Records(c) => chpa.live /\ chpa'.spec = WithDefaults(chpa.spec)]_vars

\* LastScaleTime of one CHPA never goes back, whichever process writes it.
LastScaleTimeMonotone ==
    [][chpa.live /\ chpa'.live => chpa.status.last <= chpa'.status.last]_vars

\* LastScaleTime never tells of a rescale that was not applied: a refused or
\* lost update of the Deployment leaves it alone.
NoPhantomScale == chpa.status.last <= history.rescaled

\* A process whose informer shows a valid CHPA has its next reconcile under
\* way, queued or timed: the early returns that stop the repetition leave it to
\* an event that has not come yet.
NeverForgotten ==
    \A c \in Controllers :
      \/ Invalid(c)
      \/ worker[c] # Idle
      \/ queue[c].ready
      \/ queue[c].timer # Never

\* The specs in force, and the ones a single process acts on: the copy of the
\* reconcile in progress, if there is one.
SpecInForce ==
    IF chpa.live /\ chpa.spec.valid THEN {WithDefaults(chpa.spec)} ELSE {}

SpecActedOn ==
    LET w == worker[CHOOSE c \in Controllers : TRUE] IN
    IF w = Idle THEN SpecInForce ELSE {w.chpa.spec}

Scaler == INSTANCE AtomicScaler WITH
    wanted <- SpecInForce, known <- SpecActedOn,
    live <- dep.live, foreign <- dep.owner = "other",
    size <- dep.replicas, pods <- dep.pods,
    rescaled <- history.rescaled, recorded <- chpa.status.last

\* A reconcile of four steps, on copies, with everybody else in between, and
\* with failures and crashes, is no worse than an atomic one: nothing scales but
\* a decision on the Deployment as it is when it is written, and the windows hold
\* against the LastScaleTime in the API server then (for one process whose
\* informers are current when a reconcile starts).
ScalesAtomically == Scaler!Spec

-------------------------------------------------------------------------------
(* The inductive invariant behind the action properties above.                *)

IsChpaVersion(copy) == copy.rv <= chpa.rv /\ (copy.rv = chpa.rv => copy = chpa)

IsDepVersion(copy) == copy.rv <= dep.rv /\ (copy.rv = dep.rv => copy = dep)

IsReadChpa(copy) ==
    /\ copy.rv <= chpa.rv
    /\ copy.rv = chpa.rv => /\ chpa.live
                            /\ copy = [chpa EXCEPT !.spec = WithDefaults(@)]

IsReadDep(copy) ==
    /\ copy.rv <= dep.rv
    /\ copy.rv = dep.rv => /\ dep.live /\ dep.owner # "other"
                           /\ copy = [dep EXCEPT !.owner = "self"]

\* What an informer or a reconcile holds is a version of the object in the API
\* server: never newer, and the object itself when the versions are equal.  So a
\* write the API server accepts was decided on what it overwrites.
CopiesAreVersions ==
    \A c \in Controllers :
      /\ IsChpaVersion(cache[c].chpa)
      /\ IsDepVersion(cache[c].dep)
      /\ worker[c] # Idle => IsReadChpa(worker[c].chpa)
      /\ worker[c].phase \in {"decide", "scale"} => IsReadDep(worker[c].dep)

\* No copy of LastScaleTime is ahead of the last rescale, and a reconcile never
\* replaces the one it read by an older one.
TimesOrdered ==
    /\ history.rescaled <= now
    /\ chpa.status.last <= history.rescaled
    /\ \A c \in Controllers :
         LET w == worker[c] IN
         /\ cache[c].chpa.status.last <= history.rescaled
         /\ w # Idle => w.chpa.status.last <= history.rescaled
         /\ w.phase = "status" => /\ w.chpa.status.last <= w.status.last
                                  /\ w.status.last <= history.rescaled

\* What a reconcile has decided, on the copies it read.
DecisionsSound ==
    \A c \in Controllers :
      LET w == worker[c] IN
      /\ w # Idle => w.chpa.live /\ Completed(w.chpa.spec)
      /\ w.phase = "scale" =>
           /\ w.dep.replicas # 0 /\ w.target # 0
           /\ w.chpa.spec.min <= w.chpa.spec.max =>
                WithinLimits(w.chpa.spec, w.dep.pods, w.target)

-------------------------------------------------------------------------------
\* README.md:64-65: no ScaleUp within the window from the previous ScaleUp.
UpscaleWindowHonoured ==
    [][\A c \in Controllers :
         LET w == worker[c] IN
         /\ Writes(c) /\ w.why = "metrics"
         /\ dep'.replicas > dep.replicas
         /\ history.raised # Never
         => WindowPassed(history.raised, w.chpa.spec.up, now)]_vars

\* README.md:79: no ScaleDown within the window from the previous ScaleDown.
DownscaleWindowHonoured ==
    [][\A c \in Controllers :
         LET w == worker[c] IN
         /\ Writes(c) /\ w.why = "metrics"
         /\ dep'.replicas < dep.replicas
         /\ history.lowered # Never
         => WindowPassed(history.lowered, w.chpa.spec.down, now)]_vars

\* README.md:64-65 again, of every ScaleUp, whatever asked for it: one that
\* corrects the bounds does not follow a ScaleUp within the window either.
EveryScaleUpWaits ==
    [][\A c \in Controllers :
         /\ Writes(c)
         /\ dep'.replicas > dep.replicas
         /\ history.raised # Never
         => WindowPassed(history.raised, worker[c].chpa.spec.up, now)]_vars

-------------------------------------------------------------------------------
\* The size a demand comes to once the scale-up limit has been worked off.
GoalSize(spec, demand) ==
    IF demand < MinAllowed(spec) THEN MinAllowed(spec) ELSE Smaller(demand, spec.max)

SettledAt(size) ==
    /\ dep.replicas = size /\ dep.pods = size
    /\ chpa.status.current = size /\ chpa.status.desired = size

\* While users leave it alone, a Deployment that is not disabled comes to the
\* size a constant demand asks for, in steps the scale-up limit allows and the
\* windows delay, stays there, and the status comes to say so, even if a
\* reconcile fails on the way.
Settles ==
    \A spec \in Specs, demand \in Proposals :
      chpa.spec = spec => <>[]SettledAt(GoalSize(WithDefaults(spec), demand))

===============================================================================
