----------------------------- MODULE AtomicScaler -----------------------------
(***************************************************************************)
(* What the control loop (src/pkg/controller/chpa/chpa_controller.go)      *)
(* promises of the Deployment, without caches, queues, reconciles in       *)
(* progress or failures: every rescale is one atomic decision on the       *)
(* Deployment as it is at that moment, with the windows counted from the   *)
(* LastScaleTime the API server holds at that moment.  Two things may come *)
(* late: the record of a rescale, or not at all; and an edit of the CHPA,  *)
(* for the one rescale that is under way when the user makes it.           *)
(***************************************************************************)
EXTENDS ScaleRules

CONSTANTS Specs, Proposals, InitialPods, ScaleSizes

VARIABLES
    now,
    wanted,     \* the completed spec in force, as a set: empty if there is none
    known,      \* the one the controller acts on
    live,       \* does the Deployment exist
    foreign,    \* does another controller own it
    size,       \* its spec.replicas
    pods,       \* its status.replicas
    rescaled,   \* when the controller last rescaled
    recorded    \* LastScaleTime

deployment == <<live, foreign, size, pods>>

vars == <<now, wanted, known, deployment, rescaled, recorded>>

InForce(spec) == IF spec.valid THEN {WithDefaults(spec)} ELSE {}

Init ==
    /\ now = 0
    /\ \E spec \in Specs : wanted = InForce(spec)
    /\ known = wanted
    /\ live = TRUE
    /\ foreign = FALSE
    /\ size \in InitialPods
    /\ pods = size
    /\ rescaled = Never
    /\ recorded = Never

-------------------------------------------------------------------------------
ToBounds(spec) ==
    /\ OutOfBounds(spec, pods)
    /\ size' = BoundsTarget(spec, pods)

WindowsAllow(spec) ==
    recorded # Never =>
      /\ size' < pods => now > recorded + spec.down
      /\ size' > pods => now > recorded + spec.up

ToProposal(spec) ==
    /\ ~OutOfBounds(spec, pods)
    /\ \E proposal \in Proposals : size' = NormalizeDesired(spec, pods, proposal)
    /\ size' # pods
    /\ WindowsAllow(spec)

Rescale ==
    /\ live
    /\ ~foreign
    /\ size # 0
    /\ \E spec \in known : ToBounds(spec) \/ ToProposal(spec)
    /\ rescaled' = now
    /\ UNCHANGED <<now, wanted, known, live, foreign, pods, recorded>>

Record ==
    /\ rescaled # Never
    /\ recorded' = rescaled
    /\ UNCHANGED <<now, wanted, known, deployment, rescaled>>

Learn ==
    /\ known' = wanted
    /\ UNCHANGED <<now, wanted, deployment, rescaled, recorded>>

-------------------------------------------------------------------------------
(* The environment.                                                            *)

\* Edited, made invalid or deleted.
Edit ==
    /\ wanted' \in {{}} \cup {InForce(spec) : spec \in Specs}
    /\ known' \in {known, wanted'}
    /\ UNCHANGED <<now, deployment, rescaled, recorded>>

\* A CHPA created anew remembers no rescale.
Recreate ==
    /\ wanted = {}
    /\ \E spec \in Specs : wanted' = InForce(spec)
    /\ known' \in {known, wanted'}
    /\ recorded' = Never
    /\ UNCHANGED <<now, deployment, rescaled>>

Resize ==
    /\ live
    /\ size' \in ScaleSizes
    /\ UNCHANGED <<now, wanted, known, live, foreign, pods, rescaled, recorded>>

TakeOver ==
    /\ live
    /\ foreign' = TRUE
    /\ UNCHANGED <<now, wanted, known, live, size, pods, rescaled, recorded>>

Delete ==
    /\ live' = FALSE
    /\ UNCHANGED <<now, wanted, known, foreign, size, pods, rescaled, recorded>>

Create ==
    /\ ~live
    /\ live' = TRUE
    /\ foreign' = FALSE
    /\ size' \in ScaleSizes
    /\ pods' = 0
    /\ UNCHANGED <<now, wanted, known, rescaled, recorded>>

PodFollows ==
    /\ live
    /\ pods # size
    /\ pods' = IF pods < size THEN pods + 1 ELSE pods - 1
    /\ UNCHANGED <<now, wanted, known, live, foreign, size, rescaled, recorded>>

Tick ==
    /\ now' = now + 1
    /\ UNCHANGED <<wanted, known, deployment, rescaled, recorded>>

-------------------------------------------------------------------------------
Next ==
    \/ Rescale
    \/ Record
    \/ Learn
    \/ Edit
    \/ Recreate
    \/ Resize
    \/ TakeOver
    \/ Delete
    \/ Create
    \/ PodFollows
    \/ Tick

Spec == Init /\ [][Next]_vars

===============================================================================
