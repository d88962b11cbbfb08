------------------------- MODULE CalculatorProperties -------------------------
(***************************************************************************)
(* What the computation of ReplicaCalculator promises, and what comments   *)
(* and documents say of it that it does not keep.                          *)
(***************************************************************************)
EXTENDS ReplicaCalculator

\* Nothing changed since the round began, and no sample is of a pod that is gone.
Steady == changes = 0 /\ DOMAIN samples \subseteq DOMAIN pods

\* Value(m) against Goal(m) is the usage ratio of the metric m as documents have
\* it: over the pods that are ready and measured.
Measured == In(pods, {"ready"}) \cap DOMAIN samples

Value(m) ==
    CASE m.kind = "pods" -> Average(Restrict(samples, Measured))
      [] m.kind = "resource" -> Utilization(Restrict(samples, Measured), Request)
      [] OTHER -> demand

Goal(m) == IF m.kind = "perPod" THEN m.target * round.current ELSE m.target

\* Overloaded pods never shrink the Deployment and underloaded ones never grow
\* it, whichever of the pods are starting, failed or not measured, and pods at
\* the target leave it as it is (but see EqualKeepsSize).
DirectionKept ==
    Steady =>
      \A i \in DOMAIN round.proposals :
        LET m == round.metrics[i]
            proposal == round.proposals[i]
        IN  /\ Value(m) > Goal(m) => proposal >= round.current
            /\ Value(m) < Goal(m) => proposal <= round.current
            /\ Value(m) = Goal(m) /\ m.kind # "pods" => proposal = round.current

\* The result is the largest proposal, in whichever order the metrics are
\* listed, and the timestamp that goes with it is of a metric that made it.
LargestWins ==
    round.proposals # <<>> =>
      /\ \A i \in DOMAIN round.proposals : round.proposals[i] <= round.replicas
      /\ round.proposals[round.winner] = round.replicas

\* A proposal on a resource rests on the sample of at least one pod that is
\* ready when the pods are listed, whatever has changed since the samples were
\* fetched.
ResourceNeedsReadyPod ==
    [][List /\ M.kind = "resource" =>
         In(pods, {"ready"}) \cap DOMAIN round.fetched # {}]_vars

-------------------------------------------------------------------------------
\* replica_calculator.go:283-284: the current size is returned "if the change
\* would be too small, or if the new usage ratio would cause a change in scale
\* direction"; pods exactly at the target ask for no change.
EqualKeepsSize ==
    Steady =>
      \A i \in DOMAIN round.proposals :
        LET m == round.metrics[i] IN
        m.kind = "pods" /\ Value(m) = Goal(m) => round.proposals[i] = round.current

\* replica_calculator.go:177-178: "the number of replicas considered is however
\* many replicas factored into our calculation", so pods below the target ask
\* for no more than there are, even while a sample of a pod that is gone lingers.
ConsideredOnly ==
    changes = 0 =>
      \A i \in DOMAIN round.proposals :
        LET m == round.metrics[i] IN
        m.kind = "resource" /\ Value(m) < Goal(m) =>
          round.proposals[i] <= round.current

===============================================================================
