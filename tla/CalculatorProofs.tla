---------------------------- MODULE CalculatorProofs ----------------------------
(***************************************************************************)
(* Proofs that the computation of ReplicaCalculator keeps what             *)
(* CalculatorProperties promises, for every set of pods, samples, requests *)
(* and metrics, and whatever changes while it runs.                        *)
(***************************************************************************)
EXTENDS CalculatorProperties, ReplicaRulesProofs

\* There is a proposal for each metric worked through, and pods are listed for
\* metrics on pods only.
Progress ==
    /\ round.phase = "list" => M.kind \in {"pods", "resource"}
    /\ round.phase \in {"fetch", "list"} => Len(round.proposals) = round.index - 1
    /\ Len(round.proposals) <= Len(round.metrics)

\* As long as nothing changes, the Deployment and the samples are those the round
\* began with.
Undisturbed ==
    changes = 0 =>
      /\ round.current = Current
      /\ round.phase = "list" => round.fetched = samples

\* The winner is one of the proposals.
WinnerProposed ==
    /\ round.proposals = <<>> => round.replicas = 0
    /\ round.proposals # <<>> => round.winner \in DOMAIN round.proposals

IInv ==
    /\ TypeOK
    /\ Progress
    /\ Undisturbed
    /\ WinnerProposed
    /\ LargestWins
    /\ DirectionKept

-------------------------------------------------------------------------------
\* A partial function from pods is one from a finite set.
LEMMA PartialIsFinite ==
    ASSUME NEW T, NEW f \in PartialFunctions(Pods, T)
    PROVE  /\ f \in [DOMAIN f -> T]
           /\ DOMAIN f \subseteq Pods
           /\ IsFiniteSet(DOMAIN f)
<1>1. PICK D \in SUBSET Pods : f \in [D -> T]
  BY DEF PartialFunctions
<1>2. IsFiniteSet(Pods)
  BY CalculatorAssumption
<1> QED
  BY <1>1, <1>2, MoreElements

\* What a partial function is built from.
LEMMA PartialIntro ==
    ASSUME NEW T, NEW D, D \subseteq Pods, NEW f \in [D -> T]
    PROVE  f \in PartialFunctions(Pods, T)
BY DEF PartialFunctions

\* The metric being computed.
LEMMA CurrentMetric ==
    ASSUME TypeOK, round.phase \in {"fetch", "list"}
    PROVE  /\ M \in Metric
           /\ round.metrics \in Seq(Metric)
           /\ round.index \in 1..Len(round.metrics)
BY CalculatorAssumption DEF TypeOK, Round, M

\* Current is a count.
LEMMA CurrentType ==
    ASSUME pods \in PartialFunctions(Pods, Conditions)
    PROVE  Current \in Nat
<1>1. pods \in [DOMAIN pods -> Conditions] /\ IsFiniteSet(DOMAIN pods)
  BY PartialIsFinite
<1>2. IsFiniteSet(In(pods, {"ready", "unready"}))
  BY <1>1, PodsByCondition
<1> QED
  BY <1>2, FS_CardinalityType DEF Current

\* The proposals of a metric on pods: counts, on the right side of the current
\* size if nothing has changed, and on a resource never without a ready pod.
LEMMA PodOutcomesDirected ==
    ASSUME TypeOK, round.phase = "list", M.kind \in {"pods", "resource"},
           NEW n \in PodOutcomes
    PROVE  /\ n \in Nat
           /\ M.kind = "resource" => In(pods, {"ready"}) \cap DOMAIN round.fetched # {}
           /\ Undisturbed /\ Steady =>
                /\ Value(M) > Goal(M) => n >= round.current
                /\ Value(M) < Goal(M) => n <= round.current
                /\ Value(M) = Goal(M) /\ M.kind # "pods" => n = round.current
<1> DEFINE D == DOMAIN round.fetched
           L == DOMAIN pods
           used == Usable(round.fetched, pods)
<1>1. /\ round.fetched \in [D -> Nat] /\ IsFiniteSet(D)
      /\ pods \in [L -> Conditions] /\ IsFiniteSet(L) /\ L \subseteq Pods
  <2>1. round.fetched \in PartialFunctions(Pods, Usages)
    BY DEF TypeOK, Round
  <2>2. round.fetched \in [D -> Usages] /\ IsFiniteSet(D)
    BY <2>1, PartialIsFinite
  <2> QED
    BY <2>2, PartialIsFinite, CalculatorAssumption DEF TypeOK
<1>2. round.current \in Nat /\ M.target \in Nat \ {0}
  BY CurrentMetric DEF TypeOK, Round, Metric
<1>3. Request \in [Pods -> Nat]
  BY CalculatorAssumption
<1>4. ASSUME Undisturbed, Steady
      PROVE  /\ D \subseteq L
             /\ Cardinality(In(pods, {"ready", "unready"})) = round.current
             /\ used = Restrict(samples, Measured)
  <2>1. round.fetched = samples /\ round.current = Current /\ D \subseteq L
    BY <1>4 DEF Undisturbed, Steady
  <2>2. In(pods, {"unready", "failed"}) = L \ In(pods, {"ready"})
        /\ In(pods, {"ready"}) \subseteq L
    BY <1>1, PodsByCondition
  <2>3. D \ In(pods, {"unready", "failed"}) = Measured
    BY <2>1, <2>2 DEF Measured
  <2> QED
    BY <2>1, <2>3 DEF Usable, Current
<1>5. CASE M.kind = "pods"
  <2>1. n \in PlainReplicas(round.fetched, pods, round.current, M.target)
    BY <1>5 DEF PodOutcomes
  <2>2. Steady /\ Undisturbed => Value(M) = Average(used) /\ Goal(M) = M.target
    BY <1>4, <1>5 DEF Value, Goal
  <2> QED
    BY <1>1, <1>2, <1>4, <1>5, <2>1, <2>2, PlainKeepsDirection
<1>6. CASE M.kind = "resource"
  <2>1. n \in ResourceReplicas(round.fetched, pods, Request, round.current, M.target)
    BY <1>6 DEF PodOutcomes
  <2>2. Steady /\ Undisturbed =>
          Value(M) = Utilization(used, Restrict(Request, L)) /\ Goal(M) = M.target
    <3> SUFFICES ASSUME Steady, Undisturbed
                 PROVE  Value(M) = Utilization(used, Restrict(Request, L))
      BY <1>6 DEF Goal
    <3> DEFINE asked == Restrict(Request, L)
    <3>1. Value(M) = Utilization(used, Request)
      BY <1>4, <1>6 DEF Value
    <3>2. DOMAIN used \subseteq L
      BY <1>4 DEF Usable, Restrict
    <3>3. DOMAIN used \cap DOMAIN Request = DOMAIN used \cap DOMAIN asked
      BY <1>1, <1>3, <3>2 DEF Restrict
    <3>4. Restrict(Request, DOMAIN used \cap DOMAIN asked)
            = Restrict(asked, DOMAIN used \cap DOMAIN asked)
      BY <3>2 DEF Restrict
    <3> QED
      BY <3>1, <3>3, <3>4 DEF Utilization
  <2> QED
    BY <1>1, <1>2, <1>3, <1>4, <1>6, <2>1, <2>2, ResourceKeepsDirection
<1> QED
  BY <1>5, <1>6

\* The proposal of GetExternalPerPodMetricReplicas points the way its value does.
LEMMA PerPodDirected ==
    ASSUME NEW value \in Nat, NEW current \in Nat, NEW target \in Nat \ {0},
           NEW n \in PerPodReplicas(value, current, target)
    PROVE  /\ n \in Nat
           /\ value > target * current => n >= current
           /\ value < target * current => n <= current
           /\ value = target * current => n = current
<1> DEFINE c == CeilDiv(value, target)
           t == target * current
<1>1. c \in Nat /\ target * c >= value /\ target * c < value + target
  BY CeilDivBounds
<1>2. t \in Nat
  OBVIOUS
<1>3. n = current \/ n = c
  BY DEF PerPodReplicas
<1> HIDE DEF c
<1>4. target * c \in Int /\ target * (current + 1) = t + target
  BY <1>1
<1>5. ASSUME value > t PROVE c >= current
  <2>1. target * current < target * c
    BY <1>1, <1>2, <1>4, <1>5
  <2> QED
    BY <1>1, <2>1, Cancel
<1>6. ASSUME value < t PROVE c <= current
  <2>1. target * c < target * (current + 1)
    BY <1>1, <1>2, <1>4, <1>6
  <2>2. c < current + 1
    BY <1>1, <2>1, Cancel
  <2> QED
    BY <1>1, <2>2
<1>7. ASSUME value = t PROVE n = current
  <2>1. CASE current = 0
    <3>1. target * c < target * 1
      BY <1>1, <1>4, <1>7, <2>1
    <3>2. c < 1
      BY <1>1, <3>1, Cancel
    <3> QED
      BY <1>1, <1>3, <2>1, <3>2
  <2>2. CASE current # 0
    <3>1. t > 0
      <4>1. 1 * current <= target * current
        BY <2>2, ProductOrder
      <4> QED
        BY <2>2, <4>1
    <3>2. WithinTolerance(value, t)
      BY <1>2, <1>7, <3>1 DEF WithinTolerance
    <3> QED
      BY <3>2 DEF PerPodReplicas
  <2> QED
    BY <2>1, <2>2
<1> QED
  BY <1>1, <1>2, <1>3, <1>5, <1>6, <1>7

\* What a proposal for the current metric has to be for DirectionKept.
Directed(n) ==
    Steady =>
      /\ Value(M) > Goal(M) => n >= round.current
      /\ Value(M) < Goal(M) => n <= round.current
      /\ Value(M) = Goal(M) /\ M.kind # "pods" => n = round.current

\* Setting a proposal beside the others keeps the invariant: the result stays
\* the largest, and its index that of a metric that asked for it.
LEMMA MergeKeeps ==
    ASSUME IInv, round.phase \in {"fetch", "list"}, NEW n \in Nat, Directed(n),
           Merge(n), UNCHANGED <<pods, samples, demand, changes>>
    PROVE  IInv'
<1> DEFINE old == round.proposals
           new == Append(old, n)
<1>1. /\ round \in Round /\ round.index \in 1..Len(round.metrics)
      /\ round.metrics \in Seq(Metric)
      /\ old \in Seq(Nat) /\ Len(old) = round.index - 1
  BY CurrentMetric DEF IInv, TypeOK, Progress, Round
<1>2. /\ round'.proposals = new
      /\ round'.metrics = round.metrics /\ round'.current = round.current
      /\ round'.phase = IF round.index = Len(round.metrics) THEN "done" ELSE "fetch"
      /\ round'.index = round.index + 1
      /\ round'.fetched = <<>>
      /\ round'.replicas = IF Beats(n) THEN n ELSE round.replicas
      /\ round'.winner = IF Beats(n) THEN round.index ELSE round.winner
  BY <1>1 DEF Merge, Round
<1>3. /\ new \in Seq(Nat) /\ Len(new) = round.index
      /\ \A i \in 1..Len(old) : new[i] = old[i]
      /\ new[round.index] = n
      /\ DOMAIN new = 1..round.index /\ DOMAIN old = 1..(round.index - 1)
  BY <1>1
<1> HIDE DEF new
<1>either. ASSUME NEW i \in DOMAIN new
      PROVE  (i = round.index /\ new[i] = n) \/ (i \in DOMAIN old /\ new[i] = old[i])
  <2>1. round.index \in Nat /\ i \in 1..round.index
    BY <1>1, <1>3
  <2>2. CASE i = round.index
    BY <1>3, <2>2
  <2>3. CASE i # round.index
    <3>1. i \in 1..(round.index - 1)
      BY <2>1, <2>3
    <3>2. Len(old) = round.index - 1
      BY <1>1
    <3> QED
      BY <1>3, <3>1, <3>2
  <2> QED
    BY <2>2, <2>3
<1>4. TypeOK'
  <2>1. round' \in Round
    <3>1. <<>> \in PartialFunctions(Pods, Usages)
      <4>1. <<>> \in [{} -> Usages]
        OBVIOUS
      <4> QED
        BY <4>1, PartialIntro
    <3>2. DOMAIN round' = DOMAIN round /\ round' = [f \in DOMAIN round |-> round'[f]]
      BY DEF Merge
    <3>3. round' = [phase |-> round'.phase, metrics |-> round'.metrics,
                    index |-> round'.index, current |-> round'.current,
                    fetched |-> round'.fetched, replicas |-> round'.replicas,
                    winner |-> round'.winner, proposals |-> round'.proposals]
      BY <1>1, <3>2 DEF Round
    <3>4. /\ round'.phase \in {"fetch", "list", "done", "failed"}
          /\ round'.metrics \in MetricLists /\ round'.current \in Nat
          /\ round'.index \in Nat \ {0}
          /\ round'.fetched \in PartialFunctions(Pods, Usages)
      BY <1>1, <1>2, <3>1 DEF Round
    <3>5. /\ round'.replicas \in Nat /\ round'.winner \in Nat
          /\ round'.proposals \in Seq(Nat)
      BY <1>1, <1>2, <1>3 DEF Round
    <3> QED
      BY <3>3, <3>4, <3>5 DEF Round
  <2> QED
    BY <1>1, <1>2, <1>3, <2>1 DEF IInv, TypeOK
<1>5. Progress'
  BY <1>1, <1>2, <1>3 DEF Progress
<1>6. Undisturbed'
  BY <1>2 DEF IInv, Undisturbed, Current
<1>7. WinnerProposed' /\ LargestWins'
  <2>1. new # <<>>
    BY <1>1, <1>3
  <2>2. CASE Beats(n)
    <3>1. \A i \in DOMAIN old : old[i] <= n
      <4> SUFFICES ASSUME NEW i \in DOMAIN old PROVE old[i] <= n
        OBVIOUS
      <4>1. old # <<>> /\ old[i] \in Nat /\ old[i] <= round.replicas
        BY <1>1 DEF IInv, LargestWins
      <4> QED
        BY <1>1, <2>2, <4>1 DEF Beats, Round
    <3>2. round'.replicas = n /\ round'.winner = round.index
      BY <1>2, <2>2
    <3>3. \A i \in DOMAIN new : new[i] <= n
      BY <1>either, <3>1
    <3> QED
      BY <1>1, <1>2, <1>3, <2>1, <3>2, <3>3 DEF WinnerProposed, LargestWins
  <2>3. CASE ~Beats(n)
    <3>1. round.replicas # 0 /\ n <= round.replicas
      BY <1>1, <2>3 DEF Beats, Round
    <3>2. old # <<>>
      BY <3>1 DEF IInv, WinnerProposed
    <3>3. round.winner \in DOMAIN old /\ old[round.winner] = round.replicas
          /\ \A i \in DOMAIN old : old[i] <= round.replicas
      BY <3>2 DEF IInv, WinnerProposed, LargestWins
    <3>4. round'.replicas = round.replicas /\ round'.winner = round.winner
      BY <1>2, <2>3
    <3>5. \A i \in DOMAIN new : new[i] <= round.replicas
      BY <1>either, <3>1, <3>3
    <3>6. round.winner \in DOMAIN new /\ new[round.winner] = round.replicas
      BY <1>1, <1>3, <3>3
    <3> QED
      BY <1>2, <2>1, <3>4, <3>5, <3>6 DEF WinnerProposed, LargestWins
  <2> QED
    BY <2>2, <2>3
<1>8. DirectionKept'
  <2>1. Steady' = Steady
    BY DEF Steady
  <2>2. \A m : Value(m)' = Value(m) /\ Goal(m)' = Goal(m)
    BY <1>2 DEF Value, Goal, Measured
  <2>3. ASSUME Steady, NEW i \in DOMAIN new
        PROVE  LET m == round.metrics[i] IN
               /\ Value(m) > Goal(m) => new[i] >= round.current
               /\ Value(m) < Goal(m) => new[i] <= round.current
               /\ Value(m) = Goal(m) /\ m.kind # "pods" => new[i] = round.current
    <3>1. CASE i = round.index /\ new[i] = n
      BY <2>3, <3>1 DEF Directed, M
    <3>2. CASE i \in DOMAIN old /\ new[i] = old[i]
      BY <2>3, <3>2 DEF IInv, DirectionKept
    <3> QED
      BY <1>either, <3>1, <3>2
  <2> QED
    BY <1>2, <2>1, <2>2, <2>3 DEF DirectionKept
<1> QED
  BY <1>4, <1>5, <1>6, <1>7, <1>8 DEF IInv

\* A round that fails, or goes on to list the pods, keeps its proposals.
LEMMA PhaseKeeps ==
    ASSUME IInv, round.phase \in {"fetch", "list"},
           NEW phase \in {"failed", "list"}, NEW f \in PartialFunctions(Pods, Usages),
           phase = "list" => f = samples /\ M.kind \in {"pods", "resource"},
           round' = [round EXCEPT !.phase = phase, !.fetched = f],
           UNCHANGED <<pods, samples, demand, changes>>
    PROVE  IInv'
<1>1. round \in Round
  BY DEF IInv, TypeOK
<1>2. /\ round' \in Round
      /\ round'.phase = phase /\ round'.fetched = f
      /\ round'.metrics = round.metrics /\ round'.index = round.index
      /\ round'.current = round.current /\ round'.proposals = round.proposals
      /\ round'.replicas = round.replicas /\ round'.winner = round.winner
  BY <1>1 DEF Round
<1>3. TypeOK' /\ Progress' /\ WinnerProposed' /\ LargestWins'
  BY <1>2 DEF IInv, TypeOK, Progress, WinnerProposed, LargestWins, M
<1>4. Undisturbed'
  BY <1>2 DEF IInv, Undisturbed, Current
<1>5. DirectionKept'
  <2>1. Steady' = Steady
    BY DEF Steady
  <2>2. \A m : Value(m)' = Value(m) /\ Goal(m)' = Goal(m)
    BY <1>2 DEF Value, Goal, Measured
  <2> QED
    BY <1>2, <2>1, <2>2 DEF IInv, DirectionKept
<1> QED
  BY <1>3, <1>4, <1>5 DEF IInv

\* What happens in the cluster while the round runs is no promise broken: the
\* round is not steady any more.
LEMMA ChangeKeeps ==
    ASSUME IInv, Change,
           pods' \in PartialFunctions(Pods, Conditions),
           samples' \in PartialFunctions(Pods, Usages)
    PROVE  IInv'
<1>1. changes' \in Nat \ {0} /\ UNCHANGED <<demand, round>>
  BY DEF Change, IInv, TypeOK
<1>2. TypeOK' /\ Progress' /\ WinnerProposed' /\ LargestWins'
  BY <1>1 DEF IInv, TypeOK, Progress, WinnerProposed, LargestWins, M
<1>3. Undisturbed' /\ DirectionKept'
  BY <1>1 DEF Undisturbed, DirectionKept, Steady
<1> QED
  BY <1>2, <1>3 DEF IInv

LEMMA InitIInv == Init => IInv
<1> SUFFICES ASSUME Init PROVE IInv
  OBVIOUS
<1>1. Current \in Nat
  BY CurrentType DEF Init
<1>2. <<>> \in PartialFunctions(Pods, Usages)
  <2>1. <<>> \in [{} -> Usages]
    OBVIOUS
  <2> QED
    BY <2>1, PartialIntro
<1>3. PICK metrics \in MetricLists :
        round = [phase |-> IF metrics = <<>> THEN "done" ELSE "fetch",
                 metrics |-> metrics, index |-> 1,
                 current |-> Current, fetched |-> <<>>,
                 replicas |-> 0, winner |-> 0, proposals |-> <<>>]
  BY DEF Init
<1>4. metrics \in Seq(Metric)
  BY CalculatorAssumption
<1>5. round \in Round
  BY <1>1, <1>2, <1>3 DEF Round
<1>6. TypeOK
  BY <1>3, <1>4, <1>5 DEF Init, TypeOK
<1>7. Progress /\ Undisturbed /\ WinnerProposed /\ LargestWins /\ DirectionKept
  BY <1>3, <1>4 DEF Progress, Undisturbed, WinnerProposed, LargestWins, DirectionKept
<1> QED
  BY <1>6, <1>7 DEF IInv

LEMMA NextIInv == IInv /\ [Next]_vars => IInv'
<1> SUFFICES ASSUME IInv, [Next]_vars PROVE IInv'
  OBVIOUS
<1> USE DEF Working
<1>1. CASE Fetch
  <2>1. samples \in PartialFunctions(Pods, Usages)
    BY DEF IInv, TypeOK
  <2> QED
    BY <1>1, <2>1, PhaseKeeps DEF Fetch
<1>2. CASE List
  <2>1. PICK n \in PodOutcomes : Merge(n)
    BY <1>2 DEF List
  <2>2. TypeOK /\ Undisturbed /\ round.phase = "list"
    BY <1>2 DEF List, IInv
  <2>3. M.kind \in {"pods", "resource"}
    BY <2>2 DEF IInv, Progress
  <2>4. n \in Nat /\ Directed(n)
    BY <2>1, <2>2, <2>3, PodOutcomesDirected DEF Directed
  <2> QED
    BY <1>2, <2>1, <2>2, <2>4, MergeKeeps DEF List
<1>3. CASE Total
  <2>1. PICK n \in TotalReplicas(demand, round.current, M.target) : Merge(n)
    BY <1>3 DEF Total
  <2>2. /\ demand \in Nat /\ round.current \in Nat /\ M.target \in Nat \ {0}
        /\ round.phase = "fetch" /\ M.kind = "total"
    BY <1>3, CurrentMetric, CalculatorAssumption DEF Total, IInv, TypeOK, Round, Metric
  <2>3. n \in Propose(demand, M.target, round.current, round.current)
    BY <2>1 DEF TotalReplicas
  <2>4. Value(M) = demand /\ Goal(M) = M.target
    BY <2>2 DEF Value, Goal
  <2>5. n \in Nat /\ Directed(n)
    BY <2>2, <2>3, <2>4, ProposeKeepsDirection DEF Directed
  <2> QED
    BY <1>3, <2>1, <2>2, <2>5, MergeKeeps DEF Total
<1>4. CASE PerPod
  <2>1. PICK n \in PerPodReplicas(demand, round.current, M.target) : Merge(n)
    BY <1>4 DEF PerPod
  <2>2. /\ demand \in Nat /\ round.current \in Nat /\ M.target \in Nat \ {0}
        /\ round.phase = "fetch" /\ M.kind = "perPod"
    BY <1>4, CurrentMetric, CalculatorAssumption DEF PerPod, IInv, TypeOK, Round, Metric
  <2>3. Value(M) = demand /\ Goal(M) = M.target * round.current
    BY <2>2 DEF Value, Goal
  <2>4. n \in Nat /\ Directed(n)
    BY <2>1, <2>2, <2>3, PerPodDirected DEF Directed
  <2> QED
    BY <1>4, <2>1, <2>2, <2>4, MergeKeeps DEF PerPod
<1>5. CASE Errors
  <2>1. /\ round.phase \in {"fetch", "list"} /\ round \in Round
        /\ round' = [round EXCEPT !.phase = "failed"]
        /\ UNCHANGED <<pods, samples, demand, changes>>
    BY <1>5 DEF Errors, FetchFails, ListFails, NothingUsable, Fail, IInv, TypeOK
  <2>2. /\ round' = [round EXCEPT !.phase = "failed", !.fetched = round.fetched]
        /\ round.fetched \in PartialFunctions(Pods, Usages)
    BY <2>1 DEF Round
  <2> QED
    BY <2>1, <2>2, PhaseKeeps
<1>6. CASE Cluster
  <2>1. PICK p \in Pods :
          \/ PodStarts(p)
          \/ \E condition \in Conditions : PodTurns(p, condition)
          \/ PodGoes(p)
          \/ \E usage \in Usages : Sample(p, usage)
          \/ SampleExpires(p)
    BY <1>6 DEF Cluster
  <2> DEFINE L == DOMAIN pods
             D == DOMAIN samples
  <2>2. /\ pods \in PartialFunctions(Pods, Conditions)
        /\ samples \in PartialFunctions(Pods, Usages)
        /\ pods \in [L -> Conditions] /\ L \subseteq Pods
        /\ samples \in [D -> Usages] /\ D \subseteq Pods
    BY PartialIsFinite DEF IInv, TypeOK
  <2>3. CASE PodStarts(p)
    <3>1. pods' \in [L \cup {p} -> Conditions] /\ samples' = samples
      BY <2>2, <2>3 DEF PodStarts, Filled, Constant, Conditions
    <3>2. pods' \in PartialFunctions(Pods, Conditions)
      BY <2>2, <3>1, PartialIntro
    <3> QED
      BY <2>2, <2>3, <3>1, <3>2, ChangeKeeps DEF PodStarts
  <2>4. CASE \E condition \in Conditions : PodTurns(p, condition)
    <3>1. pods' \in [L -> Conditions] /\ samples' = samples
      BY <2>2, <2>4 DEF PodTurns
    <3>2. pods' \in PartialFunctions(Pods, Conditions)
      BY <2>2, <3>1, PartialIntro
    <3> QED
      BY <2>2, <2>4, <3>1, <3>2, ChangeKeeps DEF PodTurns
  <2>5. CASE PodGoes(p)
    <3>1. pods' \in [L \ {p} -> Conditions] /\ samples' = samples
      BY <2>2, <2>5 DEF PodGoes, Restrict
    <3>2. pods' \in PartialFunctions(Pods, Conditions)
      BY <2>2, <3>1, PartialIntro
    <3> QED
      BY <2>2, <2>5, <3>1, <3>2, ChangeKeeps DEF PodGoes
  <2>6. CASE \E usage \in Usages : Sample(p, usage)
    <3>1. samples' \in [D \cup {p} -> Usages] /\ pods' = pods
      BY <2>2, <2>6 DEF Sample, Filled, Constant
    <3>2. samples' \in PartialFunctions(Pods, Usages)
      BY <2>2, <3>1, PartialIntro
    <3> QED
      BY <2>2, <2>6, <3>1, <3>2, ChangeKeeps DEF Sample
  <2>7. CASE SampleExpires(p)
    <3>1. samples' \in [D \ {p} -> Usages] /\ pods' = pods
      BY <2>2, <2>7 DEF SampleExpires, Restrict
    <3>2. samples' \in PartialFunctions(Pods, Usages)
      BY <2>2, <3>1, PartialIntro
    <3> QED
      BY <2>2, <2>7, <3>1, <3>2, ChangeKeeps DEF SampleExpires
  <2> QED
    BY <2>1, <2>3, <2>4, <2>5, <2>6, <2>7
<1>7. CASE Returned \/ UNCHANGED vars
  <2>1. UNCHANGED vars
    BY <1>7 DEF Returned
  <2> QED
    BY <2>1 DEF vars, IInv, TypeOK, Progress, Undisturbed, WinnerProposed, LargestWins,
                DirectionKept, Steady, Value, Goal, Measured, Current, M
<1> QED
  BY <1>1, <1>2, <1>3, <1>4, <1>5, <1>6, <1>7 DEF Next, Compute

-------------------------------------------------------------------------------
\* Every proposal is a whole number of pods, however many pods are listed and
\* measured: no sum, ratio or correction divides by nothing.
THEOREM CalculatorTypeCorrect == Spec => []TypeOK
<1>1. IInv => TypeOK
  BY DEF IInv
<1> QED
  BY <1>1, InitIInv, NextIInv, PTL DEF Spec

\* The size computed is the largest of the proposals and belongs to the metric
\* whose timestamp goes with it, whatever the metrics and their order.
THEOREM LargestAlwaysWins == Spec => []LargestWins
<1>1. IInv => LargestWins
  BY DEF IInv
<1> QED
  BY <1>1, InitIInv, NextIInv, PTL DEF Spec

\* While nothing changes, proposals point the way the ready pods that are measured
\* do, whatever the pods that are starting, failed or not measured are.
THEOREM DirectionAlwaysKept == Spec => []DirectionKept
<1>1. IInv => DirectionKept
  BY DEF IInv
<1> QED
  BY <1>1, InitIInv, NextIInv, PTL DEF Spec

\* A proposal on a resource needs a pod that is ready and measured, whatever
\* changes between the two calls.
THEOREM ResourceAlwaysNeedsReadyPod == Spec => ResourceNeedsReadyPod
<1>1. TypeOK /\ [Next]_vars =>
        [List /\ M.kind = "resource" =>
           In(pods, {"ready"}) \cap DOMAIN round.fetched # {}]_vars
  BY PodOutcomesDirected DEF List, Working
<1> QED
  BY <1>1, CalculatorTypeCorrect, PTL DEF Spec, ResourceNeedsReadyPod

===============================================================================
