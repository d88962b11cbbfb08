-------------------------- MODULE MCReplicaCalculator --------------------------
(* Small instances of the calculation.  Targets are 20, so that the tolerance  *)
(* of 0.1 lies between values; requests are 40, so 50 per cent is 20 as well.  *)
EXTENDS CalculatorProperties

OnPods == [kind |-> "pods", target |-> 20]
OnResource == [kind |-> "resource", target |-> 50]
OnResourceHigh == [kind |-> "resource", target |-> 80]
OnTotal == [kind |-> "total", target |-> 20]
OnShare == [kind |-> "perPod", target |-> 20]

Alone == {<<OnPods>>, <<OnResource>>}
Ordered == {<<OnPods, OnTotal>>, <<OnTotal, OnPods>>, <<OnTotal, OnShare, OnResource>>, <<>>}
AllLists == Alone \cup Ordered
PodsOnly == {<<OnPods>>}
ResourceOnly == {<<OnResourceHigh>>}

Requests == [p \in Pods |-> 40]

===============================================================================
