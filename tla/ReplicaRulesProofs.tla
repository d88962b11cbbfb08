-------------------------- MODULE ReplicaRulesProofs --------------------------
(***************************************************************************)
(* For every value, target and count: which way a proposal of ReplicaRules *)
(* can point; and for every set of pods and samples: which way the         *)
(* proposals made from them point.  The latter rests on sums over finite   *)
(* sets, whose recursion is solved here once.                              *)
(***************************************************************************)
EXTENDS ReplicaRules, FiniteSetTheorems, TLAPS

\* CeilDiv is the quotient rounded up.
LEMMA CeilDivBounds ==
    ASSUME NEW a \in Nat, NEW b \in Nat \ {0}
    PROVE  /\ CeilDiv(a, b) \in Nat
           /\ b * CeilDiv(a, b) >= a
           /\ b * CeilDiv(a, b) < a + b
<1> DEFINE q == (a + b - 1) \div b
<1>1. /\ q \in Int
      /\ b * q <= a + b - 1
      /\ a + b - 1 < b * (q + 1)
  OBVIOUS
<1>2. b * (q + 1) = b * q + b
  BY <1>1
<1>3. q >= 0
  BY <1>1, <1>2
<1> QED
  BY <1>1, <1>2, <1>3 DEF CeilDiv

\* A product with a larger factor is larger: by its own step, the provers need
\* to be told.
LEMMA ProductOrder ==
    ASSUME NEW a \in Nat, NEW b \in Nat, NEW c \in Nat, a < b
    PROVE  a * c <= b * c
<1> DEFINE d == b - a
<1>1. d \in Nat /\ b = a + d
  OBVIOUS
<1>2. d * c \in Nat /\ (a + d) * c = a * c + d * c
  BY <1>1
<1> QED
  BY <1>1, <1>2

\* Equal factors cancel in an inequality.
LEMMA Cancel ==
    ASSUME NEW b \in Nat \ {0}, NEW x \in Int, NEW y \in Int, b * x < b * y
    PROVE  x < y
<1> SUFFICES ASSUME x >= y PROVE FALSE
  OBVIOUS
<1> DEFINE d == x - y
<1>1. d \in Nat /\ x = y + d
  OBVIOUS
<1>2. b * d \in Nat /\ b * (y + d) = b * y + b * d
  BY <1>1
<1> QED
  BY <1>1, <1>2

\* What is scaled by a ratio above 1 is no less than the count, what is scaled
\* by one below 1 no more, however float64 rounds.
LEMMA ScaledDirection ==
    ASSUME NEW value \in Nat, NEW target \in Nat \ {0}, NEW count \in Nat,
           NEW n \in Scaled(value, target, count)
    PROVE  /\ n \in Nat
           /\ value > target => n >= count
           /\ value < target => n <= count
<1> DEFINE p == value * count
           q == CeilDiv(p, target)
<1>1. p \in Nat /\ target * count \in Nat
  OBVIOUS
<1>2. /\ q \in Nat
      /\ target * q >= p
      /\ target * q < p + target
  BY <1>1, CeilDivBounds
<1>3. n = q \/ (n = q + 1 /\ count > 0 /\ p % target = 0)
  BY DEF Scaled
<1>4. n \in Nat /\ n >= q
  BY <1>2, <1>3
<1>5. ASSUME value > target PROVE n >= count
  <2>1. target * count <= p
    BY <1>5, ProductOrder
  <2>2. target * (q + 1) = target * q + target /\ target * (q + 1) \in Int
    BY <1>2
  <2>3. target * count < target * (q + 1)
    BY <1>1, <1>2, <2>1, <2>2
  <2>4. count < q + 1
    BY <1>2, <2>3, Cancel
  <2> QED
    BY <1>2, <1>4, <2>4
<1>6. ASSUME value < target PROVE n <= count
  <2>1. p <= target * count
    BY <1>6, ProductOrder
  <2>2. CASE n = q
    <3>1. target * (count + 1) = target * count + target
      OBVIOUS
    <3>2. target * q < target * (count + 1)
      BY <1>1, <1>2, <2>1, <3>1
    <3>3. q < count + 1
      BY <1>2, <3>2, Cancel
    <3> QED
      BY <1>2, <2>2, <3>3
  <2>3. CASE n = q + 1 /\ count > 0 /\ p % target = 0
    <3>1. p = target * (p \div target)
      <4>1. /\ p \div target \in Int
            /\ p = target * (p \div target) + (p % target)
        BY <1>1
      <4> QED
        BY <1>1, <2>3, <4>1
    <3>2. p \div target \in Int
      BY <1>1
    <3>3. q = p \div target
      <4> DEFINE k == p \div target
      <4>1. target * (k + 1) = target * k + target
        BY <3>2
      <4>2. target * q < target * (k + 1)
        BY <1>2, <3>1, <4>1
      <4>3. q < k + 1
        BY <1>2, <3>2, <4>2, Cancel
      <4>4. target * (q + 1) = target * q + target
        BY <1>2
      <4>5. target * k < target * (q + 1)
        BY <1>1, <1>2, <3>1, <4>4
      <4>6. k < q + 1
        BY <1>2, <3>2, <4>5, Cancel
      <4> QED
        BY <1>2, <3>2, <4>3, <4>6
    <3>4. p < target * count
      <4> DEFINE d == target - value
      <4>1. d \in Nat \ {0} /\ target = value + d
        BY <1>6
      <4>2. (value + d) * count = p + d * count
        BY <4>1
      <4>3. d * count >= count
        <5>1. 1 * count <= d * count
          BY <4>1, ProductOrder
        <5> QED
          BY <5>1
      <4> QED
        BY <1>1, <2>3, <4>1, <4>2, <4>3
    <3>5. q < count
      BY <1>1, <1>2, <3>1, <3>2, <3>3, <3>4, Cancel
    <3> QED
      BY <1>2, <2>3, <3>5
  <2> QED
    BY <1>3, <2>2, <2>3
<1> QED
  BY <1>4, <1>5, <1>6

\* A usage ratio above 1 never proposes fewer than the current replicas, one
\* below 1 never more, and one of 1 exactly them, as long as the pods counted
\* are the current ones.
THEOREM ProposeKeepsDirection ==
    ASSUME NEW value \in Nat, NEW target \in Nat \ {0}, NEW count \in Nat,
           NEW current \in Nat, NEW n \in Propose(value, target, count, current)
    PROVE  /\ n \in Nat
           /\ value > target /\ count >= current => n >= current
           /\ value < target /\ count <= current => n <= current
           /\ value = target => n = current
<1>1. CASE WithinTolerance(value, target)
  BY <1>1 DEF Propose
<1>2. CASE ~WithinTolerance(value, target)
  <2>1. n \in Scaled(value, target, count)
    BY <1>2 DEF Propose
  <2>2. value # target
    BY <1>2 DEF WithinTolerance
  <2> QED
    BY <2>1, <2>2, ScaledDirection
<1> QED
  BY <1>1, <1>2

\* The correction for missing and unready pods does not turn the direction the
\* first ratio had, whatever the second ratio is.
THEOREM ProposeCorrectedKeepsDirection ==
    ASSUME NEW first \in Nat, NEW second \in Nat, NEW target \in Nat \ {0},
           NEW count \in Nat, NEW current \in Nat,
           NEW n \in ProposeCorrected(first, second, target, count, current)
    PROVE  /\ n \in Nat
           /\ first > target /\ count >= current => n >= current
           /\ first < target /\ count <= current => n <= current
<1>1. CASE Turned(first, second, target)
  BY <1>1 DEF ProposeCorrected
<1>2. CASE ~Turned(first, second, target)
  <2>1. n \in Propose(second, target, count, current)
    BY <1>2 DEF ProposeCorrected
  <2>2. /\ first > target => second >= target
        /\ first < target => second <= target
    BY <1>2 DEF Turned
  <2> QED
    BY <2>1, <2>2, ProposeKeepsDirection
<1> QED
  BY <1>1, <1>2

-------------------------------------------------------------------------------
(* Sums over finite sets.                                                     *)

\* Among sets of subsets of a finite set there is always a least one: the
\* library's well-foundedness of inclusion, in the form inductions over sets of
\* pods take here (a least counterexample is none).
LEMMA LeastSubset ==
    ASSUME NEW S, IsFiniteSet(S), NEW B, B \subseteq SUBSET S, B # {}
    PROVE  \E T \in B : \A U \in B : U \subseteq T => U = T
<1>1. IsWellFoundedOn(StrictSubsetOrdering(S), SUBSET S)
  BY FS_StrictSubsetOrderingWellFounded, FS_FiniteSubsetsOfFinite
<1>2. PICK T \in B : \A U \in B : ~(<<U, T>> \in StrictSubsetOrdering(S))
  BY <1>1, WFMin
<1> QED
  BY <1>2 DEF StrictSubsetOrdering

\* The same for numbers.
LEMMA LeastNatural ==
    ASSUME NEW B, B \subseteq Nat, B # {}
    PROVE  \E m \in B : \A k \in B : m <= k
<1>1. PICK bound \in B : TRUE
  OBVIOUS
<1> DEFINE Below(k) == 0..k
           D == {Below(k) : k \in B \cap Below(bound)}
<1>2. /\ IsFiniteSet(Below(bound))
      /\ \A k \in B \cap Below(bound) : Below(k) \subseteq Below(bound)
      /\ bound \in Below(bound)
  BY <1>1, FS_Interval
<1>3. PICK m \in B \cap Below(bound) :
        \A k \in B \cap Below(bound) : Below(k) \subseteq Below(m) => Below(k) = Below(m)
  <2> HIDE DEF Below
  <2>1. D \subseteq SUBSET Below(bound) /\ D # {}
    BY <1>1, <1>2
  <2>2. PICK T \in D : \A U \in D : U \subseteq T => U = T
    <3> HIDE DEF D
    <3> QED
      BY <1>2, <2>1, LeastSubset
  <2> QED
    BY <2>2
<1>4. ASSUME NEW k \in B, k < m PROVE FALSE
  <2>1. k \in B \cap Below(bound) /\ Below(k) \subseteq Below(m)
    BY <1>3, <1>4
  <2>2. m \in Below(k)
    BY <1>3, <2>1
  <2> QED
    BY <1>3, <1>4, <2>2
<1> QED
  BY <1>3, <1>4

\* One step of the recursion that SumFunction is: the sum over s, if g has the
\* sums over smaller sets.
SumStep(g, f, s) ==
    IF s = {} THEN 0
    ELSE f[CHOOSE x \in s : TRUE] + g[s \ {CHOOSE x \in s : TRUE}]

\* What SumFunctionOnSet is defined as.
LEMMA SumUnfold ==
    ASSUME NEW f, NEW S
    PROVE SumFunctionOnSet(f, S) = (CHOOSE g : g = [s \in SUBSET S |-> SumStep(g, f, s)])[S]
BY DEF SumFunctionOnSet, FoldFunctionOnSet, MapThenFoldSet, SumStep

\* The recursion has a solution over a finite set: by induction over the size of
\* the subsets it is solved for.
LEMMA SumsExist ==
    ASSUME NEW f, NEW S, IsFiniteSet(S)
    PROVE  \E g : g = [s \in SUBSET S |-> SumStep(g, f, s)]
<1> DEFINE Partial(g, n) == \A s \in SUBSET S : Cardinality(s) <= n => g[s] = SumStep(g, f, s)
           B == {n \in Nat : ~ \E g : Partial(g, n)}
<1>1. ASSUME B # {} PROVE FALSE
  <2>1. PICK m \in B : \A k \in B : m <= k
    BY <1>1, LeastNatural
  <2>2. CASE m = 0
    <3> DEFINE g == [s \in SUBSET S |-> 0]
    <3>1. \A s \in SUBSET S : Cardinality(s) <= 0 => s = {}
      BY FS_Subset, FS_EmptySet, FS_CardinalityType
    <3>2. Partial(g, 0)
      BY <3>1 DEF SumStep
    <3> QED
      BY <2>1, <2>2, <3>2
  <2>3. CASE m # 0
    <3>1. m - 1 \in Nat /\ m - 1 \notin B
      BY <2>1, <2>3
    <3>2. PICK h : Partial(h, m - 1)
      BY <3>1
    <3> DEFINE g == [s \in SUBSET S |-> IF Cardinality(s) <= m - 1 THEN h[s] ELSE SumStep(h, f, s)]
    <3> HIDE DEF B
    <3>3. ASSUME NEW s \in SUBSET S, Cardinality(s) <= m
          PROVE  g[s] = SumStep(g, f, s)
      <4>0. g[s] = SumStep(h, f, s)
        BY <3>2
      <4>1. CASE s = {}
        BY <4>0, <4>1 DEF SumStep
      <4>2. CASE s # {}
        <5> DEFINE c == CHOOSE x \in s : TRUE
                   r == s \ {c}
        <5>1. c \in s
          BY <4>2
        <5>2. r \in SUBSET S /\ Cardinality(r) <= m - 1
          <6>1. IsFiniteSet(s) /\ Cardinality(s) \in Nat
            BY FS_Subset, FS_CardinalityType
          <6>2. Cardinality(r) = Cardinality(s) - 1
            <7> HIDE DEF c
            <7> QED
              BY <5>1, <6>1, FS_RemoveElement
          <6>3. m \in Nat
            BY <2>1 DEF B
          <6> HIDE DEF c
          <6> QED
            BY <6>1, <6>2, <6>3, <3>3
        <5> HIDE DEF c
        <5>3. g[r] = h[r]
          BY <5>2
        <5> QED
          BY <4>0, <4>2, <5>3 DEF SumStep, c
      <4> QED
        BY <4>1, <4>2
    <3>4. Partial(g, m)
      BY <3>3
    <3> QED
      BY <2>1, <3>4 DEF B
  <2> QED
    BY <2>2, <2>3
<1>2. Cardinality(S) \in Nat /\ \A s \in SUBSET S : Cardinality(s) <= Cardinality(S)
  BY FS_CardinalityType, FS_Subset
<1>3. PICK g : Partial(g, Cardinality(S))
  BY <1>1, <1>2
<1> DEFINE h == [s \in SUBSET S |-> g[s]]
<1>4. ASSUME NEW s \in SUBSET S PROVE h[s] = SumStep(h, f, s)
  <2>1. h[s] = SumStep(g, f, s)
    BY <1>2, <1>3
  <2>2. CASE s = {}
    BY <2>1, <2>2 DEF SumStep
  <2>3. CASE s # {}
    <3>1. s \ {CHOOSE x \in s : TRUE} \in SUBSET S
      OBVIOUS
    <3> QED
      BY <2>1, <3>1 DEF SumStep
  <2> QED
    BY <2>2, <2>3
<1>5. h = [s \in SUBSET S |-> SumStep(h, f, s)]
  BY <1>4
<1> QED
  BY <1>5

\* A finite sum of naturals is a natural, and 0 only if all of them are.
LEMMA SumFacts ==
    ASSUME NEW S, IsFiniteSet(S), NEW f \in [S -> Nat]
    PROVE  /\ SumFunction(f) \in Nat
           /\ SumFunction(f) = 0 <=> \A x \in S : f[x] = 0
<1> DEFINE IsSum(g) == g = [s \in SUBSET S |-> SumStep(g, f, s)]
           g == CHOOSE g : IsSum(g)
           Right(s) == g[s] \in Nat /\ (g[s] = 0 <=> \A x \in s : f[x] = 0)
           B == {s \in SUBSET S : ~Right(s)}
<1>1. IsSum(g)
  BY SumsExist
<1>2. SumFunction(f) = g[S]
  BY SumUnfold DEF SumFunction
<1> HIDE DEF g
<1>3. ASSUME B # {} PROVE FALSE
  <2>1. PICK s \in B : \A r \in B : r \subseteq s => r = s
    <3> HIDE DEF B
    <3>1. B \subseteq SUBSET S
      BY DEF B
    <3> QED
      BY <1>3, <3>1, LeastSubset
  <2>2. g[s] = SumStep(g, f, s)
    BY <1>1
  <2>3. CASE s = {}
    BY <2>1, <2>2, <2>3 DEF SumStep
  <2>4. CASE s # {}
    <3> DEFINE c == CHOOSE x \in s : TRUE
               r == s \ {c}
    <3>1. c \in s
      BY <2>4
    <3>2. g[s] = f[c] + g[r]
      BY <2>2, <2>4 DEF SumStep
    <3> HIDE DEF c
    <3>3. Right(r)
      BY <2>1, <3>1
    <3>4. f[c] \in Nat
      BY <2>1, <3>1
    <3>5. (\A x \in s : f[x] = 0) <=> f[c] = 0 /\ (\A x \in r : f[x] = 0)
      BY <3>1
    <3>6. Right(s)
      BY <3>2, <3>3, <3>4, <3>5
    <3> QED
      BY <2>1, <3>6
  <2> QED
    BY <2>3, <2>4
<1> QED
  BY <1>2, <1>3

\* The average over at least one pod is a natural.
LEMMA AverageType ==
    ASSUME NEW D, IsFiniteSet(D), D # {}, NEW samples \in [D -> Nat]
    PROVE  Average(samples) \in Nat
<1>1. SumFunction(samples) \in Nat
  BY SumFacts
<1>2. Cardinality(D) \in Nat \ {0}
  BY FS_CardinalityType, FS_EmptySet
<1> QED
  BY <1>1, <1>2 DEF Average

\* So is the utilization, if one of the pods measured has a request above 0.
LEMMA UtilizationType ==
    ASSUME NEW D, IsFiniteSet(D), NEW samples \in [D -> Nat],
           NEW E, NEW requests \in [E -> Nat],
           NEW p \in D \cap E, requests[p] # 0
    PROVE  Utilization(samples, requests) \in Nat
<1> DEFINE known == D \cap E
<1>1. IsFiniteSet(known)
  BY FS_Intersection
<1>2. SumFunction(Restrict(samples, known)) \in Nat
  BY <1>1, SumFacts DEF Restrict
<1>3. SumFunction(Restrict(requests, known)) \in Nat \ {0}
  <2>1. Restrict(requests, known) \in [known -> Nat] /\ Restrict(requests, known)[p] # 0
    BY DEF Restrict
  <2> QED
    BY <1>1, <2>1, SumFacts
<1>4. DOMAIN samples \cap DOMAIN requests = known
  OBVIOUS
<1> HIDE DEF known
<1> QED
  BY <1>2, <1>3, <1>4 DEF Utilization

-------------------------------------------------------------------------------
(* Proposals from the samples of pods.                                        *)

\* Filling in values for the pods that got none.
LEMMA FilledType ==
    ASSUME NEW D, NEW E, NEW samples \in [D -> Nat], NEW fill \in [E -> Nat]
    PROVE  Filled(samples, fill) \in [D \cup E -> Nat]
BY DEF Filled

\* A listed pod is ready, not ready, or failed, and no two of them.
LEMMA PodsByCondition ==
    ASSUME NEW L, IsFiniteSet(L), NEW listed \in [L -> Conditions], NEW C
    PROVE  /\ IsFiniteSet(In(listed, C))
           /\ In(listed, C) \subseteq L
           /\ In(listed, {"ready", "unready"}) =
                In(listed, {"ready"}) \cup In(listed, {"unready"})
           /\ In(listed, {"unready", "failed"}) = L \ In(listed, {"ready"})
<1>1. In(listed, C) \subseteq L
  BY DEF In
<1> QED
  BY <1>1, FS_Subset DEF In, Conditions

\* What is left of the samples.
LEMMA UsableType ==
    ASSUME NEW D, IsFiniteSet(D), NEW samples \in [D -> Nat],
           NEW L, NEW listed \in [L -> Conditions]
    PROVE  LET U == D \ In(listed, {"unready", "failed"}) IN
           /\ Usable(samples, listed) \in [U -> Nat]
           /\ IsFiniteSet(U)
<1> DEFINE U == D \ In(listed, {"unready", "failed"})
<1>1. IsFiniteSet(U)
  BY FS_Difference
<1> QED
  BY <1>1 DEF Usable, Restrict

\* A subset has no more elements.
LEMMA MoreElements ==
    ASSUME NEW S, IsFiniteSet(S), NEW T, T \subseteq S
    PROVE  /\ IsFiniteSet(T)
           /\ Cardinality(T) \in Nat /\ Cardinality(S) \in Nat
           /\ Cardinality(T) <= Cardinality(S)
BY FS_Subset, FS_CardinalityType

\* calcPlainMetricReplicas: whatever pods are listed and whichever of them have
\* samples, pods loaded above the target never lose replicas when the list holds
\* the current ones, and pods below it never gain any when the samples are of
\* listed pods.
THEOREM PlainKeepsDirection ==
    ASSUME NEW D, IsFiniteSet(D), NEW samples \in [D -> Nat],
           NEW L, IsFiniteSet(L), NEW listed \in [L -> Conditions],
           NEW current \in Nat, NEW target \in Nat \ {0},
           NEW n \in PlainReplicas(samples, listed, current, target)
    PROVE  LET first == Average(Usable(samples, listed))
               running == Cardinality(In(listed, {"ready", "unready"}))
           IN  /\ n \in Nat
               /\ first > target /\ running >= current => n >= current
               /\ first < target /\ running <= current /\ D \subseteq L => n <= current
<1> DEFINE used == Usable(samples, listed)
           missing == Missing(samples, listed)
           ready == In(listed, {"ready"})
           unready == In(listed, {"unready", "failed"})
           running == In(listed, {"ready", "unready"})
           first == Average(used)
           rebalance == unready # {} /\ first > target
           lazy == IF rebalance THEN unready ELSE {}
           idle == Constant(lazy, 0)
           fill == Constant(missing, IF first < target THEN target ELSE 0)
           corrected == Filled(Filled(used, fill), idle)
           U == D \ unready
           W == (U \cup missing) \cup lazy
<1>1. used \in [U -> Nat] /\ IsFiniteSet(U)
  BY UsableType
<1>2. /\ IsFiniteSet(ready) /\ IsFiniteSet(unready) /\ IsFiniteSet(running)
      /\ ready \subseteq L /\ running \subseteq L /\ unready = L \ ready
      /\ ready \subseteq running
  BY PodsByCondition
<1>3. missing = ready \ D
  BY DEF Missing
<1>4. /\ DOMAIN listed # {} /\ DOMAIN used # {}
      /\ \/ ~rebalance /\ missing = {} /\ n \in Propose(first, target, Cardinality(ready), current)
         \/ /\ rebalance \/ missing # {}
            /\ n \in ProposeCorrected(first, Average(corrected), target,
                                      Cardinality(DOMAIN corrected), current)
  BY DEF PlainReplicas
<1>5. U # {}
  BY <1>1, <1>4
<1>6. corrected \in [W -> Nat]
  <2>1. fill \in [missing -> Nat] /\ idle \in [lazy -> Nat]
    BY DEF Constant
  <2> HIDE DEF fill, idle, used, missing, lazy, U
  <2> QED
    BY <1>1, <2>1, FilledType
<1>7. IsFiniteSet(W)
  <2>1. IsFiniteSet(missing) /\ IsFiniteSet(lazy)
    BY <1>2, <1>3, MoreElements
  <2> HIDE DEF missing, lazy, U
  <2> QED
    BY <1>1, <2>1, FS_Union
<1>8. first \in Nat /\ Average(corrected) \in Nat
  <2> HIDE DEF used, corrected, U, missing, lazy
  <2>1. W # {}
    BY <1>5
  <2> HIDE DEF W
  <2> QED
    BY <1>1, <1>5, <1>6, <1>7, <2>1, AverageType
<1>9. DOMAIN corrected = W
  BY <1>6
<1>10. Cardinality(W) \in Nat /\ Cardinality(ready) \in Nat /\ Cardinality(running) \in Nat
  BY <1>2, <1>7, FS_CardinalityType
<1> HIDE DEF used, corrected, first
<1>11. n \in Nat
  BY <1>4, <1>8, <1>9, <1>10, ProposeKeepsDirection, ProposeCorrectedKeepsDirection
<1>12. ASSUME first > target, Cardinality(running) >= current PROVE n >= current
  <2>1. CASE ~rebalance /\ missing = {}
    <3>1. running = ready
      BY <1>2, <1>12, <2>1
    <3> QED
      BY <1>4, <1>8, <1>10, <1>12, <2>1, <3>1, ProposeKeepsDirection
  <2>2. CASE rebalance \/ missing # {}
    <3>1. running \subseteq W
      BY <1>2, <1>3, <1>12
    <3>2. Cardinality(running) <= Cardinality(W)
      BY <1>7, <3>1, MoreElements
    <3> QED
      BY <1>4, <1>8, <1>9, <1>10, <1>12, <2>2, <3>2, ProposeCorrectedKeepsDirection
  <2> QED
    BY <2>1, <2>2
<1>13. ASSUME first < target, Cardinality(running) <= current, D \subseteq L PROVE n <= current
  <2>0. Cardinality(ready) <= Cardinality(running)
    BY <1>2, MoreElements
  <2>1. CASE missing = {}
    <3> QED
      BY <1>4, <1>8, <1>10, <1>13, <2>0, <2>1, ProposeKeepsDirection
  <2>2. CASE missing # {}
    <3>1. W \subseteq ready
      BY <1>2, <1>3, <1>8, <1>13
    <3>2. Cardinality(W) <= Cardinality(ready)
      BY <1>2, <3>1, MoreElements
    <3> QED
      BY <1>4, <1>8, <1>9, <1>10, <1>13, <2>0, <2>2, <3>2, ProposeCorrectedKeepsDirection
  <2> QED
    BY <2>1, <2>2
<1> QED
  BY <1>11, <1>12, <1>13 DEF first, used

\* GetResourceReplicas: the same for utilization, and a utilization at the target
\* asks for the current size; a proposal needs the sample of a pod listed as ready.
THEOREM ResourceKeepsDirection ==
    ASSUME NEW D, IsFiniteSet(D), NEW samples \in [D -> Nat],
           NEW L, IsFiniteSet(L), NEW listed \in [L -> Conditions],
           NEW R, L \subseteq R, NEW requests \in [R -> Nat],
           NEW current \in Nat, NEW target \in Nat \ {0},
           NEW n \in ResourceReplicas(samples, listed, requests, current, target)
    PROVE  LET used == Usable(samples, listed)
               first == Utilization(used, Restrict(requests, L))
               running == Cardinality(In(listed, {"ready", "unready"}))
           IN  /\ n \in Nat
               /\ first > target /\ running >= current => n >= current
               /\ first < target /\ running <= current /\ D \subseteq L => n <= current
               /\ first = target => n = current
               /\ In(listed, {"ready"}) \cap D # {}
<1> DEFINE asked == Restrict(requests, L)
           used == Usable(samples, listed)
           missing == Missing(samples, listed)
           ready == In(listed, {"ready"})
           unready == In(listed, {"unready"})
           gone == In(listed, {"unready", "failed"})
           running == In(listed, {"ready", "unready"})
           first == Utilization(used, asked)
           rebalance == unready # {} /\ first > target
           lazy == IF rebalance THEN unready ELSE {}
           idle == Constant(lazy, 0)
           fill == IF first < target THEN Restrict(requests, missing)
                   ELSE IF first > target THEN Constant(missing, 0)
                   ELSE <<>>
           M == IF first < target \/ first > target THEN missing ELSE {}
           corrected == Filled(Filled(used, fill), idle)
           second == Utilization(corrected, asked)
           U == D \ gone
           W == (U \cup M) \cup lazy
<1>1. used \in [U -> Nat] /\ IsFiniteSet(U)
  BY UsableType
<1>2. /\ IsFiniteSet(ready) /\ IsFiniteSet(unready) /\ IsFiniteSet(running)
      /\ ready \subseteq L /\ running = ready \cup unready /\ gone = L \ ready
  BY PodsByCondition
<1>3. missing = ready \ D
  BY DEF Missing
<1>4. asked \in [L -> Nat]
  BY DEF Restrict
<1>5. /\ DOMAIN listed # {}
      /\ SumFunction(Restrict(asked, DOMAIN used \cap DOMAIN asked)) # 0
      /\ \/ ~rebalance /\ missing = {} /\ n \in Propose(first, target, Cardinality(ready), current)
         \/ /\ rebalance \/ missing # {}
            /\ n \in ProposeCorrected(first, second, target,
                                      Cardinality(DOMAIN corrected), current)
  BY DEF ResourceReplicas
<1>6. PICK p \in U \cap L : asked[p] # 0
  <2> DEFINE known == U \cap L
             of == Restrict(asked, known)
  <2>1. IsFiniteSet(known) /\ of \in [known -> Nat] /\ SumFunction(of) # 0
    <3>1. IsFiniteSet(known)
      BY <1>1, MoreElements
    <3> HIDE DEF U, used, asked
    <3>2. DOMAIN used \cap DOMAIN asked = known
      BY <1>1, <1>4
    <3> QED
      BY <1>4, <1>5, <3>1, <3>2 DEF Restrict
  <2> HIDE DEF of, known
  <2>2. PICK p \in known : of[p] # 0
    BY <2>1, SumFacts
  <2> QED
    BY <2>2 DEF of, known, Restrict
<1>7. p \in ready \cap D
  BY <1>2, <1>6
<1>8. corrected \in [W -> Nat]
  <2>1. fill \in [M -> Nat]
    <3>1. missing \subseteq R
      BY <1>2, <1>3
    <3>2. Restrict(requests, missing) \in [missing -> Nat] /\ Constant(missing, 0) \in [missing -> Nat]
      BY <3>1 DEF Restrict, Constant
    <3>3. <<>> \in [{} -> Nat]
      OBVIOUS
    <3> HIDE DEF missing, first
    <3>4. CASE first < target
      BY <3>2, <3>4
    <3> QED
      BY <3>2, <3>3
  <2>2. idle \in [lazy -> Nat]
    BY DEF Constant
  <2> HIDE DEF fill, idle, used, M, lazy, U
  <2> QED
    BY <1>1, <2>1, <2>2, FilledType
<1>9. IsFiniteSet(W)
  <2>1. IsFiniteSet(missing) /\ IsFiniteSet(lazy) /\ IsFiniteSet(M)
    <3>1. IsFiniteSet(missing) /\ IsFiniteSet({})
      BY <1>2, <1>3, MoreElements
    <3> QED
      BY <1>2, <3>1
  <2> HIDE DEF missing, lazy, U, M
  <2> QED
    BY <1>1, <2>1, FS_Union
<1>10. first \in Nat /\ second \in Nat
  <2>1. p \in W
    BY <1>6
  <2> HIDE DEF used, corrected, U, M, lazy, asked, W
  <2> QED
    BY <1>1, <1>4, <1>6, <1>8, <1>9, <2>1, UtilizationType
<1>11. DOMAIN corrected = W
  BY <1>8
<1>12. Cardinality(W) \in Nat /\ Cardinality(ready) \in Nat /\ Cardinality(running) \in Nat
  BY <1>2, <1>9, FS_CardinalityType
<1> HIDE DEF used, corrected, first, second
<1>13. /\ n \in Nat
       /\ rebalance \/ missing # {} =>
            /\ first > target /\ Cardinality(W) >= current => n >= current
            /\ first < target /\ Cardinality(W) <= current => n <= current
  <2> HIDE DEF rebalance, missing, ready, unready, running, W
  <2>1. CASE ~rebalance /\ missing = {}
    <3>1. n \in Propose(first, target, Cardinality(ready), current)
      BY <1>5, <2>1
    <3> QED
      BY <1>10, <1>12, <2>1, <3>1, ProposeKeepsDirection
  <2>2. CASE rebalance \/ missing # {}
    <3>1. n \in ProposeCorrected(first, second, target, Cardinality(W), current)
      BY <1>5, <1>11, <2>2
    <3> QED
      BY <1>10, <1>12, <3>1, ProposeCorrectedKeepsDirection
  <2> QED
    BY <2>1, <2>2
<1>14. ASSUME first > target, Cardinality(running) >= current PROVE n >= current
  <2>1. CASE ~rebalance /\ missing = {}
    <3>1. running = ready
      BY <1>2, <1>14, <2>1
    <3> QED
      BY <1>5, <1>10, <1>12, <1>14, <2>1, <3>1, ProposeKeepsDirection
  <2>2. CASE rebalance \/ missing # {}
    <3>1. running \subseteq W
      BY <1>2, <1>3, <1>10, <1>14
    <3>2. Cardinality(running) <= Cardinality(W)
      BY <1>9, <3>1, MoreElements
    <3> HIDE DEF rebalance, missing, ready, unready, running, W
    <3> QED
      BY <1>12, <1>13, <1>14, <2>2, <3>2
  <2> QED
    BY <2>1, <2>2
<1>15. ASSUME first < target, Cardinality(running) <= current, D \subseteq L PROVE n <= current
  <2>1. Cardinality(ready) <= Cardinality(running)
    BY <1>2, MoreElements
  <2>2. CASE missing = {}
    BY <1>5, <1>10, <1>12, <1>15, <2>1, <2>2, ProposeKeepsDirection
  <2>3. CASE missing # {}
    <3>1. W \subseteq ready
      BY <1>2, <1>3, <1>10, <1>15
    <3>2. Cardinality(W) <= Cardinality(ready)
      BY <1>2, <3>1, MoreElements
    <3> HIDE DEF rebalance, missing, ready, unready, running, W
    <3> QED
      BY <1>12, <1>13, <1>15, <2>1, <2>3, <3>2
  <2> QED
    BY <2>2, <2>3
<1>16. ASSUME first = target PROVE n = current
  <2>1. corrected = used
    <3>1. fill = <<>> /\ lazy = {}
      BY <1>16
    <3>2. used \in [U -> Nat]
      BY <1>1
    <3> HIDE DEF fill, lazy, U
    <3> QED
      BY <3>1, <3>2 DEF corrected, Filled, idle, Constant
  <2>2. second = first
    BY <2>1 DEF second, first
  <2> QED
    BY <1>5, <1>10, <1>11, <1>12, <1>16, <2>2, ProposeKeepsDirection DEF ProposeCorrected, Turned
<1> QED
  BY <1>7, <1>13, <1>14, <1>15, <1>16 DEF first, used

===============================================================================
