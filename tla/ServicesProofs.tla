----------------------------- MODULE ServicesProofs -----------------------------
(***************************************************************************)
(* The invariants of the small parts, as theorems of their composition     *)
(* MCServices: for every set of replicas, shards, links and fields, every  *)
(* list of rules, and every bound.  A part's steps are those of its        *)
(* module; while another part runs, its variables do not change.           *)
(***************************************************************************)
EXTENDS MCServices, PaginationProofs, SequenceTheorems

\* The lemmas about sums are those of VisitCountingProofs.
VP == INSTANCE VisitCountingProofs WITH
    Redirects <- VRedirects, Frontends <- VFrontends, Replicas <- VReplicas,
    Capacity <- 1, MaxAttempts <- 2, Faults <- FALSE, Deletion <- FALSE,
    present <- v_present, totalViews <- v_totalViews, visits <- v_visits,
    fresh <- v_fresh, call <- v_call, frontQueue <- v_frontQueue,
    notifying <- v_notifying, queue <- v_queue, worker <- v_worker,
    answered <- v_answered, missed <- v_missed

-------------------------------------------------------------------------------
(* Sums *)

LEMMA FiniteIs == ASSUME NEW D PROVE VP!IsFiniteSet(D) <=> IsFiniteSet(D)
BY DEF VP!IsFiniteSet, IsFiniteSet

LEMMA AllNumbers ==
    ASSUME NEW T, 0 \in T, \A n \in Nat : n \in T => n + 1 \in T
    PROVE  \A n \in Nat : n \in T
<1>1. VP!IsFiniteSet(VReplicas)
  BY FiniteIs, ServicesAssumption
<1>2. QED
  BY <1>1, VP!AllNumbers

LEMMA SumIs == ASSUME NEW f, NEW D PROVE R!SumOf(f, D) = VP!SumFunctionOnSet(f, D)
BY DEF R!SumOf, R!SumFunctionOnSet, R!FoldFunctionOnSet, R!MapThenFoldSet,
       VP!SumFunctionOnSet, VP!FoldFunctionOnSet, VP!MapThenFoldSet

LEMMA SumEmpty == ASSUME NEW f PROVE R!SumOf(f, {}) = 0
BY VP!SumEmpty, SumIs, FiniteIs, ServicesAssumption

LEMMA SumType ==
    ASSUME NEW f, NEW D, IsFiniteSet(D), \A x \in D : f[x] \in Nat
    PROVE  R!SumOf(f, D) \in Nat
BY VP!SumType, SumIs, FiniteIs, ServicesAssumption

LEMMA SumElement ==
    ASSUME NEW f, NEW D, NEW x \in D, IsFiniteSet(D), \A y \in D : f[y] \in Nat
    PROVE  R!SumOf(f, D) = f[x] + R!SumOf(f, D \ {x})
BY VP!SumElement, SumIs, FiniteIs, ServicesAssumption

LEMMA SumSame ==
    ASSUME NEW f, NEW h, NEW D, IsFiniteSet(D), \A x \in D : f[x] = h[x]
    PROVE  R!SumOf(f, D) = R!SumOf(h, D)
BY VP!SumSame, SumIs, FiniteIs, ServicesAssumption

LEMMA SumRaised ==
    ASSUME NEW f, NEW h, NEW D, NEW x \in D, IsFiniteSet(D), \A y \in D : f[y] \in Nat,
           h[x] = f[x] + 1, \A y \in D : y # x => h[y] = f[y]
    PROVE  R!SumOf(h, D) = R!SumOf(f, D) + 1
BY VP!SumRaised, SumIs, FiniteIs, ServicesAssumption

LEMMA SumSplit ==
    ASSUME NEW f, NEW D, NEW T \in SUBSET D, IsFiniteSet(D), \A x \in D : f[x] \in Nat
    PROVE  R!SumOf(f, D) = R!SumOf(f, T) + R!SumOf(f, D \ T)
BY VP!SumSplit, SumIs, FiniteIs, ServicesAssumption

LEMMA BySize ==
    ASSUME NEW D, NEW Q, IsFiniteSet(D), Q \subseteq SUBSET D, {} \in Q,
           \A t \in SUBSET D : (\A x \in t : t \ {x} \in Q) => t \in Q
    PROVE  \A t \in SUBSET D : t \in Q
<1>1. VP!IsFiniteSet(D) /\ VP!VisitCountingAssumption
  BY FiniteIs, ServicesAssumption DEF VP!VisitCountingAssumption
<1>2. QED
  BY <1>1, VP!BySize, Zenon DEF VP!VisitCountingAssumption

LEMMA SumOfMore ==
    ASSUME NEW f, NEW D, NEW T \in SUBSET D, IsFiniteSet(D), \A x \in D : f[x] \in Nat
    PROVE  R!SumOf(f, T) <= R!SumOf(f, D)
<1>1. R!SumOf(f, D) = R!SumOf(f, T) + R!SumOf(f, D \ T)
  BY SumSplit
<1>2. IsFiniteSet(T) /\ IsFiniteSet(D \ T)
  BY FS_Subset
<1>3. R!SumOf(f, T) \in Nat /\ R!SumOf(f, D \ T) \in Nat
  BY <1>2, SumType
<1>4. QED
  BY <1>1, <1>3

LEMMA SumOfZeros ==
    ASSUME NEW f, NEW D, IsFiniteSet(D), \A x \in D : f[x] = 0
    PROVE  R!SumOf(f, D) = 0
<1> DEFINE Q == {t \in SUBSET D : R!SumOf(f, t) = 0}
<1>1. {} \in Q
  BY SumEmpty
<1>2. ASSUME NEW t \in SUBSET D, \A x \in t : t \ {x} \in Q PROVE t \in Q
  <2>1. CASE t = {}
    BY <1>1, <2>1
  <2>2. CASE t # {}
    <3>1. PICK x \in t : TRUE
      BY <2>2
    <3>2. IsFiniteSet(t) /\ \A y \in t : f[y] \in Nat
      BY FS_Subset
    <3>3. R!SumOf(f, t) = f[x] + R!SumOf(f, t \ {x})
      BY <3>2, SumElement
    <3>4. R!SumOf(f, t \ {x}) = 0 /\ f[x] = 0
      BY <1>2, <3>1
    <3>5. QED
      BY <3>3, <3>4
  <2>3. QED
    BY <2>1, <2>2
<1>3. Q \subseteq SUBSET D
  OBVIOUS
<1>4. \A t \in SUBSET D : t \in Q
  <2> HIDE DEF Q
  <2>1. QED
    BY <1>1, <1>2, <1>3, BySize
<1>5. QED
  BY <1>4

\* Summing up by groups: h has the sum of f over each of the groups that g makes.
GroupSum(f, g, D, u) == R!SumOf(f, {x \in D : g[x] = u})

LEMMA SumOfGroups ==
    ASSUME NEW f, NEW g, NEW h, NEW D, NEW K, IsFiniteSet(D), IsFiniteSet(K),
           \A x \in D : f[x] \in Nat,
           \A u \in K : h[u] = GroupSum(f, g, D, u)
    PROVE  R!SumOf(h, K) = R!SumOf(f, {x \in D : g[x] \in K})
<1> DEFINE In(t) == {x \in D : g[x] \in t}
           Q == {t \in SUBSET K : R!SumOf(h, t) = R!SumOf(f, In(t))}
<1>1. \A u \in K : h[u] \in Nat
  <2> SUFFICES ASSUME NEW u \in K PROVE h[u] \in Nat
    OBVIOUS
  <2>1. IsFiniteSet({x \in D : g[x] = u})
    BY FS_Subset
  <2>2. R!SumOf(f, {x \in D : g[x] = u}) \in Nat
    BY <2>1, SumType
  <2>3. QED
    BY <2>2 DEF GroupSum
<1>2. {} \in Q
  <2>1. In({}) = {}
    OBVIOUS
  <2>2. QED
    BY <2>1, SumEmpty
<1>3. ASSUME NEW t \in SUBSET K, \A u \in t : t \ {u} \in Q PROVE t \in Q
  <2>1. CASE t = {}
    BY <1>2, <2>1
  <2>2. CASE t # {}
    <3>1. PICK u \in t : TRUE
      BY <2>2
    <3>2. IsFiniteSet(t) /\ \A v \in t : h[v] \in Nat
      BY <1>1, FS_Subset
    <3>3. R!SumOf(h, t) = h[u] + R!SumOf(h, t \ {u})
      <4> HIDE DEF In, Q
      <4>1. QED
        BY <3>1, <3>2, SumElement
    <3>4. R!SumOf(h, t \ {u}) = R!SumOf(f, In(t \ {u}))
      BY <1>3, <3>1
    <3>5. In({u}) \subseteq In(t) /\ In(t) \ In({u}) = In(t \ {u}) /\ In(t) \subseteq D
      BY <3>1
    <3>6. h[u] = R!SumOf(f, In({u}))
      <4>1. In({u}) = {x \in D : g[x] = u}
        OBVIOUS
      <4>2. QED
        BY <4>1 DEF GroupSum
    <3>7. R!SumOf(f, In(t)) = R!SumOf(f, In({u})) + R!SumOf(f, In(t \ {u}))
      <4> HIDE DEF In
      <4>1. IsFiniteSet(In(t)) /\ \A x \in In(t) : f[x] \in Nat
        BY <3>5, FS_Subset
      <4>2. R!SumOf(f, In(t)) = R!SumOf(f, In({u})) + R!SumOf(f, In(t) \ In({u}))
        <5> DEFINE a == In(t)
                   b == In({u})
        <5>1. b \in SUBSET a /\ IsFiniteSet(a) /\ \A x \in a : f[x] \in Nat
          BY <3>5, <4>1
        <5> HIDE DEF a, b
        <5>2. R!SumOf(f, a) = R!SumOf(f, b) + R!SumOf(f, a \ b)
          BY <5>1, SumSplit
        <5>3. QED
          BY <5>2 DEF a, b
      <4>3. QED
        BY <3>5, <4>2
    <3>8. R!SumOf(h, t) = R!SumOf(f, In(t))
      <4> HIDE DEF In
      <4>1. QED
        BY <3>3, <3>4, <3>6, <3>7
    <3>9. QED
      BY <3>8
  <2>3. QED
    BY <2>1, <2>2
<1>4. Q \subseteq SUBSET K
  OBVIOUS
<1>5. \A t \in SUBSET K : t \in Q
  <2> HIDE DEF Q
  <2>1. QED
    BY <1>2, <1>3, <1>4, BySize
<1>6. QED
  BY <1>5

-------------------------------------------------------------------------------
(* The rate limiter: instants and seconds *)

LEMMA Quotient ==
    ASSUME NEW k \in Nat \ {0}, NEW t \in Nat
    PROVE  t \div k \in Nat /\ k * (t \div k) <= t /\ t < k * (t \div k) + k
OBVIOUS

\* Numbers that are w times k apart have quotients that are w apart.
LEMMA QuotientsApart ==
    ASSUME NEW k \in Nat \ {0}, NEW t \in Nat, NEW u \in Nat, NEW w \in Nat, t + w * k <= u
    PROVE  (t \div k) + w <= u \div k
<1> DEFINE q == t \div k
           p == u \div k
<1>1. q \in Nat /\ k * q <= t
  BY Quotient
<1>2. p \in Nat /\ u < k * p + k
  BY Quotient
<1> HIDE DEF q, p
<1> SUFFICES ASSUME p < q + w PROVE FALSE
  BY <1>1, <1>2 DEF q, p
<1> DEFINE d == q + w - (p + 1)
<1>3. d \in Nat /\ q + w = p + 1 + d
  BY <1>1, <1>2
<1> HIDE DEF d
<1>4. k * q + w * k = k * (p + 1 + d)
  <2>1. k * (q + w) = k * q + w * k
    BY <1>1
  <2>2. QED
    BY <1>3, <2>1
<1>5. k * (p + 1 + d) = k * p + k + k * d
  BY <1>2, <1>3
<1>6. k * q \in Nat /\ w * k \in Nat /\ k * p \in Nat /\ k * d \in Nat
  BY <1>1, <1>2, <1>3
<1>7. QED
  BY <1>1, <1>2, <1>4, <1>5, <1>6

LEMMA SecondsFollow ==
    ASSUME NEW t \in Nat, NEW u \in Nat, NEW w \in Nat, t + w * RTicksPerSecond <= u
    PROVE  R!Second(t) + w <= R!Second(u)
BY QuotientsApart, ServicesAssumption DEF R!Second

LEMMA SecondsInOrder ==
    ASSUME NEW t \in Nat, NEW u \in Nat, t <= u
    PROVE  R!Second(t) \in Nat /\ R!Second(t) <= R!Second(u)
<1>1. t + 0 * RTicksPerSecond <= u
  BY ServicesAssumption
<1>2. R!Second(t) + 0 <= R!Second(u)
  BY <1>1, SecondsFollow
<1>3. R!Second(t) \in Nat /\ R!Second(u) \in Nat
  BY Quotient, ServicesAssumption DEF R!Second
<1>4. QED
  BY <1>2, <1>3

LEMMA SecondsType ==
    /\ IsFiniteSet(R!Ticks) /\ R!Ticks \subseteq Nat
    /\ IsFiniteSet(R!Seconds) /\ R!Seconds \subseteq Nat
    /\ \A t \in R!Ticks : R!Second(t) \in R!Seconds
<1>1. R!Ticks = 0 .. RMaxTime /\ RMaxTime \in Nat
  BY ServicesAssumption DEF R!Ticks
<1>2. IsFiniteSet(R!Ticks) /\ R!Ticks \subseteq Nat
  BY <1>1, FS_Interval
<1>3. \A t \in R!Ticks : R!Second(t) \in 0 .. R!Second(RMaxTime)
  <2> SUFFICES ASSUME NEW t \in R!Ticks PROVE R!Second(t) \in 0 .. R!Second(RMaxTime)
    OBVIOUS
  <2>1. t \in Nat /\ t <= RMaxTime
    BY <1>1
  <2>2. R!Second(t) \in Nat /\ R!Second(t) <= R!Second(RMaxTime) /\ R!Second(RMaxTime) \in Nat
    BY <1>1, <2>1, SecondsInOrder
  <2>3. QED
    BY <2>2
<1>4. R!Seconds \subseteq 0 .. R!Second(RMaxTime)
  BY <1>3 DEF R!Seconds
<1>5. IsFiniteSet(0 .. R!Second(RMaxTime))
  <2>1. R!Second(RMaxTime) \in Nat
    BY <1>1, SecondsInOrder
  <2>2. QED
    BY <2>1, FS_Interval
<1>6. IsFiniteSet(R!Seconds)
  BY <1>4, <1>5, FS_Subset, Zenon
<1>7. R!Seconds \subseteq Nat
  <2>1. R!Second(RMaxTime) \in Nat
    BY <1>1, SecondsInOrder
  <2>2. QED
    BY <1>4, <2>1
<1>8. QED
  BY <1>2, <1>6, <1>7 DEF R!Seconds

LEMMA RuleType ==
    ASSUME NEW i \in R!RuleSet
    PROVE  RRules[i].window \in Nat /\ RRules[i].maxRequests \in Nat
BY ServicesAssumption DEF R!RuleSet

\* The first of some rules is one of them.
LEMMA FirstRule ==
    ASSUME NEW full \in SUBSET R!RuleSet, full # {}
    PROVE  R!Min(full) \in full
<1>1. full \subseteq Nat
  BY ServicesAssumption DEF R!RuleSet
<1>2. PICK m \in full : \A k \in full : ~(<<k, m>> \in OpToRel(<, Nat))
  BY <1>1, WFMin, NatLessThanWellFounded, Zenon
<1>3. \A k \in full : ~(k < m)
  BY <1>1, <1>2 DEF OpToRel
<1>4. \A k \in full : m <= k
  BY <1>1, <1>3
<1>5. QED
  BY <1>4 DEF R!Min

-------------------------------------------------------------------------------
(* The rate limiter: types *)

LEMMA RatesInitType == R!Init => R!TypeOK
<1> SUFFICES ASSUME R!Init PROVE R!TypeOK
  OBVIOUS
<1>1. 0 \in R!Ticks
  BY ServicesAssumption DEF R!Ticks
<1>2. QED
  BY <1>1 DEF R!Init, R!TypeOK, R!NoScores

LEMMA TrimmedType ==
    ASSUME R!TypeOK, NEW i \in R!RuleSet
    PROVE  R!Trimmed(i) \in [R!Seconds -> Nat]
BY DEF R!TypeOK, R!Trimmed

LEMMA ClockType ==
    ASSUME R!TypeOK
    PROVE  /\ r_clock \in R!Ticks /\ r_clock \in Nat
           /\ R!Second(r_clock) \in R!Seconds /\ R!Second(r_clock) \in Nat
BY SecondsType DEF R!TypeOK

LEMMA RatesNextType == R!TypeOK /\ [R!Next]_(R!vars) => R!TypeOK'
<1> SUFFICES ASSUME R!TypeOK, [R!Next]_(R!vars) PROVE R!TypeOK'
  OBVIOUS
<1>1. ASSUME NEW path \in R!Paths, R!Limit(path) PROVE R!TypeOK'
  <2>1. \A i \in R!RuleSet : R!Trimmed(i) \in [R!Seconds -> Nat]
    BY TrimmedType
  <2>2. r_zset' \in [R!RuleSet -> [R!Seconds -> Nat]]
    BY <1>1, <2>1 DEF R!Limit, R!ZAddWhenLimited, R!TypeOK
  <2>3. r_limited' \subseteq R!RuleSet
    <3>1. R!Full(path) \in SUBSET R!RuleSet /\ R!Full(path) # {}
      BY <1>1 DEF R!Limit, R!Full, R!Applicable
    <3>2. R!Min(R!Full(path)) \in R!Full(path)
      BY <3>1, FirstRule
    <3>3. QED
      BY <1>1, <3>1, <3>2 DEF R!Limit
  <2>4. UNCHANGED <<r_clock, r_expires, r_passed>>
    BY <1>1 DEF R!Limit
  <2>5. QED
    BY <2>2, <2>3, <2>4 DEF R!TypeOK
<1>2. ASSUME NEW path \in R!Paths, R!Pass(path) PROVE R!TypeOK'
  <2>1. \A i \in R!RuleSet :
            [R!Trimmed(i) EXCEPT ![R!Second(r_clock)] = @ + 1] \in [R!Seconds -> Nat]
    BY TrimmedType, ClockType
  <2>2. r_zset' \in [R!RuleSet -> [R!Seconds -> Nat]]
    BY <1>2, <2>1 DEF R!Pass, R!TypeOK
  <2>3. \A i \in R!RuleSet : R!Expire(i) \in Nat
    <3> SUFFICES ASSUME NEW i \in R!RuleSet PROVE R!Expire(i) \in Nat
      OBVIOUS
    <3>1. RRules[i].window * RTicksPerSecond \in Nat /\ r_clock \in Nat
      BY RuleType, ClockType, ServicesAssumption
    <3>2. QED
      BY <3>1 DEF R!Expire
  <2>4. r_expires' \in [R!RuleSet -> Nat]
    BY <1>2, <2>3 DEF R!Pass, R!TypeOK
  <2>5. \A i \in R!RuleSet : [r_passed[i] EXCEPT ![r_clock] = @ + 1] \in [R!Ticks -> Nat]
    BY DEF R!TypeOK
  <2>6. r_passed' \in [R!RuleSet -> [R!Ticks -> Nat]]
    BY <1>2, <2>5 DEF R!Pass, R!TypeOK
  <2>7. UNCHANGED r_clock /\ r_limited' = {}
    BY <1>2 DEF R!Pass
  <2>8. QED
    BY <2>2, <2>4, <2>6, <2>7 DEF R!TypeOK
<1>3. ASSUME R!Tick PROVE R!TypeOK'
  <2>1. r_clock' \in R!Ticks
    BY <1>3, ServicesAssumption DEF R!Tick, R!TypeOK, R!Ticks
  <2>2. R!NoScores \in [R!Seconds -> Nat]
    BY DEF R!NoScores
  <2>3. r_zset' \in [R!RuleSet -> [R!Seconds -> Nat]] /\ r_expires' \in [R!RuleSet -> Nat]
    BY <1>3, <2>2 DEF R!Tick, R!TypeOK
  <2>4. UNCHANGED r_passed /\ r_limited' = {}
    BY <1>3 DEF R!Tick
  <2>5. QED
    BY <2>1, <2>3, <2>4 DEF R!TypeOK
<1>4. ASSUME UNCHANGED R!vars PROVE R!TypeOK'
  BY <1>4 DEF R!vars, R!TypeOK
<1>5. QED
  BY <1>1, <1>2, <1>3, <1>4 DEF R!Next

-------------------------------------------------------------------------------
(* The rate limiter: its sets count what has passed *)

SecondOf == [t \in R!Ticks |-> R!Second(t)]

\* The requests that passed a rule in a second.
PassedAt(i, s) == GroupSum(r_passed[i], SecondOf, R!Ticks, s)

\* The seconds that the rule's window does not leave behind.
Live(i, s) == s > R!Second(r_clock) - RRules[i].window

\* Nothing has passed at an instant to come.
NothingYet ==
    \A i \in R!RuleSet, t \in R!Ticks : t > r_clock => r_passed[i][t] = 0

\* For the seconds of the window, the set has as many members as requests have passed.
SetsAreLive ==
    \A i \in R!RuleSet, s \in R!Seconds : Live(i, s) => r_zset[i][s] = PassedAt(i, s)

\* A key expires when the window of each request that passed is over.
KeysOutlive ==
    \A i \in R!RuleSet, t \in R!Ticks : r_passed[i][t] # 0 =>
        t + RRules[i].window * RTicksPerSecond
            <= IF r_expires[i] = 0 THEN r_clock ELSE r_expires[i]

RatesInv ==
    /\ NothingYet /\ SetsAreLive /\ KeysOutlive
    /\ R!NeverMoreThanMax /\ R!OnlyExcessIsLimited

\* The instants of the window that ends with second s.
Window(i, s) ==
    {t \in R!Ticks : R!Second(t) > s - RRules[i].window /\ R!Second(t) <= s}

LEMMA PassedInIs ==
    ASSUME NEW i, NEW s
    PROVE  R!PassedIn(i, s) = R!SumOf(r_passed[i], Window(i, s))
BY DEF R!PassedIn, Window

LEMMA WindowType ==
    ASSUME NEW i \in R!RuleSet, NEW s \in Nat
    PROVE  IsFiniteSet(Window(i, s)) /\ Window(i, s) \subseteq R!Ticks
<1>1. Window(i, s) \subseteq R!Ticks
  BY DEF Window
<1>2. QED
  BY <1>1, SecondsType, FS_Subset

LEMMA PassedType ==
    ASSUME R!TypeOK, NEW i \in R!RuleSet
    PROVE  \A t \in R!Ticks : r_passed[i][t] \in Nat
BY DEF R!TypeOK

\* An instant of a later second is to come.
LEMMA LaterIsToCome ==
    ASSUME R!TypeOK, NothingYet, NEW i \in R!RuleSet, NEW t \in R!Ticks,
           R!Second(t) > R!Second(r_clock)
    PROVE  r_passed[i][t] = 0
<1>1. t \in Nat /\ r_clock \in Nat
  BY ClockType, SecondsType
<1>2. CASE t <= r_clock
  <2>1. R!Second(t) \in Nat /\ R!Second(t) <= R!Second(r_clock) /\ R!Second(r_clock) \in Nat
    BY <1>1, <1>2, SecondsInOrder, ClockType
  <2>2. QED
    BY <2>1
<1>3. CASE t > r_clock
  BY <1>3 DEF NothingYet
<1>4. QED
  BY <1>1, <1>2, <1>3

\* What the script counts is what passed in the window that ends now.
LEMMA TrimmedSum ==
    ASSUME R!TypeOK, NothingYet, SetsAreLive, NEW i \in R!RuleSet
    PROVE  R!SumOf(R!Trimmed(i), R!Seconds) = R!PassedIn(i, R!Second(r_clock))
<1> DEFINE current == R!Second(r_clock)
           w == RRules[i].window
           live == {s \in R!Seconds : s > current - w}
           h == R!Trimmed(i)
           p == r_passed[i]
           past == Window(i, current)
           inLive == {t \in R!Ticks : SecondOf[t] \in live}
<1>1. current \in Nat /\ w \in Nat
  BY ClockType, RuleType
<1>2. /\ \A s \in live : h[s] = PassedAt(i, s)
      /\ \A s \in R!Seconds \ live : h[s] = 0
  <2>1. \A s \in R!Seconds : h[s] = IF s <= current - w THEN 0 ELSE r_zset[i][s]
    BY DEF R!Trimmed
  <2>2. \A s \in R!Seconds : s \in Nat
    BY SecondsType
  <2>3. \A s \in live : r_zset[i][s] = PassedAt(i, s)
    BY DEF SetsAreLive, Live
  <2>4. QED
    BY <1>1, <2>1, <2>2, <2>3
<1>3. \A s \in R!Seconds : h[s] \in Nat
  BY TrimmedType
<1>4. IsFiniteSet(live) /\ IsFiniteSet(R!Seconds \ live) /\ IsFiniteSet(R!Ticks)
      /\ IsFiniteSet(R!Seconds) /\ live \in SUBSET R!Seconds
  BY SecondsType, FS_Subset
<1>5. \A t \in R!Ticks : p[t] \in Nat
  BY PassedType
<1>6. R!SumOf(h, R!Seconds) = R!SumOf(h, live) + R!SumOf(h, R!Seconds \ live)
  <2> HIDE DEF h, live
  <2>1. QED
    BY <1>3, <1>4, SumSplit
<1>7. R!SumOf(h, R!Seconds \ live) = 0
  <2> HIDE DEF h, live
  <2>1. QED
    BY <1>2, <1>4, SumOfZeros
<1>8. R!SumOf(h, live) = R!SumOf(p, inLive)
  <2> HIDE DEF h, live, p
  <2>1. \A s \in live : h[s] = GroupSum(p, SecondOf, R!Ticks, s)
    BY <1>2 DEF PassedAt, p
  <2>2. QED
    BY <1>4, <1>5, <2>1, SumOfGroups
<1>9. past \in SUBSET inLive /\ IsFiniteSet(inLive) /\ inLive \subseteq R!Ticks
  <2>1. inLive \subseteq R!Ticks
    OBVIOUS
  <2>2. IsFiniteSet(inLive)
    BY <2>1, SecondsType, FS_Subset
  <2>3. \A t \in past : t \in R!Ticks /\ SecondOf[t] \in live
    BY SecondsType DEF Window, SecondOf
  <2>4. QED
    BY <2>1, <2>2, <2>3
<1>10. R!SumOf(p, inLive) = R!SumOf(p, past) + R!SumOf(p, inLive \ past)
  <2>1. \A t \in inLive : p[t] \in Nat
    BY <1>5, <1>9
  <2> HIDE DEF p, inLive, past
  <2>2. QED
    BY <1>9, <2>1, SumSplit
<1>11. R!SumOf(p, inLive \ past) = 0
  <2>1. \A t \in inLive \ past : p[t] = 0
    <3> SUFFICES ASSUME NEW t \in inLive \ past PROVE p[t] = 0
      OBVIOUS
    <3>1. t \in R!Ticks /\ SecondOf[t] = R!Second(t) /\ R!Second(t) \in Nat
      BY SecondsType DEF SecondOf
    <3>2. R!Second(t) > current
      BY <1>1, <3>1 DEF Window
    <3>3. QED
      BY <3>1, <3>2, LaterIsToCome
  <2>2. IsFiniteSet(inLive \ past)
    BY <1>9, FS_Subset
  <2> HIDE DEF p, inLive, past
  <2>3. QED
    BY <2>1, <2>2, SumOfZeros
<1>12. R!SumOf(p, past) \in Nat
  <2>1. IsFiniteSet(past) /\ \A t \in past : p[t] \in Nat
    BY <1>1, <1>5, WindowType
  <2> HIDE DEF p, past
  <2>2. QED
    BY <2>1, SumType
<1>13. R!SumOf(h, R!Seconds) = R!SumOf(p, past)
  <2> HIDE DEF h, p, past, live, inLive
  <2>1. QED
    BY <1>6, <1>7, <1>8, <1>10, <1>11, <1>12
<1>14. QED
  BY <1>13, PassedInIs

\* No window has more than the one that ends now if it goes beyond.
LEMMA WindowBeyond ==
    ASSUME R!TypeOK, NothingYet, NEW i \in R!RuleSet, NEW s \in R!Seconds,
           s >= R!Second(r_clock)
    PROVE  R!PassedIn(i, s) <= R!PassedIn(i, R!Second(r_clock))
<1> DEFINE current == R!Second(r_clock)
           a == Window(i, s)
           b == Window(i, s) \intersect Window(i, current)
           c == Window(i, current)
           p == r_passed[i]
<1>1. current \in Nat /\ s \in Nat /\ RRules[i].window \in Nat
  BY ClockType, SecondsType, RuleType
<1>2. IsFiniteSet(a) /\ IsFiniteSet(c) /\ a \subseteq R!Ticks /\ c \subseteq R!Ticks
  BY <1>1, WindowType
<1>3. b \in SUBSET a /\ b \in SUBSET c /\ IsFiniteSet(a \ b) /\ IsFiniteSet(b)
  BY <1>2, FS_Subset
<1>4. \A t \in R!Ticks : p[t] \in Nat
  BY PassedType
<1>5. \A t \in a \ b : p[t] = 0
  <2> SUFFICES ASSUME NEW t \in a \ b PROVE p[t] = 0
    OBVIOUS
  <2>1. t \in R!Ticks /\ R!Second(t) \in Nat
    BY <1>2, SecondsType
  <2>2. R!Second(t) > current
    BY <1>1, <2>1 DEF Window
  <2>3. QED
    BY <2>1, <2>2, LaterIsToCome
<1>6. R!PassedIn(i, s) = R!SumOf(p, a) /\ R!PassedIn(i, current) = R!SumOf(p, c)
  BY PassedInIs
<1> HIDE DEF a, b, c, p
<1>7. R!SumOf(p, a) = R!SumOf(p, b) + R!SumOf(p, a \ b)
  BY <1>2, <1>3, <1>4, SumSplit
<1>8. R!SumOf(p, a \ b) = 0
  BY <1>3, <1>5, SumOfZeros
<1>9. R!SumOf(p, b) \in Nat
  BY <1>2, <1>3, <1>4, SumType
<1>10. R!SumOf(p, c) \in Nat
  BY <1>2, <1>4, SumType
<1>11. R!SumOf(p, b) <= R!SumOf(p, c)
  BY <1>2, <1>3, <1>4, SumOfMore
<1>12. QED
  BY <1>6, <1>7, <1>8, <1>9, <1>10, <1>11

\* One more request has passed at this instant.
LEMMA PassedMore ==
    ASSUME R!TypeOK, NEW i \in R!RuleSet, NEW a \in SUBSET R!Ticks,
           r_passed'[i] = [r_passed[i] EXCEPT ![r_clock] = @ + 1]
    PROVE  R!SumOf(r_passed'[i], a) =
               IF r_clock \in a THEN R!SumOf(r_passed[i], a) + 1 ELSE R!SumOf(r_passed[i], a)
<1> DEFINE p == r_passed[i]
           q == r_passed'[i]
<1>1. IsFiniteSet(a)
  BY SecondsType, FS_Subset
<1>2. r_clock \in R!Ticks /\ p \in [R!Ticks -> Nat]
  BY DEF R!TypeOK
<1>3. q[r_clock] = p[r_clock] + 1 /\ \A t \in R!Ticks : t # r_clock => q[t] = p[t]
  BY <1>2
<1> HIDE DEF p, q
<1>4. CASE r_clock \in a
  <2>1. (\A t \in a : p[t] \in Nat) /\ \A t \in a : t # r_clock => q[t] = p[t]
    BY <1>2, <1>3
  <2>2. R!SumOf(q, a) = R!SumOf(p, a) + 1
    BY <1>1, <1>3, <1>4, <2>1, SumRaised
  <2>3. QED
    BY <1>4, <2>2 DEF p, q
<1>5. CASE r_clock \notin a
  <2>1. \A t \in a : q[t] = p[t]
    BY <1>3, <1>5
  <2>2. R!SumOf(q, a) = R!SumOf(p, a)
    BY <1>1, <2>1, SumSame
  <2>3. QED
    BY <1>5, <2>2 DEF p, q
<1>6. QED
  BY <1>4, <1>5

\* A rule that has room counts the request: its set, its key and its windows.
LEMMA RuleCounts ==
    ASSUME R!TypeOK, RatesInv, NEW i \in R!RuleSet, ~R!IsFull(i), UNCHANGED r_clock,
           r_zset'[i] = [R!Trimmed(i) EXCEPT ![R!Second(r_clock)] = @ + 1],
           r_expires'[i] = R!Expire(i),
           r_passed'[i] = [r_passed[i] EXCEPT ![r_clock] = @ + 1]
    PROVE  /\ \A t \in R!Ticks : t > r_clock => r_passed'[i][t] = 0
           /\ \A s \in R!Seconds : Live(i, s) => r_zset'[i][s] = PassedAt(i, s)'
           /\ \A t \in R!Ticks : r_passed'[i][t] # 0 =>
                  t + RRules[i].window * RTicksPerSecond
                      <= IF r_expires'[i] = 0 THEN r_clock ELSE r_expires'[i]
           /\ \A s \in R!Seconds : R!PassedIn(i, s)' <= RRules[i].maxRequests
<1> DEFINE current == R!Second(r_clock)
           w == RRules[i].window
<1>1. current \in R!Seconds /\ current \in Nat /\ w \in Nat /\ r_clock \in Nat
      /\ r_clock \in R!Ticks
  BY ClockType, RuleType
<1>2. r_passed[i] \in [R!Ticks -> Nat]
  BY DEF R!TypeOK
<1>3. \A t \in R!Ticks : t > r_clock => r_passed'[i][t] = 0
  BY <1>1, <1>2 DEF RatesInv, NothingYet
<1>4. ASSUME NEW s \in R!Seconds, Live(i, s) PROVE r_zset'[i][s] = PassedAt(i, s)'
  <2> DEFINE group == {t \in R!Ticks : SecondOf[t] = s}
  <2>1. r_zset[i][s] = PassedAt(i, s)
    BY <1>4 DEF RatesInv, SetsAreLive
  <2>2. PassedAt(i, s) = R!SumOf(r_passed[i], group) /\ PassedAt(i, s)' = R!SumOf(r_passed'[i], group)
    BY DEF PassedAt, GroupSum
  <2>3. r_clock \in group <=> current = s
    BY <1>1 DEF SecondOf
  <2>4. group \in SUBSET R!Ticks
    OBVIOUS
  <2> HIDE DEF group
  <2>5. R!SumOf(r_passed'[i], group) =
            IF r_clock \in group THEN R!SumOf(r_passed[i], group) + 1
                                 ELSE R!SumOf(r_passed[i], group)
    BY <2>4, PassedMore
  <2>6. R!Trimmed(i)[s] = r_zset[i][s] /\ s \in Nat
    <3>1. ~(s <= current - w) /\ s \in Nat
      BY <1>1, <1>4, SecondsType DEF Live
    <3>2. QED
      BY <3>1 DEF R!Trimmed
  <2>7. r_zset'[i][s] = IF s = current THEN r_zset[i][s] + 1 ELSE r_zset[i][s]
    BY <1>1, <2>6, TrimmedType
  <2>8. QED
    BY <2>1, <2>2, <2>3, <2>5, <2>7
<1>5. ASSUME NEW t \in R!Ticks, r_passed'[i][t] # 0
      PROVE  t + w * RTicksPerSecond <= IF r_expires'[i] = 0 THEN r_clock ELSE r_expires'[i]
  <2>1. t \in Nat /\ t <= r_clock /\ w * RTicksPerSecond \in Nat
    BY <1>1, <1>3, <1>5, SecondsType, ServicesAssumption
  <2>2. r_expires'[i] = r_clock + w * RTicksPerSecond
    BY DEF R!Expire
  <2>3. QED
    BY <1>1, <2>1, <2>2
<1>6. ASSUME NEW s \in R!Seconds PROVE R!PassedIn(i, s)' <= RRules[i].maxRequests
  <2> DEFINE a == Window(i, s)
  <2>1. s \in Nat /\ a \in SUBSET R!Ticks /\ IsFiniteSet(a)
    BY SecondsType, WindowType
  <2>2. R!PassedIn(i, s) = R!SumOf(r_passed[i], a) /\ R!PassedIn(i, s)' = R!SumOf(r_passed'[i], a)
    BY DEF R!PassedIn, Window
  <2>3. R!PassedIn(i, s) <= RRules[i].maxRequests /\ RRules[i].maxRequests \in Nat
    BY RuleType DEF RatesInv, R!NeverMoreThanMax
  <2>4. r_clock \in a => s >= current
    BY <1>1, <2>1 DEF Window
  <2> HIDE DEF a
  <2>5. R!SumOf(r_passed'[i], a) = IF r_clock \in a THEN R!SumOf(r_passed[i], a) + 1
                                   ELSE R!SumOf(r_passed[i], a)
    BY <2>1, PassedMore
  <2>6. R!SumOf(r_passed[i], a) \in Nat
    BY <1>2, <2>1, SumType
  <2>7. CASE r_clock \in a
    <3>1. R!PassedIn(i, s) <= R!PassedIn(i, current)
      BY <2>4, <2>7, WindowBeyond DEF RatesInv
    <3>2. R!PassedIn(i, current) = R!SumOf(R!Trimmed(i), R!Seconds)
      BY TrimmedSum DEF RatesInv
    <3>3. ~(R!PassedIn(i, current) >= RRules[i].maxRequests)
      BY <3>2 DEF R!IsFull
    <3>4. R!PassedIn(i, current) \in Nat
      <4>1. R!Trimmed(i) \in [R!Seconds -> Nat]
        BY TrimmedType
      <4>2. R!SumOf(R!Trimmed(i), R!Seconds) \in Nat
        BY <4>1, SecondsType, SumType
      <4>3. QED
        BY <3>2, <4>2
    <3>5. QED
      BY <2>2, <2>3, <2>5, <2>6, <2>7, <3>1, <3>3, <3>4
  <2>8. CASE r_clock \notin a
    BY <2>2, <2>3, <2>5, <2>8
  <2>9. QED
    BY <2>7, <2>8
<1>7. QED
  BY <1>3, <1>4, <1>5, <1>6

LEMMA RatesNextInv == R!TypeOK /\ RatesInv /\ [R!Next]_(R!vars) => RatesInv'
<1> SUFFICES ASSUME R!TypeOK, RatesInv, [R!Next]_(R!vars) PROVE RatesInv'
  OBVIOUS
<1>1. ASSUME NEW path \in R!Paths, R!Limit(path) PROVE RatesInv'
  <2>1. UNCHANGED <<r_clock, r_expires, r_passed>>
    BY <1>1 DEF R!Limit
  <2>2. NothingYet' /\ KeysOutlive' /\ R!NeverMoreThanMax'
    BY <2>1 DEF RatesInv, NothingYet, KeysOutlive, R!NeverMoreThanMax, R!PassedIn
  <2>3. SetsAreLive'
    <3> SUFFICES ASSUME NEW i \in R!RuleSet, NEW s \in R!Seconds, Live(i, s)'
                 PROVE  r_zset'[i][s] = PassedAt(i, s)'
      BY DEF SetsAreLive
    <3>1. Live(i, s) /\ PassedAt(i, s)' = PassedAt(i, s)
      BY <2>1 DEF Live, PassedAt
    <3>2. r_zset[i][s] = PassedAt(i, s)
      BY <3>1 DEF RatesInv, SetsAreLive
    <3>3. R!Trimmed(i)[s] = r_zset[i][s]
      <4>1. ~(s <= R!Second(r_clock) - RRules[i].window)
        BY <3>1, ClockType, SecondsType, RuleType DEF Live
      <4>2. QED
        BY <4>1 DEF R!Trimmed
    <3>4. r_zset'[i] \in {R!Trimmed(i), r_zset[i]}
      BY <1>1 DEF R!Limit, R!ZAddWhenLimited
    <3>5. QED
      BY <3>1, <3>2, <3>3, <3>4
  <2>4. R!OnlyExcessIsLimited'
    <3> SUFFICES ASSUME NEW i \in r_limited'
                 PROVE  R!PassedIn(i, R!Second(r_clock))' >= RRules[i].maxRequests
      BY DEF R!OnlyExcessIsLimited
    <3>1. R!Full(path) \in SUBSET R!RuleSet /\ R!Full(path) # {}
      BY <1>1 DEF R!Limit, R!Full, R!Applicable
    <3>2. i \in R!Full(path) /\ i \in R!RuleSet
      BY <1>1, <3>1, FirstRule DEF R!Limit
    <3>3. R!SumOf(R!Trimmed(i), R!Seconds) >= RRules[i].maxRequests
      BY <3>2 DEF R!Full, R!IsFull
    <3>4. R!SumOf(R!Trimmed(i), R!Seconds) = R!PassedIn(i, R!Second(r_clock))
      BY <3>2, TrimmedSum DEF RatesInv
    <3>5. R!PassedIn(i, R!Second(r_clock))' = R!PassedIn(i, R!Second(r_clock))
      BY <2>1 DEF R!PassedIn
    <3>6. QED
      BY <3>3, <3>4, <3>5
  <2>5. QED
    BY <2>2, <2>3, <2>4 DEF RatesInv
<1>2. ASSUME NEW path \in R!Paths, R!Pass(path) PROVE RatesInv'
  <2>1. UNCHANGED r_clock /\ r_limited' = {}
    BY <1>2 DEF R!Pass
  <2>2. ASSUME NEW i \in R!RuleSet, i \notin R!Applicable(path)
        PROVE  /\ r_zset'[i] = r_zset[i] /\ r_expires'[i] = r_expires[i]
               /\ r_passed'[i] = r_passed[i]
    BY <1>2, <2>2 DEF R!Pass
  <2>3. ASSUME NEW i \in R!RuleSet, i \in R!Applicable(path)
        PROVE  /\ ~R!IsFull(i)
               /\ r_zset'[i] = [R!Trimmed(i) EXCEPT ![R!Second(r_clock)] = @ + 1]
               /\ r_expires'[i] = R!Expire(i)
               /\ r_passed'[i] = [r_passed[i] EXCEPT ![r_clock] = @ + 1]
    BY <1>2, <2>3 DEF R!Pass, R!Full
  <2>4. ASSUME NEW i \in R!RuleSet
        PROVE  /\ \A t \in R!Ticks : t > r_clock => r_passed'[i][t] = 0
               /\ \A s \in R!Seconds : Live(i, s) => r_zset'[i][s] = PassedAt(i, s)'
               /\ \A t \in R!Ticks : r_passed'[i][t] # 0 =>
                      t + RRules[i].window * RTicksPerSecond
                          <= IF r_expires'[i] = 0 THEN r_clock ELSE r_expires'[i]
               /\ \A s \in R!Seconds : R!PassedIn(i, s)' <= RRules[i].maxRequests
    <3>1. CASE i \in R!Applicable(path)
      BY <2>1, <2>3, <3>1, RuleCounts
    <3>2. CASE i \notin R!Applicable(path)
      <4>1. /\ r_zset'[i] = r_zset[i] /\ r_expires'[i] = r_expires[i]
            /\ r_passed'[i] = r_passed[i]
        BY <2>2, <3>2
      <4>2. \A s : PassedAt(i, s)' = PassedAt(i, s) /\ R!PassedIn(i, s)' = R!PassedIn(i, s)
        BY <4>1 DEF PassedAt, R!PassedIn
      <4>3. QED
        BY <4>1, <4>2 DEF RatesInv, NothingYet, SetsAreLive, KeysOutlive, R!NeverMoreThanMax
    <3>3. QED
      BY <3>1, <3>2
  <2>5. \A i, s : Live(i, s)' <=> Live(i, s)
    BY <2>1 DEF Live
  <2>6. NothingYet' /\ SetsAreLive' /\ KeysOutlive'
    BY <2>1, <2>4, <2>5 DEF NothingYet, SetsAreLive, KeysOutlive
  <2>7. R!NeverMoreThanMax' /\ R!OnlyExcessIsLimited'
    BY <2>1, <2>4 DEF R!NeverMoreThanMax, R!OnlyExcessIsLimited
  <2>8. QED
    BY <2>6, <2>7 DEF RatesInv
<1>3. ASSUME R!Tick PROVE RatesInv'
  <2>1. r_clock \in Nat /\ r_clock' = r_clock + 1 /\ UNCHANGED r_passed /\ r_limited' = {}
        /\ R!Second(r_clock) \in Nat
    BY <1>3, ClockType DEF R!Tick
  <2>2. R!Second(r_clock') \in Nat /\ R!Second(r_clock) <= R!Second(r_clock')
    BY <2>1, SecondsInOrder
  <2>3. NothingYet'
    <3>1. \A t \in R!Ticks : t > r_clock + 1 => t > r_clock
      BY <2>1, SecondsType
    <3>2. QED
      BY <2>1, <3>1 DEF RatesInv, NothingYet
  <2>4. R!NeverMoreThanMax' /\ R!OnlyExcessIsLimited'
    BY <2>1 DEF RatesInv, R!NeverMoreThanMax, R!PassedIn, R!OnlyExcessIsLimited
  <2>5. ASSUME NEW i \in R!RuleSet
        PROVE  \/ /\ r_expires[i] \in 1 .. r_clock + 1 /\ r_expires'[i] = 0
                  /\ \A s \in R!Seconds : r_zset'[i][s] = 0
               \/ /\ r_expires[i] \notin 1 .. r_clock + 1 /\ r_expires'[i] = r_expires[i]
                  /\ r_zset'[i] = r_zset[i]
    BY <1>3 DEF R!Tick, R!NoScores
  <2>6. ASSUME NEW i \in R!RuleSet, NEW t \in R!Ticks, r_passed[i][t] # 0
        PROVE  /\ t \in Nat /\ RRules[i].window * RTicksPerSecond \in Nat
               /\ r_expires[i] \in Nat
               /\ t + RRules[i].window * RTicksPerSecond
                      <= IF r_expires[i] = 0 THEN r_clock ELSE r_expires[i]
    <3>1. t \in Nat /\ RRules[i].window * RTicksPerSecond \in Nat /\ r_expires[i] \in Nat
      BY SecondsType, RuleType, ServicesAssumption DEF R!TypeOK
    <3>2. QED
      BY <2>6, <3>1 DEF RatesInv, KeysOutlive
  <2>7. KeysOutlive'
    <3> SUFFICES ASSUME NEW i \in R!RuleSet, NEW t \in R!Ticks, r_passed'[i][t] # 0
                 PROVE  t + RRules[i].window * RTicksPerSecond
                            <= IF r_expires'[i] = 0 THEN r_clock' ELSE r_expires'[i]
      BY DEF KeysOutlive
    <3> DEFINE w == RRules[i].window * RTicksPerSecond
    <3>1. /\ t \in Nat /\ w \in Nat /\ r_expires[i] \in Nat
          /\ t + w <= IF r_expires[i] = 0 THEN r_clock ELSE r_expires[i]
      BY <2>1, <2>6
    <3> HIDE DEF w
    <3>2. t + w <= IF r_expires'[i] = 0 THEN r_clock' ELSE r_expires'[i]
      BY <2>1, <2>5, <3>1
    <3>3. QED
      BY <3>2 DEF w
  <2>8. SetsAreLive'
    <3> SUFFICES ASSUME NEW i \in R!RuleSet, NEW s \in R!Seconds, Live(i, s)'
                 PROVE  r_zset'[i][s] = PassedAt(i, s)'
      BY DEF SetsAreLive
    <3>1. s \in Nat /\ RRules[i].window \in Nat
      BY SecondsType, RuleType
    <3>2. s > R!Second(r_clock') - RRules[i].window
      BY DEF Live
    <3>3. Live(i, s)
      BY <2>1, <2>2, <3>1, <3>2 DEF Live
    <3>4. PassedAt(i, s)' = PassedAt(i, s) /\ r_zset[i][s] = PassedAt(i, s)
      BY <2>1, <3>3 DEF PassedAt, RatesInv, SetsAreLive
    <3>5. CASE r_zset'[i] = r_zset[i]
      BY <3>4, <3>5
    <3>6. CASE r_expires[i] \in 1 .. r_clock + 1 /\ \A u \in R!Seconds : r_zset'[i][u] = 0
      <4> DEFINE group == {t \in R!Ticks : SecondOf[t] = s}
      <4>1. ASSUME NEW t \in group, r_passed[i][t] # 0 PROVE FALSE
        <5> DEFINE w == RRules[i].window
        <5>1. t \in R!Ticks /\ R!Second(t) = s
          BY DEF SecondOf
        <5>2. t \in Nat /\ w * RTicksPerSecond \in Nat /\ t + w * RTicksPerSecond <= r_expires[i]
          BY <2>6, <3>6, <4>1, <5>1
        <5>3. t + w * RTicksPerSecond <= r_clock' /\ r_clock' \in Nat
          BY <2>1, <3>6, <5>2
        <5>4. R!Second(t) + w <= R!Second(r_clock')
          BY <3>1, <5>2, <5>3, SecondsFollow
        <5>5. QED
          BY <2>2, <3>1, <3>2, <5>1, <5>4
      <4>2. IsFiniteSet(group)
        BY SecondsType, FS_Subset
      <4>3. R!SumOf(r_passed[i], group) = 0
        <5> HIDE DEF group
        <5>1. QED
          BY <4>1, <4>2, SumOfZeros
      <4>4. QED
        BY <3>4, <3>6, <4>3 DEF PassedAt, GroupSum
    <3>7. QED
      BY <2>5, <3>5, <3>6
  <2>9. QED
    BY <2>3, <2>4, <2>7, <2>8 DEF RatesInv
<1>4. ASSUME UNCHANGED R!vars PROVE RatesInv'
  <2>1. UNCHANGED <<r_clock, r_zset, r_expires, r_passed, r_limited>>
    BY <1>4 DEF R!vars
  <2>2. NothingYet' /\ SetsAreLive' /\ KeysOutlive'
    BY <2>1 DEF RatesInv, NothingYet, SetsAreLive, KeysOutlive, Live, PassedAt
  <2>3. R!NeverMoreThanMax' /\ R!OnlyExcessIsLimited'
    BY <2>1 DEF RatesInv, R!NeverMoreThanMax, R!OnlyExcessIsLimited, R!PassedIn
  <2>4. QED
    BY <2>2, <2>3 DEF RatesInv
<1>5. QED
  BY <1>1, <1>2, <1>3, <1>4 DEF R!Next

LEMMA RatesInitInv == R!Init => RatesInv
<1> SUFFICES ASSUME R!Init PROVE RatesInv
  OBVIOUS
<1>1. \A i \in R!RuleSet, t \in R!Ticks : r_passed[i][t] = 0
  BY DEF R!Init
<1>2. \A i \in R!RuleSet : \A a \in SUBSET R!Ticks : R!SumOf(r_passed[i], a) = 0
  <2> SUFFICES ASSUME NEW i \in R!RuleSet, NEW a \in SUBSET R!Ticks
               PROVE  R!SumOf(r_passed[i], a) = 0
    OBVIOUS
  <2>1. IsFiniteSet(a) /\ \A t \in a : r_passed[i][t] = 0
    BY <1>1, SecondsType, FS_Subset
  <2>2. QED
    BY <2>1, SumOfZeros
<1>3. NothingYet /\ KeysOutlive
  BY <1>1 DEF NothingYet, KeysOutlive
<1>4. SetsAreLive
  <2> SUFFICES ASSUME NEW i \in R!RuleSet, NEW s \in R!Seconds PROVE r_zset[i][s] = PassedAt(i, s)
    BY DEF SetsAreLive
  <2> DEFINE group == {t \in R!Ticks : SecondOf[t] = s}
  <2>1. group \in SUBSET R!Ticks
    OBVIOUS
  <2>2. PassedAt(i, s) = R!SumOf(r_passed[i], group)
    BY DEF PassedAt, GroupSum
  <2> HIDE DEF group
  <2>3. r_zset[i][s] = 0
    BY DEF R!Init, R!NoScores
  <2>4. QED
    BY <1>2, <2>1, <2>2, <2>3
<1>5. R!NeverMoreThanMax
  <2> SUFFICES ASSUME NEW i \in R!RuleSet, NEW s \in R!Seconds
               PROVE  R!PassedIn(i, s) <= RRules[i].maxRequests
    BY DEF R!NeverMoreThanMax
  <2>1. Window(i, s) \in SUBSET R!Ticks
    BY DEF Window
  <2>2. R!PassedIn(i, s) = 0
    BY <1>2, <2>1, PassedInIs
  <2>3. QED
    BY <2>2, RuleType
<1>6. R!OnlyExcessIsLimited
  BY DEF R!Init, R!OnlyExcessIsLimited
<1>7. QED
  BY <1>3, <1>4, <1>5, <1>6 DEF RatesInv

LEMMA RatesStep == [ServicesNext]_servicesVars => [R!Next]_(R!vars)
BY DEF ServicesNext, servicesVars, Only, r_vars, R!vars

\* No window of whole seconds lets more requests pass a rule than it allows, for any
\* list of rules, however they share paths and whenever their keys expire.
THEOREM RatesAreLimited == ServicesSpec => []NeverMoreThanMax
<1>1. ServicesInit => R!Init
  BY DEF ServicesInit
<1>2. RatesInv => NeverMoreThanMax
  BY DEF RatesInv, NeverMoreThanMax
<1>3. QED
  BY <1>1, <1>2, RatesStep, RatesInitType, RatesNextType, RatesInitInv, RatesNextInv,
     PTL DEF ServicesSpec

\* A rule refuses a request only if it has let its maximum pass within its window.
THEOREM RefusalsAreDue == ServicesSpec => []OnlyExcessIsLimited
<1>1. ServicesInit => R!Init
  BY DEF ServicesInit
<1>2. RatesInv => OnlyExcessIsLimited
  BY DEF RatesInv, OnlyExcessIsLimited
<1>3. QED
  BY <1>1, <1>2, RatesStep, RatesInitType, RatesNextType, RatesInitInv, RatesNextInv,
     PTL DEF ServicesSpec

-------------------------------------------------------------------------------
(* The figures *)

\* Bags and rows with keys of a set.
Bags(K) == UNION {[D -> Nat \ {0}] : D \in SUBSET K}

StatRow(K) ==
    [total: Nat \ {0}, types: S!Counts(S!UserAgentType),
     platformTypes: S!Counts(S!PlatformType), platforms: Bags(K),
     browserTypes: S!Counts(S!BrowserType), browsers: Bags(K),
     countries: Bags(K), referrers: Bags(K), age: S!Age]

StatsInv ==
    /\ \E K : s_rows \in Seq(StatRow(K))
    /\ S!IsABag(s_log)
    /\ \A e \in S!BagToSet(s_log) : e.visit \in SVisits /\ e.row \in DOMAIN s_rows

LEMMA BagIs == ASSUME NEW b, NEW K, b \in Bags(K) PROVE S!IsABag(b)
BY DEF Bags, S!IsABag

LEMMA BagsGrow == ASSUME NEW K, NEW L, K \subseteq L PROVE Bags(K) \subseteq Bags(L)
BY DEF Bags

LEMMA RowsGrow == ASSUME NEW K, NEW L, K \subseteq L PROVE StatRow(K) \subseteq StatRow(L)
<1>1. Bags(K) \subseteq Bags(L)
  BY BagsGrow
<1>2. QED
  BY <1>1 DEF StatRow

LEMMA BagsOfKeys == ASSUME NEW K, NEW T \in SUBSET K PROVE S!SetToBag(T) \in Bags(K)
<1>1. S!SetToBag(T) \in [T -> Nat \ {0}]
  BY DEF S!SetToBag
<1>2. QED
  BY <1>1 DEF Bags

LEMMA BagsJoin ==
    ASSUME NEW K, NEW a \in Bags(K), NEW b \in Bags(K) PROVE S!(+)(a, b) \in Bags(K)
<1>1. PICK D \in SUBSET K : a \in [D -> Nat \ {0}]
  BY DEF Bags
<1>2. PICK F \in SUBSET K : b \in [F -> Nat \ {0}]
  BY DEF Bags
<1>3. S!(+)(a, b) \in [D \union F -> Nat \ {0}]
  BY <1>1, <1>2 DEF S!(+)
<1>4. QED
  BY <1>3 DEF Bags

\* The keys a visit brings.
KeysOfVisit(v) ==
    {v.agent.platform.name, v.country, v.referrer,
     [name |-> v.agent.browser.name, version |-> v.agent.browser.version]}

LEMMA VisitBags ==
    ASSUME NEW K, NEW v, KeysOfVisit(v) \subseteq K
    PROVE  /\ S!Key(v.agent.platform.name) \in Bags(K) /\ S!EmptyBag \in Bags(K)
           /\ S!Key(v.country) \in Bags(K) /\ S!Key(v.referrer) \in Bags(K)
           /\ S!BrowserVersion(v.agent.browser) \in Bags(K)
<1>1. ASSUME NEW n \in K PROVE S!Key(n) \in Bags(K)
  <2>1. {n} \ {S!None} \in SUBSET K
    OBVIOUS
  <2>2. QED
    BY <2>1, BagsOfKeys DEF S!Key
<1>2. S!EmptyBag \in Bags(K)
  <2>1. {} \in SUBSET K
    OBVIOUS
  <2>2. QED
    BY <2>1, BagsOfKeys DEF S!EmptyBag
<1>3. S!BrowserVersion(v.agent.browser) \in Bags(K)
  <2> DEFINE T == {[name |-> b.name, version |-> b.version] :
                       b \in {c \in {v.agent.browser} : c.type # S!None}}
  <2>1. T \in SUBSET K
    BY DEF KeysOfVisit
  <2> HIDE DEF T
  <2>2. S!SetToBag(T) \in Bags(K)
    BY <2>1, BagsOfKeys
  <2>3. QED
    BY <2>2 DEF S!BrowserVersion, T
<1>4. QED
  BY <1>1, <1>2, <1>3 DEF KeysOfVisit

LEMMA CountsOf ==
    ASSUME NEW types, NEW t
    PROVE  /\ S!One(t, types) \in S!Counts(types)
           /\ \A c \in S!Counts(types) : S!Plus(c, t) \in S!Counts(types)
BY DEF S!One, S!Counts, S!Plus

LEMMA InsertType ==
    ASSUME NEW K, NEW v, KeysOfVisit(v) \subseteq K
    PROVE  S!Insert(v) \in StatRow(K) /\ S!Insert(v).total = 1 /\ S!Insert(v).age = 0
<1> DEFINE types == S!One(v.agent.type, S!UserAgentType)
           platformTypes == S!One(v.agent.platform.type, S!PlatformType)
           platforms == IF v.agent.platform.type \in {"Android", "Ios"} THEN S!EmptyBag
                        ELSE S!Key(v.agent.platform.name)
           browserTypes == S!One(v.agent.browser.type, S!BrowserType)
           browsers == S!BrowserVersion(v.agent.browser)
<1>1. /\ types \in S!Counts(S!UserAgentType) /\ platformTypes \in S!Counts(S!PlatformType)
      /\ browserTypes \in S!Counts(S!BrowserType)
  BY CountsOf
<1>2. /\ platforms \in Bags(K) /\ browsers \in Bags(K)
      /\ S!Key(v.country) \in Bags(K) /\ S!Key(v.referrer) \in Bags(K)
  BY VisitBags
<1>3. S!Insert(v) =
          [total |-> 1, types |-> types, platformTypes |-> platformTypes,
           platforms |-> platforms, browserTypes |-> browserTypes, browsers |-> browsers,
           countries |-> S!Key(v.country), referrers |-> S!Key(v.referrer), age |-> 0]
  BY DEF S!Insert
<1> HIDE DEF types, platformTypes, platforms, browserTypes, browsers
<1>4. QED
  BY <1>1, <1>2, <1>3 DEF StatRow, S!Age

LEMMA UpdateType ==
    ASSUME NEW K, NEW v, KeysOfVisit(v) \subseteq K, NEW row \in StatRow(K)
    PROVE  /\ S!Update(row, v) \in StatRow(K)
           /\ S!Update(row, v).total = row.total + 1 /\ S!Update(row, v).age = row.age
<1>1. /\ S!Plus(row.types, v.agent.type) \in S!Counts(S!UserAgentType)
      /\ S!Plus(row.platformTypes, v.agent.platform.type) \in S!Counts(S!PlatformType)
      /\ S!Plus(row.browserTypes, v.agent.browser.type) \in S!Counts(S!BrowserType)
  BY CountsOf DEF StatRow
<1>2. /\ S!(+)(row.platforms, S!Key(v.agent.platform.name)) \in Bags(K)
      /\ S!(+)(row.browsers, S!BrowserVersion(v.agent.browser)) \in Bags(K)
      /\ S!(+)(row.countries, S!Key(v.country)) \in Bags(K)
      /\ S!(+)(row.referrers, S!Key(v.referrer)) \in Bags(K)
  BY VisitBags, BagsJoin DEF StatRow
<1>3. row.total + 1 \in Nat \ {0}
  BY DEF StatRow
<1>4. QED
  BY <1>1, <1>2, <1>3 DEF StatRow, S!Update

LEMMA StatsInit == S!Init => StatsInv
<1> SUFFICES ASSUME S!Init PROVE StatsInv
  OBVIOUS
<1>1. s_rows \in Seq(StatRow({}))
  BY DEF S!Init
<1>2. S!IsABag(s_log) /\ S!BagToSet(s_log) = {}
  BY DEF S!Init, S!EmptyBag, S!SetToBag, S!IsABag, S!BagToSet
<1>3. QED
  BY <1>1, <1>2 DEF StatsInv

\* A visit is logged with the row that took it.
LEMMA LogType ==
    ASSUME StatsInv, NEW v \in SVisits, NEW i, S!Log(v, i), i \in DOMAIN s_rows',
           DOMAIN s_rows \subseteq DOMAIN s_rows'
    PROVE  /\ S!IsABag(s_log)'
           /\ \A e \in S!BagToSet(s_log)' : e.visit \in SVisits /\ e.row \in DOMAIN s_rows'
           /\ s_log' # s_log
<1> DEFINE entry == [visit |-> v, row |-> i]
<1>1. entry.visit = v /\ entry.row = i
  OBVIOUS
<1>2. s_log' = S!(+)(s_log, S!SetToBag({entry}))
  BY DEF S!Log
<1> HIDE DEF entry
<1>3. s_log \in [DOMAIN s_log -> {n \in Nat : n > 0}]
  BY DEF StatsInv, S!IsABag
<1>4. s_log' = [e \in DOMAIN s_log \union {entry} |->
                   (IF e \in DOMAIN s_log THEN s_log[e] ELSE 0) + (IF e \in {entry} THEN 1 ELSE 0)]
  BY <1>2 DEF S!(+), S!SetToBag
<1>5. /\ s_log' \in [DOMAIN s_log' -> {n \in Nat : n > 0}]
      /\ DOMAIN s_log' = DOMAIN s_log \union {entry}
  BY <1>3, <1>4
<1>6. s_log' # s_log
  <2>1. CASE entry \in DOMAIN s_log
    <3>1. s_log'[entry] = s_log[entry] + 1 /\ s_log[entry] \in Nat
      BY <1>3, <1>4, <2>1
    <3>2. QED
      BY <3>1
  <2>2. CASE entry \notin DOMAIN s_log
    BY <1>5, <2>2
  <2>3. QED
    BY <2>1, <2>2
<1>7. S!IsABag(s_log)'
  BY <1>5 DEF S!IsABag
<1>8. S!BagToSet(s_log)' = S!BagToSet(s_log) \union {entry}
  BY <1>5 DEF S!BagToSet
<1>9. QED
  BY <1>1, <1>6, <1>7, <1>8 DEF StatsInv

LEMMA StatsNext == StatsInv /\ [S!Next]_s_vars => StatsInv'
<1> SUFFICES ASSUME StatsInv, [S!Next]_s_vars PROVE StatsInv'
  OBVIOUS
<1>1. PICK K : s_rows \in Seq(StatRow(K))
  BY DEF StatsInv
<1>2. DOMAIN s_rows = 1 .. Len(s_rows) /\ Len(s_rows) \in Nat
      /\ \A i \in DOMAIN s_rows : s_rows[i] \in StatRow(K)
  BY <1>1
<1>3. ASSUME NEW v \in SVisits, S!AddInserts(v) PROVE StatsInv'
  <2> DEFINE L == K \union KeysOfVisit(v)
  <2>1. S!Insert(v) \in StatRow(L) /\ StatRow(K) \subseteq StatRow(L)
    BY InsertType, RowsGrow
  <2> HIDE DEF L
  <2>2. s_rows' = S!Append(s_rows, S!Insert(v)) /\ S!Log(v, Len(s_rows) + 1)
    BY <1>3 DEF S!AddInserts
  <2>3. s_rows \in Seq(StatRow(L))
    BY <1>1, <2>1
  <2>4. s_rows' \in Seq(StatRow(L)) /\ DOMAIN s_rows' = 1 .. Len(s_rows) + 1
    BY <1>2, <2>1, <2>2, <2>3
  <2>5. Len(s_rows) + 1 \in DOMAIN s_rows' /\ DOMAIN s_rows \subseteq DOMAIN s_rows'
    BY <1>2, <2>4
  <2>6. QED
    BY <2>2, <2>4, <2>5, LogType DEF StatsInv
<1>4. ASSUME NEW v \in SVisits, NEW i \in DOMAIN s_rows, S!AddUpdates(v, i) PROVE StatsInv'
  <2> DEFINE L == K \union KeysOfVisit(v)
  <2>1. StatRow(K) \subseteq StatRow(L)
    BY RowsGrow
  <2>2. S!Update(s_rows[i], v) \in StatRow(L)
    BY <1>2, <2>1, UpdateType
  <2> HIDE DEF L
  <2>3. s_rows' = [s_rows EXCEPT ![i] = S!Update(s_rows[i], v)] /\ S!Log(v, i)
    BY <1>4 DEF S!AddUpdates
  <2>4. s_rows \in Seq(StatRow(L))
    BY <1>1, <2>1
  <2>5. s_rows' \in Seq(StatRow(L)) /\ DOMAIN s_rows' = DOMAIN s_rows
    BY <2>2, <2>3, <2>4
  <2>6. QED
    BY <2>3, <2>5, LogType DEF StatsInv
<1>5. ASSUME NEW i \in DOMAIN s_rows, S!Elapse(i) PROVE StatsInv'
  <2>1. PICK age \in S!Age : s_rows' = [s_rows EXCEPT ![i].age = age]
    BY <1>5 DEF S!Elapse
  <2>2. [s_rows[i] EXCEPT !.age = age] \in StatRow(K)
    BY <1>2 DEF StatRow
  <2>3. s_rows' = [s_rows EXCEPT ![i] = [s_rows[i] EXCEPT !.age = age]]
    BY <2>1
  <2>4. s_rows' \in Seq(StatRow(K)) /\ DOMAIN s_rows' = DOMAIN s_rows /\ UNCHANGED s_log
    <3> DEFINE row == [s_rows[i] EXCEPT !.age = age]
    <3>1. row \in StatRow(K) /\ s_rows' = [s_rows EXCEPT ![i] = row]
      BY <2>2, <2>3
    <3> HIDE DEF row
    <3>2. s_rows' \in Seq(StatRow(K)) /\ DOMAIN s_rows' = DOMAIN s_rows
      BY <1>1, <3>1
    <3>3. QED
      BY <1>5, <3>2 DEF S!Elapse
  <2>5. S!IsABag(s_log)' /\ S!BagToSet(s_log)' = S!BagToSet(s_log)
    BY <2>4 DEF StatsInv, S!IsABag, S!BagToSet
  <2>6. QED
    BY <2>4, <2>5 DEF StatsInv
<1>6. ASSUME UNCHANGED s_vars PROVE StatsInv'
  BY <1>6 DEF s_vars, StatsInv, S!IsABag, S!BagToSet
<1>7. QED
  BY <1>3, <1>4, <1>5, <1>6 DEF S!Next

LEMMA StatsType == StatsInv => S!TypeOK
<1> SUFFICES ASSUME StatsInv PROVE S!TypeOK
  OBVIOUS
<1>1. PICK K : s_rows \in Seq(StatRow(K))
  BY DEF StatsInv
<1>2. ASSUME NEW i \in DOMAIN s_rows
      PROVE  /\ s_rows[i].total \in Nat \ {0} /\ s_rows[i].age \in S!Age
             /\ s_rows[i].types \in S!Counts(S!UserAgentType)
             /\ s_rows[i].platformTypes \in S!Counts(S!PlatformType)
             /\ s_rows[i].browserTypes \in S!Counts(S!BrowserType)
             /\ S!IsABag(s_rows[i].platforms) /\ S!IsABag(s_rows[i].browsers)
             /\ S!IsABag(s_rows[i].countries) /\ S!IsABag(s_rows[i].referrers)
  <2>1. s_rows[i] \in StatRow(K)
    BY <1>1
  <2>2. QED
    BY <2>1, BagIs DEF StatRow
<1>3. QED
  BY <1>2 DEF StatsInv, S!TypeOK

\* A visit raises the views of each window: the row that takes it belongs to all.
StatSum(f, D) == S!SumOver(f, D)

LEMMA StatSumIs == ASSUME NEW f, NEW D PROVE StatSum(f, D) = R!SumOf(f, D)
BY DEF StatSum, S!SumOver, S!FoldFunctionOnSet, S!MapThenFoldSet,
       R!SumOf, R!SumFunctionOnSet, R!FoldFunctionOnSet, R!MapThenFoldSet

ViewsOf(rows, D) == StatSum([i \in D |-> rows[i].total], D)
ShownOf(rows, w) == {i \in DOMAIN rows : S!InWindow(w, rows[i].age)}

LEMMA ViewsAre == \A w : S!Figures(w).views = ViewsOf(s_rows, ShownOf(s_rows, w))
BY DEF S!Figures, ViewsOf, StatSum, S!Shown, ShownOf

LEMMA YoungIsShown == ASSUME NEW w \in S!Windows PROVE S!InWindow(w, 0)
<1>1. CASE w = "LastDay"
  BY <1>1 DEF S!InWindow
<1>2. CASE w = "LastWeek"
  BY <1>2 DEF S!InWindow
<1>3. CASE w = "LastMonth"
  BY <1>3 DEF S!InWindow
<1>4. CASE w = "AllTime"
  BY <1>4 DEF S!InWindow
<1>5. QED
  BY <1>1, <1>2, <1>3, <1>4 DEF S!Windows

LEMMA SumOfOneMore ==
    ASSUME NEW f, NEW g, NEW D, NEW n, IsFiniteSet(D), n \notin D,
           \A i \in D : f[i] \in Nat /\ g[i] = f[i], g[n] = 1
    PROVE  R!SumOf(g, D \union {n}) = R!SumOf(f, D) + 1
<1> DEFINE more == D \union {n}
<1>1. IsFiniteSet(more) /\ n \in more /\ more \ {n} = D /\ \A i \in more : g[i] \in Nat
  BY FS_AddElement
<1> HIDE DEF more
<1>2. R!SumOf(g, more) = g[n] + R!SumOf(g, more \ {n})
  BY <1>1, SumElement
<1>3. R!SumOf(g, D) = R!SumOf(f, D) /\ R!SumOf(f, D) \in Nat
  BY SumSame, SumType
<1>4. QED
  BY <1>1, <1>2, <1>3 DEF more

LEMMA InsertRaises ==
    ASSUME NEW K, NEW rows \in Seq(StatRow(K)), NEW row \in StatRow(K), NEW w \in S!Windows,
           row.total = 1, row.age = 0
    PROVE  LET new == Append(rows, row)
           IN ViewsOf(new, ShownOf(new, w)) = ViewsOf(rows, ShownOf(rows, w)) + 1
<1> DEFINE new == Append(rows, row)
           n == Len(rows) + 1
           D == ShownOf(rows, w)
           f == [i \in D |-> rows[i].total]
           g == [i \in D \union {n} |-> new[i].total]
<1>1. DOMAIN rows = 1 .. Len(rows) /\ Len(rows) \in Nat
      /\ \A i \in DOMAIN rows : rows[i] \in StatRow(K)
  OBVIOUS
<1>2. DOMAIN new = DOMAIN rows \union {n} /\ new[n] = row /\ n \notin DOMAIN rows
      /\ \A i \in DOMAIN rows : new[i] = rows[i]
  BY <1>1
<1>3. ShownOf(new, w) = D \union {n} /\ D \subseteq DOMAIN rows
  BY <1>2, YoungIsShown DEF ShownOf
<1>4. IsFiniteSet(D \union {n}) /\ n \notin D
  <2>1. IsFiniteSet(DOMAIN rows)
    BY <1>1, FS_Interval
  <2>2. IsFiniteSet(D)
    BY <1>3, <2>1, FS_Subset
  <2>3. QED
    BY <1>2, <1>3, <2>2, FS_AddElement
<1>5. /\ \A i \in D : f[i] \in Nat /\ g[i] = f[i]
      /\ g[n] = 1
  <2>1. \A i \in D : rows[i].total \in Nat /\ new[i] = rows[i]
    BY <1>1, <1>2, <1>3 DEF StatRow
  <2>2. new[n].total = 1
    BY <1>2
  <2> HIDE DEF new, D
  <2>3. QED
    BY <2>1, <2>2
<1> HIDE DEF new, D, f, g, n
<1>6. IsFiniteSet(D)
  BY <1>4, FS_Subset
<1>11. R!SumOf(g, D \union {n}) = R!SumOf(f, D) + 1
  BY <1>4, <1>5, <1>6, SumOfOneMore
<1>12. QED
  BY <1>3, <1>11, StatSumIs DEF ViewsOf, f, g, D, new, n

LEMMA UpdateRaises ==
    ASSUME NEW K, NEW rows \in Seq(StatRow(K)), NEW row \in StatRow(K), NEW w \in S!Windows,
           NEW i \in DOMAIN rows, rows[i].age = 0,
           row.total = rows[i].total + 1, row.age = rows[i].age
    PROVE  LET new == [rows EXCEPT ![i] = row]
           IN ViewsOf(new, ShownOf(new, w)) = ViewsOf(rows, ShownOf(rows, w)) + 1
<1> DEFINE new == [rows EXCEPT ![i] = row]
           D == ShownOf(rows, w)
           f == [j \in D |-> rows[j].total]
           g == [j \in D |-> new[j].total]
<1>1. DOMAIN rows = 1 .. Len(rows) /\ Len(rows) \in Nat
      /\ \A j \in DOMAIN rows : rows[j] \in StatRow(K)
  OBVIOUS
<1>2. DOMAIN new = DOMAIN rows /\ new[i] = row /\ \A j \in DOMAIN rows : j # i => new[j] = rows[j]
  BY <1>1
<1>3. ShownOf(new, w) = D /\ D \subseteq DOMAIN rows /\ i \in D
  <2>1. \A j \in DOMAIN rows : new[j].age = rows[j].age
    BY <1>2
  <2>2. ShownOf(new, w) = D
    BY <1>2, <2>1 DEF ShownOf
  <2>3. i \in D /\ D \subseteq DOMAIN rows
    BY YoungIsShown DEF ShownOf
  <2>4. QED
    BY <2>2, <2>3
<1>4. IsFiniteSet(D)
  <2>1. IsFiniteSet(DOMAIN rows)
    BY <1>1, FS_Interval
  <2>2. QED
    BY <1>3, <2>1, FS_Subset
<1>5. /\ \A j \in D : f[j] \in Nat /\ (j # i => g[j] = f[j])
      /\ g[i] = f[i] + 1
  <2>1. \A j \in D : rows[j].total \in Nat /\ (j # i => new[j] = rows[j])
    BY <1>1, <1>2, <1>3 DEF StatRow
  <2>2. new[i].total = rows[i].total + 1
    BY <1>2
  <2> HIDE DEF new, D
  <2>3. QED
    BY <1>3, <2>1, <2>2
<1> HIDE DEF new, D, f, g
<1>6. R!SumOf(g, D) = R!SumOf(f, D) + 1
  BY <1>3, <1>4, <1>5, SumRaised
<1>7. QED
  BY <1>3, <1>6, StatSumIs DEF ViewsOf, f, g, D, new

LEMMA VisitRaises ==
    ASSUME StatsInv, [S!Next]_s_vars, s_log' # s_log, NEW w \in S!Windows
    PROVE  S!Figures(w).views' = S!Figures(w).views + 1
<1>1. PICK K : s_rows \in Seq(StatRow(K))
  BY DEF StatsInv
<1>2. S!Figures(w).views' = ViewsOf(s_rows', ShownOf(s_rows', w))
  BY DEF S!Figures, ViewsOf, StatSum, S!Shown, ShownOf
<1>3. ASSUME NEW v \in SVisits, S!AddInserts(v)
      PROVE  S!Figures(w).views' = S!Figures(w).views + 1
  <2> DEFINE L == K \union KeysOfVisit(v)
  <2>1. /\ S!Insert(v) \in StatRow(L) /\ StatRow(K) \subseteq StatRow(L)
        /\ S!Insert(v).total = 1 /\ S!Insert(v).age = 0
    BY InsertType, RowsGrow
  <2> HIDE DEF L
  <2>2. s_rows' = Append(s_rows, S!Insert(v))
    BY <1>3 DEF S!AddInserts
  <2>3. s_rows \in Seq(StatRow(L))
    BY <1>1, <2>1
  <2>4. QED
    BY <1>2, <2>1, <2>2, <2>3, InsertRaises, ViewsAre
<1>4. ASSUME NEW v \in SVisits, NEW i \in DOMAIN s_rows, S!AddUpdates(v, i)
      PROVE  S!Figures(w).views' = S!Figures(w).views + 1
  <2> DEFINE L == K \union KeysOfVisit(v)
  <2>1. StatRow(K) \subseteq StatRow(L)
    BY RowsGrow
  <2>2. s_rows[i] \in StatRow(K)
    BY <1>1
  <2>7. KeysOfVisit(v) \subseteq L /\ s_rows[i] \in StatRow(L)
    BY <2>1, <2>2
  <2> HIDE DEF L
  <2> DEFINE row == S!Update(s_rows[i], v)
  <2>3. row \in StatRow(L) /\ row.total = s_rows[i].total + 1 /\ row.age = s_rows[i].age
    BY <2>7, UpdateType
  <2>4. s_rows' = [s_rows EXCEPT ![i] = S!Update(s_rows[i], v)] /\ s_rows[i].age = 0
    BY <1>4 DEF S!AddUpdates, S!GetLastHour
  <2>5. s_rows \in Seq(StatRow(L))
    BY <1>1, <2>1
  <2> DEFINE rows == s_rows
  <2>6. ViewsOf([rows EXCEPT ![i] = row], ShownOf([rows EXCEPT ![i] = row], w))
            = ViewsOf(rows, ShownOf(rows, w)) + 1
    <3>1. rows \in Seq(StatRow(L)) /\ i \in DOMAIN rows /\ rows[i].age = 0
          /\ row \in StatRow(L) /\ row.total = rows[i].total + 1 /\ row.age = rows[i].age
      BY <2>3, <2>4, <2>5
    <3> HIDE DEF rows, row
    <3>2. QED
      BY <3>1, UpdateRaises
  <2>8. s_rows' = [s_rows EXCEPT ![i] = row]
    BY <2>4
  <2> HIDE DEF row
  <2>9. QED
    BY <1>2, <2>6, <2>8, ViewsAre
<1>5. QED
  BY <1>3, <1>4 DEF S!Next, S!Elapse, s_vars

\* Rows that differ in their age only have the same columns.
SameColumns(row, other) ==
    /\ row.total = other.total /\ row.types = other.types
    /\ row.platformTypes = other.platformTypes /\ row.platforms = other.platforms
    /\ row.browserTypes = other.browserTypes /\ row.browsers = other.browsers
    /\ row.countries = other.countries /\ row.referrers = other.referrers

LEMMA SameFigures ==
    ASSUME NEW row, NEW other, SameColumns(row, other), NEW t
    PROVE  /\ S!VariantsOf(row, t) = S!VariantsOf(other, t)
           /\ S!VersionsOf(row, t) = S!VersionsOf(other, t)
<1>1. S!Taken(row) = S!Taken(other)
  BY DEF SameColumns, S!Taken
<1>2. S!VariantsOf(row, t) = S!VariantsOf(other, t)
  BY <1>1 DEF SameColumns, S!VariantsOf
<1>3. S!KeysOf(row, t) = S!KeysOf(other, t)
  BY DEF SameColumns, S!KeysOf
<1>4. S!VersionsOf(row, t) = S!VersionsOf(other, t)
  BY <1>3 DEF SameColumns, S!VersionsOf
<1>5. QED
  BY <1>2, <1>4

\* The figures of all time, one by one.
Bagged(f, D) == S!Merged(f, D)

AllTimeTypes(rows) ==
    [t \in S!UserAgentType |->
        StatSum([i \in {j \in DOMAIN rows : rows[j].types[t] > 0} |-> rows[i].types["Browser"]],
                {j \in DOMAIN rows : rows[j].types[t] > 0})]
AllTimePlatforms(rows) ==
    [t \in S!PlatformType |->
        [views |-> StatSum([i \in DOMAIN rows |-> rows[i].platformTypes[t]], DOMAIN rows),
         variants |-> Bagged([i \in DOMAIN rows |-> S!VariantsOf(rows[i], t)], DOMAIN rows)]]
AllTimeBrowsers(rows) ==
    [t \in S!BrowserType |->
        [views |-> StatSum([i \in DOMAIN rows |-> rows[i].browserTypes[t]], DOMAIN rows),
         versions |-> Bagged([i \in DOMAIN rows |-> S!VersionsOf(rows[i], t)], DOMAIN rows)]]
AllTime(rows) ==
    [views |-> ViewsOf(rows, DOMAIN rows),
     types |-> AllTimeTypes(rows),
     platforms |-> AllTimePlatforms(rows),
     browsers |-> AllTimeBrowsers(rows),
     countries |-> Bagged([i \in DOMAIN rows |-> rows[i].countries], DOMAIN rows),
     referrers |-> Bagged([i \in DOMAIN rows |-> rows[i].referrers], DOMAIN rows)]

LEMMA AllTimeIs ==
    /\ S!Figures("AllTime") = AllTime(s_rows)
    /\ S!Figures("AllTime")' = AllTime(s_rows')
<1>1. /\ S!Shown("AllTime") = DOMAIN s_rows
      /\ S!Shown("AllTime")' = DOMAIN s_rows'
  BY DEF S!Shown, S!InWindow
<1>2. S!Figures("AllTime") = AllTime(s_rows)
  BY <1>1 DEF S!Figures, S!AddTypes, S!AddCountries, S!AddReferrers,
     AllTime, AllTimeTypes, AllTimePlatforms, AllTimeBrowsers, ViewsOf, StatSum, Bagged
<1>3. S!Figures("AllTime")' = AllTime(s_rows')
  BY <1>1 DEF S!Figures, S!AddTypes, S!AddCountries, S!AddReferrers,
     AllTime, AllTimeTypes, AllTimePlatforms, AllTimeBrowsers, ViewsOf, StatSum, Bagged
<1>4. QED
  BY <1>2, <1>3

LEMMA AllTimeSame ==
    ASSUME NEW rows, NEW new, DOMAIN new = DOMAIN rows,
           \A i \in DOMAIN rows : SameColumns(new[i], rows[i])
    PROVE  AllTime(new) = AllTime(rows)
<1>1. ViewsOf(new, DOMAIN new) = ViewsOf(rows, DOMAIN rows)
  <2>1. [i \in DOMAIN new |-> new[i].total] = [i \in DOMAIN rows |-> rows[i].total]
    BY DEF SameColumns
  <2>2. QED
    BY <2>1 DEF ViewsOf
<1>2. AllTimeTypes(new) = AllTimeTypes(rows)
  <2> SUFFICES ASSUME NEW t \in S!UserAgentType
               PROVE  StatSum([i \in {j \in DOMAIN new : new[j].types[t] > 0} |->
                                   new[i].types["Browser"]],
                              {j \in DOMAIN new : new[j].types[t] > 0})
                    = StatSum([i \in {j \in DOMAIN rows : rows[j].types[t] > 0} |->
                                   rows[i].types["Browser"]],
                              {j \in DOMAIN rows : rows[j].types[t] > 0})
    BY DEF AllTimeTypes
  <2>1. {j \in DOMAIN new : new[j].types[t] > 0} = {j \in DOMAIN rows : rows[j].types[t] > 0}
    BY DEF SameColumns
  <2>2. [i \in {j \in DOMAIN new : new[j].types[t] > 0} |-> new[i].types["Browser"]]
      = [i \in {j \in DOMAIN rows : rows[j].types[t] > 0} |-> rows[i].types["Browser"]]
    BY <2>1 DEF SameColumns
  <2>3. QED
    BY <2>1, <2>2
<1>3. AllTimePlatforms(new) = AllTimePlatforms(rows)
  <2> SUFFICES ASSUME NEW t \in S!PlatformType
               PROVE  /\ StatSum([i \in DOMAIN new |-> new[i].platformTypes[t]], DOMAIN new)
                       = StatSum([i \in DOMAIN rows |-> rows[i].platformTypes[t]], DOMAIN rows)
                      /\ Bagged([i \in DOMAIN new |-> S!VariantsOf(new[i], t)], DOMAIN new)
                       = Bagged([i \in DOMAIN rows |-> S!VariantsOf(rows[i], t)], DOMAIN rows)
    BY DEF AllTimePlatforms
  <2>1. [i \in DOMAIN new |-> new[i].platformTypes[t]] = [i \in DOMAIN rows |-> rows[i].platformTypes[t]]
    BY DEF SameColumns
  <2>2. [i \in DOMAIN new |-> S!VariantsOf(new[i], t)] = [i \in DOMAIN rows |-> S!VariantsOf(rows[i], t)]
    BY SameFigures
  <2>3. QED
    BY <2>1, <2>2
<1>4. AllTimeBrowsers(new) = AllTimeBrowsers(rows)
  <2> SUFFICES ASSUME NEW t \in S!BrowserType
               PROVE  /\ StatSum([i \in DOMAIN new |-> new[i].browserTypes[t]], DOMAIN new)
                       = StatSum([i \in DOMAIN rows |-> rows[i].browserTypes[t]], DOMAIN rows)
                      /\ Bagged([i \in DOMAIN new |-> S!VersionsOf(new[i], t)], DOMAIN new)
                       = Bagged([i \in DOMAIN rows |-> S!VersionsOf(rows[i], t)], DOMAIN rows)
    BY DEF AllTimeBrowsers
  <2>1. [i \in DOMAIN new |-> new[i].browserTypes[t]] = [i \in DOMAIN rows |-> rows[i].browserTypes[t]]
    BY DEF SameColumns
  <2>2. [i \in DOMAIN new |-> S!VersionsOf(new[i], t)] = [i \in DOMAIN rows |-> S!VersionsOf(rows[i], t)]
    BY SameFigures
  <2>3. QED
    BY <2>1, <2>2
<1>5. /\ [i \in DOMAIN new |-> new[i].countries] = [i \in DOMAIN rows |-> rows[i].countries]
      /\ [i \in DOMAIN new |-> new[i].referrers] = [i \in DOMAIN rows |-> rows[i].referrers]
  BY DEF SameColumns
<1>6. QED
  BY <1>1, <1>2, <1>3, <1>4, <1>5 DEF AllTime

LEMMA NoVisitKeepsAllTime ==
    ASSUME StatsInv, [S!Next]_s_vars, s_log' = s_log
    PROVE  S!Figures("AllTime")' = S!Figures("AllTime")
<1>1. PICK K : s_rows \in Seq(StatRow(K))
  BY DEF StatsInv
<1>2. DOMAIN s_rows = 1 .. Len(s_rows) /\ Len(s_rows) \in Nat
      /\ \A i \in DOMAIN s_rows : s_rows[i] \in StatRow(K)
  BY <1>1
<1>3. ASSUME NEW v \in SVisits, S!AddInserts(v) PROVE FALSE
  <2> DEFINE L == K \union KeysOfVisit(v)
  <2>1. S!Insert(v) \in StatRow(L) /\ StatRow(K) \subseteq StatRow(L)
    BY InsertType, RowsGrow
  <2> HIDE DEF L
  <2>2. s_rows' = S!Append(s_rows, S!Insert(v)) /\ S!Log(v, Len(s_rows) + 1)
    BY <1>3 DEF S!AddInserts
  <2>3. s_rows \in Seq(StatRow(L))
    BY <1>1, <2>1
  <2>4. DOMAIN s_rows' = 1 .. Len(s_rows) + 1
    BY <1>2, <2>1, <2>2, <2>3
  <2>5. Len(s_rows) + 1 \in DOMAIN s_rows' /\ DOMAIN s_rows \subseteq DOMAIN s_rows'
    BY <1>2, <2>4
  <2>6. QED
    BY <2>2, <2>5, LogType
<1>4. ASSUME NEW v \in SVisits, NEW i \in DOMAIN s_rows, S!AddUpdates(v, i) PROVE FALSE
  <2>1. S!Log(v, i) /\ DOMAIN s_rows' = DOMAIN s_rows
    BY <1>4 DEF S!AddUpdates
  <2>2. QED
    BY <2>1, LogType
<1>5. ASSUME NEW i \in DOMAIN s_rows, S!Elapse(i)
      PROVE  S!Figures("AllTime")' = S!Figures("AllTime")
  <2>1. PICK age \in S!Age : s_rows' = [s_rows EXCEPT ![i].age = age]
    BY <1>5 DEF S!Elapse
  <2>2. SameColumns([s_rows[i] EXCEPT !.age = age], s_rows[i])
    BY <1>2 DEF StatRow, SameColumns
  <2>3. DOMAIN s_rows' = DOMAIN s_rows /\ s_rows'[i] = [s_rows[i] EXCEPT !.age = age]
        /\ \A j \in DOMAIN s_rows : j # i => s_rows'[j] = s_rows[j]
    BY <2>1
  <2>4. \A j \in DOMAIN s_rows : SameColumns(s_rows'[j], s_rows[j])
    <3>1. \A j \in DOMAIN s_rows : SameColumns(s_rows[j], s_rows[j])
      BY DEF SameColumns
    <3>2. SameColumns(s_rows'[i], s_rows[i])
      BY <2>2, <2>3
    <3>3. QED
      BY <2>3, <3>1, <3>2
  <2>5. QED
    BY <2>3, <2>4, AllTimeSame, AllTimeIs
<1>6. ASSUME UNCHANGED s_vars PROVE S!Figures("AllTime")' = S!Figures("AllTime")
  BY <1>6, AllTimeIs DEF s_vars
<1>7. QED
  BY <1>3, <1>4, <1>5, <1>6 DEF S!Next

LEMMA StatsStep == [ServicesNext]_servicesVars => [S!Next]_s_vars
BY DEF ServicesNext, servicesVars, Only, s_vars

\* Whatever visits come and whichever rows they meet, each raises the views of all
\* four figures by one, and time takes none out of the all-time figure.
THEOREM VisitsRaiseAllFigures == ServicesSpec => VisitsShowAtOnce
<1>1. ServicesInit => StatsInv
  BY StatsInit DEF ServicesInit
<1>2. StatsInv /\ [S!Next]_s_vars => [part = "stats" => S!Shows]_s_vars
  BY VisitRaises, NoVisitKeepsAllTime DEF S!Shows
<1>3. QED
  BY <1>1, <1>2, StatsStep, StatsNext, PTL DEF ServicesSpec, VisitsShowAtOnce

-------------------------------------------------------------------------------
(* The figures are true *)

\* How often a bag has a key.
CountOf(bag, k) == IF k \in DOMAIN bag THEN bag[k] ELSE 0

LEMMA CountType ==
    ASSUME NEW K, NEW bag \in Bags(K)
    PROVE  \A k : CountOf(bag, k) \in Nat /\ (k \in DOMAIN bag <=> CountOf(bag, k) > 0)
BY DEF Bags, CountOf

LEMMA CountJoined ==
    ASSUME NEW K, NEW a \in Bags(K), NEW b \in Bags(K)
    PROVE  /\ DOMAIN S!(+)(a, b) = DOMAIN a \union DOMAIN b
           /\ \A k : CountOf(S!(+)(a, b), k) = CountOf(a, k) + CountOf(b, k)
<1>1. PICK D \in SUBSET K : a \in [D -> Nat \ {0}]
  BY DEF Bags
<1>2. PICK F \in SUBSET K : b \in [F -> Nat \ {0}]
  BY DEF Bags
<1>3. QED
  BY <1>1, <1>2 DEF S!(+), CountOf

LEMMA BagsAreSame ==
    ASSUME NEW K, NEW a \in Bags(K), NEW b \in Bags(K), \A k : CountOf(a, k) = CountOf(b, k)
    PROVE  a = b
<1>1. \A k : k \in DOMAIN a <=> k \in DOMAIN b
  BY CountType
<1>2. DOMAIN a = DOMAIN b
  BY <1>1
<1>3. a = [k \in DOMAIN a |-> a[k]] /\ b = [k \in DOMAIN b |-> b[k]]
  BY DEF Bags
<1>4. \A k \in DOMAIN a : a[k] = b[k]
  BY <1>2 DEF CountOf
<1>5. QED
  BY <1>2, <1>3, <1>4

\* The bag that has each key as often as the bags of a set of rows have it together.
KeysIn(f, D) == UNION {DOMAIN f[i] : i \in D}
Together(f, D) == [k \in KeysIn(f, D) |-> R!SumOf([i \in D |-> CountOf(f[i], k)], D)]

LEMMA TogetherCounts ==
    ASSUME NEW K, NEW f, NEW D, IsFiniteSet(D), \A i \in D : f[i] \in Bags(K)
    PROVE  /\ Together(f, D) \in Bags(K)
           /\ \A k : CountOf(Together(f, D), k) = R!SumOf([i \in D |-> CountOf(f[i], k)], D)
<1> DEFINE c(k) == [i \in D |-> CountOf(f[i], k)]
<1>1. \A k : \A i \in D : c(k)[i] \in Nat /\ (k \in DOMAIN f[i] <=> c(k)[i] > 0)
  BY CountType
<1>2. KeysIn(f, D) \in SUBSET K
  BY DEF KeysIn, Bags
<1>3. ASSUME NEW k, k \notin KeysIn(f, D) PROVE R!SumOf(c(k), D) = 0
  <2>1. \A i \in D : c(k)[i] = 0
    BY <1>1, <1>3 DEF KeysIn
  <2> HIDE DEF c
  <2>2. QED
    BY <2>1, SumOfZeros
<1>4. ASSUME NEW k \in KeysIn(f, D) PROVE R!SumOf(c(k), D) \in Nat \ {0}
  <2>1. PICK i \in D : k \in DOMAIN f[i]
    BY DEF KeysIn
  <2>2. c(k)[i] \in Nat /\ c(k)[i] > 0 /\ \A j \in D : c(k)[j] \in Nat
    BY <1>1, <2>1
  <2>3. IsFiniteSet(D \ {i})
    BY FS_Subset
  <2> HIDE DEF c
  <2>4. R!SumOf(c(k), D) = c(k)[i] + R!SumOf(c(k), D \ {i})
    BY <2>2, SumElement
  <2>5. R!SumOf(c(k), D \ {i}) \in Nat
    BY <2>2, <2>3, SumType
  <2>6. QED
    BY <2>2, <2>4, <2>5
<1>5. Together(f, D) = [k \in KeysIn(f, D) |-> R!SumOf(c(k), D)]
  BY DEF Together
<1> DEFINE t == Together(f, D)
<1> HIDE DEF c
<1>6. Together(f, D) \in [KeysIn(f, D) -> Nat \ {0}]
  BY <1>4, <1>5
<1>7. Together(f, D) \in Bags(K)
  BY <1>2, <1>6 DEF Bags
<1>8. \A k : CountOf(Together(f, D), k) = R!SumOf(c(k), D)
  BY <1>3, <1>5 DEF CountOf
<1>9. QED
  BY <1>7, <1>8 DEF c

LEMMA TogetherNone == ASSUME NEW f PROVE Together(f, {}) = S!EmptyBag
BY DEF Together, KeysIn, S!EmptyBag, S!SetToBag

LEMMA TogetherMore ==
    ASSUME NEW K, NEW f, NEW D, NEW x \in D, IsFiniteSet(D), \A i \in D : f[i] \in Bags(K)
    PROVE  Together(f, D) = S!(+)(f[x], Together(f, D \ {x}))
<1> DEFINE rest == D \ {x}
           c(k, T) == [i \in T |-> CountOf(f[i], k)]
<1>1. IsFiniteSet(rest) /\ (\A i \in rest : f[i] \in Bags(K)) /\ f[x] \in Bags(K)
  BY FS_Subset
<1>2. \A k : \A i \in D : CountOf(f[i], k) \in Nat
  BY CountType
<1>3. \A k : R!SumOf(c(k, D), D) = CountOf(f[x], k) + R!SumOf(c(k, rest), rest)
  <2> SUFFICES ASSUME NEW k
               PROVE  R!SumOf(c(k, D), D) = CountOf(f[x], k) + R!SumOf(c(k, rest), rest)
    OBVIOUS
  <2>1. /\ \A i \in D : c(k, D)[i] \in Nat
        /\ \A i \in rest : c(k, D)[i] = c(k, rest)[i]
        /\ c(k, D)[x] = CountOf(f[x], k) /\ rest = D \ {x}
    BY <1>2
  <2> HIDE DEF c, rest
  <2> DEFINE a == c(k, D)
  <2>2. R!SumOf(a, D) = a[x] + R!SumOf(a, rest)
    <3>1. (\A i \in D : a[i] \in Nat) /\ rest = D \ {x}
      BY <2>1
    <3> HIDE DEF a
    <3>2. R!SumOf(a, D) = a[x] + R!SumOf(a, D \ {x})
      BY <3>1, SumElement
    <3>3. QED
      BY <3>1, <3>2
  <2>3. R!SumOf(c(k, D), rest) = R!SumOf(c(k, rest), rest)
    BY <1>1, <2>1, SumSame
  <2>4. QED
    BY <2>1, <2>2, <2>3
<1>4. /\ Together(f, D) \in Bags(K) /\ Together(f, rest) \in Bags(K)
      /\ \A k : CountOf(Together(f, D), k) = R!SumOf(c(k, D), D)
      /\ \A k : CountOf(Together(f, rest), k) = R!SumOf(c(k, rest), rest)
  <2>1. /\ Together(f, D) \in Bags(K)
        /\ \A k : CountOf(Together(f, D), k) = R!SumOf(c(k, D), D)
    BY TogetherCounts
  <2> HIDE DEF rest
  <2>2. /\ Together(f, rest) \in Bags(K)
        /\ \A k : CountOf(Together(f, rest), k) = R!SumOf(c(k, rest), rest)
    BY <1>1, TogetherCounts
  <2>3. QED
    BY <2>1, <2>2
<1> DEFINE joined == S!(+)(f[x], Together(f, rest))
<1> HIDE DEF rest, c
<1>5. joined \in Bags(K) /\ \A k : CountOf(joined, k) = CountOf(f[x], k) + CountOf(Together(f, rest), k)
  BY <1>1, <1>4, BagsJoin, CountJoined
<1>6. \A k : CountOf(joined, k) = CountOf(Together(f, D), k)
  BY <1>3, <1>4, <1>5
<1> HIDE DEF joined
<1>7. joined = Together(f, D)
  BY <1>4, <1>5, <1>6, BagsAreSame
<1>8. QED
  BY <1>7 DEF joined, rest

\* So the function that the definition of the fold chooses exists, and the fold is
\* that bag.
Chosen(s) == CHOOSE x \in s : TRUE

IsMerge(g, f, D) ==
    g = [s \in SUBSET D |->
            IF s = {} THEN S!EmptyBag ELSE S!(+)(f[Chosen(s)], g[s \ {Chosen(s)}])]

LEMMA MergedIsTogether ==
    ASSUME NEW K, NEW f, NEW D, IsFiniteSet(D), \A i \in D : f[i] \in Bags(K)
    PROVE  S!Merged(f, D) = Together(f, D)
<1> DEFINE h == [s \in SUBSET D |-> Together(f, s)]
           g == CHOOSE g : IsMerge(g, f, D)
<1>1. \A s \in SUBSET D : IsFiniteSet(s) /\ \A i \in s : f[i] \in Bags(K)
  BY FS_Subset
<1>2. \A s \in SUBSET D : s # {} => Chosen(s) \in s /\ s \ {Chosen(s)} \in SUBSET D
  BY DEF Chosen
<1>3. \A s \in SUBSET D : s # {} =>
          Together(f, s) = S!(+)(f[Chosen(s)], Together(f, s \ {Chosen(s)}))
  BY <1>1, <1>2, TogetherMore
<1>4. \A s \in SUBSET D :
          h[s] = IF s = {} THEN S!EmptyBag ELSE S!(+)(f[Chosen(s)], h[s \ {Chosen(s)}])
  <2> SUFFICES ASSUME NEW s \in SUBSET D
               PROVE  h[s] = IF s = {} THEN S!EmptyBag
                             ELSE S!(+)(f[Chosen(s)], h[s \ {Chosen(s)}])
    OBVIOUS
  <2>1. CASE s = {}
    BY <2>1, TogetherNone
  <2>2. CASE s # {}
    <3>1. h[s \ {Chosen(s)}] = Together(f, s \ {Chosen(s)})
      BY <1>2, <2>2
    <3>2. QED
      BY <1>3, <2>2, <3>1
  <2>3. QED
    BY <2>1, <2>2
<1>5. IsMerge(h, f, D)
  <2> DEFINE e == [s \in SUBSET D |->
                     IF s = {} THEN S!EmptyBag ELSE S!(+)(f[Chosen(s)], h[s \ {Chosen(s)}])]
  <2>1. h = e
    BY <1>4
  <2>2. QED
    BY <2>1 DEF IsMerge
<1>6. IsMerge(g, f, D)
  <2> HIDE DEF h
  <2>1. QED
    BY <1>5
<1>7. S!Merged(f, D) = g[D]
  BY DEF S!Merged, S!FoldFunctionOnSet, S!MapThenFoldSet, IsMerge, Chosen
<1> HIDE DEF g, h
<1>8. \A s \in SUBSET D :
          g[s] = IF s = {} THEN S!EmptyBag ELSE S!(+)(f[Chosen(s)], g[s \ {Chosen(s)}])
  BY <1>6 DEF IsMerge
<1> DEFINE Q == {s \in SUBSET D : g[s] = Together(f, s)}
<1>9. {} \in Q
  BY <1>8, TogetherNone
<1>10. ASSUME NEW s \in SUBSET D, \A x \in s : s \ {x} \in Q PROVE s \in Q
  <2>1. CASE s = {}
    BY <1>9, <2>1
  <2>2. CASE s # {}
    <3>1. Chosen(s) \in s /\ s \ {Chosen(s)} \in Q
      BY <1>2, <1>10, <2>2
    <3>2. g[s \ {Chosen(s)}] = Together(f, s \ {Chosen(s)})
      BY <3>1
    <3>3. g[s] = S!(+)(f[Chosen(s)], g[s \ {Chosen(s)}])
      BY <1>8, <2>2
    <3>4. QED
      BY <1>3, <2>2, <3>2, <3>3
  <2>3. QED
    BY <2>1, <2>2
<1>11. Q \subseteq SUBSET D
  OBVIOUS
<1>12. \A s \in SUBSET D : s \in Q
  <2> HIDE DEF Q
  <2>1. QED
    BY <1>9, <1>10, <1>11, BySize
<1>13. D \in Q
  BY <1>12
<1>14. QED
  BY <1>7, <1>13

\* The visits of a set of them that a row took.
Took(log, i, A) == R!SumOf(log, {e \in DOMAIN log : e.row = i /\ e.visit \in A})

IsLog(log) == S!IsABag(log) /\ IsFiniteSet(DOMAIN log)

LEMMA LogValues ==
    ASSUME NEW log, IsLog(log), NEW D \in SUBSET DOMAIN log
    PROVE  /\ IsFiniteSet(D) /\ \A e \in D : log[e] \in Nat /\ log[e] > 0
           /\ R!SumOf(log, D) \in Nat
<1>1. IsFiniteSet(D) /\ \A e \in D : log[e] \in Nat /\ log[e] > 0
  BY FS_Subset DEF IsLog, S!IsABag
<1>2. QED
  BY <1>1, SumType

LEMMA SumPositive ==
    ASSUME NEW log, IsLog(log), NEW D \in SUBSET DOMAIN log
    PROVE  R!SumOf(log, D) > 0 <=> D # {}
<1>1. CASE D = {}
  BY <1>1, SumEmpty
<1>2. CASE D # {}
  <2>1. PICK e \in D : TRUE
    BY <1>2
  <2>2. IsFiniteSet(D) /\ \A x \in D : log[x] \in Nat /\ log[x] > 0
    BY LogValues
  <2>3. R!SumOf(log, D) = log[e] + R!SumOf(log, D \ {e})
    BY <2>2, SumElement
  <2>4. D \ {e} \in SUBSET DOMAIN log
    OBVIOUS
  <2>5. R!SumOf(log, D \ {e}) \in Nat
    BY <2>4, LogValues
  <2>6. log[e] \in Nat /\ log[e] > 0
    BY <2>2
  <2>7. R!SumOf(log, D) > 0
    BY <2>3, <2>5, <2>6
  <2>8. QED
    BY <1>2, <2>7
<1>3. QED
  BY <1>1, <1>2

LEMMA TookSome ==
    ASSUME NEW log, IsLog(log), NEW i, NEW A
    PROVE  /\ Took(log, i, A) \in Nat
           /\ Took(log, i, A) > 0 <=> \E e \in DOMAIN log : e.row = i /\ e.visit \in A
<1> DEFINE D == {e \in DOMAIN log : e.row = i /\ e.visit \in A}
<1>1. D \in SUBSET DOMAIN log /\ Took(log, i, A) = R!SumOf(log, D)
  BY DEF Took
<1>2. D # {} <=> \E e \in DOMAIN log : e.row = i /\ e.visit \in A
  OBVIOUS
<1> HIDE DEF D
<1>3. QED
  BY <1>1, <1>2, LogValues, SumPositive

\* The log with one more entry.
Logs(new, log, entry) == new = S!(+)(log, S!SetToBag({entry}))

LEMMA LoggedType ==
    ASSUME NEW log, IsLog(log), NEW entry, NEW new, Logs(new, log, entry)
    PROVE  /\ IsLog(new) /\ DOMAIN new = DOMAIN log \union {entry}
           /\ \A e \in DOMAIN log :
                  log[e] \in Nat /\ log[e] > 0 /\ (e # entry => new[e] = log[e])
           /\ entry \in DOMAIN log => new[entry] = log[entry] + 1
           /\ entry \notin DOMAIN log => new[entry] = 1
<1>1. log \in [DOMAIN log -> {n \in Nat : n > 0}] /\ IsFiniteSet(DOMAIN log)
  BY DEF IsLog, S!IsABag
<1>2. new = [e \in DOMAIN log \union {entry} |->
                (IF e \in DOMAIN log THEN log[e] ELSE 0) + (IF e \in {entry} THEN 1 ELSE 0)]
  BY DEF Logs, S!(+), S!SetToBag
<1>3. /\ DOMAIN new = DOMAIN log \union {entry}
      /\ \A e \in DOMAIN log : log[e] \in Nat /\ log[e] > 0 /\ (e # entry => new[e] = log[e])
      /\ entry \in DOMAIN log => new[entry] = log[entry] + 1
      /\ entry \notin DOMAIN log => new[entry] = 1
  BY <1>1, <1>2
<1>4. new \in [DOMAIN new -> {n \in Nat : n > 0}]
  <2>1. \A e \in DOMAIN new : new[e] \in {n \in Nat : n > 0}
    <3>1. ASSUME NEW e \in DOMAIN new PROVE new[e] \in Nat /\ new[e] > 0
      <4>1. CASE e = entry
        BY <1>3, <4>1
      <4>2. CASE e # entry
        BY <1>3, <4>2
      <4>3. QED
        BY <4>1, <4>2
    <3>2. QED
      BY <3>1
  <2>2. new = [e \in DOMAIN new |-> new[e]]
    BY <1>2
  <2>3. QED
    BY <2>1, <2>2
<1>5. IsFiniteSet(DOMAIN new)
  BY <1>1, <1>3, FS_AddElement
<1>6. IsLog(new)
  BY <1>4, <1>5 DEF IsLog, S!IsABag
<1>7. QED
  BY <1>3, <1>6

LEMMA SumOfLogged ==
    ASSUME NEW log, IsLog(log), NEW entry, NEW new, NEW G,
           Logs(new, log, entry)
    PROVE  R!SumOf(new, DOMAIN new \intersect G)
               = R!SumOf(log, DOMAIN log \intersect G) + IF entry \in G THEN 1 ELSE 0
<1> DEFINE D == DOMAIN log \intersect G
<1>3. /\ DOMAIN new = DOMAIN log \union {entry}
      /\ \A e \in DOMAIN log : log[e] \in Nat /\ log[e] > 0 /\ (e # entry => new[e] = log[e])
      /\ entry \in DOMAIN log => new[entry] = log[entry] + 1
      /\ entry \notin DOMAIN log => new[entry] = 1
  BY LoggedType
<1>7. D \in SUBSET DOMAIN log
  OBVIOUS
<1>8. /\ IsFiniteSet(D) /\ (\A e \in D : log[e] \in Nat /\ (e # entry => new[e] = log[e]))
      /\ R!SumOf(log, D) \in Nat
  <2> HIDE DEF D
  <2>1. IsFiniteSet(D) /\ R!SumOf(log, D) \in Nat
    BY <1>7, LogValues
  <2>2. QED
    BY <1>3, <1>7, <2>1
<1>9. CASE entry \notin G
  <2>1. DOMAIN new \intersect G = D /\ entry \notin D
    BY <1>3, <1>9
  <2> HIDE DEF D
  <2>2. \A e \in D : new[e] = log[e]
    BY <1>8, <2>1
  <2>3. R!SumOf(new, D) = R!SumOf(log, D)
    BY <1>8, <2>2, SumSame
  <2>4. QED
    BY <1>3, <1>8, <1>9, <2>1, <2>3 DEF D
<1>10. CASE entry \in G /\ entry \in DOMAIN log
  <2>1. DOMAIN new \intersect G = D /\ entry \in D /\ new[entry] = log[entry] + 1
    BY <1>3, <1>10
  <2> HIDE DEF D
  <2>2. R!SumOf(new, D) = R!SumOf(log, D) + 1
    BY <1>8, <2>1, SumRaised
  <2>3. QED
    BY <1>3, <1>10, <2>1, <2>2 DEF D
<1>11. CASE entry \in G /\ entry \notin DOMAIN log
  <2>1. DOMAIN new \intersect G = D \union {entry} /\ entry \notin D /\ new[entry] = 1
    BY <1>3, <1>11
  <2> HIDE DEF D
  <2>2. \A e \in D : log[e] \in Nat /\ new[e] = log[e]
    BY <1>8, <2>1
  <2>3. R!SumOf(new, D \union {entry}) = R!SumOf(log, D) + 1
    BY <1>8, <2>1, <2>2, SumOfOneMore
  <2>4. QED
    BY <1>3, <1>11, <2>1, <2>3 DEF D
<1>12. QED
  BY <1>9, <1>10, <1>11

\* The visit is logged with its row.
LogsVisit(new, log, v, i) == Logs(new, log, [visit |-> v, row |-> i])

LEMMA TookMore ==
    ASSUME NEW log, IsLog(log), NEW v, NEW i, NEW new, LogsVisit(new, log, v, i)
    PROVE  /\ IsLog(new)
           /\ \A j, A : Took(new, j, A)
                            = Took(log, j, A) + IF i = j /\ v \in A THEN 1 ELSE 0
<1> DEFINE entry == [visit |-> v, row |-> i]
<1>1. Logs(new, log, entry)
  BY DEF LogsVisit
<1>2. IsLog(new) /\ DOMAIN new = DOMAIN log \union {entry}
  <2> HIDE DEF entry
  <2>1. QED
    BY <1>1, LoggedType
<1>3. ASSUME NEW j, NEW A
      PROVE  Took(new, j, A) = Took(log, j, A) + IF i = j /\ v \in A THEN 1 ELSE 0
  <2> DEFINE G == {e \in DOMAIN new : e.row = j /\ e.visit \in A}
  <2>1. entry \in G <=> i = j /\ v \in A
    BY <1>2
  <2>2. /\ DOMAIN new \intersect G = {e \in DOMAIN new : e.row = j /\ e.visit \in A}
        /\ DOMAIN log \intersect G = {e \in DOMAIN log : e.row = j /\ e.visit \in A}
    BY <1>2
  <2> HIDE DEF G, entry
  <2>3. R!SumOf(new, DOMAIN new \intersect G)
            = R!SumOf(log, DOMAIN log \intersect G) + IF entry \in G THEN 1 ELSE 0
    BY <1>1, SumOfLogged
  <2>4. QED
    BY <2>1, <2>2, <2>3 DEF Took
<1>4. QED
  BY <1>2, <1>3

\* The key of a visit's browser.
BrowserKey(v) == [name |-> v.agent.browser.name, version |-> v.agent.browser.version]

\* A row counts the visits that it took.
RowIsTrue(row, log, i) ==
    /\ row.total = Took(log, i, SVisits)
    /\ \A t \in S!UserAgentType :
           row.types[t] = Took(log, i, {u \in SVisits : u.agent.type = t})
    /\ \A t \in S!PlatformType :
           row.platformTypes[t] = Took(log, i, {u \in SVisits : u.agent.platform.type = t})
    /\ \A t \in S!BrowserType :
           row.browserTypes[t] = Took(log, i, {u \in SVisits : u.agent.browser.type = t})
    /\ \A t \in DOMAIN S!Variants : \A k \in S!Variants[t] :
           CountOf(row.platforms, k) = Took(log, i, {u \in SVisits : u.agent.platform.name = k})
    /\ \A k : CountOf(row.browsers, k) =
           Took(log, i, {u \in SVisits : u.agent.browser.type # S!None /\ BrowserKey(u) = k})
    /\ \A k : CountOf(row.countries, k) =
           Took(log, i, {u \in SVisits : u.country = k /\ k # S!None})
    /\ \A k : CountOf(row.referrers, k) =
           Took(log, i, {u \in SVisits : u.referrer = k /\ k # S!None})

\* What a visit adds to a row.
RowRaised(new, old, v) ==
    /\ new.total = old.total + 1
    /\ \A t \in S!UserAgentType :
           new.types[t] = old.types[t] + IF v.agent.type = t THEN 1 ELSE 0
    /\ \A t \in S!PlatformType :
           new.platformTypes[t] =
               old.platformTypes[t] + IF v.agent.platform.type = t THEN 1 ELSE 0
    /\ \A t \in S!BrowserType :
           new.browserTypes[t] =
               old.browserTypes[t] + IF v.agent.browser.type = t THEN 1 ELSE 0
    /\ \A t \in DOMAIN S!Variants : \A k \in S!Variants[t] :
           CountOf(new.platforms, k) =
               CountOf(old.platforms, k) + IF v.agent.platform.name = k THEN 1 ELSE 0
    /\ \A k : CountOf(new.browsers, k) =
           CountOf(old.browsers, k)
               + IF v.agent.browser.type # S!None /\ BrowserKey(v) = k THEN 1 ELSE 0
    /\ \A k : CountOf(new.countries, k) =
           CountOf(old.countries, k) + IF v.country = k /\ k # S!None THEN 1 ELSE 0
    /\ \A k : CountOf(new.referrers, k) =
           CountOf(old.referrers, k) + IF v.referrer = k /\ k # S!None THEN 1 ELSE 0

\* The row before its first visit.
Blank ==
    [total |-> 0, types |-> [t \in S!UserAgentType |-> 0],
     platformTypes |-> [t \in S!PlatformType |-> 0], platforms |-> S!EmptyBag,
     browserTypes |-> [t \in S!BrowserType |-> 0], browsers |-> S!EmptyBag,
     countries |-> S!EmptyBag, referrers |-> S!EmptyBag]

LEMMA CountOfKeys ==
    /\ \A n, k : CountOf(S!Key(n), k) = IF n = k /\ k # S!None THEN 1 ELSE 0
    /\ \A k : CountOf(S!EmptyBag, k) = 0
    /\ \A v, k : CountOf(S!BrowserVersion(v.agent.browser), k) =
                     IF v.agent.browser.type # S!None /\ BrowserKey(v) = k THEN 1 ELSE 0
<1>1. \A T, k : CountOf(S!SetToBag(T), k) = IF k \in T THEN 1 ELSE 0
  BY DEF CountOf, S!SetToBag
<1>2. \A n, k : CountOf(S!Key(n), k) = IF n = k /\ k # S!None THEN 1 ELSE 0
  BY <1>1 DEF S!Key
<1>3. \A k : CountOf(S!EmptyBag, k) = 0
  BY <1>1 DEF S!EmptyBag
<1>4. ASSUME NEW v, NEW k
      PROVE  CountOf(S!BrowserVersion(v.agent.browser), k) =
                 IF v.agent.browser.type # S!None /\ BrowserKey(v) = k THEN 1 ELSE 0
  <2> DEFINE T == {[name |-> b.name, version |-> b.version] :
                       b \in {c \in {v.agent.browser} : c.type # S!None}}
  <2>1. k \in T <=> v.agent.browser.type # S!None /\ BrowserKey(v) = k
    BY DEF BrowserKey
  <2> HIDE DEF T
  <2>2. CountOf(S!SetToBag(T), k) = IF k \in T THEN 1 ELSE 0
    BY <1>1
  <2>3. S!BrowserVersion(v.agent.browser) = S!SetToBag(T)
    BY DEF S!BrowserVersion, T
  <2>4. QED
    BY <2>1, <2>2, <2>3
<1>5. QED
  BY <1>2, <1>3, <1>4

LEMMA VariantNames ==
    /\ DOMAIN S!Variants = {"Windows", "Linux", "MacOs"}
    /\ \A t \in DOMAIN S!Variants :
           t \in S!PlatformType /\ S!None \notin S!Variants[t]
<1>1. DOMAIN S!Variants = {"Windows", "Linux", "MacOs"}
  BY DEF S!Variants
<1>2. S!None \notin S!Variants["Windows"]
  BY DEF S!Variants, S!None
<1>3. S!None \notin S!Variants["Linux"]
  BY DEF S!Variants, S!None
<1>4. S!None \notin S!Variants["MacOs"]
  BY DEF S!Variants, S!None
<1>5. \A t \in {"Windows", "Linux", "MacOs"} : t \in S!PlatformType
  BY DEF S!PlatformType
<1>6. QED
  BY <1>1, <1>2, <1>3, <1>4, <1>5

\* What a join adds.
LEMMA CountAdded ==
    ASSUME NEW K, NEW a \in Bags(K), NEW b \in Bags(K), NEW j, j = S!(+)(a, b)
    PROVE  \A k : CountOf(j, k) = CountOf(a, k) + CountOf(b, k)
BY CountJoined

LEMMA InsertIsRaised == ASSUME NEW v \in SVisits PROVE RowRaised(S!Insert(v), Blank, v)
<1> DEFINE types == S!One(v.agent.type, S!UserAgentType)
           platformTypes == S!One(v.agent.platform.type, S!PlatformType)
           platforms == IF v.agent.platform.type \in {"Android", "Ios"} THEN S!EmptyBag
                        ELSE S!Key(v.agent.platform.name)
           browserTypes == S!One(v.agent.browser.type, S!BrowserType)
           browsers == S!BrowserVersion(v.agent.browser)
           countries == S!Key(v.country)
           referrers == S!Key(v.referrer)
<1>1. /\ \A t \in S!UserAgentType : types[t] = IF v.agent.type = t THEN 1 ELSE 0
      /\ \A t \in S!PlatformType : platformTypes[t] = IF v.agent.platform.type = t THEN 1 ELSE 0
      /\ \A t \in S!BrowserType : browserTypes[t] = IF v.agent.browser.type = t THEN 1 ELSE 0
  BY DEF S!One
<1>2. ASSUME NEW t \in DOMAIN S!Variants, NEW k \in S!Variants[t]
      PROVE  CountOf(platforms, k) = IF v.agent.platform.name = k THEN 1 ELSE 0
  <2>1. v.agent.platform.type = t <=> v.agent.platform.name \in S!Variants[t]
    BY VisitsAreParsed
  <2>2. k # S!None /\ t \notin {"Android", "Ios"}
    BY VariantNames
  <2>3. CASE v.agent.platform.type \in {"Android", "Ios"}
    <3>1. v.agent.platform.name # k
      BY <2>1, <2>2, <2>3
    <3>2. QED
      BY <2>3, <3>1, CountOfKeys
  <2>4. CASE v.agent.platform.type \notin {"Android", "Ios"}
    <3>1. platforms = S!Key(v.agent.platform.name)
      BY <2>4
    <3>2. CountOf(S!Key(v.agent.platform.name), k) =
              IF v.agent.platform.name = k /\ k # S!None THEN 1 ELSE 0
      BY CountOfKeys
    <3> HIDE DEF platforms
    <3>3. QED
      BY <2>2, <3>1, <3>2
  <2>5. QED
    BY <2>3, <2>4
<1>3. /\ \A k : CountOf(browsers, k) =
             IF v.agent.browser.type # S!None /\ BrowserKey(v) = k THEN 1 ELSE 0
      /\ \A k : CountOf(countries, k) = IF v.country = k /\ k # S!None THEN 1 ELSE 0
      /\ \A k : CountOf(referrers, k) = IF v.referrer = k /\ k # S!None THEN 1 ELSE 0
  BY CountOfKeys
<1>4. S!Insert(v) =
          [total |-> 1, types |-> types, platformTypes |-> platformTypes,
           platforms |-> platforms, browserTypes |-> browserTypes, browsers |-> browsers,
           countries |-> countries, referrers |-> referrers, age |-> 0]
  BY DEF S!Insert
<1>5. /\ \A k : CountOf(Blank.platforms, k) = 0 /\ CountOf(Blank.browsers, k) = 0
      /\ \A k : CountOf(Blank.countries, k) = 0 /\ CountOf(Blank.referrers, k) = 0
      /\ \A t \in S!UserAgentType : Blank.types[t] = 0
      /\ \A t \in S!PlatformType : Blank.platformTypes[t] = 0
      /\ \A t \in S!BrowserType : Blank.browserTypes[t] = 0
      /\ Blank.total = 0
  BY CountOfKeys DEF Blank
<1> HIDE DEF types, platformTypes, platforms, browserTypes, browsers, countries, referrers
<1> DEFINE row == S!Insert(v)
<1>6. /\ row.total = 1 /\ row.types = types /\ row.platformTypes = platformTypes
      /\ row.platforms = platforms /\ row.browserTypes = browserTypes
      /\ row.browsers = browsers /\ row.countries = countries /\ row.referrers = referrers
  BY <1>4
<1> HIDE DEF row
<1>7. RowRaised(row, Blank, v)
  BY <1>1, <1>2, <1>3, <1>5, <1>6 DEF RowRaised
<1>8. QED
  BY <1>7 DEF row

LEMMA UpdateIsRaised ==
    ASSUME NEW K, NEW row \in StatRow(K), NEW v \in SVisits
    PROVE  RowRaised(S!Update(row, v), row, v)
<1> DEFINE L == K \union KeysOfVisit(v)
           new == S!Update(row, v)
<1>1. row \in StatRow(L) /\ KeysOfVisit(v) \subseteq L
  BY RowsGrow
<1> HIDE DEF L
<1>2. /\ row.total \in Nat /\ row.types \in S!Counts(S!UserAgentType)
      /\ row.platformTypes \in S!Counts(S!PlatformType)
      /\ row.browserTypes \in S!Counts(S!BrowserType)
      /\ row.platforms \in Bags(L) /\ row.browsers \in Bags(L)
      /\ row.countries \in Bags(L) /\ row.referrers \in Bags(L)
  BY <1>1 DEF StatRow
<1>3. /\ new.total = row.total + 1 /\ new.types = S!Plus(row.types, v.agent.type)
      /\ new.platformTypes = S!Plus(row.platformTypes, v.agent.platform.type)
      /\ new.browserTypes = S!Plus(row.browserTypes, v.agent.browser.type)
      /\ new.platforms = S!(+)(row.platforms, S!Key(v.agent.platform.name))
      /\ new.browsers = S!(+)(row.browsers, S!BrowserVersion(v.agent.browser))
      /\ new.countries = S!(+)(row.countries, S!Key(v.country))
      /\ new.referrers = S!(+)(row.referrers, S!Key(v.referrer))
  BY <1>1 DEF StatRow, S!Update
<1> HIDE DEF new
<1>4. /\ S!Key(v.agent.platform.name) \in Bags(L)
      /\ S!Key(v.country) \in Bags(L) /\ S!Key(v.referrer) \in Bags(L)
      /\ S!BrowserVersion(v.agent.browser) \in Bags(L)
  BY <1>1, VisitBags
<1>5. /\ \A t \in S!UserAgentType :
             new.types[t] = row.types[t] + IF v.agent.type = t THEN 1 ELSE 0
      /\ \A t \in S!PlatformType :
             new.platformTypes[t] =
                 row.platformTypes[t] + IF v.agent.platform.type = t THEN 1 ELSE 0
      /\ \A t \in S!BrowserType :
             new.browserTypes[t] =
                 row.browserTypes[t] + IF v.agent.browser.type = t THEN 1 ELSE 0
  BY <1>2, <1>3 DEF S!Counts, S!Plus
<1>6. ASSUME NEW t \in DOMAIN S!Variants, NEW k \in S!Variants[t]
      PROVE  CountOf(new.platforms, k) =
                 CountOf(row.platforms, k) + IF v.agent.platform.name = k THEN 1 ELSE 0
  <2>1. k # S!None
    BY VariantNames
  <2>2. CountOf(new.platforms, k) =
            CountOf(row.platforms, k) + CountOf(S!Key(v.agent.platform.name), k)
    BY <1>2, <1>3, <1>4, CountAdded
  <2>3. QED
    BY <2>1, <2>2, CountOfKeys
<1>7. \A k : CountOf(new.browsers, k) =
          CountOf(row.browsers, k)
              + IF v.agent.browser.type # S!None /\ BrowserKey(v) = k THEN 1 ELSE 0
  <2>1. \A k : CountOf(new.browsers, k) =
            CountOf(row.browsers, k) + CountOf(S!BrowserVersion(v.agent.browser), k)
    BY <1>2, <1>3, <1>4, CountAdded
  <2>2. QED
    BY <2>1, CountOfKeys
<1>8. \A k : CountOf(new.countries, k) =
          CountOf(row.countries, k) + IF v.country = k /\ k # S!None THEN 1 ELSE 0
  <2>1. \A k : CountOf(new.countries, k) =
            CountOf(row.countries, k) + CountOf(S!Key(v.country), k)
    BY <1>2, <1>3, <1>4, CountAdded
  <2>2. QED
    BY <2>1, CountOfKeys
<1>9. \A k : CountOf(new.referrers, k) =
          CountOf(row.referrers, k) + IF v.referrer = k /\ k # S!None THEN 1 ELSE 0
  <2>1. \A k : CountOf(new.referrers, k) =
            CountOf(row.referrers, k) + CountOf(S!Key(v.referrer), k)
    BY <1>2, <1>3, <1>4, CountAdded
  <2>2. QED
    BY <2>1, CountOfKeys
<1>10. RowRaised(new, row, v)
  BY <1>3, <1>5, <1>6, <1>7, <1>8, <1>9 DEF RowRaised
<1>11. QED
  BY <1>10 DEF new

LEMMA RaisedIsTrue ==
    ASSUME NEW log, IsLog(log), NEW v \in SVisits, NEW i, NEW newLog,
           LogsVisit(newLog, log, v, i),
           NEW old, NEW new, RowIsTrue(old, log, i), RowRaised(new, old, v)
    PROVE  RowIsTrue(new, newLog, i)
<1>1. \A A : Took(newLog, i, A) = Took(log, i, A) + IF v \in A THEN 1 ELSE 0
  BY TookMore
<1>2. new.total = Took(newLog, i, SVisits)
  BY <1>1 DEF RowIsTrue, RowRaised
<1>3. ASSUME NEW t \in S!UserAgentType
      PROVE  new.types[t] = Took(newLog, i, {u \in SVisits : u.agent.type = t})
  <2> DEFINE A == {u \in SVisits : u.agent.type = t}
  <2>1. /\ old.types[t] = Took(log, i, A)
        /\ new.types[t] = old.types[t] + IF v.agent.type = t THEN 1 ELSE 0
    BY DEF RowIsTrue, RowRaised
  <2>2. v \in A <=> v.agent.type = t
    OBVIOUS
  <2> HIDE DEF A
  <2>3. new.types[t] = Took(newLog, i, A)
    BY <1>1, <2>1, <2>2
  <2>4. QED
    BY <2>3 DEF A
<1>4. ASSUME NEW t \in S!PlatformType
      PROVE  new.platformTypes[t] = Took(newLog, i, {u \in SVisits : u.agent.platform.type = t})
  <2> DEFINE A == {u \in SVisits : u.agent.platform.type = t}
  <2>1. /\ old.platformTypes[t] = Took(log, i, A)
        /\ new.platformTypes[t] =
               old.platformTypes[t] + IF v.agent.platform.type = t THEN 1 ELSE 0
    BY DEF RowIsTrue, RowRaised
  <2>2. v \in A <=> v.agent.platform.type = t
    OBVIOUS
  <2> HIDE DEF A
  <2>3. new.platformTypes[t] = Took(newLog, i, A)
    BY <1>1, <2>1, <2>2
  <2>4. QED
    BY <2>3 DEF A
<1>5. ASSUME NEW t \in S!BrowserType
      PROVE  new.browserTypes[t] = Took(newLog, i, {u \in SVisits : u.agent.browser.type = t})
  <2> DEFINE A == {u \in SVisits : u.agent.browser.type = t}
  <2>1. /\ old.browserTypes[t] = Took(log, i, A)
        /\ new.browserTypes[t] =
               old.browserTypes[t] + IF v.agent.browser.type = t THEN 1 ELSE 0
    BY DEF RowIsTrue, RowRaised
  <2>2. v \in A <=> v.agent.browser.type = t
    OBVIOUS
  <2> HIDE DEF A
  <2>3. new.browserTypes[t] = Took(newLog, i, A)
    BY <1>1, <2>1, <2>2
  <2>4. QED
    BY <2>3 DEF A
<1>6. ASSUME NEW t \in DOMAIN S!Variants, NEW k \in S!Variants[t]
      PROVE  CountOf(new.platforms, k)
                 = Took(newLog, i, {u \in SVisits : u.agent.platform.name = k})
  <2> DEFINE A == {u \in SVisits : u.agent.platform.name = k}
  <2>1. /\ CountOf(old.platforms, k) = Took(log, i, A)
        /\ CountOf(new.platforms, k) =
               CountOf(old.platforms, k) + IF v.agent.platform.name = k THEN 1 ELSE 0
    BY DEF RowIsTrue, RowRaised
  <2>2. v \in A <=> v.agent.platform.name = k
    OBVIOUS
  <2> HIDE DEF A
  <2>3. CountOf(new.platforms, k) = Took(newLog, i, A)
    BY <1>1, <2>1, <2>2
  <2>4. QED
    BY <2>3 DEF A
<1>7. ASSUME NEW k
      PROVE  /\ CountOf(new.browsers, k) =
                    Took(newLog, i, {u \in SVisits : u.agent.browser.type # S!None
                                                     /\ BrowserKey(u) = k})
             /\ CountOf(new.countries, k) =
                    Took(newLog, i, {u \in SVisits : u.country = k /\ k # S!None})
             /\ CountOf(new.referrers, k) =
                    Took(newLog, i, {u \in SVisits : u.referrer = k /\ k # S!None})
  <2> DEFINE A == {u \in SVisits : u.agent.browser.type # S!None /\ BrowserKey(u) = k}
             F == {u \in SVisits : u.country = k /\ k # S!None}
             G == {u \in SVisits : u.referrer = k /\ k # S!None}
  <2>1. /\ CountOf(old.browsers, k) = Took(log, i, A)
        /\ CountOf(new.browsers, k) =
               CountOf(old.browsers, k)
                   + IF v.agent.browser.type # S!None /\ BrowserKey(v) = k THEN 1 ELSE 0
    BY DEF RowIsTrue, RowRaised
  <2>2. /\ CountOf(old.countries, k) = Took(log, i, F)
        /\ CountOf(new.countries, k) =
               CountOf(old.countries, k) + IF v.country = k /\ k # S!None THEN 1 ELSE 0
    BY DEF RowIsTrue, RowRaised
  <2>3. /\ CountOf(old.referrers, k) = Took(log, i, G)
        /\ CountOf(new.referrers, k) =
               CountOf(old.referrers, k) + IF v.referrer = k /\ k # S!None THEN 1 ELSE 0
    BY DEF RowIsTrue, RowRaised
  <2>4. /\ v \in A <=> v.agent.browser.type # S!None /\ BrowserKey(v) = k
        /\ v \in F <=> v.country = k /\ k # S!None
        /\ v \in G <=> v.referrer = k /\ k # S!None
    OBVIOUS
  <2> HIDE DEF A, F, G
  <2>5. CountOf(new.browsers, k) = Took(newLog, i, A)
    BY <1>1, <2>1, <2>4
  <2>6. CountOf(new.countries, k) = Took(newLog, i, F)
    BY <1>1, <2>2, <2>4
  <2>7. CountOf(new.referrers, k) = Took(newLog, i, G)
    BY <1>1, <2>3, <2>4
  <2>8. QED
    BY <2>5, <2>6, <2>7 DEF A, F, G
<1>8. QED
  BY <1>2, <1>3, <1>4, <1>5, <1>6, <1>7 DEF RowIsTrue

\* What took no visit yet counts none.
LEMMA BlankIsTrue ==
    ASSUME NEW log, IsLog(log), NEW i, \A e \in DOMAIN log : e.row # i
    PROVE  RowIsTrue(Blank, log, i)
<1>1. \A A : Took(log, i, A) = 0
  <2> SUFFICES ASSUME NEW A PROVE Took(log, i, A) = 0
    OBVIOUS
  <2>1. Took(log, i, A) \in Nat /\ ~(Took(log, i, A) > 0)
    BY TookSome
  <2>2. QED
    BY <2>1
<1>2. /\ \A k : CountOf(Blank.platforms, k) = 0 /\ CountOf(Blank.browsers, k) = 0
      /\ \A k : CountOf(Blank.countries, k) = 0 /\ CountOf(Blank.referrers, k) = 0
      /\ \A t \in S!UserAgentType : Blank.types[t] = 0
      /\ \A t \in S!PlatformType : Blank.platformTypes[t] = 0
      /\ \A t \in S!BrowserType : Blank.browserTypes[t] = 0
      /\ Blank.total = 0
  BY CountOfKeys DEF Blank
<1> DEFINE row == Blank
<1> HIDE DEF row
<1>3. RowIsTrue(row, log, i)
  BY <1>1, <1>2 DEF RowIsTrue, row
<1>4. QED
  BY <1>3 DEF row

\* A row that took no part in a step, or only got older.
LEMMA SameIsTrue ==
    ASSUME NEW row, NEW other, NEW log, NEW newLog, NEW i, RowIsTrue(row, log, i),
           SameColumns(other, row), \A A : Took(newLog, i, A) = Took(log, i, A)
    PROVE  RowIsTrue(other, newLog, i)
BY DEF RowIsTrue, SameColumns

FiguresInv ==
    /\ StatsInv
    /\ IsFiniteSet(DOMAIN s_log)
    /\ \A i \in DOMAIN s_rows : RowIsTrue(s_rows[i], s_log, i)

LEMMA FiguresInit == S!Init => FiguresInv
<1> SUFFICES ASSUME S!Init PROVE FiguresInv
  OBVIOUS
<1>1. DOMAIN s_log = {} /\ DOMAIN s_rows = {}
  BY DEF S!Init, S!EmptyBag, S!SetToBag
<1>2. QED
  BY <1>1, StatsInit, FS_EmptySet DEF FiguresInv

LEMMA FiguresNext == FiguresInv /\ [S!Next]_s_vars => FiguresInv'
<1> SUFFICES ASSUME FiguresInv, [S!Next]_s_vars PROVE FiguresInv'
  OBVIOUS
<1>1. PICK K : s_rows \in Seq(StatRow(K))
  BY DEF FiguresInv, StatsInv
<1>2. /\ DOMAIN s_rows = 1 .. Len(s_rows) /\ Len(s_rows) \in Nat
      /\ \A i \in DOMAIN s_rows : s_rows[i] \in StatRow(K)
  BY <1>1
<1>3. StatsInv'
  BY StatsNext DEF FiguresInv
<1>4. /\ IsLog(s_log) /\ \A i \in DOMAIN s_rows : RowIsTrue(s_rows[i], s_log, i)
      /\ \A e \in DOMAIN s_log : e.row \in DOMAIN s_rows
  BY DEF FiguresInv, StatsInv, IsLog, S!BagToSet
<1>5. \A row : SameColumns(row, row)
  BY DEF SameColumns
<1>6. ASSUME NEW v \in SVisits, S!AddInserts(v) PROVE FiguresInv'
  <2> DEFINE n == Len(s_rows) + 1
  <2>1. /\ s_rows' = Append(s_rows, S!Insert(v)) /\ n \notin DOMAIN s_rows
        /\ LogsVisit(s_log', s_log, v, n)
    BY <1>2, <1>6 DEF S!AddInserts, S!Log, LogsVisit, Logs
  <2>2. /\ DOMAIN s_rows' = DOMAIN s_rows \union {n} /\ s_rows'[n] = S!Insert(v)
        /\ \A i \in DOMAIN s_rows : s_rows'[i] = s_rows[i]
    BY <1>1, <1>2, <2>1
  <2> HIDE DEF n
  <2>3. /\ IsLog(s_log')
        /\ \A i, A : Took(s_log', i, A) = Took(s_log, i, A) + IF n = i /\ v \in A THEN 1 ELSE 0
    BY <1>4, <2>1, TookMore
  <2>4. RowIsTrue(s_rows'[n], s_log', n)
    <3>1. RowIsTrue(Blank, s_log, n)
      BY <1>4, <2>1, BlankIsTrue
    <3>2. RowIsTrue(S!Insert(v), s_log', n)
      BY <1>4, <2>1, <3>1, InsertIsRaised, RaisedIsTrue
    <3>3. QED
      BY <2>2, <3>2
  <2>5. ASSUME NEW i \in DOMAIN s_rows PROVE RowIsTrue(s_rows'[i], s_log', i)
    <3>1. \A A : Took(s_log', i, A) = Took(s_log, i, A)
      BY <1>4, <2>1, <2>3, TookSome
    <3>2. RowIsTrue(s_rows[i], s_log', i)
      BY <1>4, <1>5, <3>1, SameIsTrue
    <3>3. QED
      BY <2>2, <3>2
  <2>6. \A i \in DOMAIN s_rows' : RowIsTrue(s_rows'[i], s_log', i)
    BY <2>2, <2>4, <2>5
  <2>7. QED
    BY <1>3, <2>3, <2>6 DEF FiguresInv, IsLog
<1>7. ASSUME NEW v \in SVisits, NEW n \in DOMAIN s_rows, S!AddUpdates(v, n) PROVE FiguresInv'
  <2>1. /\ s_rows' = [s_rows EXCEPT ![n] = S!Update(s_rows[n], v)]
        /\ LogsVisit(s_log', s_log, v, n)
    BY <1>7 DEF S!AddUpdates, S!Log, LogsVisit, Logs
  <2>2. /\ DOMAIN s_rows' = DOMAIN s_rows /\ s_rows'[n] = S!Update(s_rows[n], v)
        /\ \A i \in DOMAIN s_rows : i # n => s_rows'[i] = s_rows[i]
    BY <1>2, <2>1
  <2>3. /\ IsLog(s_log')
        /\ \A i, A : Took(s_log', i, A) = Took(s_log, i, A) + IF n = i /\ v \in A THEN 1 ELSE 0
    BY <1>4, <2>1, TookMore
  <2>4. RowIsTrue(s_rows'[n], s_log', n)
    <3>1. RowRaised(S!Update(s_rows[n], v), s_rows[n], v)
      BY <1>2, UpdateIsRaised
    <3>2. RowIsTrue(S!Update(s_rows[n], v), s_log', n)
      BY <1>4, <2>1, <3>1, RaisedIsTrue
    <3>3. QED
      BY <2>2, <3>2
  <2>5. ASSUME NEW i \in DOMAIN s_rows, i # n PROVE RowIsTrue(s_rows'[i], s_log', i)
    <3>1. \A A : Took(s_log', i, A) = Took(s_log, i, A)
      BY <1>4, <2>3, <2>5, TookSome
    <3>2. RowIsTrue(s_rows[i], s_log', i)
      BY <1>4, <1>5, <3>1, SameIsTrue
    <3>3. QED
      BY <2>2, <2>5, <3>2
  <2>6. \A i \in DOMAIN s_rows' : RowIsTrue(s_rows'[i], s_log', i)
    BY <2>2, <2>4, <2>5
  <2>7. QED
    BY <1>3, <2>3, <2>6 DEF FiguresInv, IsLog
<1>8. ASSUME NEW n \in DOMAIN s_rows, S!Elapse(n) PROVE FiguresInv'
  <2>1. PICK age \in S!Age : s_rows' = [s_rows EXCEPT ![n].age = age]
    BY <1>8 DEF S!Elapse
  <2>2. UNCHANGED s_log
    BY <1>8 DEF S!Elapse
  <2>3. SameColumns([s_rows[n] EXCEPT !.age = age], s_rows[n])
    BY <1>2 DEF StatRow, SameColumns
  <2>4. DOMAIN s_rows' = DOMAIN s_rows /\ s_rows'[n] = [s_rows[n] EXCEPT !.age = age]
        /\ \A i \in DOMAIN s_rows : i # n => s_rows'[i] = s_rows[i]
    BY <2>1
  <2>5. \A i \in DOMAIN s_rows : SameColumns(s_rows'[i], s_rows[i])
    BY <1>5, <2>3, <2>4
  <2>6. \A i \in DOMAIN s_rows : RowIsTrue(s_rows'[i], s_log, i)
    BY <1>4, <2>5, SameIsTrue
  <2>7. QED
    BY <1>3, <2>2, <2>4, <2>6 DEF FiguresInv
<1>9. ASSUME UNCHANGED s_vars PROVE FiguresInv'
  BY <1>3, <1>9 DEF FiguresInv, s_vars
<1>10. QED
  BY <1>6, <1>7, <1>8, <1>9 DEF S!Next

\* What the visits of a set brought to the rows of a window.
TakenBy(D, A) == {e \in DOMAIN s_log : e.row \in D /\ e.visit \in A}
SeenOf(D, A) == R!SumOf(s_log, TakenBy(D, A))

LEMMA ImageIsFinite ==
    ASSUME NEW g, NEW D, IsFiniteSet(D)
    PROVE  IsFiniteSet({g[x] : x \in D})
<1> DEFINE im(s) == {g[x] : x \in s}
           Q == {s \in SUBSET D : IsFiniteSet(im(s))}
<1>1. {} \in Q
  <2>1. im({}) = {}
    OBVIOUS
  <2>2. QED
    BY <2>1, FS_EmptySet
<1>2. ASSUME NEW s \in SUBSET D, \A x \in s : s \ {x} \in Q PROVE s \in Q
  <2>1. CASE s = {}
    BY <1>1, <2>1
  <2>2. CASE s # {}
    <3>1. PICK x \in s : TRUE
      BY <2>2
    <3>2. IsFiniteSet(im(s \ {x}))
      BY <1>2, <3>1
    <3>3. im(s) = im(s \ {x}) \union {g[x]}
      BY <3>1
    <3>4. IsFiniteSet(im(s))
      <4> DEFINE rest == im(s \ {x})
      <4>1. IsFiniteSet(rest) /\ im(s) = rest \union {g[x]}
        BY <3>2, <3>3
      <4> HIDE DEF im, rest
      <4>2. IsFiniteSet(rest \union {g[x]})
        BY <4>1, FS_AddElement
      <4>3. QED
        BY <4>1, <4>2
    <3>5. QED
      BY <3>4
  <2>3. QED
    BY <2>1, <2>2
<1>3. Q \subseteq SUBSET D
  OBVIOUS
<1>4. \A s \in SUBSET D : s \in Q
  <2> HIDE DEF Q
  <2>1. QED
    BY <1>1, <1>2, <1>3, BySize
<1>5. QED
  BY <1>4

\* What each row took, for all rows of a set.
LEMMA RowsTogether ==
    ASSUME IsLog(s_log), NEW D, IsFiniteSet(D), NEW h, NEW A, \A i \in D : h[i] = Took(s_log, i, A)
    PROVE  R!SumOf(h, D) = SeenOf(D, A)
<1> DEFINE F == {e \in DOMAIN s_log : e.visit \in A}
           g == [e \in DOMAIN s_log |-> e.row]
<1>1. F \in SUBSET DOMAIN s_log
  OBVIOUS
<1>2. ASSUME NEW i \in D PROVE h[i] = GroupSum(s_log, g, F, i)
  <2>1. {e \in F : g[e] = i} = {e \in DOMAIN s_log : e.row = i /\ e.visit \in A}
    OBVIOUS
  <2>2. QED
    BY <2>1 DEF GroupSum, Took
<1>3. {e \in F : g[e] \in D} = TakenBy(D, A)
  BY DEF TakenBy
<1> HIDE DEF F, g
<1>4. IsFiniteSet(F) /\ \A e \in F : s_log[e] \in Nat
  BY <1>1, LogValues
<1>5. R!SumOf(h, D) = R!SumOf(s_log, {e \in F : g[e] \in D})
  BY <1>2, <1>4, SumOfGroups
<1>6. QED
  BY <1>3, <1>5 DEF SeenOf

\* A bag counts each key as often as it was seen.
BagIsTrue(bag, D, g) ==
    /\ \A v \in SVisits : g[v] # S!None =>
           CountOf(bag, g[v]) = SeenOf(D, {u \in SVisits : g[u] = g[v]})
    /\ DOMAIN bag \subseteq {g[v] : v \in SVisits}

RowBagIsTrue(bag, i, g) ==
    /\ \A v \in SVisits : g[v] # S!None =>
           CountOf(bag, g[v]) = Took(s_log, i, {u \in SVisits : g[u] = g[v]})
    /\ DOMAIN bag \subseteq {g[v] : v \in SVisits}

LEMMA MergedIsTrue ==
    ASSUME IsLog(s_log), NEW D, IsFiniteSet(D), NEW K, NEW f, NEW g,
           \A i \in D : f[i] \in Bags(K) /\ RowBagIsTrue(f[i], i, g)
    PROVE  BagIsTrue(S!Merged(f, D), D, g)
<1>1. S!Merged(f, D) = Together(f, D)
  BY MergedIsTogether
<1>2. DOMAIN Together(f, D) = KeysIn(f, D)
  BY DEF Together
<1>3. KeysIn(f, D) \subseteq {g[v] : v \in SVisits}
  BY DEF KeysIn, RowBagIsTrue
<1>4. ASSUME NEW v \in SVisits, g[v] # S!None
      PROVE  CountOf(Together(f, D), g[v]) = SeenOf(D, {u \in SVisits : g[u] = g[v]})
  <2> DEFINE A == {u \in SVisits : g[u] = g[v]}
             k == g[v]
             h == [i \in D |-> CountOf(f[i], k)]
  <2>1. \A i \in D : h[i] = Took(s_log, i, A)
    BY <1>4 DEF RowBagIsTrue
  <2>2. CountOf(Together(f, D), k) = R!SumOf(h, D)
    <3> HIDE DEF k
    <3>1. QED
      BY TogetherCounts
  <2> HIDE DEF A, h
  <2>3. R!SumOf(h, D) = SeenOf(D, A)
    BY <2>1, RowsTogether
  <2>4. QED
    BY <2>2, <2>3 DEF A
<1>5. QED
  BY <1>1, <1>2, <1>3, <1>4 DEF BagIsTrue

\* The visits of a row by what they bring.
TookVisit(i, v) == \E e \in DOMAIN s_log : e.row = i /\ e.visit = v

LEMMA TookVisits ==
    ASSUME FiguresInv, NEW i, NEW A \in SUBSET SVisits
    PROVE  /\ Took(s_log, i, A) \in Nat
           /\ Took(s_log, i, A) > 0 <=> \E v \in A : TookVisit(i, v)
<1>1. IsLog(s_log)
  BY DEF FiguresInv, StatsInv, IsLog
<1>2. (\E v \in A : TookVisit(i, v)) <=> \E e \in DOMAIN s_log : e.row = i /\ e.visit \in A
  BY DEF TookVisit
<1>3. QED
  BY <1>1, <1>2, TookSome

\* Countries, and referrers.
LEMMA NamesAreTrue ==
    ASSUME FiguresInv, NEW i, NEW K, NEW bag \in Bags(K), NEW g,
           \A k : CountOf(bag, k) = Took(s_log, i, {u \in SVisits : g[u] = k /\ k # S!None})
    PROVE  RowBagIsTrue(bag, i, g)
<1>1. ASSUME NEW v \in SVisits, g[v] # S!None
      PROVE  CountOf(bag, g[v]) = Took(s_log, i, {u \in SVisits : g[u] = g[v]})
  <2>1. {u \in SVisits : g[u] = g[v] /\ g[v] # S!None} = {u \in SVisits : g[u] = g[v]}
    BY <1>1
  <2>2. CountOf(bag, g[v]) = Took(s_log, i, {u \in SVisits : g[u] = g[v] /\ g[v] # S!None})
    OBVIOUS
  <2>3. QED
    BY <2>1, <2>2
<1>2. ASSUME NEW k \in DOMAIN bag PROVE \E v \in SVisits : g[v] = k
  <2> DEFINE A == {u \in SVisits : g[u] = k /\ k # S!None}
  <2>1. CountOf(bag, k) = Took(s_log, i, A) /\ A \in SUBSET SVisits
    OBVIOUS
  <2>2. CountOf(bag, k) > 0
    BY CountType
  <2>3. \E v \in A : TookVisit(i, v)
    <3> HIDE DEF A
    <3>1. QED
      BY <2>1, <2>2, TookVisits
  <2>4. QED
    BY <2>3
<1>3. QED
  BY <1>1, <1>2 DEF RowBagIsTrue

LEMMA RestrictedIs ==
    ASSUME NEW K, NEW bag \in Bags(K), NEW keys PROVE S!Restricted(bag, keys) \in Bags(K)
<1>1. PICK D \in SUBSET K : bag \in [D -> Nat \ {0}]
  BY DEF Bags
<1>2. S!Restricted(bag, keys) \in [D \intersect keys -> Nat \ {0}]
  BY <1>1 DEF S!Restricted, S!BagToSet
<1>3. QED
  BY <1>2 DEF Bags

LEMMA EmptyIsBag == \A K : S!EmptyBag \in Bags(K) /\ DOMAIN S!EmptyBag = {}
<1> SUFFICES ASSUME NEW K PROVE S!EmptyBag \in Bags(K) /\ DOMAIN S!EmptyBag = {}
  OBVIOUS
<1>1. {} \in SUBSET K
  OBVIOUS
<1>2. S!EmptyBag \in Bags(K)
  BY <1>1, BagsOfKeys DEF S!EmptyBag
<1>3. QED
  BY <1>2 DEF S!EmptyBag, S!SetToBag

\* The system variants of a type.
VariantKey(t) ==
    [v \in SVisits |-> IF v.agent.platform.type = t THEN v.agent.platform.name ELSE S!None]

LEMMA VariantsAreTrue ==
    ASSUME FiguresInv, NEW K, NEW i \in DOMAIN s_rows, s_rows[i] \in StatRow(K),
           NEW t \in DOMAIN S!Variants
    PROVE  /\ S!VariantsOf(s_rows[i], t) \in Bags(K)
           /\ RowBagIsTrue(S!VariantsOf(s_rows[i], t), i, VariantKey(t))
<1> DEFINE row == s_rows[i]
           names == S!Variants[t]
           bag == S!VariantsOf(row, t)
           g == VariantKey(t)
           OfName(k) == {u \in SVisits : u.agent.platform.name = k}
           OfType == {u \in SVisits : u.agent.platform.type = t}
<1>1. t \in S!PlatformType /\ t \notin {"Ios", "Android", "Other"} /\ S!None \notin names
  BY VariantNames
<1>2. RowIsTrue(row, s_log, i) /\ row.platforms \in Bags(K)
  BY DEF FiguresInv, StatRow
<1>3. \A v \in SVisits : v.agent.platform.type = t <=> v.agent.platform.name \in names
  BY VisitsAreParsed
<1>4. \A v \in SVisits :
          g[v] = IF v.agent.platform.type = t THEN v.agent.platform.name ELSE S!None
  BY DEF VariantKey
<1>5. /\ \A k \in names : CountOf(row.platforms, k) = Took(s_log, i, OfName(k))
      /\ row.platformTypes[t] = Took(s_log, i, OfType)
  BY <1>1, <1>2 DEF RowIsTrue
<1>6. bag = IF row.platformTypes[t] = 0 THEN S!EmptyBag ELSE S!Restricted(row.platforms, names)
  BY <1>1 DEF S!VariantsOf
<1>7. \A k \in names : OfName(k) = {u \in SVisits : g[u] = k}
  BY <1>1, <1>3, <1>4
<1>8. \A v \in SVisits : g[v] # S!None => g[v] \in names
  BY <1>3, <1>4
<1>9. /\ \A k : OfName(k) \in SUBSET SVisits
      /\ OfType \in SUBSET SVisits
      /\ \A k \in names : OfName(k) \subseteq OfType
  BY <1>3
<1> HIDE DEF row, names, bag, g, OfName, OfType
<1>10. /\ S!Restricted(row.platforms, names) \in Bags(K)
       /\ DOMAIN S!Restricted(row.platforms, names) \subseteq names
       /\ \A k \in names :
              CountOf(S!Restricted(row.platforms, names), k) = CountOf(row.platforms, k)
  <2> DEFINE platforms == row.platforms
  <2>1. platforms \in Bags(K)
    BY <1>2
  <2> HIDE DEF platforms
  <2>2. S!Restricted(platforms, names) \in Bags(K)
    BY <2>1, RestrictedIs
  <2>3. DOMAIN S!Restricted(platforms, names) \subseteq names
    BY DEF S!Restricted
  <2>4. \A k \in names : CountOf(S!Restricted(platforms, names), k) = CountOf(platforms, k)
    BY DEF S!Restricted, S!BagToSet, CountOf
  <2>5. QED
    BY <2>2, <2>3, <2>4 DEF platforms
<1>11. \A k \in names : CountOf(bag, k) = Took(s_log, i, OfName(k))
  <2> SUFFICES ASSUME NEW k \in names PROVE CountOf(bag, k) = Took(s_log, i, OfName(k))
    OBVIOUS
  <2>1. CASE row.platformTypes[t] = 0
    <3>1. ~(\E v \in OfType : TookVisit(i, v))
      <4>1. Took(s_log, i, OfType) > 0 <=> \E v \in OfType : TookVisit(i, v)
        BY <1>9, TookVisits
      <4>2. ~(Took(s_log, i, OfType) > 0)
        BY <1>5, <2>1
      <4>3. QED
        BY <4>1, <4>2
    <3>2. ~(\E v \in OfName(k) : TookVisit(i, v))
      BY <1>9, <3>1
    <3>3. Took(s_log, i, OfName(k)) = 0
      BY <1>9, <3>2, TookVisits
    <3>4. QED
      BY <1>6, <2>1, <3>3, CountOfKeys
  <2>2. CASE row.platformTypes[t] # 0
    <3>1. CountOf(S!Restricted(row.platforms, names), k) = CountOf(row.platforms, k)
      BY <1>10
    <3>2. QED
      BY <1>5, <1>6, <2>2, <3>1
  <2>3. QED
    BY <2>1, <2>2
<1>12. bag \in Bags(K) /\ DOMAIN bag \subseteq names
  <2>1. CASE row.platformTypes[t] = 0
    <3>1. S!EmptyBag \in Bags(K) /\ DOMAIN S!EmptyBag = {}
      BY EmptyIsBag
    <3>2. QED
      BY <1>6, <2>1, <3>1
  <2>2. CASE row.platformTypes[t] # 0
    BY <1>6, <1>10, <2>2
  <2>3. QED
    BY <2>1, <2>2
<1>13. ASSUME NEW k \in DOMAIN bag PROVE \E v \in SVisits : g[v] = k
  <2>1. k \in names /\ CountOf(bag, k) > 0
    BY <1>12, CountType
  <2>2. \E v \in OfName(k) : TookVisit(i, v)
    BY <1>9, <1>11, <2>1, TookVisits
  <2>3. QED
    BY <1>7, <2>1, <2>2
<1>14. ASSUME NEW v \in SVisits, g[v] # S!None
       PROVE  CountOf(bag, g[v]) = Took(s_log, i, {u \in SVisits : g[u] = g[v]})
  BY <1>7, <1>8, <1>11, <1>14
<1>15. RowBagIsTrue(bag, i, g)
  BY <1>13, <1>14 DEF RowBagIsTrue
<1>16. QED
  BY <1>12, <1>15 DEF bag, row, g

\* The versions of a type's browsers.  The keys of a type are those of its visits.
VersionKey(t) ==
    [v \in SVisits |-> IF v.agent.browser.type = t THEN v.agent.browser.version ELSE S!None]

OfBrowser(t) == {u \in SVisits : u.agent.browser.type = t}
OfKey(k) == {u \in SVisits : u.agent.browser.type # S!None /\ BrowserKey(u) = k}

LEMMA BrowserCounts ==
    ASSUME FiguresInv, NEW i \in DOMAIN s_rows
    PROVE  /\ \A k : CountOf(s_rows[i].browsers, k) = Took(s_log, i, OfKey(k))
           /\ \A t \in S!BrowserType : s_rows[i].browserTypes[t] = Took(s_log, i, OfBrowser(t))
BY DEF FiguresInv, RowIsTrue, OfKey, OfBrowser

LEMMA KeysAre ==
    ASSUME FiguresInv, NEW K, NEW i \in DOMAIN s_rows, s_rows[i] \in StatRow(K)
    PROVE  /\ \A k : k \in DOMAIN s_rows[i].browsers <=>
                         \E v \in OfKey(k) : TookVisit(i, v)
           /\ \A t \in S!BrowserType :
                  s_rows[i].browserTypes[t] > 0 <=> \E v \in OfBrowser(t) : TookVisit(i, v)
<1>1. ASSUME NEW k
      PROVE  k \in DOMAIN s_rows[i].browsers <=> \E v \in OfKey(k) : TookVisit(i, v)
  <2> DEFINE A == OfKey(k)
             bag == s_rows[i].browsers
  <2>1. bag \in Bags(K) /\ A \in SUBSET SVisits /\ CountOf(bag, k) = Took(s_log, i, A)
    BY BrowserCounts DEF StatRow, OfKey
  <2> HIDE DEF A, bag
  <2>2. k \in DOMAIN bag <=> CountOf(bag, k) > 0
    BY <2>1, CountType
  <2>3. Took(s_log, i, A) > 0 <=> \E v \in A : TookVisit(i, v)
    BY <2>1, TookVisits
  <2>4. QED
    BY <2>1, <2>2, <2>3 DEF A, bag
<1>2. ASSUME NEW t \in S!BrowserType
      PROVE  s_rows[i].browserTypes[t] > 0 <=> \E v \in OfBrowser(t) : TookVisit(i, v)
  <2> DEFINE A == OfBrowser(t)
  <2>1. A \in SUBSET SVisits /\ s_rows[i].browserTypes[t] = Took(s_log, i, A)
    BY BrowserCounts DEF OfBrowser
  <2> HIDE DEF A
  <2>2. Took(s_log, i, A) > 0 <=> \E v \in A : TookVisit(i, v)
    BY <2>1, TookVisits
  <2>3. QED
    BY <2>1, <2>2 DEF A
<1>3. QED
  BY <1>1, <1>2

LEMMA KeysOfType ==
    ASSUME FiguresInv, NEW K, NEW i \in DOMAIN s_rows, s_rows[i] \in StatRow(K),
           NEW t \in S!BrowserType, NEW v \in SVisits, TookVisit(i, v),
           v.agent.browser.type # S!None
    PROVE  BrowserKey(v) \in S!KeysOf(s_rows[i], t) <=> v.agent.browser.type = t
<1> DEFINE row == s_rows[i]
           named(u) == {k \in DOMAIN row.browsers : k.name = S!BrowserName[u]}
           counted == {u \in DOMAIN S!BrowserName : row.browserTypes[u] > 0}
           type == v.agent.browser.type
           key == BrowserKey(v)
<1>1. S!KeysOf(row, t) =
          IF row.browserTypes[t] = 0 THEN {}
          ELSE IF t = "Other" THEN DOMAIN row.browsers \ UNION {named(u) : u \in counted}
          ELSE named(t)
  BY DEF S!KeysOf, S!BagToSet
<1>2. /\ type \in S!BrowserType
      /\ \A u \in DOMAIN S!BrowserName : type = u <=> v.agent.browser.name = S!BrowserName[u]
  BY VisitsAreParsed
<1>3. /\ DOMAIN S!BrowserName \subseteq S!BrowserType /\ "Other" \notin DOMAIN S!BrowserName
      /\ \A u \in S!BrowserType : u # "Other" => u \in DOMAIN S!BrowserName
  BY DEF S!BrowserName, S!BrowserType
<1>4. key.name = v.agent.browser.name
  BY DEF BrowserKey
<1>5. key \in DOMAIN row.browsers
  <2>1. v \in OfKey(key)
    BY DEF OfKey
  <2> HIDE DEF key
  <2>2. QED
    BY <2>1, KeysAre
<1>6. row.browserTypes[type] > 0
  <2>1. v \in OfBrowser(type)
    BY DEF OfBrowser
  <2> HIDE DEF type
  <2>2. QED
    BY <1>2, <2>1, KeysAre
<1>7. row.browserTypes[t] \in Nat
  BY DEF StatRow, S!Counts
<1> HIDE DEF row, key, type
<1>8. \A u \in DOMAIN S!BrowserName : key \in named(u) <=> type = u
  BY <1>2, <1>4, <1>5
<1>9. CASE type = t
  <2>1. row.browserTypes[t] # 0
    BY <1>6, <1>7, <1>9
  <2>2. CASE t = "Other"
    <3>1. \A u \in counted : key \notin named(u)
      BY <1>3, <1>8, <1>9, <2>2
    <3> HIDE DEF named, counted
    <3>2. QED
      BY <1>1, <1>5, <1>9, <2>1, <2>2, <3>1 DEF key, row, type
  <2>3. CASE t # "Other"
    BY <1>1, <1>3, <1>8, <1>9, <2>1, <2>3 DEF key, row, type
  <2>4. QED
    BY <2>2, <2>3
<1>10. CASE type # t
  <2>1. CASE t = "Other"
    <3>1. type \in counted /\ key \in named(type)
      BY <1>2, <1>3, <1>6, <1>8, <1>10, <2>1
    <3> HIDE DEF named, counted
    <3>2. key \in UNION {named(u) : u \in counted}
      BY <3>1
    <3>3. QED
      BY <1>1, <1>10, <2>1, <3>2 DEF key, row, type
  <2>2. CASE t # "Other"
    BY <1>1, <1>3, <1>8, <1>10, <2>2 DEF key, row, type
  <2>3. QED
    BY <2>1, <2>2
<1>11. QED
  BY <1>9, <1>10 DEF type

LEMMA VersionCounts ==
    ASSUME FiguresInv, NEW K, NEW i \in DOMAIN s_rows, s_rows[i] \in StatRow(K),
           NEW t \in S!BrowserType, NEW version
    PROVE  S!SumOver(s_rows[i].browsers,
                     {k \in S!KeysOf(s_rows[i], t) : k.version = version})
               = Took(s_log, i, {u \in SVisits : u.agent.browser.type = t
                                                 /\ u.agent.browser.version = version})
<1> DEFINE keys == S!KeysOf(s_rows[i], t)
           T == {k \in keys : k.version = version}
           bag == s_rows[i].browsers
           F == {e \in DOMAIN s_log : /\ e.row = i /\ e.visit \in SVisits
                                      /\ e.visit.agent.browser.type # S!None}
           g == [e \in DOMAIN s_log |-> BrowserKey(e.visit)]
           A == {u \in SVisits : u.agent.browser.type = t /\ u.agent.browser.version = version}
<1>1. IsLog(s_log) /\ F \in SUBSET DOMAIN s_log
  BY DEF FiguresInv, StatsInv, IsLog
<1>2. IsFiniteSet(F) /\ \A e \in F : s_log[e] \in Nat
  <2> HIDE DEF F
  <2>1. QED
    BY <1>1, LogValues
<1>3. keys \subseteq DOMAIN bag
  BY DEF S!KeysOf, S!BagToSet
<1>4. \A k \in DOMAIN bag : \E e \in DOMAIN s_log : g[e] = k
  BY KeysAre DEF TookVisit, OfKey
<1>5. IsFiniteSet(T)
  <2> DEFINE D == DOMAIN s_log
             im == {g[e] : e \in D}
  <2>1. IsFiniteSet(D) /\ T \subseteq im
    BY <1>3, <1>4 DEF FiguresInv
  <2> HIDE DEF g, T, D
  <2>2. IsFiniteSet(im)
    BY <2>1, ImageIsFinite
  <2> HIDE DEF im
  <2>3. QED
    BY <2>1, <2>2, FS_Subset
<1>6. ASSUME NEW k \in T PROVE bag[k] = GroupSum(s_log, g, F, k)
  <2>1. k \in DOMAIN bag
    BY <1>3
  <2>2. bag[k] = Took(s_log, i, OfKey(k))
    BY <2>1, BrowserCounts DEF CountOf
  <2>3. {e \in F : g[e] = k} = {e \in DOMAIN s_log : e.row = i /\ e.visit \in OfKey(k)}
    BY DEF OfKey
  <2>4. QED
    BY <2>2, <2>3 DEF GroupSum, Took
<1>7. {e \in F : g[e] \in T} = {e \in DOMAIN s_log : e.row = i /\ e.visit \in A}
  <2> SUFFICES ASSUME NEW e \in DOMAIN s_log, e.row = i
               PROVE  e \in F /\ g[e] \in T <=> e.visit \in A
    OBVIOUS
  <2>1. g[e] = BrowserKey(e.visit) /\ g[e].version = e.visit.agent.browser.version
    BY DEF BrowserKey
  <2>2. t # S!None
    BY DEF S!BrowserType, S!None
  <2>3. CASE e \in F
    <3>1. e.visit \in SVisits /\ TookVisit(i, e.visit) /\ e.visit.agent.browser.type # S!None
      BY <2>3 DEF TookVisit
    <3>2. BrowserKey(e.visit) \in keys <=> e.visit.agent.browser.type = t
      BY <3>1, KeysOfType
    <3> HIDE DEF keys, g, F
    <3>3. QED
      BY <2>1, <2>3, <3>1, <3>2
  <2>4. CASE e \notin F
    BY <2>2, <2>4
  <2>5. QED
    BY <2>3, <2>4
<1> HIDE DEF keys, T, bag, F, g, A
<1>8. R!SumOf(bag, T) = R!SumOf(s_log, {e \in F : g[e] \in T})
  BY <1>2, <1>5, <1>6, SumOfGroups
<1>9. StatSum(bag, T) = R!SumOf(bag, T)
  BY StatSumIs
<1>10. QED
  BY <1>7, <1>8, <1>9 DEF Took, StatSum, keys, T, bag, A

LEMMA VersionsAreTrue ==
    ASSUME FiguresInv, NEW K, NEW i \in DOMAIN s_rows, s_rows[i] \in StatRow(K),
           NEW t \in S!BrowserType
    PROVE  /\ S!VersionsOf(s_rows[i], t) \in Bags({v.agent.browser.version : v \in SVisits})
           /\ RowBagIsTrue(S!VersionsOf(s_rows[i], t), i, VersionKey(t))
<1> DEFINE bag == S!VersionsOf(s_rows[i], t)
           keys == S!KeysOf(s_rows[i], t)
           g == VersionKey(t)
           L == {v.agent.browser.version : v \in SVisits}
           Of(n) == {u \in SVisits : u.agent.browser.type = t /\ u.agent.browser.version = n}
           D == {k.version : k \in keys}
<1>1. bag = [n \in D |-> Took(s_log, i, Of(n))]
  <2>1. \A n : S!SumOver(s_rows[i].browsers, {k \in keys : k.version = n}) = Took(s_log, i, Of(n))
    BY VersionCounts
  <2>2. bag = [n \in D |-> S!SumOver(s_rows[i].browsers, {k \in keys : k.version = n})]
    BY DEF S!VersionsOf
  <2> HIDE DEF keys, D, Of, bag
  <2>3. QED
    BY <2>1, <2>2
<1>2. t # S!None
  BY DEF S!BrowserType, S!None
<1>3. \A n : n \in D <=> \E v \in Of(n) : TookVisit(i, v)
  <2>1. ASSUME NEW k \in keys
        PROVE  \E v \in Of(k.version) : TookVisit(i, v)
    <3>1. k \in DOMAIN s_rows[i].browsers
      BY DEF S!KeysOf, S!BagToSet
    <3>2. PICK v \in OfKey(k) : TookVisit(i, v)
      BY <3>1, KeysAre
    <3>3. v \in SVisits /\ v.agent.browser.type # S!None /\ BrowserKey(v) = k
      BY DEF OfKey
    <3>4. v.agent.browser.type = t
      BY <2>1, <3>2, <3>3, KeysOfType
    <3>5. v.agent.browser.version = k.version
      BY <3>3 DEF BrowserKey
    <3>6. QED
      BY <3>2, <3>3, <3>4, <3>5
  <2>2. ASSUME NEW n, NEW v \in Of(n), TookVisit(i, v) PROVE n \in D
    <3>1. v \in SVisits /\ v.agent.browser.type = t /\ v.agent.browser.version = n
      OBVIOUS
    <3>2. BrowserKey(v) \in keys
      BY <1>2, <2>2, <3>1, KeysOfType
    <3>3. BrowserKey(v).version = n
      BY <3>1 DEF BrowserKey
    <3>4. QED
      BY <3>2, <3>3
  <2> HIDE DEF keys, Of
  <2>3. QED
    BY <2>1, <2>2
<1>4. \A n : Of(n) \in SUBSET SVisits
  OBVIOUS
<1>5. \A n : Took(s_log, i, Of(n)) \in Nat /\ (Took(s_log, i, Of(n)) > 0 <=> n \in D)
  <2> HIDE DEF Of, D
  <2> SUFFICES ASSUME NEW n
               PROVE  Took(s_log, i, Of(n)) \in Nat /\ (Took(s_log, i, Of(n)) > 0 <=> n \in D)
    OBVIOUS
  <2> DEFINE A == Of(n)
  <2>1. A \in SUBSET SVisits
    BY <1>4
  <2> HIDE DEF A
  <2>2. Took(s_log, i, A) \in Nat /\ (Took(s_log, i, A) > 0 <=> \E v \in A : TookVisit(i, v))
    BY <2>1, TookVisits
  <2>3. QED
    BY <1>3, <2>2 DEF A
<1>6. D \in SUBSET L
  BY <1>3
<1>7. \A v \in SVisits :
          g[v] = IF v.agent.browser.type = t THEN v.agent.browser.version ELSE S!None
  BY DEF VersionKey
<1>8. \A n : n # S!None => Of(n) = {u \in SVisits : g[u] = n}
  BY <1>7
<1>9. \A n \in D : \E v \in SVisits : g[v] = n
  BY <1>3, <1>7
<1> HIDE DEF bag, keys, g, D, Of, L
<1>10. \A n : CountOf(bag, n) = Took(s_log, i, Of(n))
  <2> SUFFICES ASSUME NEW n PROVE CountOf(bag, n) = Took(s_log, i, Of(n))
    OBVIOUS
  <2>1. CASE n \in D
    BY <1>1, <2>1 DEF CountOf
  <2>2. CASE n \notin D
    <3>1. Took(s_log, i, Of(n)) = 0
      BY <1>5, <2>2
    <3>2. QED
      BY <1>1, <2>2, <3>1 DEF CountOf
  <2>3. QED
    BY <2>1, <2>2
<1>11. bag \in Bags(L)
  <2>1. \A n \in D : Took(s_log, i, Of(n)) \in Nat \ {0}
    BY <1>5
  <2>2. bag \in [D -> Nat \ {0}]
    BY <1>1, <2>1
  <2>3. QED
    BY <1>6, <2>2 DEF Bags
<1>12. DOMAIN bag = D
  BY <1>1
<1>13. RowBagIsTrue(bag, i, g)
  <2>1. ASSUME NEW v \in SVisits, g[v] # S!None
        PROVE  CountOf(bag, g[v]) = Took(s_log, i, {u \in SVisits : g[u] = g[v]})
    <3>1. Of(g[v]) = {u \in SVisits : g[u] = g[v]}
      BY <1>8, <2>1
    <3>2. QED
      BY <1>10, <3>1
  <2>2. QED
    BY <1>9, <1>12, <2>1 DEF RowBagIsTrue
<1>14. QED
  BY <1>11, <1>13 DEF bag, g, L

\* Two kinds of keys that a window's figures count.
CountryKey == [v \in SVisits |-> v.country]
ReferrerKey == [v \in SVisits |-> v.referrer]

LEMMA StatSumSeen == ASSUME NEW D, NEW A PROVE StatSum(s_log, TakenBy(D, A)) = SeenOf(D, A)
BY StatSumIs DEF SeenOf

\* What a window's figures say of a column of the rows.
LEMMA ColumnIsSeen ==
    ASSUME IsLog(s_log), NEW D, IsFiniteSet(D), NEW h, NEW A,
           \A i \in D : h[i] = Took(s_log, i, A)
    PROVE  StatSum(h, D) = StatSum(s_log, TakenBy(D, A))
BY RowsTogether, StatSumIs DEF SeenOf

\* Counted as in the property, by a function of the visits.
CountsKeys(bag, D, g) ==
    /\ \A v \in SVisits : g[v] # S!None =>
           LET seen == StatSum(s_log, {e \in DOMAIN s_log : e.row \in D /\ g[e.visit] = g[v]})
           IN IF g[v] \in DOMAIN bag THEN bag[g[v]] = seen ELSE seen = 0
    /\ DOMAIN bag \subseteq {g[v] : v \in SVisits}

LEMMA TrueBagCounts ==
    ASSUME FiguresInv, NEW bag, NEW D, NEW g, BagIsTrue(bag, D, g)
    PROVE  CountsKeys(bag, D, g)
<1>1. \A e \in DOMAIN s_log : e.visit \in SVisits
  BY DEF FiguresInv, StatsInv, S!BagToSet
<1>2. ASSUME NEW v \in SVisits, g[v] # S!None
      PROVE  CountOf(bag, g[v]) =
                 StatSum(s_log, {e \in DOMAIN s_log : e.row \in D /\ g[e.visit] = g[v]})
  <2> DEFINE A == {u \in SVisits : g[u] = g[v]}
  <2>1. {e \in DOMAIN s_log : e.row \in D /\ g[e.visit] = g[v]} = TakenBy(D, A)
    BY <1>1 DEF TakenBy
  <2>2. CountOf(bag, g[v]) = SeenOf(D, A)
    BY <1>2 DEF BagIsTrue
  <2> HIDE DEF A
  <2>3. QED
    BY <2>1, <2>2, StatSumSeen
<1>3. QED
  BY <1>2 DEF CountsKeys, CountOf, BagIsTrue

\* The figures of a window, each with the name of what it says.
CountriesTrue(w, bag) == S!CountsVisits(w, bag, LAMBDA v : v.country)
ReferrersTrue(w, bag) == S!CountsVisits(w, bag, LAMBDA v : v.referrer)
VariantsTrue(w, bag, t) ==
    S!CountsVisits(w, bag, LAMBDA v :
        IF v.agent.platform.type = t THEN v.agent.platform.name ELSE S!None)
VersionsTrue(w, bag, t) ==
    S!CountsVisits(w, bag, LAMBDA v :
        IF v.agent.browser.type = t THEN v.agent.browser.version ELSE S!None)

LEMMA CountsCountries ==
    ASSUME FiguresInv, NEW w, NEW bag, CountsKeys(bag, S!Shown(w), CountryKey)
    PROVE  CountriesTrue(w, bag)
<1>1. \A e \in DOMAIN s_log : e.visit \in SVisits
  BY DEF FiguresInv, StatsInv, S!BagToSet
<1>2. \A v \in SVisits : CountryKey[v] = v.country
  BY DEF CountryKey
<1>3. \A v \in SVisits :
          {e \in DOMAIN s_log : e.row \in S!Shown(w) /\ CountryKey[e.visit] = CountryKey[v]}
            = {e \in DOMAIN s_log : e.row \in S!Shown(w) /\ e.visit.country = v.country}
  BY <1>1, <1>2
<1>4. {CountryKey[v] : v \in SVisits} = {v.country : v \in SVisits}
  BY <1>2
<1>5. ASSUME NEW v \in SVisits, v.country # S!None
      PROVE  LET seen == StatSum(s_log, {e \in DOMAIN s_log :
                                             e.row \in S!Shown(w) /\ e.visit.country = v.country})
             IN IF v.country \in DOMAIN bag THEN bag[v.country] = seen ELSE seen = 0
  BY <1>2, <1>3, <1>5 DEF CountsKeys
<1>6. QED
  BY <1>4, <1>5 DEF CountsKeys, CountriesTrue, S!CountsVisits, S!Seen, S!BagToSet, S!BagIn,
     StatSum, S!SumOver

LEMMA CountsReferrers ==
    ASSUME FiguresInv, NEW w, NEW bag, CountsKeys(bag, S!Shown(w), ReferrerKey)
    PROVE  ReferrersTrue(w, bag)
<1>1. \A e \in DOMAIN s_log : e.visit \in SVisits
  BY DEF FiguresInv, StatsInv, S!BagToSet
<1>2. \A v \in SVisits : ReferrerKey[v] = v.referrer
  BY DEF ReferrerKey
<1>3. \A v \in SVisits :
          {e \in DOMAIN s_log : e.row \in S!Shown(w) /\ ReferrerKey[e.visit] = ReferrerKey[v]}
            = {e \in DOMAIN s_log : e.row \in S!Shown(w) /\ e.visit.referrer = v.referrer}
  BY <1>1, <1>2
<1>4. {ReferrerKey[v] : v \in SVisits} = {v.referrer : v \in SVisits}
  BY <1>2
<1>5. ASSUME NEW v \in SVisits, v.referrer # S!None
      PROVE  LET seen == StatSum(s_log, {e \in DOMAIN s_log :
                                             e.row \in S!Shown(w) /\ e.visit.referrer = v.referrer})
             IN IF v.referrer \in DOMAIN bag THEN bag[v.referrer] = seen ELSE seen = 0
  BY <1>2, <1>3, <1>5 DEF CountsKeys
<1>6. QED
  BY <1>4, <1>5 DEF CountsKeys, ReferrersTrue, S!CountsVisits, S!Seen, S!BagToSet, S!BagIn,
     StatSum, S!SumOver

LEMMA CountsVariants ==
    ASSUME FiguresInv, NEW w, NEW bag, NEW t, CountsKeys(bag, S!Shown(w), VariantKey(t))
    PROVE  VariantsTrue(w, bag, t)
<1> DEFINE of(v) == IF v.agent.platform.type = t THEN v.agent.platform.name ELSE S!None
<1>1. \A e \in DOMAIN s_log : e.visit \in SVisits
  BY DEF FiguresInv, StatsInv, S!BagToSet
<1>2. \A v \in SVisits : VariantKey(t)[v] = of(v)
  BY DEF VariantKey
<1>3. \A v \in SVisits :
          {e \in DOMAIN s_log : e.row \in S!Shown(w) /\ VariantKey(t)[e.visit] = VariantKey(t)[v]}
            = {e \in DOMAIN s_log : e.row \in S!Shown(w) /\ of(e.visit) = of(v)}
  <2> HIDE DEF of
  <2>1. QED
    BY <1>1, <1>2
<1>4. {VariantKey(t)[v] : v \in SVisits} = {of(v) : v \in SVisits}
  <2> HIDE DEF of
  <2>1. QED
    BY <1>2
<1>5. ASSUME NEW v \in SVisits, of(v) # S!None
      PROVE  LET seen == StatSum(s_log, {e \in DOMAIN s_log :
                                             e.row \in S!Shown(w) /\ of(e.visit) = of(v)})
             IN IF of(v) \in DOMAIN bag THEN bag[of(v)] = seen ELSE seen = 0
  <2> HIDE DEF of
  <2>1. QED
    BY <1>2, <1>3, <1>5 DEF CountsKeys
<1>6. QED
  BY <1>4, <1>5 DEF CountsKeys, VariantsTrue, S!CountsVisits, S!Seen, S!BagToSet, S!BagIn,
     StatSum, S!SumOver

LEMMA CountsVersions ==
    ASSUME FiguresInv, NEW w, NEW bag, NEW t, CountsKeys(bag, S!Shown(w), VersionKey(t))
    PROVE  VersionsTrue(w, bag, t)
<1> DEFINE of(v) == IF v.agent.browser.type = t THEN v.agent.browser.version ELSE S!None
<1>1. \A e \in DOMAIN s_log : e.visit \in SVisits
  BY DEF FiguresInv, StatsInv, S!BagToSet
<1>2. \A v \in SVisits : VersionKey(t)[v] = of(v)
  BY DEF VersionKey
<1>3. \A v \in SVisits :
          {e \in DOMAIN s_log : e.row \in S!Shown(w) /\ VersionKey(t)[e.visit] = VersionKey(t)[v]}
            = {e \in DOMAIN s_log : e.row \in S!Shown(w) /\ of(e.visit) = of(v)}
  <2> HIDE DEF of
  <2>1. QED
    BY <1>1, <1>2
<1>4. {VersionKey(t)[v] : v \in SVisits} = {of(v) : v \in SVisits}
  <2> HIDE DEF of
  <2>1. QED
    BY <1>2
<1>5. ASSUME NEW v \in SVisits, of(v) # S!None
      PROVE  LET seen == StatSum(s_log, {e \in DOMAIN s_log :
                                             e.row \in S!Shown(w) /\ of(e.visit) = of(v)})
             IN IF of(v) \in DOMAIN bag THEN bag[of(v)] = seen ELSE seen = 0
  <2> HIDE DEF of
  <2>1. QED
    BY <1>2, <1>3, <1>5 DEF CountsKeys
<1>6. QED
  BY <1>4, <1>5 DEF CountsKeys, VersionsTrue, S!CountsVisits, S!Seen, S!BagToSet, S!BagIn,
     StatSum, S!SumOver

\* All figures of a window.
WindowIsTrue(w, figures) ==
    /\ figures.views = S!Seen(w, LAMBDA v : TRUE)
    /\ figures.types["Browser"] = S!Seen(w, LAMBDA v : v.agent.type = "Browser")
    /\ \A t \in S!PlatformType :
           figures.platforms[t].views = S!Seen(w, LAMBDA v : v.agent.platform.type = t)
    /\ \A t \in DOMAIN S!Variants : VariantsTrue(w, figures.platforms[t].variants, t)
    /\ \A t \in S!BrowserType :
           /\ figures.browsers[t].views = S!Seen(w, LAMBDA v : v.agent.browser.type = t)
           /\ VersionsTrue(w, figures.browsers[t].versions, t)
    /\ CountriesTrue(w, figures.countries)
    /\ ReferrersTrue(w, figures.referrers)

LEMMA TrueWindows == (\A w \in S!Windows : WindowIsTrue(w, S!Figures(w))) => S!FiguresAreTrue
BY DEF S!FiguresAreTrue, WindowIsTrue, CountriesTrue, ReferrersTrue, VariantsTrue, VersionsTrue

LEMMA RowsAreFinite ==
    ASSUME FiguresInv, NEW w
    PROVE  /\ IsLog(s_log) /\ IsFiniteSet(S!Shown(w)) /\ S!Shown(w) \subseteq DOMAIN s_rows
           /\ \A i \in S!Shown(w) : RowIsTrue(s_rows[i], s_log, i)
           /\ \A e \in DOMAIN s_log : e.visit \in SVisits /\ e.row \in DOMAIN s_rows
           /\ \E K : \A i \in S!Shown(w) : s_rows[i] \in StatRow(K)
<1>1. PICK K : s_rows \in Seq(StatRow(K))
  BY DEF FiguresInv, StatsInv
<1>2. DOMAIN s_rows = 1 .. Len(s_rows) /\ Len(s_rows) \in Nat
      /\ \A i \in DOMAIN s_rows : s_rows[i] \in StatRow(K)
  BY <1>1
<1>3. S!Shown(w) \subseteq DOMAIN s_rows
  BY DEF S!Shown
<1>4. IsFiniteSet(DOMAIN s_rows)
  BY <1>2, FS_Interval
<1>5. IsFiniteSet(S!Shown(w))
  BY <1>3, <1>4, FS_Subset
<1>6. /\ IsLog(s_log) /\ \A i \in DOMAIN s_rows : RowIsTrue(s_rows[i], s_log, i)
      /\ \A e \in DOMAIN s_log : e.visit \in SVisits /\ e.row \in DOMAIN s_rows
  BY DEF FiguresInv, StatsInv, IsLog, S!BagToSet
<1>7. QED
  BY <1>2, <1>3, <1>5, <1>6

\* The numbers.
LEMMA NumbersAreTrue ==
    ASSUME FiguresInv, NEW w
    PROVE  /\ S!Figures(w).views = S!Seen(w, LAMBDA v : TRUE)
           /\ S!Figures(w).types["Browser"] = S!Seen(w, LAMBDA v : v.agent.type = "Browser")
           /\ \A t \in S!PlatformType :
                  S!Figures(w).platforms[t].views
                      = S!Seen(w, LAMBDA v : v.agent.platform.type = t)
           /\ \A t \in S!BrowserType :
                  S!Figures(w).browsers[t].views
                      = S!Seen(w, LAMBDA v : v.agent.browser.type = t)
<1> DEFINE D == S!Shown(w)
<1>1. /\ IsLog(s_log) /\ IsFiniteSet(D)
      /\ \A i \in D : RowIsTrue(s_rows[i], s_log, i)
      /\ \A e \in DOMAIN s_log : e.visit \in SVisits
  BY RowsAreFinite
<1>2. S!Figures(w).views = S!Seen(w, LAMBDA v : TRUE)
  <2> DEFINE h == [i \in D |-> s_rows[i].total]
  <2>1. \A i \in D : h[i] = Took(s_log, i, SVisits)
    BY <1>1 DEF RowIsTrue
  <2>2. S!Figures(w).views = StatSum(h, D)
    BY DEF S!Figures, StatSum
  <2>3. S!Seen(w, LAMBDA v : TRUE) = StatSum(s_log, {e \in DOMAIN s_log : e.row \in D /\ TRUE})
    BY DEF S!Seen, S!BagToSet, StatSum, S!SumOver
  <2>4. {e \in DOMAIN s_log : e.row \in D /\ TRUE} = TakenBy(D, SVisits)
    BY <1>1 DEF TakenBy
  <2> HIDE DEF D, h
  <2>5. StatSum(h, D) = StatSum(s_log, TakenBy(D, SVisits))
    BY <1>1, <2>1, ColumnIsSeen
  <2>6. QED
    BY <2>2, <2>3, <2>4, <2>5
<1>3. S!Figures(w).types["Browser"] = S!Seen(w, LAMBDA v : v.agent.type = "Browser")
  <2> DEFINE F == {j \in D : s_rows[j].types["Browser"] > 0}
             A == {u \in SVisits : u.agent.type = "Browser"}
             h == [i \in F |-> s_rows[i].types["Browser"]]
  <2>1. "Browser" \in S!UserAgentType
    BY DEF S!UserAgentType
  <2>2. \A i \in D : s_rows[i].types["Browser"] = Took(s_log, i, A)
    BY <1>1, <2>1 DEF RowIsTrue
  <2>3. \A i \in F : h[i] = Took(s_log, i, A)
    BY <2>2
  <2>4. S!Figures(w).types["Browser"] = StatSum(h, F)
    BY <2>1 DEF S!Figures, S!AddTypes, StatSum
  <2>5. S!Seen(w, LAMBDA v : v.agent.type = "Browser")
            = StatSum(s_log, {e \in DOMAIN s_log : e.row \in D /\ e.visit.agent.type = "Browser"})
    BY DEF S!Seen, S!BagToSet, StatSum, S!SumOver
  <2>6. {e \in DOMAIN s_log : e.row \in D /\ e.visit.agent.type = "Browser"} = TakenBy(F, A)
    <3>1. ASSUME NEW e \in DOMAIN s_log, e.row \in D, e.visit \in A PROVE e.row \in F
      <4>1. Took(s_log, e.row, A) > 0
        <5> HIDE DEF A
        <5>1. QED
          BY <1>1, <3>1, TookSome
      <4>2. QED
        BY <2>2, <3>1, <4>1
    <3>2. QED
      BY <1>1, <3>1 DEF TakenBy
  <2>7. IsFiniteSet(F)
    BY <1>1, FS_Subset
  <2> HIDE DEF D, F, A, h
  <2>8. StatSum(h, F) = StatSum(s_log, TakenBy(F, A))
    BY <1>1, <2>3, <2>7, ColumnIsSeen
  <2>9. QED
    BY <2>4, <2>5, <2>6, <2>8 DEF D
<1>4. ASSUME NEW t \in S!PlatformType
      PROVE  S!Figures(w).platforms[t].views = S!Seen(w, LAMBDA v : v.agent.platform.type = t)
  <2> DEFINE h == [i \in D |-> s_rows[i].platformTypes[t]]
             A == {u \in SVisits : u.agent.platform.type = t}
  <2>1. \A i \in D : h[i] = Took(s_log, i, A)
    BY <1>1 DEF RowIsTrue
  <2>2. S!Figures(w).platforms[t].views = StatSum(h, D)
    BY DEF S!Figures, StatSum
  <2>3. S!Seen(w, LAMBDA v : v.agent.platform.type = t)
            = StatSum(s_log, {e \in DOMAIN s_log : e.row \in D /\ e.visit.agent.platform.type = t})
    BY DEF S!Seen, S!BagToSet, StatSum, S!SumOver
  <2>4. {e \in DOMAIN s_log : e.row \in D /\ e.visit.agent.platform.type = t} = TakenBy(D, A)
    BY <1>1 DEF TakenBy
  <2> HIDE DEF D, h, A
  <2>5. StatSum(h, D) = StatSum(s_log, TakenBy(D, A))
    BY <1>1, <2>1, ColumnIsSeen
  <2>6. QED
    BY <2>2, <2>3, <2>4, <2>5
<1>5. ASSUME NEW t \in S!BrowserType
      PROVE  S!Figures(w).browsers[t].views = S!Seen(w, LAMBDA v : v.agent.browser.type = t)
  <2> DEFINE h == [i \in D |-> s_rows[i].browserTypes[t]]
             A == {u \in SVisits : u.agent.browser.type = t}
  <2>1. \A i \in D : h[i] = Took(s_log, i, A)
    BY <1>1 DEF RowIsTrue
  <2>2. S!Figures(w).browsers[t].views = StatSum(h, D)
    BY DEF S!Figures, StatSum
  <2>3. S!Seen(w, LAMBDA v : v.agent.browser.type = t)
            = StatSum(s_log, {e \in DOMAIN s_log : e.row \in D /\ e.visit.agent.browser.type = t})
    BY DEF S!Seen, S!BagToSet, StatSum, S!SumOver
  <2>4. {e \in DOMAIN s_log : e.row \in D /\ e.visit.agent.browser.type = t} = TakenBy(D, A)
    BY <1>1 DEF TakenBy
  <2> HIDE DEF D, h, A
  <2>5. StatSum(h, D) = StatSum(s_log, TakenBy(D, A))
    BY <1>1, <2>1, ColumnIsSeen
  <2>6. QED
    BY <2>2, <2>3, <2>4, <2>5
<1>6. QED
  BY <1>2, <1>3, <1>4, <1>5

\* The bags.
LEMMA BagsAreTrue ==
    ASSUME FiguresInv, NEW w
    PROVE  /\ \A t \in DOMAIN S!Variants :
                  VariantsTrue(w, S!Figures(w).platforms[t].variants, t)
           /\ \A t \in S!BrowserType : VersionsTrue(w, S!Figures(w).browsers[t].versions, t)
           /\ CountriesTrue(w, S!Figures(w).countries)
           /\ ReferrersTrue(w, S!Figures(w).referrers)
<1> DEFINE D == S!Shown(w)
<1>1. PICK K : \A i \in D : s_rows[i] \in StatRow(K)
  BY RowsAreFinite
<1>2. /\ IsLog(s_log) /\ IsFiniteSet(D) /\ D \subseteq DOMAIN s_rows
      /\ \A i \in D : RowIsTrue(s_rows[i], s_log, i)
  BY RowsAreFinite
<1>3. CountriesTrue(w, S!Figures(w).countries)
  <2> DEFINE f == [i \in D |-> s_rows[i].countries]
             g == CountryKey
  <2>1. ASSUME NEW i \in D PROVE f[i] \in Bags(K) /\ RowBagIsTrue(f[i], i, g)
    <3> DEFINE bag == s_rows[i].countries
    <3>1. bag \in Bags(K)
      BY <1>1 DEF StatRow
    <3>2. \A k : CountOf(bag, k) = Took(s_log, i, {u \in SVisits : u.country = k /\ k # S!None})
      BY <1>2 DEF RowIsTrue
    <3>3. \A k : {u \in SVisits : u.country = k /\ k # S!None}
                     = {u \in SVisits : g[u] = k /\ k # S!None}
      BY DEF CountryKey
    <3>4. f[i] = bag
      OBVIOUS
    <3> HIDE DEF bag, f, g
    <3>5. \A k : CountOf(bag, k) = Took(s_log, i, {u \in SVisits : g[u] = k /\ k # S!None})
      BY <3>2, <3>3
    <3>6. RowBagIsTrue(bag, i, g)
      BY <3>1, <3>5, NamesAreTrue
    <3>7. QED
      BY <3>1, <3>4, <3>6
  <2>2. S!Figures(w).countries = S!Merged(f, D)
    BY DEF S!Figures, S!AddCountries
  <2> HIDE DEF f, g, D
  <2>3. BagIsTrue(S!Merged(f, D), D, g)
    BY <1>2, <2>1, MergedIsTrue
  <2>4. CountsKeys(S!Figures(w).countries, D, g)
    BY <2>2, <2>3, TrueBagCounts
  <2>5. QED
    BY <2>4, CountsCountries DEF D, g
<1>4. ReferrersTrue(w, S!Figures(w).referrers)
  <2> DEFINE f == [i \in D |-> s_rows[i].referrers]
             g == ReferrerKey
  <2>1. ASSUME NEW i \in D PROVE f[i] \in Bags(K) /\ RowBagIsTrue(f[i], i, g)
    <3> DEFINE bag == s_rows[i].referrers
    <3>1. bag \in Bags(K)
      BY <1>1 DEF StatRow
    <3>2. \A k : CountOf(bag, k) = Took(s_log, i, {u \in SVisits : u.referrer = k /\ k # S!None})
      BY <1>2 DEF RowIsTrue
    <3>3. \A k : {u \in SVisits : u.referrer = k /\ k # S!None}
                     = {u \in SVisits : g[u] = k /\ k # S!None}
      BY DEF ReferrerKey
    <3>4. f[i] = bag
      OBVIOUS
    <3> HIDE DEF bag, f, g
    <3>5. \A k : CountOf(bag, k) = Took(s_log, i, {u \in SVisits : g[u] = k /\ k # S!None})
      BY <3>2, <3>3
    <3>6. RowBagIsTrue(bag, i, g)
      BY <3>1, <3>5, NamesAreTrue
    <3>7. QED
      BY <3>1, <3>4, <3>6
  <2>2. S!Figures(w).referrers = S!Merged(f, D)
    BY DEF S!Figures, S!AddReferrers
  <2> HIDE DEF f, g, D
  <2>3. BagIsTrue(S!Merged(f, D), D, g)
    BY <1>2, <2>1, MergedIsTrue
  <2>4. CountsKeys(S!Figures(w).referrers, D, g)
    BY <2>2, <2>3, TrueBagCounts
  <2>5. QED
    BY <2>4, CountsReferrers DEF D, g
<1>5. ASSUME NEW t \in DOMAIN S!Variants
      PROVE  VariantsTrue(w, S!Figures(w).platforms[t].variants, t)
  <2> DEFINE f == [i \in D |-> S!VariantsOf(s_rows[i], t)]
             g == VariantKey(t)
             bag == S!Figures(w).platforms[t].variants
  <2>1. t \in S!PlatformType
    BY VariantNames
  <2>2. \A i \in D : f[i] \in Bags(K) /\ RowBagIsTrue(f[i], i, g)
    BY <1>1, <1>2, VariantsAreTrue
  <2>3. bag = S!Merged(f, D)
    BY <2>1 DEF S!Figures
  <2> HIDE DEF f, g, D, bag
  <2>4. BagIsTrue(S!Merged(f, D), D, g)
    BY <1>2, <2>2, MergedIsTrue
  <2>5. CountsKeys(bag, D, g)
    BY <2>3, <2>4, TrueBagCounts
  <2>6. VariantsTrue(w, bag, t)
    BY <2>5, CountsVariants DEF D, g
  <2>7. QED
    BY <2>6 DEF bag
<1>6. ASSUME NEW t \in S!BrowserType
      PROVE  VersionsTrue(w, S!Figures(w).browsers[t].versions, t)
  <2> DEFINE f == [i \in D |-> S!VersionsOf(s_rows[i], t)]
             g == VersionKey(t)
             bag == S!Figures(w).browsers[t].versions
             L == {v.agent.browser.version : v \in SVisits}
  <2>1. \A i \in D : f[i] \in Bags(L) /\ RowBagIsTrue(f[i], i, g)
    BY <1>1, <1>2, VersionsAreTrue
  <2>2. bag = S!Merged(f, D)
    BY DEF S!Figures
  <2> HIDE DEF f, g, D, bag, L
  <2>3. BagIsTrue(S!Merged(f, D), D, g)
    BY <1>2, <2>1, MergedIsTrue
  <2>4. CountsKeys(bag, D, g)
    BY <2>2, <2>3, TrueBagCounts
  <2>5. VersionsTrue(w, bag, t)
    BY <2>4, CountsVersions DEF D, g
  <2>6. QED
    BY <2>5 DEF bag
<1>7. QED
  BY <1>3, <1>4, <1>5, <1>6

LEMMA FiguresFollow == FiguresInv => S!FiguresAreTrue
<1> SUFFICES ASSUME FiguresInv PROVE \A w \in S!Windows : WindowIsTrue(w, S!Figures(w))
  BY TrueWindows
<1> SUFFICES ASSUME NEW w \in S!Windows PROVE WindowIsTrue(w, S!Figures(w))
  OBVIOUS
<1>1. QED
  BY NumbersAreTrue, BagsAreTrue DEF WindowIsTrue

\* For any visits and rows, the figures an owner gets are the numbers of visits that
\* came in each window, in all and by platform, system variant, browser, browser
\* version, country and referrer, whichever rows the visits went into.
THEOREM FiguresStayTrue == ServicesSpec => []FiguresAreTrue
<1>1. ServicesInit => FiguresInv
  BY FiguresInit DEF ServicesInit
<1>2. FiguresInv => FiguresAreTrue
  BY FiguresFollow DEF FiguresAreTrue
<1>3. QED
  BY <1>1, <1>2, StatsStep, FiguresNext, PTL DEF ServicesSpec

-------------------------------------------------------------------------------
(* The election *)

\* Its theorems are those of ElectionProofs.
EP == INSTANCE ElectionProofs WITH
    Replicas <- EReplicas, MaxFaults <- EMaxFaults,
    up <- e_up, connected <- e_connected, session <- e_session, expired <- e_expired,
    events <- e_events, pc <- e_pc, election <- e_election, type <- e_type,
    offers <- e_offers, sequence <- e_sequence, listed <- e_listed, faults <- e_faults

LEMMA ElectionInit == E!Init => EP!Init
BY DEF E!Init, EP!Init, E!NoOffer, EP!NoOffer

LEMMA ElectionSteps ==
    ASSUME NEW r
    PROVE  /\ E!Initialize(r) => EP!Initialize(r)
           /\ E!HandleDisconnected(r) => EP!HandleDisconnected(r)
           /\ E!CreateLeaderElection(r) => EP!CreateLeaderElection(r)
           /\ E!CreateLeaderElectionThrows(r) => EP!CreateLeaderElectionThrows(r)
           /\ E!MakeOffer(r) => EP!MakeOffer(r)
           /\ E!DetermineElectionStatus(r) => EP!DetermineElectionStatus(r)
           /\ E!Stop(r) => EP!Stop(r)
           /\ E!GetChildren(r) => EP!GetChildren(r)
<1> USE DEF E!Goes, EP!Goes, E!Becomes, EP!Becomes, E!clientVars, EP!clientVars,
        E!NoOffer, EP!NoOffer, E!Usable, EP!Usable, E!Offered, EP!Offered
<1>1. E!Initialize(r) => EP!Initialize(r)
  BY DEF E!Initialize, EP!Initialize
<1>2. E!HandleDisconnected(r) => EP!HandleDisconnected(r)
  BY DEF E!HandleDisconnected, EP!HandleDisconnected, E!StartElection, EP!StartElection,
         E!StopElection, EP!StopElection
<1>3. E!CreateLeaderElection(r) => EP!CreateLeaderElection(r)
  BY DEF E!CreateLeaderElection, EP!CreateLeaderElection
<1>4. E!CreateLeaderElectionThrows(r) => EP!CreateLeaderElectionThrows(r)
  BY DEF E!CreateLeaderElectionThrows, EP!CreateLeaderElectionThrows, E!Ends, EP!Ends
<1>5. E!MakeOffer(r) => EP!MakeOffer(r)
  BY DEF E!MakeOffer, EP!MakeOffer
<1>6. E!DetermineElectionStatus(r) => EP!DetermineElectionStatus(r)
  BY DEF E!DetermineElectionStatus, EP!DetermineElectionStatus, E!Determine, EP!Determine,
         E!ListedIsGone, EP!ListedIsGone,
         E!Before, EP!Before, E!Below, EP!Below, E!Max, EP!Max
<1>7. E!Stop(r) => EP!Stop(r)
  BY DEF E!Stop, EP!Stop
<1>8. E!GetChildren(r) => EP!GetChildren(r)
  BY DEF E!GetChildren, EP!GetChildren, E!BeforeIsGone, EP!BeforeIsGone
<1>9. QED
  BY <1>1, <1>2, <1>3, <1>4, <1>5, <1>6, <1>7, <1>8

LEMMA ElectionFaults ==
    ASSUME NEW r
    PROVE  /\ E!Disconnect(r) => EP!Disconnect(r)
           /\ E!OfferIsLost(r) => EP!OfferIsLost(r)
           /\ E!Expire(r) => EP!Expire(r)
           /\ E!Reconnect(r) => EP!Reconnect(r)
           /\ E!Crash(r) => EP!Crash(r)
           /\ E!Terminate(r) => EP!Terminate(r)
           /\ E!Restart(r) => EP!Restart(r)
           /\ E!ExpireAbandoned(r) => EP!ExpireAbandoned(r)
<1> USE DEF E!Goes, EP!Goes, E!Becomes, EP!Becomes, E!clientVars, EP!clientVars,
        E!Usable, EP!Usable, E!Offered, EP!Offered, E!Offline, EP!Offline, E!Fault, EP!Fault, E!Ends, EP!Ends, E!Expires, EP!Expires
<1>1. E!Disconnect(r) => EP!Disconnect(r)
  BY DEF E!Disconnect, EP!Disconnect
<1>2. E!OfferIsLost(r) => EP!OfferIsLost(r)
  BY DEF E!OfferIsLost, EP!OfferIsLost
<1>3. E!Expire(r) => EP!Expire(r)
  BY DEF E!Expire, EP!Expire
<1>4. E!Reconnect(r) => EP!Reconnect(r)
  BY DEF E!Reconnect, EP!Reconnect
<1>5. E!Crash(r) => EP!Crash(r)
  BY DEF E!Crash, EP!Crash
<1>6. E!Terminate(r) => EP!Terminate(r)
  BY DEF E!Terminate, EP!Terminate
<1>7. E!Restart(r) => EP!Restart(r)
  BY DEF E!Restart, EP!Restart
<1>8. E!ExpireAbandoned(r) => EP!ExpireAbandoned(r)
  BY DEF E!ExpireAbandoned, EP!ExpireAbandoned
<1>9. QED
  BY <1>1, <1>2, <1>3, <1>4, <1>5, <1>6, <1>7, <1>8

LEMMA ElectionNext == [ServicesNext]_servicesVars => [EP!Next]_(EP!vars)
<1>1. E!Next => EP!Next
  BY ElectionSteps, ElectionFaults DEF E!Next, EP!Next, E!ServiceStep, EP!ServiceStep
<1>2. QED
  BY <1>1 DEF ServicesNext, servicesVars, Only, e_vars, EP!vars, EP!clientVars

\* Who was told it is elected is the master, for any number of replicas, however many
\* sessions expired and offers were lost, while the other parts take their steps.
THEOREM ElectedAreMasters == ServicesSpec => []ElectedIsMaster
<1>1. ServicesInit => EP!Init
  BY ElectionInit DEF ServicesInit
<1>2. EP!ElectedIsMaster => ElectedIsMaster
  BY DEF EP!ElectedIsMaster, ElectedIsMaster, E!ElectedIsMaster, E!IsMaster, EP!IsMaster,
         E!LeaderHostName, EP!LeaderHostName, E!Below, EP!Below
<1>3. ServicesSpec => EP!Spec
  BY <1>1, ElectionNext, PTL DEF ServicesSpec, EP!Spec
<1>4. EP!Spec => []EP!ElectedIsMaster
  BY EP!ElectedAreMasters
<1>5. QED
  BY <1>2, <1>3, <1>4, PTL
-------------------------------------------------------------------------------
(* The counts *)

Holds(r, n) == \E c \in c_consumer[r] : c.message.request = n

\* A replica consumes one message at a time, and every message can go to all shards.
OneAtATime ==
    /\ \A m \in c_queue : m.to = CShards
    /\ \A r \in C!Replicas : \A c \in c_consumer[r] :
           c.message.to = CShards /\ \A d \in c_consumer[r] : c = d

\* Of a request that was delivered once, either the message is in the queue, or one
\* replica has it, or nobody; and only one that is through with it has answered.
DeliveredOnce ==
    \A n \in 1 .. c_asked : n \notin c_again =>
        /\ \A r, q \in C!Replicas : Holds(r, n) /\ Holds(q, n) => r = q
        /\ \A m \in c_queue : m.request = n =>
               /\ \A r \in C!Replicas : ~Holds(r, n)
               /\ \A a \in c_answers : a.request # n
        /\ \A a \in c_answers : a.request = n =>
               \A r \in C!Replicas : \A c \in c_consumer[r] :
                   c.message.request = n => c.step = "consumed"

AnsweredOnce ==
    \A a, b \in c_answers : a.request = b.request /\ a.request \notin c_again => a.shard = b.shard

EntriesAreAnswers == \A s \in c_hash : \E a \in c_answers : a.shard = s

CountsInv == OneAtATime /\ DeliveredOnce /\ AnsweredOnce /\ EntriesAreAnswers

\* One entry for each request at most, if each was delivered once.
LEMMA EntriesPerRequest ==
    ASSUME C!TypeOK, CountsInv, c_again = {}
    PROVE  C!Cardinality(C!GetAggregatedCounts) <= c_asked
<1> DEFINE requests == {n \in 1 .. c_asked : \E a \in c_answers : a.request = n}
           shards == {a.shard : a \in c_answers}
           shardOf == [n \in requests |-> CHOOSE s \in shards :
                           \E a \in c_answers : a.request = n /\ a.shard = s]
<1>1. c_asked \in Nat /\ \A a \in c_answers : a.request \in requests /\ a.shard \in shards
  BY ServicesAssumption DEF C!TypeOK
<1>2. IsFiniteSet(requests) /\ Cardinality(requests) <= c_asked
      /\ Cardinality(requests) \in Nat
  <2>1. IsFiniteSet(1 .. c_asked) /\ Cardinality(1 .. c_asked) = c_asked
    BY <1>1, FS_Interval
  <2>2. requests \subseteq 1 .. c_asked
    OBVIOUS
  <2> HIDE DEF requests
  <2>3. IsFiniteSet(requests) /\ Cardinality(requests) <= Cardinality(1 .. c_asked)
    BY <2>1, <2>2, FS_Subset
  <2>4. QED
    BY <2>1, <2>3, FS_CardinalityType
<1>3. \A a \in c_answers : shardOf[a.request] = a.shard
  <2> SUFFICES ASSUME NEW a \in c_answers PROVE shardOf[a.request] = a.shard
    OBVIOUS
  <2>1. \A b \in c_answers : b.request = a.request => b.shard = a.shard
    BY DEF CountsInv, AnsweredOnce
  <2>2. a.request \in requests /\ a.shard \in shards
    BY <1>1
  <2>3. \E s \in shards : \E b \in c_answers : b.request = a.request /\ b.shard = s
    BY <2>2
  <2>4. QED
    BY <2>1, <2>2, <2>3
<1>4. shardOf \in Surjection(requests, shards)
  <2>1. shardOf \in [requests -> shards]
    <3> SUFFICES ASSUME NEW n \in requests PROVE shardOf[n] \in shards
      OBVIOUS
    <3>1. PICK a \in c_answers : a.request = n
      OBVIOUS
    <3>2. QED
      BY <1>1, <1>3, <3>1
  <2>2. \A s \in shards : \E n \in requests : shardOf[n] = s
    BY <1>1, <1>3
  <2> HIDE DEF requests, shards, shardOf
  <2>3. QED
    BY <2>1, <2>2 DEF Surjection
<1>5. IsFiniteSet(shards) /\ Cardinality(shards) <= Cardinality(requests)
      /\ Cardinality(shards) \in Nat
  <2> HIDE DEF requests, shards, shardOf
  <2>1. QED
    BY <1>2, <1>4, FS_Surjection, FS_CardinalityType DEF ExistsSurjection
<1>6. c_hash \subseteq shards
  BY DEF CountsInv, EntriesAreAnswers
<1>7. Cardinality(c_hash) <= Cardinality(shards) /\ Cardinality(c_hash) \in Nat
  <2> HIDE DEF shards
  <2>1. QED
    BY <1>5, <1>6, FS_Subset, FS_CardinalityType
<1>8. C!Cardinality(c_hash) = Cardinality(c_hash)
  BY DEF C!Cardinality, Cardinality
<1> HIDE DEF requests, shards, shardOf
<1>9. QED
  BY <1>1, <1>2, <1>5, <1>7, <1>8 DEF C!GetAggregatedCounts

LEMMA CountsInit == C!Init => C!TypeOK /\ CountsInv
<1> SUFFICES ASSUME C!Init PROVE C!TypeOK /\ CountsInv
  OBVIOUS
<1>1. C!TypeOK
  BY ServicesAssumption DEF C!Init, C!None, C!TypeOK
<1>2. CountsInv
  BY DEF C!Init, C!None, CountsInv, OneAtATime, DeliveredOnce, AnsweredOnce,
         EntriesAreAnswers
<1>3. QED
  BY <1>1, <1>2

\* A replica takes a message, goes on with it or has done with it: what changes for
\* the invariant is who holds which message.
LEMMA ConsumerType ==
    ASSUME C!TypeOK, NEW r \in C!Replicas, NEW done \in SUBSET C!Consumption,
           UNCHANGED <<c_master, c_asked, c_hash>>,
           c_consumer' = [c_consumer EXCEPT ![r] = done],
           c_queue' \subseteq C!Message,
           c_answers' \subseteq [request: 1 .. c_asked, shard: CShards],
           c_again' \subseteq 1 .. c_asked
    PROVE  C!TypeOK'
BY DEF C!TypeOK, C!Message, C!Consumption

LEMMA MasterKept ==
    ASSUME C!TypeOK, CountsInv,
           UNCHANGED <<c_asked, c_queue, c_consumer, c_answers, c_again>>,
           c_hash' = c_hash \/ c_hash' = {}, c_master' \in [CShards -> SUBSET C!Replicas]
    PROVE  C!TypeOK' /\ CountsInv'
<1>1. C!TypeOK'
  BY DEF C!TypeOK, C!Message, C!Consumption
<1>2. OneAtATime' /\ DeliveredOnce'
  BY DEF CountsInv, OneAtATime, DeliveredOnce, Holds
<1>3. AnsweredOnce' /\ EntriesAreAnswers'
  BY DEF CountsInv, AnsweredOnce, EntriesAreAnswers
<1>4. QED
  BY <1>1, <1>2, <1>3 DEF CountsInv

LEMMA CountsNext == C!TypeOK /\ CountsInv /\ [C!Next]_(C!vars) => C!TypeOK' /\ CountsInv'
<1> SUFFICES ASSUME C!TypeOK, CountsInv, [C!Next]_(C!vars) PROVE C!TypeOK' /\ CountsInv'
  OBVIOUS
<1>0. /\ c_consumer \in [C!Replicas -> SUBSET C!Consumption] /\ c_asked \in Nat
      /\ c_queue \subseteq C!Message /\ c_answers \subseteq [request: 1 .. c_asked, shard: CShards]
      /\ c_again \subseteq 1 .. c_asked /\ c_master \in [CShards -> SUBSET C!Replicas]
      /\ c_hash \subseteq CShards
  BY ServicesAssumption DEF C!TypeOK
<1>1. ASSUME C!MakeCountAggregation PROVE C!TypeOK' /\ CountsInv'
  <2> DEFINE m == [request |-> c_asked + 1, to |-> CShards]
  <2>1. /\ c_asked' = c_asked + 1 /\ c_asked < CMaxRequests /\ c_queue' = c_queue \union {m}
        /\ UNCHANGED <<c_master, c_consumer, c_hash, c_answers, c_again>>
    BY <1>1 DEF C!MakeCountAggregation, C!Deliveries
  <2>2. 1 .. c_asked \subseteq 1 .. c_asked' /\ c_asked + 1 \in 1 .. c_asked'
        /\ c_asked + 1 \notin 1 .. c_asked /\ c_asked' \in 0 .. CMaxRequests
    BY <1>0, <2>1, ServicesAssumption
  <2>3. m \in C!Message' /\ m.request = c_asked + 1 /\ m.to = CShards
    BY <2>2 DEF C!Message
  <2> HIDE DEF m
  <2>4. C!Message \subseteq C!Message' /\ C!Consumption \subseteq C!Consumption'
    BY <2>2 DEF C!Message, C!Consumption
  <2>5. C!TypeOK'
    <3>1. c_queue' \subseteq C!Message' /\ c_consumer' \in [C!Replicas -> SUBSET C!Consumption']
      BY <1>0, <2>1, <2>3, <2>4
    <3>2. c_answers' \subseteq [request: 1 .. c_asked', shard: CShards] /\ c_again' \subseteq 1 .. c_asked'
      BY <1>0, <2>1, <2>2
    <3>3. QED
      BY <1>0, <2>1, <2>2, <3>1, <3>2 DEF C!TypeOK
  <2>6. OneAtATime'
    BY <2>1, <2>3 DEF CountsInv, OneAtATime
  <2>7. DeliveredOnce'
    <3>1. /\ \A q \in c_queue : q.request \in 1 .. c_asked
          /\ \A r \in C!Replicas : \A c \in c_consumer[r] : c.message.request \in 1 .. c_asked
          /\ \A a \in c_answers : a.request \in 1 .. c_asked
      BY <1>0 DEF C!Message, C!Consumption
    <3> SUFFICES ASSUME NEW n \in 1 .. c_asked', n \notin c_again
                 PROVE
        /\ \A r, q \in C!Replicas : Holds(r, n) /\ Holds(q, n) => r = q
        /\ \A o \in c_queue' : o.request = n =>
               /\ \A r \in C!Replicas : ~Holds(r, n)
               /\ \A a \in c_answers : a.request # n
        /\ \A a \in c_answers : a.request = n =>
               \A r \in C!Replicas : \A c \in c_consumer[r] :
                   c.message.request = n => c.step = "consumed"
      BY <2>1 DEF DeliveredOnce, Holds
    <3>2. CASE n \in 1 .. c_asked
      <4>1. \A o \in c_queue' : o.request = n => o \in c_queue
        BY <2>1, <2>2, <2>3, <3>2
      <4>2. QED
        BY <3>2, <4>1 DEF CountsInv, DeliveredOnce
    <3>3. CASE n \notin 1 .. c_asked
      BY <3>1, <3>3 DEF Holds
    <3>4. QED
      BY <3>2, <3>3
  <2>8. AnsweredOnce' /\ EntriesAreAnswers'
    BY <2>1 DEF CountsInv, AnsweredOnce, EntriesAreAnswers
  <2>9. QED
    BY <2>5, <2>6, <2>7, <2>8 DEF CountsInv
<1>2. ASSUME NEW r \in C!Replicas, C!Receive(r) PROVE C!TypeOK' /\ CountsInv'
  <2>1. PICK m \in c_queue :
            /\ c_queue' = c_queue \ {m}
            /\ c_consumer' = [c_consumer EXCEPT ![r] = {[message |-> m, step |-> "received"]}]
    BY <1>2 DEF C!Receive
  <2>2. c_consumer[r] = {} /\ UNCHANGED <<c_master, c_asked, c_hash, c_answers, c_again>>
    BY <1>2 DEF C!Receive, C!None
  <2> DEFINE c == [message |-> m, step |-> "received"]
  <2>3. c \in C!Consumption /\ c.message = m
    BY <1>0 DEF C!Consumption
  <2> HIDE DEF c
  <2>4. /\ c_consumer'[r] = {c} /\ c_consumer' = [c_consumer EXCEPT ![r] = {c}]
        /\ \A q \in C!Replicas : q # r => c_consumer'[q] = c_consumer[q]
    BY <1>0, <2>1 DEF c
  <2>5. C!TypeOK'
    BY <1>0, <2>1, <2>2, <2>3, <2>4, ConsumerType
  <2>6. OneAtATime'
    BY <2>1, <2>3, <2>4 DEF CountsInv, OneAtATime
  <2>7. \A q \in C!Replicas : \A n : Holds(q, n)' <=> IF q = r THEN m.request = n ELSE Holds(q, n)
    BY <2>3, <2>4 DEF Holds
  <2>8. DeliveredOnce'
    <3> SUFFICES ASSUME NEW n \in 1 .. c_asked, n \notin c_again
                 PROVE
        /\ \A p, q \in C!Replicas : Holds(p, n)' /\ Holds(q, n)' => p = q
        /\ \A o \in c_queue' : o.request = n =>
               /\ \A q \in C!Replicas : ~Holds(q, n)'
               /\ \A a \in c_answers : a.request # n
        /\ \A a \in c_answers : a.request = n =>
               \A q \in C!Replicas : \A d \in c_consumer'[q] :
                   d.message.request = n => d.step = "consumed"
      BY <2>2 DEF DeliveredOnce
    <3>1. CASE m.request = n
      <4>1. /\ \A q \in C!Replicas : ~Holds(q, n)
            /\ \A a \in c_answers : a.request # n
        BY <3>1 DEF CountsInv, DeliveredOnce
      <4>2. \A o \in c_queue' : o.request # n
        <5> SUFFICES ASSUME NEW o \in c_queue, o.request = n PROVE o = m
          BY <2>1
        <5>1. o.to = CShards /\ m.to = CShards /\ m \in C!Message /\ o \in C!Message
          BY <1>0 DEF CountsInv, OneAtATime
        <5>2. QED
          BY <3>1, <5>1 DEF C!Message
      <4>3. QED
        BY <2>7, <4>1, <4>2
    <3>2. CASE m.request # n
      <4>1. \A q \in C!Replicas : Holds(q, n)' => q # r /\ Holds(q, n)
        BY <2>7, <3>2
      <4>2. \A q \in C!Replicas : \A d \in c_consumer'[q] :
                d.message.request = n => d \in c_consumer[q]
        BY <2>3, <2>4, <3>2
      <4>3. QED
        BY <2>1, <4>1, <4>2 DEF CountsInv, DeliveredOnce
    <3>3. QED
      BY <3>1, <3>2
  <2>9. AnsweredOnce' /\ EntriesAreAnswers'
    BY <2>2 DEF CountsInv, AnsweredOnce, EntriesAreAnswers
  <2>10. QED
    BY <2>5, <2>6, <2>8, <2>9 DEF CountsInv
\* A replica goes to another step with its message, and does not leave the last one.
<1>3. ASSUME NEW r \in C!Replicas, NEW step \in {"counting", "consumed"}, C!Goes(r, step),
             step = "counting" => C!Consuming(r, "received")
      PROVE  /\ c_consumer' \in [C!Replicas -> SUBSET C!Consumption]
             /\ c_consumer' = [c_consumer EXCEPT ![r] = c_consumer'[r]]
             /\ \A q \in C!Replicas : \A n : Holds(q, n)' <=> Holds(q, n)
             /\ \A q \in C!Replicas : \A d \in c_consumer'[q] : \E c \in c_consumer[q] :
                    /\ d.message = c.message
                    /\ c.step = "consumed" => d.step = "consumed"
             /\ \A d \in c_consumer'[r] : d.step = step
             /\ \A q \in C!Replicas : (\A c, d \in c_consumer[q] : c = d)
                    => \A c, d \in c_consumer'[q] : c = d
  <2> DEFINE next == {[c EXCEPT !.step = step] : c \in c_consumer[r]}
  <2>1. c_consumer' = [c_consumer EXCEPT ![r] = next]
    BY <1>3 DEF C!Goes
  <2>2. \A c \in c_consumer[r] :
            /\ [c EXCEPT !.step = step] \in C!Consumption
            /\ [c EXCEPT !.step = step].message = c.message
            /\ [c EXCEPT !.step = step].step = step
    BY <1>0, <1>3 DEF C!Consumption
  <2>3. /\ next \in SUBSET C!Consumption
        /\ \A d \in next : \E c \in c_consumer[r] : d = [c EXCEPT !.step = step]
        /\ \A c \in c_consumer[r] : [c EXCEPT !.step = step] \in next
    BY <2>2
  <2>4. \A d \in next : d.step = step /\ \E c \in c_consumer[r] : d.message = c.message
    <3> HIDE DEF next
    <3> SUFFICES ASSUME NEW d \in next
                 PROVE  d.step = step /\ \E c \in c_consumer[r] : d.message = c.message
      OBVIOUS
    <3>1. PICK c \in c_consumer[r] : d = [c EXCEPT !.step = step]
      BY <2>3
    <3>2. d.message = c.message /\ d.step = step
      BY <2>2, <3>1
    <3>3. QED
      BY <3>2
  <2>5. \A c \in c_consumer[r] : \E d \in next : d.message = c.message
    BY <2>2, <2>3
  <2>6. (\A c, d \in c_consumer[r] : c = d) => \A c, d \in next : c = d
    BY <2>3
  <2> HIDE DEF next
  <2>7. /\ c_consumer' \in [C!Replicas -> SUBSET C!Consumption] /\ c_consumer'[r] = next
        /\ \A q \in C!Replicas : q # r => c_consumer'[q] = c_consumer[q]
    BY <1>0, <2>1, <2>3
  <2>8. \A q \in C!Replicas : \A n : Holds(q, n)' <=> Holds(q, n)
    <3> SUFFICES ASSUME NEW q \in C!Replicas, NEW n PROVE Holds(q, n)' <=> Holds(q, n)
      OBVIOUS
    <3>1. CASE q = r
      BY <2>4, <2>5, <2>7, <3>1 DEF Holds
    <3>2. CASE q # r
      BY <2>7, <3>2 DEF Holds
    <3>3. QED
      BY <3>1, <3>2
  <2>9. step = "consumed" \/ \A c, d \in c_consumer[r] : c = d
    BY DEF CountsInv, OneAtATime
  <2>10. ASSUME NEW q \in C!Replicas, NEW d \in c_consumer'[q]
         PROVE  \E c \in c_consumer[q] :
                    /\ d.message = c.message
                    /\ c.step = "consumed" => d.step = "consumed"
    <3>1. CASE q # r
      BY <2>7, <2>10, <3>1
    <3>2. CASE q = r
      <4>1. d \in next
        BY <2>7, <2>10, <3>2
      <4>2. PICK c \in c_consumer[r] : d.message = c.message
        BY <2>4, <4>1
      <4>3. d.step = step
        BY <2>4, <4>1
      <4>4. CASE step = "consumed"
        BY <3>2, <4>2, <4>3, <4>4
      <4>5. CASE step = "counting"
        <5>1. PICK e \in c_consumer[r] : e.step = "received"
          BY <1>3, <4>5 DEF C!Consuming
        <5>2. c = e
          BY DEF CountsInv, OneAtATime
        <5>3. QED
          BY <3>2, <4>2, <5>1, <5>2
      <4>6. QED
        BY <4>4, <4>5
    <3>3. QED
      BY <3>1, <3>2
  <2>11. QED
    BY <2>1, <2>4, <2>6, <2>7, <2>8, <2>10
\* A step of one replica after which the messages are where they were, and no answer
\* is new.
<1>4. ASSUME NEW r \in C!Replicas, UNCHANGED <<c_master, c_asked, c_queue, c_hash, c_answers, c_again>>,
             c_consumer' \in [C!Replicas -> SUBSET C!Consumption],
             \A q \in C!Replicas : \A n : Holds(q, n)' => Holds(q, n),
             \A q \in C!Replicas : \A d \in c_consumer'[q] : \E c \in c_consumer[q] :
                    /\ d.message = c.message
                    /\ c.step = "consumed" => d.step = "consumed",
             \A q \in C!Replicas : \A c, d \in c_consumer'[q] : c = d
      PROVE  C!TypeOK' /\ CountsInv'
  <2>1. C!TypeOK'
    BY <1>0, <1>4 DEF C!TypeOK, C!Message, C!Consumption
  <2>2. OneAtATime'
    BY <1>4 DEF CountsInv, OneAtATime
  <2>3. DeliveredOnce'
    <3> SUFFICES ASSUME NEW n \in 1 .. c_asked, n \notin c_again
                 PROVE
        /\ \A p, q \in C!Replicas : Holds(p, n)' /\ Holds(q, n)' => p = q
        /\ \A o \in c_queue : o.request = n =>
               /\ \A q \in C!Replicas : ~Holds(q, n)'
               /\ \A a \in c_answers : a.request # n
        /\ \A a \in c_answers : a.request = n =>
               \A q \in C!Replicas : \A d \in c_consumer'[q] :
                   d.message.request = n => d.step = "consumed"
      BY <1>4 DEF DeliveredOnce
    <3>1. /\ \A p, q \in C!Replicas : Holds(p, n) /\ Holds(q, n) => p = q
          /\ \A o \in c_queue : o.request = n =>
                 /\ \A q \in C!Replicas : ~Holds(q, n)
                 /\ \A a \in c_answers : a.request # n
          /\ \A a \in c_answers : a.request = n =>
                 \A q \in C!Replicas : \A c \in c_consumer[q] :
                     c.message.request = n => c.step = "consumed"
      BY DEF CountsInv, DeliveredOnce
    <3>2. ASSUME NEW a \in c_answers, a.request = n, NEW q \in C!Replicas,
                 NEW d \in c_consumer'[q], d.message.request = n
          PROVE  d.step = "consumed"
      <4>1. PICK c \in c_consumer[q] :
                /\ d.message = c.message /\ (c.step = "consumed" => d.step = "consumed")
        BY <1>4
      <4>2. QED
        BY <3>1, <3>2, <4>1
    <3>3. QED
      BY <1>4, <3>1, <3>2
  <2>4. AnsweredOnce' /\ EntriesAreAnswers'
    BY <1>4 DEF CountsInv, AnsweredOnce, EntriesAreAnswers
  <2>5. QED
    BY <2>1, <2>2, <2>3, <2>4 DEF CountsInv
<1>5. ASSUME NEW r \in C!Replicas, C!IsMaster(r) PROVE C!TypeOK' /\ CountsInv'
  <2> DEFINE step == IF r \in c_master[C!ShardOf(r)] THEN "counting" ELSE "consumed"
  <2>1. C!Consuming(r, "received") /\ C!Goes(r, step) /\ step \in {"counting", "consumed"}
        /\ UNCHANGED <<c_master, c_asked, c_queue, c_hash, c_answers, c_again>>
    BY <1>5 DEF C!IsMaster
  <2> HIDE DEF step
  <2>2. \A q \in C!Replicas : \A c, d \in c_consumer[q] : c = d
    BY DEF CountsInv, OneAtATime
  <2>3. QED
    BY <1>3, <1>4, <2>1, <2>2
<1>6. ASSUME NEW r \in C!Replicas, C!SetHash(r) PROVE C!TypeOK' /\ CountsInv'
  <2> DEFINE new == {[request |-> c.message.request, shard |-> C!ShardOf(r)] : c \in c_consumer[r]}
  <2>1. /\ C!Goes(r, "consumed") /\ c_hash' = c_hash \union {C!ShardOf(r)}
        /\ c_answers' = c_answers \union new
        /\ UNCHANGED <<c_master, c_asked, c_queue, c_again>>
    BY <1>6 DEF C!SetHash
  <2>2. PICK c \in c_consumer[r] : c.step = "counting"
    BY <1>6 DEF C!SetHash, C!Consuming
  <2>3. \A d \in c_consumer[r] : d = c
    BY DEF CountsInv, OneAtATime
  <2> DEFINE n == c.message.request
             s == C!ShardOf(r)
             a == [request |-> n, shard |-> s]
  <2>4. new = {a}
    BY <2>2, <2>3
  <2>5. n \in 1 .. c_asked /\ s \in CShards /\ c \in C!Consumption
    <3>1. c \in C!Consumption
      BY <1>0
    <3>2. QED
      BY <3>1 DEF C!Consumption, C!Message, C!ShardOf, C!Replicas
  <2>6. a \in [request: 1 .. c_asked, shard: CShards] /\ a.request = n /\ a.shard = s
    BY <2>5
  <2> HIDE DEF new, a
  <2>7. /\ c_consumer' \in [C!Replicas -> SUBSET C!Consumption]
        /\ \A q \in C!Replicas : \A k : Holds(q, k)' <=> Holds(q, k)
        /\ \A q \in C!Replicas : \A d \in c_consumer'[q] : \E e \in c_consumer[q] :
               /\ d.message = e.message
               /\ e.step = "consumed" => d.step = "consumed"
        /\ \A d \in c_consumer'[r] : d.step = "consumed"
        /\ \A q \in C!Replicas : (\A e, d \in c_consumer[q] : e = d)
               => \A e, d \in c_consumer'[q] : e = d
    BY <1>3, <2>1
  <2>8. \A q \in C!Replicas : \A e, d \in c_consumer[q] : e = d
    BY DEF CountsInv, OneAtATime
  <2>9. C!TypeOK'
    BY <1>0, <2>1, <2>4, <2>5, <2>6, <2>7 DEF C!TypeOK, C!Message, C!Consumption
  <2>10. OneAtATime'
    BY <2>1, <2>7, <2>8 DEF CountsInv, OneAtATime
  <2>11. n \notin c_again => \A b \in c_answers : b.request # n
    BY <2>2, <2>5 DEF CountsInv, DeliveredOnce
  <2>12. Holds(r, n)
    BY <2>2 DEF Holds
  <2> HIDE DEF n, s
  <2>13. DeliveredOnce'
    <3> SUFFICES ASSUME NEW k \in 1 .. c_asked, k \notin c_again
                 PROVE
        /\ \A p, q \in C!Replicas : Holds(p, k)' /\ Holds(q, k)' => p = q
        /\ \A o \in c_queue : o.request = k =>
               /\ \A q \in C!Replicas : ~Holds(q, k)'
               /\ \A b \in c_answers' : b.request # k
        /\ \A b \in c_answers' : b.request = k =>
               \A q \in C!Replicas : \A d \in c_consumer'[q] :
                   d.message.request = k => d.step = "consumed"
      BY <2>1 DEF DeliveredOnce
    <3>1. /\ \A p, q \in C!Replicas : Holds(p, k) /\ Holds(q, k) => p = q
          /\ \A o \in c_queue : o.request = k =>
                 /\ \A q \in C!Replicas : ~Holds(q, k)
                 /\ \A b \in c_answers : b.request # k
          /\ \A b \in c_answers : b.request = k =>
                 \A q \in C!Replicas : \A e \in c_consumer[q] :
                     e.message.request = k => e.step = "consumed"
      BY DEF CountsInv, DeliveredOnce
    <3>2. \A o \in c_queue : o.request = k => k # n
      BY <2>12, <3>1
    <3>3. ASSUME NEW b \in c_answers', b.request = k, NEW q \in C!Replicas,
                 NEW d \in c_consumer'[q], d.message.request = k
          PROVE  d.step = "consumed"
      <4>1. CASE k = n
        <5>1. Holds(q, k)
          BY <2>7, <3>3 DEF Holds
        <5>2. q = r
          BY <2>12, <3>1, <4>1, <5>1
        <5>3. QED
          BY <2>7, <5>2
      <4>2. CASE k # n
        <5>1. b \in c_answers
          BY <2>1, <2>4, <2>6, <3>3, <4>2
        <5>2. PICK e \in c_consumer[q] :
                  d.message = e.message /\ (e.step = "consumed" => d.step = "consumed")
          BY <2>7
        <5>3. QED
          BY <3>1, <3>3, <5>1, <5>2
      <4>3. QED
        BY <4>1, <4>2
    <3>4. QED
      BY <2>1, <2>4, <2>6, <2>7, <3>1, <3>2, <3>3
  <2>14. AnsweredOnce'
    BY <2>1, <2>4, <2>6, <2>11 DEF CountsInv, AnsweredOnce
  <2>15. EntriesAreAnswers'
    BY <2>1, <2>4, <2>6 DEF CountsInv, EntriesAreAnswers, s
  <2>16. QED
    BY <2>9, <2>10, <2>13, <2>14, <2>15 DEF CountsInv
<1>7. ASSUME NEW r \in C!Replicas, C!Acknowledge(r) \/ C!ConsumeThrows(r)
      PROVE  C!TypeOK' /\ CountsInv'
  <2>1. /\ c_consumer' = [c_consumer EXCEPT ![r] = {}]
        /\ UNCHANGED <<c_master, c_asked, c_queue, c_hash, c_answers, c_again>>
    BY <1>7 DEF C!Acknowledge, C!ConsumeThrows, C!None
  <2>2. /\ c_consumer' \in [C!Replicas -> SUBSET C!Consumption]
        /\ \A q \in C!Replicas : c_consumer'[q] \subseteq c_consumer[q]
    BY <1>0, <2>1
  <2>3. \A q \in C!Replicas : \A n : Holds(q, n)' => Holds(q, n)
    BY <2>2 DEF Holds
  <2>4. \A q \in C!Replicas : \A c, d \in c_consumer'[q] : c = d
    BY <2>2 DEF CountsInv, OneAtATime
  <2>5. QED
    BY <1>4, <2>1, <2>2, <2>3, <2>4
<1>8. ASSUME NEW r \in C!Replicas, C!ReplicaCrash(r) PROVE C!TypeOK' /\ CountsInv'
  <2>1. /\ c_queue' = c_queue \union {c.message : c \in c_consumer[r]}
        /\ c_again' = c_again \union {c.message.request : c \in c_consumer[r]}
        /\ c_consumer' = [c_consumer EXCEPT ![r] = {}]
        /\ UNCHANGED <<c_master, c_asked, c_hash, c_answers>>
    BY <1>8 DEF C!ReplicaCrash, C!None
  <2>2. /\ \A c \in c_consumer[r] : c \in C!Consumption /\ c.message \in C!Message
               /\ c.message.request \in 1 .. c_asked /\ c.message.to = CShards
        /\ \A q \in C!Replicas : c_consumer'[q] \subseteq c_consumer[q]
    BY <1>0, <2>1 DEF C!Consumption, C!Message, CountsInv, OneAtATime
  <2>3. C!TypeOK'
    <3>1. c_queue' \subseteq C!Message
      <4>1. c_queue \subseteq C!Message /\ \A c \in c_consumer[r] : c.message \in C!Message
        BY <1>0, <2>2
      <4>2. QED
        BY <2>1, <4>1
    <3>4. c_again' \subseteq 1 .. c_asked
      <4>1. c_again \subseteq 1 .. c_asked /\ \A c \in c_consumer[r] : c.message.request \in 1 .. c_asked
        BY <1>0, <2>2
      <4>2. QED
        BY <2>1, <4>1
    <3>2. {} \in SUBSET C!Consumption
      OBVIOUS
    <3>3. QED
      BY <1>0, <2>1, <3>1, <3>2, <3>4, ConsumerType
  <2>4. OneAtATime'
    BY <2>1, <2>2 DEF CountsInv, OneAtATime
  <2>5. DeliveredOnce'
    <3> SUFFICES ASSUME NEW n \in 1 .. c_asked, n \notin c_again'
                 PROVE
        /\ \A p, q \in C!Replicas : Holds(p, n)' /\ Holds(q, n)' => p = q
        /\ \A o \in c_queue' : o.request = n =>
               /\ \A q \in C!Replicas : ~Holds(q, n)'
               /\ \A a \in c_answers : a.request # n
        /\ \A a \in c_answers : a.request = n =>
               \A q \in C!Replicas : \A d \in c_consumer'[q] :
                   d.message.request = n => d.step = "consumed"
      BY <2>1 DEF DeliveredOnce
    <3>1. n \notin c_again /\ \A o \in c_queue' : o.request = n => o \in c_queue
      BY <2>1
    <3>2. \A q \in C!Replicas : Holds(q, n)' => Holds(q, n)
      BY <2>2 DEF Holds
    <3>3. QED
      BY <2>2, <3>1, <3>2 DEF CountsInv, DeliveredOnce
  <2>6. AnsweredOnce' /\ EntriesAreAnswers'
    BY <2>1 DEF CountsInv, AnsweredOnce, EntriesAreAnswers
  <2>7. QED
    BY <2>3, <2>4, <2>5, <2>6 DEF CountsInv
<1>9. ASSUME C!HashExpires PROVE C!TypeOK' /\ CountsInv'
  BY <1>0, <1>9, MasterKept DEF C!HashExpires
<1>10. ASSUME NEW s \in CShards, C!Elected(s) \/ C!Resigned(s) PROVE C!TypeOK' /\ CountsInv'
  <2>1. c_master' \in [CShards -> SUBSET C!Replicas]
        /\ UNCHANGED <<c_asked, c_queue, c_consumer, c_hash, c_answers, c_again>>
    <3>1. CASE C!Resigned(s)
      BY <1>0, <3>1 DEF C!Resigned, C!None
    <3>2. CASE C!Elected(s)
      <4>1. PICK p \in CPods : c_master' = [c_master EXCEPT ![s] = {<<s, p>>}]
        BY <3>2 DEF C!Elected
      <4>2. {<<s, p>>} \in SUBSET C!Replicas
        BY DEF C!Replicas
      <4>3. QED
        BY <1>0, <3>2, <4>1, <4>2 DEF C!Elected
    <3>3. QED
      BY <1>10, <3>1, <3>2
  <2>2. QED
    BY <2>1, MasterKept
<1>11. ASSUME UNCHANGED C!vars PROVE C!TypeOK' /\ CountsInv'
  BY <1>0, <1>11, MasterKept DEF C!vars
<1>12. QED
  BY <1>1, <1>2, <1>5, <1>6, <1>7, <1>8, <1>9, <1>10, <1>11 DEF C!Next

LEMMA CountsStep == [ServicesNext]_servicesVars => [C!Next]_(C!vars)
BY DEF ServicesNext, servicesVars, Only, c_vars, C!vars

\* A request that was delivered once is answered by one shard at most, whichever
\* replicas are masters meanwhile, and without a second delivery an administrator sees
\* no more entries than requests were made: for any number of shards and replicas.
THEOREM RequestsReachOneShard == ServicesSpec => []OneShardAnswers
<1>1. ServicesInit => C!Init
  BY DEF ServicesInit
<1>2. C!TypeOK /\ CountsInv => OneShardAnswers
  <2> SUFFICES ASSUME C!TypeOK, CountsInv PROVE C!OneShardAnswers
    BY DEF OneShardAnswers
  <2>1. QED
    BY EntriesPerRequest DEF CountsInv, AnsweredOnce, C!OneShardAnswers
<1>3. QED
  BY <1>1, <1>2, CountsStep, CountsInit, CountsNext, PTL DEF ServicesSpec

-------------------------------------------------------------------------------
(* The batch *)

\* What is in the cache, or is going to be, was asked for alone.
BatchInv ==
    b_cached \subseteq b_alone /\ b_fills \subseteq b_alone /\ B!BatchesNeedSingleRequests

Batch == [state: {"none", "cache", "shard", "answered", "failed"},
          asked: SUBSET B!Url, found: SUBSET B!Url, gone: SUBSET BLinks]

LEMMA IdsType ==
    ASSUME NEW urls \in SUBSET B!Url
    PROVE  B!IdsOf(urls) \subseteq BLinks
BY DEF B!IdsOf, B!Url

LEMMA BatchInit == B!Init => B!TypeOK /\ BatchInv
BY DEF B!Init, B!NoBatch, B!TypeOK, BatchInv, B!BatchesNeedSingleRequests

\* A step of a batch; one of several links is answered only for entries of the cache.
LEMMA BecomesKeeps ==
    ASSUME NEW state \in {"answered", "shard", "failed"}, NEW found \in SUBSET B!Url,
           B!TypeOK, BatchInv, B!Becomes(state, found),
           UNCHANGED <<b_rows, b_cached>>,
           b_fills' \subseteq BLinks, b_alone' \subseteq BLinks,
           b_fills' \subseteq b_alone', b_alone \subseteq b_alone',
           state = "answered" => B!One \/ B!IdsOf(b_batch.asked) \subseteq b_cached
    PROVE  B!TypeOK' /\ BatchInv'
<1>1. b_batch \in Batch
  BY DEF B!TypeOK, Batch
<1>2. /\ b_batch' \in Batch /\ b_batch'.state = state /\ b_batch'.asked = b_batch.asked
  BY <1>1 DEF B!Becomes, Batch
<1>3. B!TypeOK'
  BY <1>2 DEF B!TypeOK, Batch
<1>4. B!One' <=> B!One
  BY <1>2 DEF B!One
<1>5. B!IdsOf(b_batch.asked)' = B!IdsOf(b_batch.asked)
  BY <1>2 DEF B!IdsOf
<1>6. B!BatchesNeedSingleRequests'
  <2>1. SUFFICES ASSUME state = "answered", ~B!One
                 PROVE  B!IdsOf(b_batch.asked)' \subseteq b_alone'
    BY <1>2, <1>4 DEF B!BatchesNeedSingleRequests
  <2>2. B!IdsOf(b_batch.asked) \subseteq b_cached
    BY <2>1
  <2>3. QED
    BY <1>5, <2>2 DEF BatchInv
<1>7. QED
  BY <1>3, <1>6 DEF BatchInv

LEMMA BatchNext == B!TypeOK /\ BatchInv /\ [B!Next]_(B!vars) => B!TypeOK' /\ BatchInv'
<1> SUFFICES ASSUME B!TypeOK, BatchInv, [B!Next]_(B!vars) PROVE B!TypeOK' /\ BatchInv'
  OBVIOUS
<1> DEFINE ids == B!IdsOf(b_batch.asked)
<1>0. /\ b_batch \in Batch /\ b_rows \subseteq BLinks /\ b_cached \subseteq BLinks
      /\ b_fills \subseteq BLinks /\ b_alone \subseteq BLinks
      /\ b_fills \subseteq b_alone /\ b_cached \subseteq b_alone
      /\ b_batch.asked \in SUBSET B!Url /\ {} \in SUBSET B!Url
  BY DEF B!TypeOK, Batch, BatchInv
<1>1. ASSUME NEW urls \in (SUBSET B!Url) \ {{}}, B!Load(urls) PROVE B!TypeOK' /\ BatchInv'
  <2>1. /\ b_batch' = [state |-> "cache", asked |-> urls, found |-> {}, gone |-> BLinks \ b_rows]
        /\ UNCHANGED <<b_rows, b_cached, b_fills, b_alone>>
    BY <1>1 DEF B!Load
  <2>2. b_batch' \in Batch /\ b_batch'.state = "cache"
    BY <2>1 DEF Batch
  <2>3. QED
    BY <1>0, <2>1, <2>2 DEF B!TypeOK, Batch, BatchInv, B!BatchesNeedSingleRequests
<1>2. ASSUME B!GetByIdCached PROVE B!TypeOK' /\ BatchInv'
  <2>1. /\ B!One /\ UNCHANGED <<b_rows, b_cached, b_fills, b_alone>>
        /\ B!Becomes("answered", b_batch.asked) \/ B!Becomes("shard", {})
    BY <1>2 DEF B!GetByIdCached
  <2>2. QED
    BY <1>0, <2>1, BecomesKeeps
<1>3. ASSUME B!GetByIdsCached PROVE B!TypeOK' /\ BatchInv'
  <2> DEFINE found == B!ByCanonicalUrl(b_batch.asked)
  <2>1. /\ UNCHANGED <<b_rows, b_cached, b_fills, b_alone>>
        /\ \/ B!Becomes("failed", {}) \/ B!Becomes("shard", {})
           \/ ids \subseteq b_cached /\ B!Becomes("answered", found)
    BY <1>3 DEF B!GetByIdsCached
  <2>2. found \in SUBSET B!Url
    BY <1>0 DEF B!ByCanonicalUrl
  <2> HIDE DEF found
  <2>3. QED
    BY <1>0, <2>1, <2>2, BecomesKeeps
<1>4. ASSUME B!GetById PROVE B!TypeOK' /\ BatchInv'
  <2>1. CASE ids \subseteq b_rows
    <3>1. /\ B!One /\ B!Becomes("answered", b_batch.asked) /\ UNCHANGED <<b_rows, b_cached>>
          /\ b_fills' = b_fills \union ids /\ b_alone' = b_alone \union ids
      BY <1>4, <2>1 DEF B!GetById
    <3>2. ids \subseteq BLinks
      BY <1>0, IdsType
    <3>3. /\ b_fills' \subseteq BLinks /\ b_alone' \subseteq BLinks
          /\ b_fills' \subseteq b_alone' /\ b_alone \subseteq b_alone'
      BY <1>0, <3>1, <3>2
    <3>4. QED
      BY <1>0, <3>1, <3>3, BecomesKeeps
  <2>2. CASE ~(ids \subseteq b_rows)
    <3>1. B!Becomes("failed", {}) /\ UNCHANGED <<b_rows, b_cached, b_fills, b_alone>>
      BY <1>4, <2>2 DEF B!GetById
    <3>2. QED
      BY <1>0, <3>1, BecomesKeeps
  <2>3. QED
    BY <2>1, <2>2
<1>5. ASSUME B!GetByIds PROVE B!TypeOK' /\ BatchInv'
  <2>1. B!Becomes("failed", {}) /\ UNCHANGED <<b_rows, b_cached, b_fills, b_alone>>
    BY <1>5 DEF B!GetByIds
  <2>2. QED
    BY <1>0, <2>1, BecomesKeeps
<1>6. ASSUME B!Done PROVE B!TypeOK' /\ BatchInv'
  <2>1. /\ b_batch' \in Batch /\ b_batch'.state = "none"
        /\ UNCHANGED <<b_rows, b_cached, b_fills, b_alone>>
    BY <1>6 DEF B!Done, B!NoBatch, Batch
  <2>2. QED
    BY <1>0, <2>1 DEF B!TypeOK, Batch, BatchInv, B!BatchesNeedSingleRequests
<1>7. ASSUME UNCHANGED <<b_alone, b_batch>>, b_rows' \subseteq BLinks,
             b_cached' \subseteq b_alone, b_fills' \subseteq b_alone
      PROVE  B!TypeOK' /\ BatchInv'
  <2>1. B!TypeOK'
    BY <1>0, <1>7 DEF B!TypeOK
  <2>2. B!BatchesNeedSingleRequests'
    BY <1>7 DEF BatchInv, B!BatchesNeedSingleRequests, B!One, B!IdsOf
  <2>3. QED
    BY <1>7, <2>1, <2>2 DEF BatchInv
<1>8. ASSUME NEW l \in BLinks, B!Fill(l) \/ B!Expire(l) PROVE B!TypeOK' /\ BatchInv'
  BY <1>0, <1>7, <1>8 DEF B!Fill, B!Expire
<1>9. ASSUME NEW l \in BLinks, B!Delete(l) PROVE B!TypeOK' /\ BatchInv'
  <2>1. /\ b_rows' = b_rows \ {l} /\ UNCHANGED <<b_cached, b_fills, b_alone>>
        /\ b_batch' = [b_batch EXCEPT !.gone = @ \union {l}]
    BY <1>9 DEF B!Delete
  <2>2. /\ b_batch' \in Batch /\ b_batch'.state = b_batch.state
        /\ b_batch'.asked = b_batch.asked
    BY <1>0, <2>1 DEF Batch
  <2>3. B!TypeOK'
    BY <1>0, <2>1, <2>2 DEF B!TypeOK, Batch
  <2>4. B!BatchesNeedSingleRequests'
    BY <2>1, <2>2 DEF BatchInv, B!BatchesNeedSingleRequests, B!One, B!IdsOf
  <2>5. QED
    BY <1>0, <2>1, <2>3, <2>4 DEF BatchInv
<1>10. ASSUME UNCHANGED B!vars PROVE B!TypeOK' /\ BatchInv'
  BY <1>0, <1>7, <1>10 DEF B!vars
<1>11. QED
  BY <1>1, <1>2, <1>3, <1>4, <1>5, <1>6, <1>8, <1>9, <1>10 DEF B!Next

LEMMA BatchStep == [ServicesNext]_servicesVars => [B!Next]_(B!vars)
BY DEF ServicesNext, servicesVars, Only, b_vars, B!vars

\* A batch of several links is answered only of links that the shard has answered
\* requests of alone, for any number of links and of spellings.
THEOREM BatchesOfKnownLinks == ServicesSpec => []BatchesNeedSingleRequests
<1>1. ServicesInit => B!Init
  BY DEF ServicesInit
<1>2. BatchInv => BatchesNeedSingleRequests
  BY DEF BatchInv, BatchesNeedSingleRequests
<1>3. QED
  BY <1>1, <1>2, BatchStep, BatchInit, BatchNext, PTL DEF ServicesSpec

-------------------------------------------------------------------------------
(* The form *)

\* The flag of a reset under way is set only within a handler.  Before a handler of
\* "reset" is attached, the form's validators have no rules, and nothing was checked.
FormInv ==
    /\ u_resetting = FALSE
    /\ u_handlers = 0 =>
           /\ \A i \in DOMAIN u_validators : u_validators[i] = {}
           /\ \A f \in U!Names : u_outcome[f] = "none"
           /\ u_summary.class = "valid" /\ u_threw = FALSE
    /\ U!FieldsShowTheirLastCheck

\* What one field shows of its outcome.
ShowsCheck(f) ==
    /\ u_outcome[f] # "none" =>
           /\ u_container[f].class = u_outcome[f]
           /\ UFields[f].replace = "true" =>
                  u_container[f].text = IF u_outcome[f] = "error" THEN "message" ELSE ""
    /\ u_threw \/ (u_outcome[f] = "none" => u_container[f].class = "valid")

SummaryShows ==
    u_threw \/ (u_summary.class = "errors" => \A f \in u_summary.list : u_outcome[f] # "none")

LEMMA FieldsShowIs ==
    U!FieldsShowTheirLastCheck <=> (\A f \in U!Names : ShowsCheck(f)) /\ SummaryShows
BY DEF U!FieldsShowTheirLastCheck, ShowsCheck, SummaryShows

Texts == [class: {"valid", "error"}, text: {"", "message"}]

LEMMA FormInitType == U!Init => U!TypeOK
<1> SUFFICES ASSUME U!Init PROVE U!TypeOK
  OBVIOUS
<1>1. u_validators \in Seq(SUBSET U!Names)
  <2>1. <<>> \in Seq(SUBSET U!Names)
    OBVIOUS
  <2>2. QED
    BY <2>1 DEF U!Init
<1>2. u_value \in [U!Names -> {{}, {"required"}, {"rangelength", "min"}}]
  BY DEF U!Init
<1>3. u_container \in [U!Names -> Texts] /\ u_summary \in [class: {"valid", "errors"}, list: SUBSET U!Names]
  BY DEF U!Init, Texts
<1>4. u_outcome \in [U!Names -> {"none", "valid", "error"}]
  BY DEF U!Init
<1>5. /\ u_inPage \subseteq U!Names /\ u_info \subseteq U!Names /\ u_removed \in BOOLEAN
      /\ u_handlers \in 0 .. 1 /\ u_resetting \in BOOLEAN /\ u_threw \in BOOLEAN
  <2>1. u_inPage = {} /\ u_info = {} /\ u_handlers = 0
    BY DEF U!Init
  <2>2. u_removed = FALSE /\ u_resetting = FALSE /\ u_threw = FALSE
    BY DEF U!Init
  <2>3. u_removed \in BOOLEAN /\ u_resetting \in BOOLEAN /\ u_threw \in BOOLEAN
    BY <2>2, Zenon
  <2>4. u_inPage \subseteq U!Names /\ u_info \subseteq U!Names /\ u_handlers \in 0 .. 1
    BY <2>1
  <2>5. QED
    BY <2>3, <2>4
<1>6. QED
  BY <1>1, <1>2, <1>3, <1>4, <1>5 DEF U!TypeOK, Texts

\* A check sets the outcomes of its fields, and their containers show them.
LEMMA CheckShows ==
    ASSUME NEW fields, U!TypeOK, U!Check(fields), \A f \in U!Names : ShowsCheck(f),
           u_threw' = u_threw
    PROVE  /\ u_container' \in [U!Names -> Texts]
           /\ u_outcome' \in [U!Names -> {"none", "valid", "error"}]
           /\ \A f \in U!Names : ShowsCheck(f)'
           /\ \A f \in U!Names : f \in fields => u_outcome'[f] # "none"
           /\ \A f \in U!Names : f \notin fields => u_outcome'[f] = u_outcome[f]
<1>1. /\ u_container' =
             [f \in U!Names |-> IF f \in fields THEN U!Checked(f) ELSE u_container[f]]
      /\ u_outcome' =
             [f \in U!Names |-> IF f \notin fields THEN u_outcome[f]
                                ELSE IF U!Breaks(f) THEN "error" ELSE "valid"]
  BY DEF U!Check
<1>2. /\ \A f \in U!Names : u_container[f] \in Texts
      /\ \A f \in U!Names : u_outcome[f] \in {"none", "valid", "error"}
  BY DEF U!TypeOK, Texts
<1>3. ASSUME NEW f \in U!Names
      PROVE  /\ U!Checked(f) \in Texts
             /\ U!Checked(f).class = IF U!Breaks(f) THEN "error" ELSE "valid"
             /\ UFields[f].replace = "true" =>
                    U!Checked(f).text = IF U!Breaks(f) THEN "message" ELSE ""
  BY <1>2 DEF U!Checked, U!OnError, U!OnSuccess, Texts
<1>4. u_container' \in [U!Names -> Texts]
  BY <1>1, <1>2, <1>3
<1>5. u_outcome' \in [U!Names -> {"none", "valid", "error"}]
  BY <1>1, <1>2
<1>6. ASSUME NEW f \in U!Names PROVE ShowsCheck(f)'
  <2>1. CASE f \in fields
    BY <1>1, <1>3, <2>1 DEF ShowsCheck
  <2>2. CASE f \notin fields
    BY <1>1, <2>2 DEF ShowsCheck
  <2>3. QED
    BY <2>1, <2>2
<1>7. QED
  BY <1>1, <1>4, <1>5, <1>6

LEMMA OnErrorsShows ==
    ASSUME NEW errors \in SUBSET U!Names, U!TypeOK, SummaryShows, U!OnErrors(errors),
           u_threw' = u_threw,
           \A f \in errors : u_outcome'[f] # "none",
           \A f \in U!Names : u_outcome'[f] # "none" \/ u_outcome'[f] = u_outcome[f]
    PROVE  /\ SummaryShows'
           /\ u_summary' \in [class: {"valid", "errors"}, list: SUBSET U!Names]
<1>1. CASE errors = {}
  BY <1>1 DEF U!OnErrors, U!TypeOK, SummaryShows
<1>2. CASE errors # {}
  <2>1. u_summary' = [class |-> "errors", list |-> errors]
    BY <1>2 DEF U!OnErrors
  <2>2. QED
    BY <2>1 DEF SummaryShows
<1>3. QED
  BY <1>1, <1>2

LEMMA ValidatorsType ==
    ASSUME NEW s \in Seq(SUBSET U!Names)
    PROVE  /\ DOMAIN s = 1 .. Len(s) /\ Len(s) \in Nat
           /\ \A i \in DOMAIN s : s[i] \subseteq U!Names
           /\ s # <<>> => Len(s) \in DOMAIN s /\ U!Last(s) = s[Len(s)]
           /\ U!Range(s) = {s[i] : i \in DOMAIN s}
<1>1. DOMAIN s = 1 .. Len(s) /\ Len(s) \in Nat /\ \A i \in DOMAIN s : s[i] \in SUBSET U!Names
  OBVIOUS
<1>2. s # <<>> => Len(s) \in DOMAIN s
  OBVIOUS
<1>3. QED
  BY <1>1, <1>2 DEF U!Last, U!Range

LEMMA MakeValidatorType ==
    ASSUME NEW rules \in SUBSET U!Names, U!TypeOK, U!MakeValidator(rules)
    PROVE  /\ u_validators' \in Seq(SUBSET U!Names) /\ u_removed' \in BOOLEAN
           /\ \A i \in DOMAIN u_validators' :
                  \/ i \in DOMAIN u_validators /\ u_validators'[i] = u_validators[i]
                  \/ u_validators'[i] = rules
<1>1. u_validators \in Seq(SUBSET U!Names)
  BY DEF U!TypeOK
<1>2. CASE u_validators' = u_validators
  BY <1>1, <1>2 DEF U!MakeValidator
<1>3. CASE u_validators' = Append(u_validators, rules)
  <2>1. /\ u_validators' \in Seq(SUBSET U!Names)
        /\ Len(u_validators') = Len(u_validators) + 1
        /\ u_validators'[Len(u_validators) + 1] = rules
        /\ \A i \in 1 .. Len(u_validators) : u_validators'[i] = u_validators[i]
    BY <1>1, <1>3
  <2>2. /\ DOMAIN u_validators = 1 .. Len(u_validators) /\ Len(u_validators) \in Nat
        /\ DOMAIN u_validators' = 1 .. Len(u_validators')
    BY <1>1, <2>1
  <2>3. \A i \in DOMAIN u_validators' : i \in DOMAIN u_validators \/ i = Len(u_validators) + 1
    BY <2>1, <2>2
  <2>4. u_removed' \in BOOLEAN
    BY DEF U!MakeValidator
  <2>5. QED
    BY <2>1, <2>2, <2>3, <2>4
<1>4. QED
  BY <1>2, <1>3 DEF U!MakeValidator

LEMMA FormNext == U!TypeOK /\ FormInv /\ [U!Next]_(U!vars) => U!TypeOK' /\ FormInv'
<1> SUFFICES ASSUME U!TypeOK, FormInv, [U!Next]_(U!vars) PROVE U!TypeOK' /\ FormInv'
  OBVIOUS
<1> USE DEF U!pageVars, U!formVars, U!shownVars
<1>0. /\ u_resetting = FALSE /\ SummaryShows /\ \A f \in U!Names : ShowsCheck(f)
      /\ u_validators \in Seq(SUBSET U!Names) /\ u_inPage \subseteq U!Names
      /\ u_info \subseteq U!Names /\ u_handlers \in 0 .. 1
  BY FieldsShowIs DEF FormInv, U!TypeOK
\* What is shown stays, and so do the outcomes: the fields that have been checked.
<1>1. ASSUME UNCHANGED <<u_container, u_summary, u_outcome, u_threw, u_resetting>>,
             u_inPage' \subseteq U!Names,
             u_value' \in [U!Names -> {{}, {"required"}, {"rangelength", "min"}}],
             u_info' \subseteq U!Names, u_validators' \in Seq(SUBSET U!Names),
             u_removed' \in BOOLEAN, u_handlers' \in 0 .. 1,
             u_handlers' = 0 =>
                 u_handlers = 0 /\ \A i \in DOMAIN u_validators' : u_validators'[i] = {}
      PROVE  U!TypeOK' /\ FormInv'
  <2>1. U!TypeOK'
    BY <1>1 DEF U!TypeOK
  <2>2. FormInv'
    BY <1>1 DEF FormInv, U!FieldsShowTheirLastCheck
  <2>3. QED
    BY <2>1, <2>2
\* A check of fields that a validator has rules for.
<1>2. ASSUME NEW fields \in SUBSET u_inPage, NEW errors \in SUBSET fields,
             U!Check(fields), U!OnErrors(errors),
             UNCHANGED <<u_inPage, u_value, u_info, u_handlers, u_resetting, u_threw>>,
             u_validators' \in Seq(SUBSET U!Names), u_removed' \in BOOLEAN,
             u_handlers = 0 =>
                 fields = {} /\ \A i \in DOMAIN u_validators' : u_validators'[i] = {}
      PROVE  U!TypeOK' /\ FormInv'
  <2>1. /\ u_container' \in [U!Names -> Texts]
        /\ u_outcome' \in [U!Names -> {"none", "valid", "error"}]
        /\ \A f \in U!Names : ShowsCheck(f)'
        /\ \A f \in U!Names : f \in fields => u_outcome'[f] # "none"
        /\ \A f \in U!Names : f \notin fields => u_outcome'[f] = u_outcome[f]
    BY <1>0, <1>2, CheckShows
  <2>2. errors \in SUBSET U!Names /\ \A f \in errors : u_outcome'[f] # "none"
    BY <1>0, <2>1
  <2>3. SummaryShows' /\ u_summary' \in [class: {"valid", "errors"}, list: SUBSET U!Names]
    BY <1>0, <1>2, <2>1, <2>2, OnErrorsShows
  <2>4. U!TypeOK'
    BY <1>2, <2>1, <2>3 DEF U!TypeOK, Texts
  <2>5. U!FieldsShowTheirLastCheck'
    BY <2>1, <2>3 DEF U!FieldsShowTheirLastCheck, ShowsCheck, SummaryShows
  <2>6. u_handlers' = 0 => /\ \A i \in DOMAIN u_validators' : u_validators'[i] = {}
                           /\ \A f \in U!Names : u_outcome'[f] = "none"
                           /\ u_summary'.class = "valid" /\ u_threw' = FALSE
    <3>1. CASE u_handlers = 0
      <4>1. fields = {} /\ errors = {}
        BY <1>2, <3>1
      <4>2. u_summary' = u_summary
        BY <1>2, <4>1 DEF U!OnErrors
      <4>3. QED
        BY <1>2, <2>1, <3>1, <4>1, <4>2 DEF FormInv
    <3>2. CASE u_handlers # 0
      BY <1>2, <3>2
    <3>3. QED
      BY <3>1, <3>2
  <2>7. QED
    BY <1>0, <1>2, <2>4, <2>5, <2>6 DEF FormInv
<1>3. ASSUME NEW f \in U!Names, U!Insert(f) PROVE U!TypeOK' /\ FormInv'
  <2>1. /\ UNCHANGED <<u_container, u_summary, u_outcome, u_threw, u_resetting>>
        /\ UNCHANGED <<u_value, u_info, u_validators, u_removed, u_handlers>>
        /\ u_inPage' \subseteq U!Names
    BY <1>0, <1>3 DEF U!Insert
  <2>2. QED
    BY <1>1, <2>1 DEF U!TypeOK, FormInv
<1>4. ASSUME NEW f \in U!Names, U!Element(f) PROVE U!TypeOK' /\ FormInv'
  <2>1. f \in U!Last(u_validators) /\ f \in u_inPage /\ u_validators # <<>> /\ U!Check({f})
        /\ UNCHANGED <<u_inPage, u_value, u_info, u_validators, u_removed, u_handlers,
                       u_resetting, u_summary, u_threw>>
    BY <1>4 DEF U!Element, U!HasValidator
  <2>2. u_handlers # 0
    BY <1>0, <2>1, ValidatorsType DEF FormInv
  <2>3. U!OnErrors({})
    BY <2>1 DEF U!OnErrors
  <2>4. {f} \in SUBSET u_inPage /\ {} \in SUBSET {f}
    BY <2>1
  <2>5. QED
    BY <1>0, <1>2, <2>1, <2>2, <2>3, <2>4 DEF U!TypeOK
<1>5. ASSUME NEW f \in U!Names, NEW v \in {{}, {"required"}, {"rangelength", "min"}},
             U!Input(f, v)
      PROVE  U!TypeOK' /\ FormInv'
  <2>1. /\ UNCHANGED <<u_container, u_summary, u_outcome, u_threw, u_resetting>>
        /\ UNCHANGED <<u_inPage, u_info, u_validators, u_removed, u_handlers>>
        /\ u_value' \in [U!Names -> {{}, {"required"}, {"rangelength", "min"}}]
    BY <1>5 DEF U!Input, U!TypeOK
  <2>2. QED
    BY <1>1, <2>1 DEF U!TypeOK, FormInv
\* attachValidation
<1>6. ASSUME NEW rules \in SUBSET U!Names, U!AttachValidation(rules), u_info' \subseteq U!Names,
             UNCHANGED <<u_inPage, u_value, u_container, u_summary, u_outcome, u_threw, u_resetting>>
      PROVE  U!TypeOK' /\ FormInv'
  <2>1. u_validators' \in Seq(SUBSET U!Names) /\ u_removed' \in BOOLEAN /\ u_handlers' = 1
    BY <1>6, MakeValidatorType DEF U!AttachValidation
  <2>2. /\ u_inPage' \subseteq U!Names
        /\ u_value' \in [U!Names -> {{}, {"required"}, {"rangelength", "min"}}]
    BY <1>6 DEF U!TypeOK
  <2>3. u_handlers' \in 0 .. 1 /\ u_handlers' # 0
    BY <2>1
  <2>4. QED
    BY <1>1, <1>6, <2>1, <2>2, <2>3
<1>7. ASSUME NEW f \in U!Names, NEW skipAttach \in BOOLEAN, U!ParseElement(f, skipAttach)
      PROVE  U!TypeOK' /\ FormInv'
  <2>1. /\ u_info' = u_info \union {f} /\ u_info' \subseteq U!Names
        /\ UNCHANGED <<u_inPage, u_value, u_container, u_summary, u_outcome, u_threw, u_resetting>>
    BY <1>0, <1>7 DEF U!ParseElement
  <2>2. CASE skipAttach
    <3>1. UNCHANGED <<u_validators, u_removed, u_handlers>>
      BY <1>7, <2>2 DEF U!ParseElement
    <3>2. QED
      BY <1>1, <2>1, <3>1 DEF U!TypeOK, FormInv
  <2>3. CASE ~skipAttach
    <3>1. U!AttachValidation(u_info \union {f})
      BY <1>7, <2>3 DEF U!ParseElement
    <3>2. QED
      BY <1>0, <1>6, <2>1, <3>1
  <2>4. QED
    BY <2>2, <2>3
<1>8. ASSUME NEW fields \in SUBSET U!Names, U!Parse(fields) PROVE U!TypeOK' /\ FormInv'
  <2>1. /\ u_info' = u_info \union fields /\ U!AttachValidation(u_info \union fields)
        /\ UNCHANGED <<u_inPage, u_value, u_container, u_summary, u_outcome, u_threw, u_resetting>>
    BY <1>8 DEF U!Parse
  <2>2. u_info \union fields \in SUBSET U!Names
    BY <1>0
  <2>3. QED
    BY <1>6, <2>1, <2>2
<1>9. ASSUME U!Submit PROVE U!TypeOK' /\ FormInv'
  <2> DEFINE fields == U!Last(u_validators) \intersect u_inPage
             errors == {f \in fields : U!Breaks(f)}
  <2>1. /\ U!Check(fields) /\ U!OnErrors(errors) /\ u_validators # <<>>
        /\ UNCHANGED <<u_inPage, u_value, u_info, u_validators, u_removed, u_handlers,
                       u_resetting, u_threw>>
    BY <1>9 DEF U!Submit, U!HasValidator
  <2>2. u_handlers = 0 =>
            fields = {} /\ \A i \in DOMAIN u_validators : u_validators[i] = {}
    BY <1>0, <2>1, ValidatorsType DEF FormInv
  <2>3. fields \in SUBSET u_inPage /\ errors \in SUBSET fields
    OBVIOUS
  <2> HIDE DEF fields, errors
  <2>4. QED
    BY <1>0, <1>2, <2>1, <2>2, <2>3 DEF U!TypeOK
<1>10. ASSUME U!Validate PROVE U!TypeOK' /\ FormInv'
  <2> DEFINE fields == IF U!HasValidator THEN U!Last(u_validators) \intersect u_inPage ELSE {}
             errors == {f \in fields : U!Breaks(f)}
  <2>1. /\ U!MakeValidator({}) /\ U!Check(fields) /\ U!OnErrors(errors)
        /\ UNCHANGED <<u_inPage, u_value, u_info, u_handlers, u_resetting, u_threw>>
    BY <1>10 DEF U!Validate
  <2>2. /\ u_validators' \in Seq(SUBSET U!Names) /\ u_removed' \in BOOLEAN
        /\ \A i \in DOMAIN u_validators' :
               \/ i \in DOMAIN u_validators /\ u_validators'[i] = u_validators[i]
               \/ u_validators'[i] = {}
    BY <2>1, MakeValidatorType
  <2>3. u_handlers = 0 =>
            fields = {} /\ \A i \in DOMAIN u_validators' : u_validators'[i] = {}
    <3> SUFFICES ASSUME u_handlers = 0
                 PROVE  fields = {} /\ \A i \in DOMAIN u_validators' : u_validators'[i] = {}
      OBVIOUS
    <3>1. \A i \in DOMAIN u_validators : u_validators[i] = {}
      BY DEF FormInv
    <3>2. U!HasValidator => U!Last(u_validators) = {}
      BY <1>0, <3>1, ValidatorsType DEF U!HasValidator
    <3>3. QED
      BY <2>2, <3>1, <3>2
  <2>4. fields \in SUBSET u_inPage /\ errors \in SUBSET fields
    OBVIOUS
  <2> HIDE DEF fields, errors
  <2>5. QED
    BY <1>2, <2>1, <2>2, <2>3, <2>4
<1>11. ASSUME U!Reset PROVE U!TypeOK' /\ FormInv'
  <2>1. /\ u_value' = [f \in U!Names |-> {}]
        /\ u_outcome' = [f \in U!Names |-> "none"]
        /\ UNCHANGED <<u_inPage, u_info, u_validators, u_removed, u_handlers>>
    BY <1>11 DEF U!Reset
  <2>2. u_value' \in [U!Names -> {{}, {"required"}, {"rangelength", "min"}}]
    BY <2>1
  <2>3. u_resetting' = FALSE
    BY <1>0, <1>11 DEF U!Reset, U!OnReset
  <2>4. CASE U!HasValidator /\ u_handlers > 0
    <3>1. U!ClearErrors /\ u_threw' = FALSE
      BY <1>0, <1>11, <2>4 DEF U!Reset, U!OnReset
    <3>2. /\ u_container' = [f \in U!Names |-> [u_container[f] EXCEPT !.class = "valid"]]
          /\ u_summary' = [u_summary EXCEPT !.class = "valid"]
      BY <3>1 DEF U!ClearErrors
    <3>3. \A f \in U!Names : u_container[f] \in Texts
      BY DEF U!TypeOK, Texts
    <3>4. /\ u_container' \in [U!Names -> Texts]
          /\ \A f \in U!Names : u_container'[f].class = "valid"
      BY <3>2, <3>3 DEF Texts
    <3>5. u_summary' \in [class: {"valid", "errors"}, list: SUBSET U!Names]
          /\ u_summary'.class = "valid"
      BY <3>2 DEF U!TypeOK
    <3>6. U!TypeOK'
      BY <2>1, <2>2, <2>3, <3>1, <3>4, <3>5 DEF U!TypeOK, Texts
    <3>7. U!FieldsShowTheirLastCheck'
      BY <2>1, <3>4, <3>5 DEF U!FieldsShowTheirLastCheck
    <3>8. QED
      BY <2>1, <2>3, <2>4, <3>1, <3>5, <3>6, <3>7 DEF FormInv
  <2>5. CASE ~U!HasValidator /\ u_handlers > 0
    <3>1. UNCHANGED <<u_container, u_summary>> /\ u_threw' = TRUE
      BY <1>0, <1>11, <2>5 DEF U!Reset, U!OnReset
    <3>2. U!TypeOK'
      BY <2>1, <2>2, <2>3, <3>1 DEF U!TypeOK
    <3>3. U!FieldsShowTheirLastCheck'
      BY <2>1, <3>1 DEF U!FieldsShowTheirLastCheck
    <3>4. QED
      BY <2>1, <2>3, <2>5, <3>2, <3>3 DEF FormInv
  <2>6. CASE u_handlers = 0
    <3>1. UNCHANGED <<u_container, u_summary, u_threw>>
      BY <1>11, <2>6 DEF U!Reset
    <3>2. \A f \in U!Names : u_outcome[f] = "none"
      BY <2>6 DEF FormInv
    <3>3. u_outcome = [f \in U!Names |-> "none"]
      BY <3>2 DEF U!TypeOK
    <3>4. QED
      BY <1>0, <1>1, <2>1, <2>2, <2>3, <3>1, <3>3 DEF U!TypeOK, FormInv
  <2>7. QED
    BY <1>0, <2>4, <2>5, <2>6
<1>12. ASSUME U!RemoveData PROVE U!TypeOK' /\ FormInv'
  <2>1. /\ UNCHANGED <<u_container, u_summary, u_outcome, u_threw, u_resetting>>
        /\ UNCHANGED <<u_inPage, u_value, u_validators, u_handlers>>
        /\ u_info' = {} /\ u_removed' = TRUE
    BY <1>12 DEF U!RemoveData
  <2>2. QED
    BY <1>1, <2>1 DEF U!TypeOK, FormInv
<1>13. ASSUME UNCHANGED U!vars PROVE U!TypeOK' /\ FormInv'
  <2>1. /\ UNCHANGED <<u_container, u_summary, u_outcome, u_threw, u_resetting>>
        /\ UNCHANGED <<u_inPage, u_value, u_info, u_validators, u_removed, u_handlers>>
    BY <1>13 DEF U!vars
  <2>2. QED
    BY <1>1, <2>1 DEF U!TypeOK, FormInv
<1>14. QED
  BY <1>3, <1>4, <1>5, <1>7, <1>8, <1>9, <1>10, <1>11, <1>12, <1>13 DEF U!Next

LEMMA FormInit == U!Init => U!TypeOK /\ FormInv
<1>1. U!Init => FormInv
  <2> SUFFICES ASSUME U!Init PROVE FormInv
    OBVIOUS
  <2>1. DOMAIN u_validators = {}
    <3>1. u_validators = <<>>
      BY DEF U!Init
    <3>2. QED
      BY <3>1
  <2>2. \A f \in U!Names : u_outcome[f] = "none" /\ u_container[f].class = "valid"
    BY DEF U!Init
  <2>3. u_resetting = FALSE /\ u_summary.class = "valid" /\ u_threw = FALSE
    BY DEF U!Init
  <2>4. QED
    BY <2>1, <2>2, <2>3 DEF FormInv, U!FieldsShowTheirLastCheck
<1>2. QED
  BY <1>1, FormInitType

LEMMA FormStep == [ServicesNext]_servicesVars => [U!Next]_(U!vars)
BY DEF ServicesNext, servicesVars, Only, u_vars, U!vars, U!pageVars, U!formVars, U!shownVars

\* A message container shows its field's last check since the last reset, for every
\* set of fields and whichever validators the form has had; of other fields it shows
\* no error, unless that reset found no validator and threw.
THEOREM ChecksAreShown == ServicesSpec => []FieldsShowTheirLastCheck
<1>1. ServicesInit => U!Init
  BY DEF ServicesInit
<1>2. FormInv => FieldsShowTheirLastCheck
  BY DEF FormInv, FieldsShowTheirLastCheck
<1>3. QED
  BY <1>1, <1>2, FormStep, FormInit, FormNext, PTL DEF ServicesSpec

-------------------------------------------------------------------------------
(* The short ids *)

\* A sequence of characters holds digits by position.
IsDigit(c) == I!Convert(c) \in 0 .. I!Base - 1

Character == [kind : {"0..9", "a..z", "A..Z"}, position : Nat]

LEMMA CharactersAre ==
    ASSUME NEW kind \in {"0..9", "a..z", "A..Z"}, NEW count \in Nat
    PROVE  /\ I!Characters(kind, count) \in Seq(Character)
           /\ Len(I!Characters(kind, count)) = count
           /\ \A i \in 1 .. count :
                  I!Characters(kind, count)[i] = [kind |-> kind, position |-> i - 1]
<1> DEFINE s == [i \in 1 .. count |-> [kind |-> kind, position |-> i - 1]]
<1>1. s \in [1 .. count -> Character]
  BY DEF Character
<1>2. s \in Seq(Character) /\ Len(s) = count
  BY <1>1
<1>3. QED
  BY <1>2 DEF I!Characters

LEMMA ElementsAre ==
    /\ I!Base \in Nat /\ I!Base >= 2
    /\ \A d \in 0 .. I!Base - 1 :
           I!Elements[d + 1] \in Character /\ I!Convert(I!Elements[d + 1]) = d
<1> DEFINE a == I!Characters("0..9", INumerals)
           b == I!Characters("a..z", ILetters)
           c == I!Characters("A..Z", ILetters)
           n == INumerals
           l == ILetters
<1>1. n \in Nat /\ l \in Nat /\ n + 2 * l >= 2
  BY ServicesAssumption
<1>2. /\ a \in Seq(Character) /\ Len(a) = n
      /\ \A i \in 1 .. n : a[i] = [kind |-> "0..9", position |-> i - 1]
  BY <1>1, CharactersAre
<1>3. /\ b \in Seq(Character) /\ Len(b) = l
      /\ \A i \in 1 .. l : b[i] = [kind |-> "a..z", position |-> i - 1]
  BY <1>1, CharactersAre
<1>4. /\ c \in Seq(Character) /\ Len(c) = l
      /\ \A i \in 1 .. l : c[i] = [kind |-> "A..Z", position |-> i - 1]
  BY <1>1, CharactersAre
<1>5. I!Elements = a \o b \o c
  BY DEF I!Elements
<1> HIDE DEF a, b, c
<1> DEFINE e == a \o b \o c
<1>6. e \in Seq(Character) /\ Len(e) = n + l + l
  <2>1. a \o b \in Seq(Character) /\ Len(a \o b) = n + l
    BY <1>2, <1>3, ConcatProperties
  <2>2. QED
    BY <2>1, <1>4, <1>1, ConcatProperties
<1>7. /\ \A i \in 1 .. n : e[i] = [kind |-> "0..9", position |-> i - 1]
      /\ \A i \in n + 1 .. n + l : e[i] = [kind |-> "a..z", position |-> i - n - 1]
      /\ \A i \in n + l + 1 .. n + l + l : e[i] = [kind |-> "A..Z", position |-> i - n - l - 1]
  <2>1. a \o b \in Seq(Character) /\ Len(a \o b) = n + l
    BY <1>2, <1>3, ConcatProperties
  <2>2. \A i \in 1 .. n + l : e[i] = (a \o b)[i]
    BY <2>1, <1>4
  <2>3. \A i \in 1 .. n : (a \o b)[i] = a[i]
    BY <1>1, <1>2, <1>3
  <2>4. \A i \in n + 1 .. n + l : (a \o b)[i] = b[i - n]
    BY <1>1, <1>2, <1>3
  <2>5. \A i \in n + l + 1 .. n + l + l : e[i] = c[i - (n + l)]
    BY <1>1, <2>1, <1>4
  <2>6. ASSUME NEW i \in n + l + 1 .. n + l + l
        PROVE  e[i] = [kind |-> "A..Z", position |-> i - n - l - 1]
    <3>1. i - (n + l) \in 1 .. l /\ i - (n + l) = i - n - l
      BY <1>1
    <3>2. QED
      BY <1>4, <2>5, <3>1
  <2>7. ASSUME NEW i \in n + 1 .. n + l
        PROVE  e[i] = [kind |-> "a..z", position |-> i - n - 1]
    <3>1. i - n \in 1 .. l /\ i \in 1 .. n + l
      BY <1>1
    <3>2. QED
      BY <1>3, <2>2, <2>4, <3>1
  <2>8. ASSUME NEW i \in 1 .. n
        PROVE  e[i] = [kind |-> "0..9", position |-> i - 1]
    <3>1. i \in 1 .. n + l
      BY <1>1
    <3>2. QED
      BY <1>2, <2>2, <2>3, <3>1
  <2>9. QED
    BY <2>6, <2>7, <2>8
<1>8. I!Base = n + l + l /\ I!Base \in Nat /\ I!Base >= 2
  BY <1>1, <1>5, <1>6 DEF I!Base
<1>9. ASSUME NEW d \in 0 .. I!Base - 1
      PROVE  I!Elements[d + 1] \in Character /\ I!Convert(I!Elements[d + 1]) = d
  <2> HIDE DEF e
  <2>0. I!Elements = e
    BY <1>5 DEF e
  <2>9. I!Elements[d + 1] \in Character
    BY <1>1, <1>6, <1>8, <2>0
  <2>1. CASE d + 1 <= n
    <3>1. e[d + 1] = [kind |-> "0..9", position |-> d]
      BY <1>1, <1>7, <1>8, <2>1
    <3>2. QED
      BY <2>0, <2>9, <3>1 DEF I!Convert
  <2>2. CASE d + 1 > n /\ d + 1 <= n + l
    <3>1. e[d + 1] = [kind |-> "a..z", position |-> d - n] /\ d - n + n = d
      BY <1>1, <1>7, <1>8, <2>2
    <3>2. QED
      BY <2>0, <2>9, <3>1 DEF I!Convert
  <2>3. CASE d + 1 > n + l
    <3>1. e[d + 1] = [kind |-> "A..Z", position |-> d - n - l] /\ d - n - l + n + l = d
      BY <1>1, <1>7, <1>8, <2>3
    <3>2. QED
      BY <2>0, <2>9, <3>1 DEF I!Convert
  <2>4. QED
    BY <1>1, <1>8, <2>9, <2>1, <2>2, <2>3
<1>10. QED
  BY <1>8, <1>9

\* The greatest number of an interval of numbers from 1 on, and of any set of them.
LEMMA MaxIs ==
    ASSUME NEW n \in Nat, NEW t \in SUBSET (1 .. n + 1), t # {}
    PROVE  I!Max(t) \in t /\ t \ {I!Max(t)} \in SUBSET (1 .. n)
<1>1. I!Max(t) = EP!Max(t)
  BY DEF I!Max, EP!Max
<1>2. EP!Max(t) \in t /\ \A x \in t : x <= EP!Max(t)
  <2>1. n + 1 \in Nat
    OBVIOUS
  <2>2. QED
    BY <2>1, EP!MaxOfNumbers
<1> DEFINE m == I!Max(t)
<1>5. m \in t /\ m \in 1 .. n + 1 /\ \A x \in t : x <= m /\ x \in 1 .. n + 1
  BY <1>1, <1>2
<1> HIDE DEF m
<1>3. ASSUME NEW x \in t, x # m PROVE x \in 1 .. n
  <2>1. x <= m /\ x \in 1 .. n + 1 /\ m \in 1 .. n + 1
    BY <1>5
  <2>2. QED
    BY <1>3, <2>1
<1>4. QED
  BY <1>5, <1>3 DEF m

LEMMA MaxOfInterval ==
    ASSUME NEW n \in Nat
    PROVE  I!Max(1 .. n + 1) = n + 1 /\ (1 .. n + 1) \ {n + 1} = 1 .. n
<1> DEFINE t == 1 .. n + 1
<1>1. n + 1 \in t /\ t \in SUBSET (1 .. n + 1) /\ t # {}
  OBVIOUS
<1>2. I!Max(t) = EP!Max(t)
  BY DEF I!Max, EP!Max
<1>3. EP!Max(t) \in t /\ \A x \in t : x <= EP!Max(t)
  <2>1. n + 1 \in Nat
    OBVIOUS
  <2> HIDE DEF t
  <2>2. QED
    BY <1>1, <2>1, EP!MaxOfNumbers
<1> DEFINE m == I!Max(t)
<1>5. m \in 1 .. n + 1 /\ n + 1 <= m
  BY <1>1, <1>2, <1>3
<1> HIDE DEF m
<1>6. m = n + 1
  BY <1>5
<1>4. QED
  BY <1>6 DEF m

\* g gives for each set of positions up to n the number of the digits there.
IsReadings(g, s, n) ==
    g = [t \in SUBSET (1 .. n) |->
            IF t = {} THEN 0 ELSE g[t \ {I!Max(t)}] * I!Base + I!Convert(s[I!Max(t)])]

LEMMA ReadingAt ==
    ASSUME NEW s, NEW n \in Nat, NEW g, IsReadings(g, s, n), NEW k \in Nat, k + 1 <= n
    PROVE  g[1 .. k + 1] = g[1 .. k] * I!Base + I!Convert(s[k + 1])
<1> DEFINE u == 1 .. k + 1
<1>1. u \in SUBSET (1 .. n) /\ u # {}
  OBVIOUS
<1>2. I!Max(u) = k + 1 /\ u \ {k + 1} = 1 .. k
  BY MaxOfInterval
<1> HIDE DEF u
<1>3. g[u] = g[u \ {I!Max(u)}] * I!Base + I!Convert(s[I!Max(u)])
  BY <1>1 DEF IsReadings
<1>4. g[u] = g[1 .. k] * I!Base + I!Convert(s[k + 1])
  BY <1>2, <1>3
<1>5. QED
  BY <1>4 DEF u

\* The function that the definition of the fold chooses exists.
LEMMA ReadingsExist ==
    ASSUME NEW s, NEW n \in Nat
    PROVE  \E g : IsReadings(g, s, n)
<1> DEFINE T == {m \in Nat : \E g : IsReadings(g, s, m)}
<1>1. 0 \in T
  <2>1. \A t \in SUBSET (1 .. 0) : t = {}
    OBVIOUS
  <2>2. IsReadings([t \in SUBSET (1 .. 0) |-> 0], s, 0)
    BY <2>1 DEF IsReadings
  <2>3. QED
    BY <2>2
<1>2. ASSUME NEW m \in Nat, m \in T PROVE m + 1 \in T
  <2>1. PICK g : IsReadings(g, s, m)
    BY <1>2
  <2> DEFINE h == [t \in SUBSET (1 .. m + 1) |->
                      IF t = {} THEN 0
                      ELSE g[t \ {I!Max(t)}] * I!Base + I!Convert(s[I!Max(t)])]
  <2>2. \A t \in SUBSET (1 .. m) : t \in SUBSET (1 .. m + 1)
    OBVIOUS
  <2>3. \A t \in SUBSET (1 .. m) : h[t] = g[t]
    BY <2>1, <2>2 DEF IsReadings
  <2>4. \A t \in SUBSET (1 .. m + 1) : t # {} => t \ {I!Max(t)} \in SUBSET (1 .. m)
    BY MaxIs
  <2>5. \A t \in SUBSET (1 .. m + 1) : t # {} => h[t \ {I!Max(t)}] = g[t \ {I!Max(t)}]
    BY <2>3, <2>4
  <2>6. IsReadings(h, s, m + 1)
    BY <2>5 DEF IsReadings
  <2> HIDE DEF h
  <2>7. \E g2 : IsReadings(g2, s, m + 1)
    BY <2>6
  <2>8. QED
    BY <2>7
<1>3. n \in T
  <2> HIDE DEF T
  <2>1. QED
    BY <1>1, <1>2, AllNumbers
<1>4. QED
  BY <1>3

LEMMA ReadingIs ==
    ASSUME NEW s \in Seq(Character)
    PROVE  \E g : IsReadings(g, s, Len(s)) /\ I!Base62ToBase10(s) = g[1 .. Len(s)]
<1> DEFINE g == CHOOSE g : IsReadings(g, s, Len(s))
<1>1. IsReadings(g, s, Len(s))
  BY ReadingsExist
<1>2. DOMAIN s = 1 .. Len(s)
  OBVIOUS
<1>3. I!Base62ToBase10(s) = g[1 .. Len(s)]
  BY <1>2 DEF I!Base62ToBase10, I!FoldLeft, I!MapThenFoldSet, IsReadings
<1> HIDE DEF g
<1>4. QED
  BY <1>1, <1>3

\* What was read of the first characters does not depend on the rest.
LEMMA ReadingsAgree ==
    ASSUME NEW n \in Nat, NEW s, NEW t, NEW g, NEW h,
           IsReadings(g, s, n), IsReadings(h, t, n + 1), \A i \in 1 .. n : s[i] = t[i]
    PROVE  g[1 .. n] = h[1 .. n]
<1> DEFINE N == {k \in Nat : k <= n => g[1 .. k] = h[1 .. k]}
<1>1. 0 \in N
  <2>1. 1 .. 0 = {} /\ {} \in SUBSET (1 .. n) /\ {} \in SUBSET (1 .. n + 1)
    OBVIOUS
  <2>2. g[{}] = 0 /\ h[{}] = 0
    BY <2>1 DEF IsReadings
  <2>3. QED
    BY <2>1, <2>2
<1>2. ASSUME NEW k \in Nat, k \in N PROVE k + 1 \in N
  <2> SUFFICES ASSUME k + 1 <= n PROVE g[1 .. k + 1] = h[1 .. k + 1]
    OBVIOUS
  <2>1. g[1 .. k] = h[1 .. k]
    BY <1>2
  <2>2. k + 1 \in 1 .. n /\ n + 1 \in Nat /\ k + 1 <= n + 1
    OBVIOUS
  <2>4. g[1 .. k + 1] = g[1 .. k] * I!Base + I!Convert(s[k + 1])
    BY ReadingAt
  <2>5. h[1 .. k + 1] = h[1 .. k] * I!Base + I!Convert(t[k + 1])
    BY <2>2, ReadingAt
  <2>6. s[k + 1] = t[k + 1]
    BY <2>2
  <2>7. QED
    BY <2>1, <2>4, <2>5, <2>6
<1>3. n \in N
  <2> HIDE DEF N
  <2>1. QED
    BY <1>1, <1>2, AllNumbers
<1>4. QED
  BY <1>3

LEMMA NothingIsZero == I!Base62ToBase10(<<>>) = 0
<1>1. <<>> \in Seq(Character) /\ Len(<<>>) = 0 /\ 1 .. 0 = {}
  OBVIOUS
<1>2. PICK g : IsReadings(g, <<>>, 0) /\ I!Base62ToBase10(<<>>) = g[1 .. 0]
  BY <1>1, ReadingIs
<1>3. {} \in SUBSET (1 .. 0)
  OBVIOUS
<1>4. g[{}] = 0
  BY <1>2, <1>3 DEF IsReadings
<1>5. QED
  BY <1>1, <1>2, <1>4

\* One more character is one more digit.
LEMMA OneMoreDigit ==
    ASSUME NEW s \in Seq(Character), NEW c \in Character
    PROVE  I!Base62ToBase10(Append(s, c)) = I!Base62ToBase10(s) * I!Base + I!Convert(c)
<1> DEFINE n == Len(s)
           t == Append(s, c)
<1>1. /\ n \in Nat /\ t \in Seq(Character) /\ Len(t) = n + 1 /\ t[n + 1] = c
      /\ \A i \in 1 .. n : s[i] = t[i]
  OBVIOUS
<1> HIDE DEF n, t
<1>2. PICK g : IsReadings(g, s, n) /\ I!Base62ToBase10(s) = g[1 .. n]
  BY ReadingIs DEF n
<1>3. PICK h : IsReadings(h, t, n + 1) /\ I!Base62ToBase10(t) = h[1 .. n + 1]
  BY <1>1, ReadingIs
<1>4. g[1 .. n] = h[1 .. n]
  <2>1. \A i \in 1 .. n : s[i] = t[i]
    BY <1>1
  <2>2. n \in Nat /\ IsReadings(g, s, n) /\ IsReadings(h, t, n + 1)
    BY <1>1, <1>2, <1>3
  <2> HIDE <1>1, <1>2, <1>3
  <2>3. QED
    BY <2>1, <2>2, ReadingsAgree
<1>7. h[1 .. n + 1] = h[1 .. n] * I!Base + I!Convert(t[n + 1])
  <2>1. n \in Nat /\ n + 1 \in Nat /\ n + 1 <= n + 1
    BY <1>1
  <2>2. QED
    BY <1>3, <2>1, ReadingAt
<1>8. QED
  BY <1>1, <1>2, <1>3, <1>4, <1>7 DEF t

\* d gives the digits of the numbers up to n.
IsDigits(d, D) ==
    d = [n \in D |->
            IF n = 0 THEN <<>>
            ELSE Append(d[n \div I!Base], I!Elements[(n % I!Base) + 1])]

LEMMA DigitsAt ==
    ASSUME NEW d, NEW D, IsDigits(d, D), NEW n \in D
    PROVE  d[n] = IF n = 0 THEN <<>>
                  ELSE Append(d[n \div I!Base], I!Elements[(n % I!Base) + 1])
BY DEF IsDigits

LEMMA Division ==
    ASSUME NEW n \in Nat, NEW b \in Nat, b >= 2
    PROVE  /\ n \div b \in Nat /\ n % b \in 0 .. b - 1 /\ n = (n \div b) * b + (n % b)
           /\ n # 0 => n \div b < n
<1>1. n \div b \in Int /\ n % b \in 0 .. b - 1 /\ n = b * (n \div b) + (n % b)
  OBVIOUS
<1> DEFINE q == n \div b
           r == n % b
<1>2. q \in Int /\ r \in 0 .. b - 1 /\ n = b * q + r
  BY <1>1
<1> HIDE DEF q, r
<1>3. q >= 0
  <2>1. SUFFICES ASSUME q <= -1 PROVE FALSE
    BY <1>2
  <2>2. b * q <= -b
    BY <1>2, <2>1
  <2>3. QED
    BY <1>2, <2>2
<1>4. n # 0 => q < n
  <2>1. CASE q = 0
    BY <2>1
  <2>2. CASE q >= 1
    <3>1. b * q >= 2 * q
      BY <1>2, <2>2
    <3>2. QED
      BY <1>2, <2>2, <3>1
  <2>3. QED
    BY <1>2, <1>3, <2>1, <2>2
<1>5. b * q = q * b
  BY <1>2
<1>6. QED
  BY <1>2, <1>3, <1>4, <1>5 DEF q, r

\* The digits of the numbers are those of the quotient and the remainder.
LEMMA DigitsExist ==
    ASSUME NEW n \in Nat
    PROVE  \E d : IsDigits(d, 0 .. n)
<1> DEFINE T == {m \in Nat : \E d : IsDigits(d, 0 .. m)}
<1>0. I!Base \in Nat /\ I!Base >= 2
  BY ElementsAre
<1>1. 0 \in T
  <2>1. IsDigits([m \in 0 .. 0 |-> <<>>], 0 .. 0)
    BY DEF IsDigits
  <2>2. QED
    BY <2>1
<1>2. ASSUME NEW m \in Nat, m \in T PROVE m + 1 \in T
  <2>1. PICK d : IsDigits(d, 0 .. m)
    BY <1>2
  <2> DEFINE e == [k \in 0 .. m + 1 |->
                      IF k = 0 THEN <<>>
                      ELSE Append(d[k \div I!Base], I!Elements[(k % I!Base) + 1])]
  <2>2. \A k \in 0 .. m : k \in 0 .. m + 1
    OBVIOUS
  <2>3. \A k \in 0 .. m : e[k] = d[k]
    BY <2>1, <2>2 DEF IsDigits
  <2>4. \A k \in 0 .. m + 1 : k # 0 => k \div I!Base \in 0 .. m
    <3>1. ASSUME NEW k \in 0 .. m + 1, k # 0 PROVE k \div I!Base \in 0 .. m
      <4>1. k \div I!Base \in Nat /\ k \div I!Base < k
        BY <1>0, <3>1, Division
      <4>2. QED
        BY <4>1
    <3>2. QED
      BY <3>1
  <2>5. \A k \in 0 .. m + 1 : k # 0 => e[k \div I!Base] = d[k \div I!Base]
    BY <2>3, <2>4
  <2> DEFINE f == [k \in 0 .. m + 1 |->
                      IF k = 0 THEN <<>>
                      ELSE Append(e[k \div I!Base], I!Elements[(k % I!Base) + 1])]
  <2>6. \A k \in 0 .. m + 1 : e[k] = f[k]
    BY <2>5
  <2>7. e = f
    BY <2>6
  <2>8. IsDigits(e, 0 .. m + 1)
    BY <2>7 DEF IsDigits
  <2> HIDE DEF e
  <2>9. \E e2 : IsDigits(e2, 0 .. m + 1)
    BY <2>8
  <2>10. QED
    BY <2>9
<1>3. n \in T
  <2> HIDE DEF T
  <2>1. QED
    BY <1>1, <1>2, AllNumbers
<1>4. QED
  BY <1>3

\* Two such functions agree where both are defined.
LEMMA DigitsAgree ==
    ASSUME NEW n \in Nat, NEW m \in Nat, n <= m, NEW d, NEW e,
           IsDigits(d, 0 .. n), IsDigits(e, 0 .. m)
    PROVE  \A k \in 0 .. n : d[k] = e[k]
<1> DEFINE T == {m2 \in Nat : \A k \in 0 .. n : k <= m2 => d[k] = e[k]}
<1>0. I!Base \in Nat /\ I!Base >= 2
  BY ElementsAre
<1>1. 0 \in T
  BY DEF IsDigits
<1>2. ASSUME NEW j \in Nat, j \in T PROVE j + 1 \in T
  <2>1. SUFFICES ASSUME NEW k \in 0 .. n, k <= j + 1 PROVE d[k] = e[k]
    OBVIOUS
  <2>2. CASE k = 0
    BY <2>2 DEF IsDigits
  <2>3. CASE k # 0
    <3>0. k \in Nat
      OBVIOUS
    <3>1. k \div I!Base \in Nat /\ k \div I!Base < k
      BY <1>0, <2>3, <3>0, Division
    <3>2. k \div I!Base \in 0 .. n /\ k \div I!Base <= j
      BY <2>1, <3>1
    <3>3. d[k \div I!Base] = e[k \div I!Base]
      BY <1>2, <3>2
    <3>4. d[k] = Append(d[k \div I!Base], I!Elements[(k % I!Base) + 1])
      BY <2>3, DigitsAt
    <3>5. e[k] = Append(e[k \div I!Base], I!Elements[(k % I!Base) + 1])
      <4>1. k \in 0 .. m
        OBVIOUS
      <4>2. QED
        BY <2>3, <4>1, DigitsAt
    <3>6. QED
      BY <3>3, <3>4, <3>5
  <2>4. QED
    BY <2>2, <2>3
<1>3. n \in T
  <2> HIDE DEF T
  <2>1. QED
    BY <1>1, <1>2, AllNumbers
<1>4. QED
  BY <1>3

LEMMA DigitsOfNumbers == \E d : IsDigits(d, Nat)
<1> DEFINE Of(n) == CHOOSE d : IsDigits(d, 0 .. n)
           d == [n \in Nat |-> Of(n)[n]]
<1>0. I!Base \in Nat /\ I!Base >= 2
  BY ElementsAre
<1>1. \A n \in Nat : IsDigits(Of(n), 0 .. n)
  BY DigitsExist
<1> HIDE DEF Of
<1>2. ASSUME NEW n \in Nat, NEW k \in 0 .. n PROVE d[k] = Of(n)[k]
  <2>1. k \in Nat /\ k <= n /\ k \in 0 .. k
    OBVIOUS
  <2>2. Of(k)[k] = Of(n)[k]
    BY <1>1, <2>1, DigitsAgree
  <2>3. QED
    BY <2>1, <2>2
<1>3. ASSUME NEW n \in Nat
      PROVE  d[n] = IF n = 0 THEN <<>>
                    ELSE Append(d[n \div I!Base], I!Elements[(n % I!Base) + 1])
  <2>1. n \in 0 .. n /\ d[n] = Of(n)[n]
    OBVIOUS
  <2>2. IsDigits(Of(n), 0 .. n)
    BY <1>1
  <2>3. Of(n)[n] = IF n = 0 THEN <<>>
                   ELSE Append(Of(n)[n \div I!Base], I!Elements[(n % I!Base) + 1])
    BY <2>1, <2>2 DEF IsDigits
  <2>4. CASE n = 0
    BY <2>1, <2>3, <2>4
  <2>5. CASE n # 0
    <3>1. n \div I!Base \in Nat /\ n \div I!Base < n
      BY <1>0, <2>5, Division
    <3>2. n \div I!Base \in 0 .. n
      BY <3>1
    <3> HIDE DEF d
    <3>3. QED
      BY <1>2, <2>1, <2>3, <2>5, <3>2
  <2>6. QED
    BY <2>4, <2>5
<1> DEFINE e == [n \in Nat |->
                    IF n = 0 THEN <<>>
                    ELSE Append(d[n \div I!Base], I!Elements[(n % I!Base) + 1])]
<1>4. d = e
  <2>1. \A n \in Nat : d[n] = e[n]
    BY <1>3
  <2>2. QED
    BY <2>1
<1>5. IsDigits(d, Nat)
  BY <1>4 DEF IsDigits
<1> HIDE DEF d
<1>6. QED
  BY <1>5

LEMMA DigitsAre ==
    /\ I!Digits[0] = <<>>
    /\ \A n \in Nat \ {0} :
           I!Digits[n] = Append(I!Digits[n \div I!Base], I!Elements[(n % I!Base) + 1])
<1> DEFINE d == CHOOSE d : IsDigits(d, Nat)
<1>1. IsDigits(d, Nat)
  BY DigitsOfNumbers
<1>2. I!Digits = d
  BY DEF I!Digits, IsDigits
<1> HIDE DEF d
<1>3. /\ d[0] = <<>>
      /\ \A n \in Nat \ {0} : d[n] = Append(d[n \div I!Base], I!Elements[(n % I!Base) + 1])
  BY <1>1 DEF IsDigits
<1>4. QED
  BY <1>2, <1>3

LEMMA DigitsType == \A n \in Nat : I!Digits[n] \in Seq(Character)
<1> DEFINE T == {m \in Nat : \A k \in Nat : k <= m => I!Digits[k] \in Seq(Character)}
<1>0. I!Base \in Nat /\ I!Base >= 2
  BY ElementsAre
<1>1. 0 \in T
  <2>1. \A k \in Nat : k <= 0 => k = 0
    OBVIOUS
  <2>2. <<>> \in Seq(Character)
    OBVIOUS
  <2>3. QED
    BY <2>1, <2>2, DigitsAre
<1>2. ASSUME NEW m \in Nat, m \in T PROVE m + 1 \in T
  <2>0. I!Digits[0] \in Seq(Character)
    BY <1>1
  <2>1. SUFFICES ASSUME NEW k \in Nat, k <= m + 1, k # 0 PROVE I!Digits[k] \in Seq(Character)
    BY <2>0
  <2>2. /\ k \div I!Base \in Nat /\ k \div I!Base < k /\ k % I!Base \in 0 .. I!Base - 1
    BY <1>0, <2>1, Division
  <2>3. I!Digits[k \div I!Base] \in Seq(Character)
    <3>1. k \div I!Base <= m
      BY <2>1, <2>2
    <3>2. QED
      BY <1>2, <2>2, <3>1
  <2>4. I!Elements[(k % I!Base) + 1] \in Character
    BY <2>2, ElementsAre
  <2>5. I!Digits[k] = Append(I!Digits[k \div I!Base], I!Elements[(k % I!Base) + 1])
    BY <2>1, DigitsAre
  <2>6. QED
    BY <2>3, <2>4, <2>5
<1>3. ASSUME NEW n \in Nat PROVE I!Digits[n] \in Seq(Character)
  <2>1. n \in T
    <3> HIDE DEF T
    <3>1. QED
      BY <1>1, <1>2, AllNumbers
  <2>2. QED
    BY <2>1
<1>4. QED
  BY <1>3

Zeros(k) == [i \in 1 .. k |-> I!Elements[1]]

LEMMA ZerosType ==
    ASSUME NEW k \in Nat
    PROVE  Zeros(k) \in Seq(Character) /\ Len(Zeros(k)) = k
<1>1. I!Elements[1] \in Character
  BY ElementsAre
<1>2. Zeros(k) \in [1 .. k -> Character]
  BY <1>1 DEF Zeros
<1>3. QED
  BY <1>2 DEF Zeros

LEMMA ZerosAreZero == \A k \in Nat : I!Base62ToBase10(Zeros(k)) = 0
<1> DEFINE T == {k \in Nat : I!Base62ToBase10(Zeros(k)) = 0}
<1>1. 0 \in T
  <2>1. Zeros(0) = <<>>
    BY ZerosType
  <2>2. QED
    BY <2>1, NothingIsZero
<1>2. ASSUME NEW k \in Nat, k \in T PROVE k + 1 \in T
  <2>1. I!Elements[1] \in Character /\ I!Convert(I!Elements[1]) = 0 /\ I!Base \in Nat
    BY ElementsAre
  <2>2. Zeros(k) \in Seq(Character) /\ Zeros(k + 1) \in Seq(Character)
        /\ Len(Zeros(k)) = k /\ Len(Zeros(k + 1)) = k + 1
    BY ZerosType
  <2>3. \A i \in 1 .. k + 1 : Zeros(k + 1)[i] = Append(Zeros(k), I!Elements[1])[i]
    BY <2>1, <2>2 DEF Zeros
  <2>4. Zeros(k + 1) = Append(Zeros(k), I!Elements[1])
    BY <2>1, <2>2, <2>3, SeqEqual
  <2>5. I!Base62ToBase10(Zeros(k + 1)) = 0 * I!Base + 0
    BY <1>2, <2>1, <2>2, <2>4, OneMoreDigit
  <2>6. QED
    BY <2>1, <2>5
<1>3. ASSUME NEW k \in Nat PROVE k \in T
  <2> HIDE DEF T
  <2>1. QED
    BY <1>1, <1>2, AllNumbers
<1>4. QED
  BY <1>3

\* The digits of a number, whatever zeros precede them, are read as the number.
LEMMA DigitsReadBack ==
    ASSUME NEW z \in Nat, NEW n \in Nat
    PROVE  I!Base62ToBase10(Zeros(z) \o I!Digits[n]) = n
<1> DEFINE Value(k) == I!Base62ToBase10(Zeros(z) \o I!Digits[k])
           T == {m \in Nat : \A k \in Nat : k <= m => Value(k) = k}
<1>0. I!Base \in Nat /\ I!Base >= 2 /\ Zeros(z) \in Seq(Character)
  BY ElementsAre, ZerosType
<1>1. 0 \in T
  <2>1. Zeros(z) \o I!Digits[0] = Zeros(z)
    BY <1>0, DigitsAre
  <2>2. \A k \in Nat : k <= 0 => k = 0
    OBVIOUS
  <2>3. Value(0) = 0
    BY <2>1, ZerosAreZero
  <2> HIDE DEF Value
  <2>4. QED
    BY <2>2, <2>3
<1>2. ASSUME NEW m \in Nat, m \in T PROVE m + 1 \in T
  <2>0. Value(0) = 0
    BY <1>1
  <2>1. SUFFICES ASSUME NEW k \in Nat, k <= m + 1, k # 0 PROVE Value(k) = k
    BY <2>0
  <2> DEFINE q == k \div I!Base
             r == k % I!Base
  <2>2. q \in Nat /\ r \in 0 .. I!Base - 1 /\ k = q * I!Base + r /\ q < k
    BY <1>0, <2>1, Division
  <2>3. I!Digits[k] = Append(I!Digits[q], I!Elements[r + 1])
    BY <2>1, DigitsAre
  <2> HIDE DEF q, r
  <2>4. Value(q) = q
    <3>1. q <= m
      BY <2>1, <2>2
    <3>2. QED
      BY <1>2, <2>2, <3>1
  <2>5. /\ I!Elements[r + 1] \in Character /\ I!Digits[q] \in Seq(Character)
        /\ I!Convert(I!Elements[r + 1]) = r
    BY <2>2, ElementsAre, DigitsType
  <2>6. Zeros(z) \o I!Digits[q] \in Seq(Character)
    BY <1>0, <2>5
  <2>7. Zeros(z) \o I!Digits[k] = Append(Zeros(z) \o I!Digits[q], I!Elements[r + 1])
    BY <1>0, <2>3, <2>5
  <2>8. Value(k) = Value(q) * I!Base + r
    BY <2>5, <2>6, <2>7, OneMoreDigit
  <2>9. QED
    BY <2>2, <2>4, <2>8
<1>3. n \in T
  <2> HIDE DEF T
  <2>1. QED
    BY <1>1, <1>2, AllNumbers
<1>4. QED
  BY <1>3

\* Padded or longer than the width, the short id of a number is read as the number.
LEMMA ReadsBack ==
    ASSUME NEW n \in Nat
    PROVE  /\ I!Base62ToBase10(I!Base10ToBase62(n)) = n
           /\ I!Terminates(n) => Len(I!Base10ToBase62(n)) = IWidth
<1> DEFINE k == IWidth - Len(I!Digits[n])
<1>1. I!Digits[n] \in Seq(Character) /\ Len(I!Digits[n]) \in Nat /\ IWidth \in Nat
  BY DigitsType, ServicesAssumption
<1>2. I!Base10ToBase62(n) = Zeros(k) \o I!Digits[n]
  BY DEF I!Base10ToBase62, I!Padding, Zeros
<1>6. k \in Int /\ k + Len(I!Digits[n]) = IWidth
  BY <1>1
<1>7. I!Terminates(n) <=> k >= 0
  BY <1>1 DEF I!Terminates
<1> HIDE DEF k
<1>3. CASE k >= 0
  <2>1. k \in Nat
    BY <1>6, <1>3
  <2>2. Zeros(k) \in Seq(Character) /\ Len(Zeros(k)) = k
    BY <2>1, ZerosType
  <2>3. Len(Zeros(k) \o I!Digits[n]) = k + Len(I!Digits[n])
    <3> DEFINE u == Zeros(k)
               v == I!Digits[n]
    <3>1. u \in Seq(Character) /\ v \in Seq(Character) /\ Len(u) = k
      BY <1>1, <2>2
    <3> HIDE DEF u, v
    <3>2. Len(u \o v) = k + Len(v)
      BY <3>1
    <3>3. QED
      BY <3>2 DEF u, v
  <2>4. I!Base62ToBase10(Zeros(k) \o I!Digits[n]) = n
    BY <2>1, DigitsReadBack
  <2>5. QED
    BY <1>2, <1>6, <2>3, <2>4
<1>4. CASE k < 0
  <2>1. 1 .. k = 1 .. 0
    BY <1>6, <1>4
  <2>2. Zeros(k) = Zeros(0)
    BY <2>1 DEF Zeros
  <2>3. ~I!Terminates(n)
    BY <1>6, <1>7, <1>4
  <2>4. QED
    BY <1>2, <2>2, <2>3, DigitsReadBack
<1>5. QED
  BY <1>6, <1>3, <1>4

\* Quotients and remainders, and what a number in the next ranges leaves.
LEMMA Parsed ==
    ASSUME NEW a \in Int, NEW r \in Nat \ {0}
    PROVE  /\ I!Quotient(a, r) \in Int /\ I!Remainder(a, r) \in Int
           /\ r * I!Quotient(a, r) + I!Remainder(a, r) = a
           /\ a >= 0 => I!Quotient(a, r) \in Nat /\ I!Remainder(a, r) \in 0 .. r - 1
<1>1. I!Quotient(a, r) \in Int
  BY DEF I!Quotient
<1> DEFINE q == I!Quotient(a, r)
<1>2. I!Remainder(a, r) = a - r * q
  BY DEF I!Remainder
<1>3. r * q \in Int
  BY <1>1
<1>4. ASSUME a >= 0 PROVE q \in Nat /\ a - r * q \in 0 .. r - 1
  <2>1. q = a \div r /\ a \div r \in Int /\ a % r \in 0 .. r - 1 /\ a = r * (a \div r) + (a % r)
    BY <1>4 DEF I!Quotient
  <2>2. q \in Int /\ a - r * q \in 0 .. r - 1
    BY <2>1
  <2> HIDE DEF q
  <2>3. q >= 0
    <3>1. SUFFICES ASSUME q <= -1 PROVE FALSE
      BY <2>2
    <3>2. r * q <= -r
      BY <2>2, <3>1
    <3>3. QED
      BY <1>4, <2>2, <3>2
  <2>4. QED
    BY <2>2, <2>3
<1> HIDE DEF q
<1>5. QED
  BY <1>1, <1>2, <1>3, <1>4 DEF q

LEMMA NextMultiples ==
    ASSUME NEW r \in Nat, NEW q \in Nat
    PROVE  r * q \in Nat /\ r * (q - 1) = r * q - r /\ r * (q + 1) = r * q + r
OBVIOUS

LEMMA ShortIdsAreTheirs ==
    ASSUME i_number \in Nat, I!Terminates(i_number)
    PROVE  I!ShortIdsReadBack
<1> DEFINE s == I!Base10ToBase62(i_number)
           a == i_number - IStarterRange
           id == I!ParseId(s)
<1>0. /\ IRangeSize \in Nat \ {0} /\ IStarterRange \in Nat /\ IStarterRange >= IRangeSize
      /\ a \in Int
  BY ServicesAssumption
<1>1. Len(s) = IWidth /\ I!Base62ToBase10(s) = i_number
  BY ReadsBack
<1>2. id = [range |-> I!Quotient(a, IRangeSize), index |-> I!Remainder(a, IRangeSize)]
  BY <1>1 DEF I!ParseId
<1>3. /\ id.range \in Int /\ id.index \in Int
      /\ IRangeSize * id.range + id.index = a
      /\ a >= 0 => id.range \in Nat /\ id.index \in 0 .. IRangeSize - 1
  BY <1>0, <1>2, Parsed
<1>4. I!Number(id) = i_number
  <2>1. IRangeSize * id.range \in Int
    BY <1>0, <1>3
  <2>2. QED
    BY <1>0, <1>3, <2>1 DEF I!Number
<1>5. I!ShortId(id) = s
  BY <1>4 DEF I!ShortId
<1>6. ASSUME i_number >= IStarterRange,
             NEW range \in {id.range - 1, id.range, id.range + 1},
             NEW index \in 0 .. IRangeSize - 1,
             I!ShortId([range |-> range, index |-> index]) = s
      PROVE  id = [range |-> range, index |-> index]
  <2> DEFINE n == I!Number([range |-> range, index |-> index])
             p == IRangeSize * id.range
  <2>1. /\ a >= 0 /\ id.range \in Nat /\ id.index \in 0 .. IRangeSize - 1
    BY <1>0, <1>3, <1>6
  <2> HIDE DEF id
  <2>2. /\ p \in Nat /\ p + id.index = a
        /\ IRangeSize * (id.range - 1) = p - IRangeSize
        /\ IRangeSize * (id.range + 1) = p + IRangeSize
    BY <1>0, <1>3, <2>1, NextMultiples
  <2>3. n = IRangeSize * range + index + IStarterRange
    BY DEF I!Number
  <2> HIDE DEF p, n, a
  <2>4. n \in {p - IRangeSize + index + IStarterRange, p + index + IStarterRange,
               p + IRangeSize + index + IStarterRange}
    BY <1>6, <2>2, <2>3 DEF p
  <2>5. n \in Nat
    BY <1>0, <2>2, <2>4
  <2>6. n = i_number
    <3>1. I!Base10ToBase62(n) = s
      BY <1>6 DEF I!ShortId, n
    <3>2. QED
      BY <1>1, <2>5, <3>1, ReadsBack
  <2>7. i_number = p + id.index + IStarterRange
    BY <1>0, <2>2, <2>1 DEF a
  <2>8. range = id.range /\ index = id.index
    <3>1. CASE range = id.range
      <4>1. n = p + index + IStarterRange
        BY <2>3, <3>1 DEF p
      <4> DEFINE x == id.index
      <4>2. x \in Nat /\ index \in Nat /\ p + index + IStarterRange = p + x + IStarterRange
        BY <1>0, <2>1, <2>6, <2>7, <4>1
      <4> HIDE DEF x
      <4>3. x = index
        BY <1>0, <2>2, <4>2
      <4>4. QED
        BY <3>1, <4>3 DEF x
    <3>2. CASE range = id.range - 1
      <4>1. n = p - IRangeSize + index + IStarterRange
        BY <2>2, <2>3, <3>2
      <4>2. QED
        BY <1>0, <2>1, <2>2, <2>6, <2>7, <4>1
    <3>3. CASE range = id.range + 1
      <4>1. n = p + IRangeSize + index + IStarterRange
        BY <2>2, <2>3, <3>3
      <4>2. QED
        BY <1>0, <2>1, <2>2, <2>6, <2>7, <4>1
    <3>4. QED
      BY <1>6, <3>1, <3>2, <3>3
  <2>9. id = [range |-> id.range, index |-> id.index]
    BY <1>2 DEF id
  <2>10. QED
    BY <2>8, <2>9
<1>7. QED
  BY <1>1, <1>5, <1>6 DEF I!ShortIdsReadBack

\* The module counts no further than to the numbers that have short ids.
IdsInv == i_number \in Nat /\ I!Terminates(i_number)

\* Every short id is of the full width and that of the id it is parsed to, and of no
\* other in its shard's range or one beside it: for alphabets of two or more characters,
\* every width, and every size of the ranges.
THEOREM IdsReadBack == ServicesSpec => []ShortIdsReadBack
<1>1. ServicesInit => IdsInv
  <2>1. ServicesInit => i_number = 0
    BY DEF ServicesInit, I!Init
  <2>2. 0 \in Nat /\ I!Len(<<>>) <= IWidth
    BY ServicesAssumption
  <2>3. I!Terminates(0)
    BY <2>2, DigitsAre DEF I!Terminates
  <2>4. QED
    BY <2>1, <2>2, <2>3 DEF IdsInv
<1>2. IdsInv /\ [ServicesNext]_servicesVars => IdsInv'
  <2> SUFFICES ASSUME IdsInv, [ServicesNext]_servicesVars PROVE IdsInv'
    OBVIOUS
  <2>1. CASE i_number' = i_number
    BY <2>1 DEF IdsInv, I!Terminates
  <2>2. CASE i_number' = i_number + 1 /\ I!Terminates(i_number + 1)
    BY <2>2 DEF IdsInv, I!Terminates
  <2>3. QED
    BY <2>1, <2>2 DEF ServicesNext, servicesVars, Only, i_vars, I!Next
<1>3. IdsInv => ShortIdsReadBack
  BY ShortIdsAreTheirs DEF IdsInv, ShortIdsReadBack
<1>4. QED
  BY <1>1, <1>2, <1>3, PTL DEF ServicesSpec

-------------------------------------------------------------------------------
(* Types *)

LEMMA VisitingInit == V!Init => VP!Init
BY DEF V!Init, VP!Init, V!NewCall, VP!NewCall, V!IdleWorker, VP!IdleWorker

LEMMA VisitingCalls ==
    ASSUME NEW v
    PROVE  /\ \A f : V!RedirectHit(v, f) => VP!RedirectHit(v, f)
           /\ V!RedirectMiss(v) => VP!RedirectMiss(v)
           /\ V!CallStep(v) => VP!CallStep(v)
<1> USE DEF V!dbVars, VP!dbVars, V!frontVars, VP!frontVars, V!Sent, VP!Sent,
        V!NewCall, VP!NewCall, V!CallEnds, VP!CallEnds
<1>1. \A f : V!RedirectHit(v, f) => VP!RedirectHit(v, f)
  BY DEF V!RedirectHit, VP!RedirectHit
<1>2. V!RedirectMiss(v) => VP!RedirectMiss(v)
  BY DEF V!RedirectMiss, VP!RedirectMiss
<1>3. \A r : V!Receive(v, r) => VP!Receive(v, r)
  BY DEF V!Receive, VP!Receive
<1>4. V!IncrementVisitInBackground(v) => VP!IncrementVisitInBackground(v)
  BY DEF V!IncrementVisitInBackground, VP!IncrementVisitInBackground
<1>5. V!Reply(v) => VP!Reply(v)
  BY DEF V!Reply, VP!Reply
<1>6. V!AttemptFails(v) => VP!AttemptFails(v)
  BY DEF V!AttemptFails, VP!AttemptFails, V!AttemptsFail, VP!AttemptsFail
<1>7. QED
  BY <1>1, <1>2, <1>3, <1>4, <1>5, <1>6 DEF V!CallStep, VP!CallStep

LEMMA VisitingTasks ==
    ASSUME NEW r
    PROVE  /\ V!WorkerStep(r) => VP!WorkerStep(r)
           /\ V!ChangeTypeWaits(r) => VP!ChangeTypeWaits(r)
           /\ V!ReplicaCrash(r) => VP!ReplicaCrash(r)
<1> USE DEF V!dbVars, VP!dbVars, V!frontVars, VP!frontVars, V!Becomes, VP!Becomes,
        V!IdleWorker, VP!IdleWorker
<1>1. V!Dequeue(r) => VP!Dequeue(r)
  BY DEF V!Dequeue, VP!Dequeue
<1>2. V!IncrementVisit(r) => VP!IncrementVisit(r)
  BY DEF V!IncrementVisit, VP!IncrementVisit
<1>3. V!GetLastHour(r) => VP!GetLastHour(r)
  BY DEF V!GetLastHour, VP!GetLastHour, V!InsertedBy, VP!InsertedBy
<1>4. V!Insert(r) => VP!Insert(r)
  BY DEF V!Insert, VP!Insert
<1>5. V!Update(r) => VP!Update(r)
  BY DEF V!Update, VP!Update
<1>6. V!VisitTaskThrows(r) => VP!VisitTaskThrows(r)
  BY DEF V!VisitTaskThrows, VP!VisitTaskThrows
<1>7. V!ReplicaCrash(r) => VP!ReplicaCrash(r)
  BY DEF V!ReplicaCrash, VP!ReplicaCrash, V!AttemptsFail, VP!AttemptsFail, V!NewCall, VP!NewCall
<1>8. V!ChangeTypeWaits(r) => VP!ChangeTypeWaits(r)
  BY DEF V!ChangeTypeWaits, VP!ChangeTypeWaits
<1>9. QED
  BY <1>1, <1>2, <1>3, <1>4, <1>5, <1>6, <1>7, <1>8 DEF V!WorkerStep, VP!WorkerStep

LEMMA VisitingNext == [ServicesNext]_servicesVars => [VP!Next]_(VP!vars)
<1>1. V!HourPasses => VP!HourPasses
  BY DEF V!HourPasses, VP!HourPasses, V!frontVars, VP!frontVars, V!Min, VP!Min
<1>2. V!DeleteLink => VP!DeleteLink
  BY DEF V!DeleteLink, VP!DeleteLink, V!frontVars, VP!frontVars
<1>3. ASSUME NEW f PROVE (V!NotifyRedirect(f) => VP!NotifyRedirect(f))
                        /\ (V!FrontendCrash(f) => VP!FrontendCrash(f))
  BY DEF V!NotifyRedirect, VP!NotifyRedirect, V!FrontendCrash, VP!FrontendCrash,
         V!dbVars, VP!dbVars, V!Sent, VP!Sent, V!NewCall, VP!NewCall, V!Range, VP!Range
<1>4. V!Next => VP!Next
  BY <1>1, <1>2, <1>3, VisitingCalls, VisitingTasks DEF V!Next, VP!Next
<1>5. QED
  BY <1>4 DEF ServicesNext, servicesVars, Only, v_vars, VP!vars, VP!dbVars, VP!frontVars

LEMMA VisitingType == ServicesSpec => []V!TypeOK
<1>1. VP!VisitCountingAssumption
  BY FiniteIs, ServicesAssumption DEF VP!VisitCountingAssumption
<1>2. VP!Spec => []VP!TypeOK
  BY <1>1, VP!TypeCorrect, Zenon DEF VP!VisitCountingAssumption
<1>3. VP!TypeOK => V!TypeOK
  BY DEF VP!TypeOK, V!TypeOK, VP!Call, V!Call, VP!Worker, V!Worker
<1>4. ServicesInit => VP!Init
  BY VisitingInit DEF ServicesInit
<1>5. ServicesSpec => VP!Spec
  BY <1>4, VisitingNext, PTL DEF ServicesSpec, VP!Spec
<1>6. QED
  BY <1>2, <1>3, <1>5, PTL

LEMMA HostInitType == H!Init => H!TypeOK
<1>1. H!Len(H!StopOrder) = 3
  BY DEF H!StopOrder
<1> SUFFICES ASSUME H!Init PROVE H!TypeOK
  OBVIOUS
<1>2. h_startup \in {"initializing", "completed", "ended"}
  BY DEF H!Init
<1>3. {h_startupCompleted, h_noticed, h_stopping, h_exited} \subseteq BOOLEAN
  BY DEF H!Init
<1>4. h_loop \in [H!Loops -> {"top", "waiting", "delay", "working", "ended"}]
  BY DEF H!Init
<1>5. h_stopped \in 0 .. H!Len(H!StopOrder) /\ h_inline \subseteq H!Loops
  BY <1>1 DEF H!Init
<1>6. QED
  BY <1>2, <1>3, <1>4, <1>5, Zenon DEF H!TypeOK

LEMMA HostNextType == H!TypeOK /\ [H!Next]_h_vars => H!TypeOK'
<1> SUFFICES ASSUME H!TypeOK, [H!Next]_h_vars PROVE H!TypeOK'
  OBVIOUS
<1> USE DEF H!startupVars, H!hostVars
<1>1. H!Len(H!StopOrder) = 3
  BY DEF H!StopOrder
<1>2. ASSUME H!Initialized \/ H!CancelAsync \/ H!InitializeFails \/ H!StopApplication
             \/ H!Exit \/ H!ExitGivesUp
      PROVE  H!TypeOK'
  BY <1>2 DEF H!TypeOK, H!Initialized, H!CancelAsync, H!InitializeFails, H!StopApplication,
              H!Exit, H!ExitGivesUp, H!Exits
<1>3. ASSUME NEW l \in H!Loops, NEW pc \in {"top", "waiting", "delay", "working", "ended"},
             H!Goes(l, pc)
      PROVE  H!TypeOK'
  BY <1>3 DEF H!TypeOK, H!Goes
<1>4. ASSUME H!StopAsync \/ H!StopAsyncGivesUp PROVE H!TypeOK'
  <2>1. h_stopped \in 0 .. 2 /\ H!StopNext
    BY <1>1, <1>4 DEF H!StopAsync, H!StopAsyncGivesUp, H!TypeOK
  <2>2. h_stopped' \in 0 .. 3 /\ h_inline' \subseteq H!Loops
    BY <2>1 DEF H!StopNext
  <2>3. QED
    BY <1>1, <2>1, <2>2 DEF H!TypeOK, H!StopNext
<1>5. ASSUME NEW l \in H!Loops, H!LoopStep(l) \/ H!DelayPasses(l) \/ H!WorkDone(l)
      PROVE  H!TypeOK'
  BY <1>3, <1>5 DEF H!LoopStep, H!Top, H!IsReady, H!DelayCancelled, H!WorkCancelled,
                    H!DelayPasses, H!WorkDone
<1>6. ASSUME UNCHANGED h_vars PROVE H!TypeOK'
  BY <1>6 DEF h_vars, H!TypeOK
<1>7. QED
  BY <1>2, <1>4, <1>5, <1>6 DEF H!Next

LEMMA NumberType == ServicesSpec => []I!TypeOK
<1>1. ServicesInit => I!TypeOK
  BY DEF ServicesInit, I!Init, I!TypeOK
<1>2. I!TypeOK /\ [ServicesNext]_servicesVars => I!TypeOK'
  BY DEF ServicesNext, servicesVars, Only, i_vars, I!Next, I!TypeOK
<1>3. QED
  BY <1>1, <1>2, PTL DEF ServicesSpec

\* Every part's variables have their types, whatever the constants.
THEOREM PartsAreTyped == ServicesSpec => []PartsTypeOK
<1>1. ServicesSpec => [](part \in Parts)
  <2>1. ServicesInit => part \in Parts
    BY DEF ServicesInit
  <2>2. part \in Parts /\ [ServicesNext]_servicesVars => (part \in Parts)'
    BY DEF ServicesNext, servicesVars, Only
  <2>3. QED
    BY <2>1, <2>2, PTL DEF ServicesSpec
<1>2. ServicesSpec => []TypeOK
  <2>1. ServicesInit => TypeOK
    BY InitType DEF ServicesInit
  <2>2. [ServicesNext]_servicesVars => [Next]_vars
    BY DEF ServicesNext, servicesVars, Only
  <2>3. QED
    BY <2>1, <2>2, NextType, PTL DEF ServicesSpec
<1>3. ServicesSpec => []S!TypeOK
  <2>1. ServicesInit => StatsInv
    BY StatsInit DEF ServicesInit
  <2>2. QED
    BY <2>1, StatsStep, StatsNext, StatsType, PTL DEF ServicesSpec
<1>4. ServicesSpec => []E!TypeOK
  <2>1. ServicesInit => EP!Init
    BY ElectionInit DEF ServicesInit
  <2>2. EP!TypeOK => E!TypeOK
    BY DEF EP!TypeOK, E!TypeOK, EP!LeaderElection, E!LeaderElection, EP!Offer, E!Offer,
           EP!Steps, E!Steps, EP!ElectionEventType, E!ElectionEventType
  <2>3. EP!Spec => []EP!TypeOK
    BY EP!TypeCorrect
  <2>4. ServicesSpec => EP!Spec
    BY <2>1, ElectionNext, PTL DEF ServicesSpec, EP!Spec
  <2>5. QED
    BY <2>2, <2>3, <2>4, PTL
<1>5. ServicesSpec => []H!TypeOK
  <2>1. ServicesInit => H!TypeOK
    BY HostInitType DEF ServicesInit
  <2>2. [ServicesNext]_servicesVars => [H!Next]_h_vars
    BY DEF ServicesNext, servicesVars, Only, h_vars
  <2>3. QED
    BY <2>1, <2>2, HostNextType, PTL DEF ServicesSpec
<1>6. ServicesSpec => []C!TypeOK
  <2>1. ServicesInit => C!TypeOK /\ CountsInv
    BY CountsInit DEF ServicesInit
  <2>2. QED
    BY <2>1, CountsStep, CountsNext, PTL DEF ServicesSpec
<1>7. ServicesSpec => []B!TypeOK
  <2>1. ServicesInit => B!TypeOK /\ BatchInv
    BY BatchInit DEF ServicesInit
  <2>2. QED
    BY <2>1, BatchStep, BatchNext, PTL DEF ServicesSpec
<1>8. ServicesSpec => []R!TypeOK
  <2>1. ServicesInit => R!TypeOK
    BY RatesInitType DEF ServicesInit
  <2>2. QED
    BY <2>1, RatesStep, RatesNextType, PTL DEF ServicesSpec
<1>9. ServicesSpec => []U!TypeOK
  <2>1. ServicesInit => U!TypeOK /\ FormInv
    BY FormInit DEF ServicesInit
  <2>2. QED
    BY <2>1, FormStep, FormNext, PTL DEF ServicesSpec
<1>10. /\ part \in Parts /\ TypeOK /\ V!TypeOK /\ S!TypeOK /\ E!TypeOK /\ H!TypeOK
       /\ C!TypeOK /\ B!TypeOK /\ R!TypeOK /\ I!TypeOK /\ U!TypeOK
       => PartsTypeOK
  BY Zenon DEF PartsTypeOK, Parts
<1>11. QED
  BY <1>1, <1>2, <1>3, <1>4, <1>5, <1>6, <1>7, <1>8, <1>9, <1>10, VisitingType, NumberType, PTL
===============================================================================
