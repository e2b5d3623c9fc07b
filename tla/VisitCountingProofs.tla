--------------------------- MODULE VisitCountingProofs ---------------------------
(***************************************************************************)
(* For any number of redirects, frontends and replicas, whatever is        *)
(* retried, lost or stopped: no replica inserts a second row for an hour   *)
(* unless a lookup of its own missed the first, as one that is about to    *)
(* insert has no other fresh row; and the rows add up to at most           *)
(* TotalViews, for each replica that has raised TotalViews and not yet a   *)
(* row accounts for one visit of the difference.                           *)
(***************************************************************************)
EXTENDS VisitCounting, TLAPS, FiniteSetTheorems, WellFoundedInduction

-------------------------------------------------------------------------------
(* Sums over a finite set of indices *)

\* A set of numbers that has 0 and with each number the next has all of them.
LEMMA AllNumbers ==
    ASSUME NEW T, 0 \in T, \A n \in Nat : n \in T => n + 1 \in T
    PROVE  \A n \in Nat : n \in T
<1> DEFINE Others == {n \in Nat : n \notin T}
<1> SUFFICES ASSUME Others # {} PROVE FALSE
  OBVIOUS
<1>1. PICK m \in Others : \A k \in Others : ~(<<k, m>> \in OpToRel(<, Nat))
  <2>1. Others \subseteq Nat
    OBVIOUS
  <2> HIDE DEF Others
  <2>2. QED
    BY <2>1, WFMin, NatLessThanWellFounded, Zenon
<1>2. \A k \in Others : ~(k < m)
  BY <1>1 DEF OpToRel
<1>3. m \in Nat /\ m # 0 /\ m \notin T
  OBVIOUS
<1>4. m - 1 \in Nat /\ m - 1 < m /\ (m - 1) + 1 = m
  BY <1>3
<1>5. m - 1 \in T
  BY <1>2, <1>4
<1>6. QED
  BY <1>3, <1>4, <1>5

Pick(s) == CHOOSE x \in s : TRUE

LEMMA PickOne == ASSUME NEW S, S # {} PROVE Pick(S) \in S
BY DEF Pick

\* g gives for each set of D that g is the sum of f over it.
IsSums(g, f, D) ==
    g = [s \in D |-> IF s = {} THEN 0 ELSE f[Pick(s)] + g[s \ {Pick(s)}]]

\* The function that the definition of the fold chooses exists.
LEMMA SumsExist ==
    ASSUME NEW f, NEW S, IsFiniteSet(S)
    PROVE  \E g : IsSums(g, f, SUBSET S)
<1> DEFINE D(n) == {s \in SUBSET S : Cardinality(s) <= n}
           T == {n \in Nat : \E g : IsSums(g, f, D(n))}
<1>1. \A s \in SUBSET S : IsFiniteSet(s) /\ Cardinality(s) \in Nat
  BY FS_Subset, FS_CardinalityType
<1>2. \A s \in SUBSET S : s # {} =>
          /\ s \ {Pick(s)} \in SUBSET S
          /\ Cardinality(s \ {Pick(s)}) = Cardinality(s) - 1
  BY <1>1, PickOne, FS_RemoveElement
<1>3. 0 \in T
  <2>1. \A s \in D(0) : s = {}
    BY <1>1, FS_EmptySet
  <2>2. IsSums([s \in D(0) |-> 0], f, D(0))
    BY <2>1 DEF IsSums
  <2>3. QED
    BY <2>2
<1>4. ASSUME NEW n \in Nat, n \in T PROVE n + 1 \in T
  <2>1. PICK g : IsSums(g, f, D(n))
    BY <1>4
  <2> DEFINE h == [s \in D(n + 1) |-> IF s = {} THEN 0 ELSE f[Pick(s)] + g[s \ {Pick(s)}]]
  <2>2. \A s \in D(n) : s \in D(n + 1)
    BY <1>1
  <2>3. \A s \in D(n) : h[s] = g[s]
    BY <2>1, <2>2 DEF IsSums
  <2>4. \A s \in D(n + 1) : s # {} => s \ {Pick(s)} \in D(n)
    BY <1>1, <1>2
  <2>5. \A s \in D(n + 1) : s # {} => h[s \ {Pick(s)}] = g[s \ {Pick(s)}]
    BY <2>3, <2>4
  <2>6. IsSums(h, f, D(n + 1))
    BY <2>5 DEF IsSums
  <2> HIDE DEF h, D
  <2>7. \E g2 : IsSums(g2, f, D(n + 1))
    BY <2>6
  <2>8. QED
    BY <2>7
<1>5. Cardinality(S) \in T
  <2> HIDE DEF T
  <2>1. QED
    BY <1>1, <1>3, <1>4, AllNumbers
<1>6. D(Cardinality(S)) = SUBSET S
  BY <1>1, FS_Subset
<1>7. QED
  BY <1>5, <1>6

\* It is the one that the sum is taken from.
LEMMA SumIsOneOfSums ==
    ASSUME NEW f, NEW S, IsFiniteSet(S)
    PROVE  \E g : IsSums(g, f, SUBSET S) /\ SumFunctionOnSet(f, S) = g[S]
<1> DEFINE g == CHOOSE g : IsSums(g, f, SUBSET S)
<1>1. IsSums(g, f, SUBSET S)
  BY SumsExist
<1>2. SumFunctionOnSet(f, S) = g[S]
  BY DEF SumFunctionOnSet, FoldFunctionOnSet, MapThenFoldSet, IsSums, Pick
<1> HIDE DEF g
<1>3. QED
  BY <1>1, <1>2

\* All such functions agree, whatever set they were made for.
LEMMA SumsAgree ==
    ASSUME NEW f, NEW S, NEW g, NEW T \in SUBSET S, NEW h,
           IsFiniteSet(S), IsSums(g, f, SUBSET S), IsSums(h, f, SUBSET T)
    PROVE  \A t \in SUBSET T : g[t] = h[t]
<1> DEFINE N == {n \in Nat : \A t \in SUBSET T : Cardinality(t) = n => g[t] = h[t]}
<1>1. \A t \in SUBSET T : IsFiniteSet(t) /\ Cardinality(t) \in Nat
  BY FS_Subset, FS_CardinalityType
<1>2. 0 \in N
  <2>1. ASSUME NEW t \in SUBSET T, Cardinality(t) = 0 PROVE g[t] = h[t]
    <3>1. t = {} /\ {} \in SUBSET S /\ {} \in SUBSET T
      BY <1>1, <2>1, FS_EmptySet
    <3>2. g[{}] = 0 /\ h[{}] = 0
      BY <3>1 DEF IsSums
    <3>3. QED
      BY <3>1, <3>2
  <2>2. QED
    BY <2>1
<1>3. ASSUME NEW n \in Nat, n \in N PROVE n + 1 \in N
  <2>1. ASSUME NEW t \in SUBSET T, Cardinality(t) = n + 1 PROVE g[t] = h[t]
    <3> DEFINE u == t \ {Pick(t)}
    <3>1. t # {}
      <4>1. Cardinality({}) = 0 /\ n + 1 # 0
        BY FS_EmptySet
      <4>2. QED
        BY <2>1, <4>1
    <3>2. u \in SUBSET T /\ t \in SUBSET S /\ u \in SUBSET S
      OBVIOUS
    <3>3. Cardinality(u) = n
      <4>1. IsFiniteSet(t) /\ Pick(t) \in t
        BY <1>1, <3>1, PickOne
      <4>2. Cardinality(u) = Cardinality(t) - 1
        BY <4>1, FS_RemoveElement, Zenon
      <4>3. QED
        BY <2>1, <4>2
    <3>4. g[u] = h[u]
      <4> HIDE DEF u
      <4>1. QED
        BY <1>3, <3>2, <3>3
    <3>5. g[t] = f[Pick(t)] + g[u]
      BY <3>1, <3>2 DEF IsSums
    <3>6. h[t] = f[Pick(t)] + h[u]
      BY <3>1 DEF IsSums
    <3>7. QED
      BY <3>4, <3>5, <3>6
  <2>2. QED
    BY <2>1
<1>4. \A n \in Nat : n \in N
  <2> HIDE DEF N
  <2>1. QED
    BY <1>2, <1>3, AllNumbers
<1>5. QED
  BY <1>1, <1>4

\* The sum over no index, and over one index and the others.
LEMMA SumEmpty == ASSUME NEW f PROVE SumFunctionOnSet(f, {}) = 0
<1>1. PICK g : IsSums(g, f, SUBSET {}) /\ SumFunctionOnSet(f, {}) = g[{}]
  BY SumIsOneOfSums, FS_EmptySet
<1>2. QED
  BY <1>1 DEF IsSums

LEMMA SumOfSubset ==
    ASSUME NEW f, NEW S, IsFiniteSet(S), NEW g, IsSums(g, f, SUBSET S), NEW T \in SUBSET S
    PROVE  SumFunctionOnSet(f, T) = g[T]
<1>1. IsFiniteSet(T) /\ T \in SUBSET T
  BY FS_Subset
<1>2. PICK h : IsSums(h, f, SUBSET T) /\ SumFunctionOnSet(f, T) = h[T]
  BY <1>1, SumIsOneOfSums
<1>3. \A t \in SUBSET T : g[t] = h[t]
  BY <1>2, SumsAgree
<1>4. QED
  BY <1>1, <1>2, <1>3

LEMMA SumPick ==
    ASSUME NEW f, NEW S, IsFiniteSet(S), S # {}
    PROVE  SumFunctionOnSet(f, S) = f[Pick(S)] + SumFunctionOnSet(f, S \ {Pick(S)})
<1>1. PICK g : IsSums(g, f, SUBSET S) /\ SumFunctionOnSet(f, S) = g[S]
  BY SumIsOneOfSums
<1>2. S \in SUBSET S /\ S \ {Pick(S)} \in SUBSET S
  OBVIOUS
<1>3. SumFunctionOnSet(f, S \ {Pick(S)}) = g[S \ {Pick(S)}]
  BY <1>1, <1>2, SumOfSubset
<1>4. g[S] = f[Pick(S)] + g[S \ {Pick(S)}]
  BY <1>1, <1>2 DEF IsSums
<1>5. QED
  BY <1>1, <1>3, <1>4

\* A fact about each subset of a finite set, by the number of its elements.
LEMMA BySize ==
    ASSUME NEW S, NEW Q, IsFiniteSet(S), Q \subseteq SUBSET S, {} \in Q,
           \A t \in SUBSET S : (\A x \in t : t \ {x} \in Q) => t \in Q
    PROVE  \A t \in SUBSET S : t \in Q
<1> DEFINE N == {n \in Nat : \A t \in SUBSET S : Cardinality(t) = n => t \in Q}
<1>1. \A t \in SUBSET S : IsFiniteSet(t) /\ Cardinality(t) \in Nat
  BY FS_Subset, FS_CardinalityType
<1>2. 0 \in N
  <2>1. ASSUME NEW t \in SUBSET S, Cardinality(t) = 0 PROVE t \in Q
    BY <1>1, <2>1, FS_EmptySet
  <2>2. QED
    BY <2>1
<1>3. ASSUME NEW n \in Nat, n \in N PROVE n + 1 \in N
  <2>1. ASSUME NEW t \in SUBSET S, Cardinality(t) = n + 1 PROVE t \in Q
    <3>1. ASSUME NEW x \in t PROVE t \ {x} \in Q
      <4>1. Cardinality(t \ {x}) = Cardinality(t) - 1
        BY <1>1, FS_RemoveElement
      <4>2. t \ {x} \in SUBSET S /\ Cardinality(t \ {x}) = n
        BY <2>1, <4>1
      <4>3. QED
        BY <1>3, <4>2
    <3>2. QED
      BY <3>1
  <2>2. QED
    BY <2>1
<1>4. \A n \in Nat : n \in N
  <2> HIDE DEF N
  <2>1. QED
    BY <1>2, <1>3, AllNumbers
<1>5. QED
  BY <1>1, <1>4

LEMMA SumType ==
    ASSUME NEW f, NEW S, IsFiniteSet(S), \A x \in S : f[x] \in Nat
    PROVE  SumFunctionOnSet(f, S) \in Nat
<1> DEFINE Q == {t \in SUBSET S : SumFunctionOnSet(f, t) \in Nat}
<1>1. {} \in Q
  BY SumEmpty
<1>2. ASSUME NEW t \in SUBSET S, \A x \in t : t \ {x} \in Q PROVE t \in Q
  <2>1. CASE t = {}
    BY <1>1, <2>1
  <2>2. CASE t # {}
    <3>1. IsFiniteSet(t) /\ Pick(t) \in t
      BY <2>2, FS_Subset, PickOne
    <3>2. SumFunctionOnSet(f, t) = f[Pick(t)] + SumFunctionOnSet(f, t \ {Pick(t)})
      BY <2>2, <3>1, SumPick
    <3>3. SumFunctionOnSet(f, t \ {Pick(t)}) \in Nat /\ f[Pick(t)] \in Nat
      BY <1>2, <3>1
    <3>4. QED
      BY <3>2, <3>3
  <2>3. QED
    BY <2>1, <2>2
<1>3. \A t \in SUBSET S : t \in Q
  <2>1. Q \subseteq SUBSET S
    OBVIOUS
  <2> HIDE DEF Q
  <2>2. QED
    BY <1>1, <1>2, <2>1, BySize
<1>4. QED
  BY <1>3

\* Any index can be taken out of a sum.
LEMMA SumElement ==
    ASSUME NEW f, NEW S, IsFiniteSet(S), \A x \in S : f[x] \in Nat, NEW x \in S
    PROVE  SumFunctionOnSet(f, S) = f[x] + SumFunctionOnSet(f, S \ {x})
<1> DEFINE Q == {t \in SUBSET S :
        \A y \in t : SumFunctionOnSet(f, t) = f[y] + SumFunctionOnSet(f, t \ {y})}
<1>1. \A t \in SUBSET S : IsFiniteSet(t) /\ SumFunctionOnSet(f, t) \in Nat
  BY FS_Subset, SumType
<1>2. ASSUME NEW t \in SUBSET S, \A y \in t : t \ {y} \in Q PROVE t \in Q
  <2>1. ASSUME NEW y \in t
        PROVE  SumFunctionOnSet(f, t) = f[y] + SumFunctionOnSet(f, t \ {y})
    <3> DEFINE p == Pick(t)
               r == (t \ {p}) \ {y}
    <3>1. p \in t
      BY PickOne
    <3>2. SumFunctionOnSet(f, t) = f[p] + SumFunctionOnSet(f, t \ {p})
      BY <1>1, <3>1, SumPick
    <3> HIDE DEF p
    <3>3. CASE p = y
      BY <3>2, <3>3
    <3>4. CASE p # y
      <4>1. r = (t \ {y}) \ {p} /\ r \in SUBSET S
        OBVIOUS
      <4>2. SumFunctionOnSet(f, t \ {p}) = f[y] + SumFunctionOnSet(f, r)
        BY <1>2, <3>1, <3>4
      <4>3. SumFunctionOnSet(f, t \ {y}) = f[p] + SumFunctionOnSet(f, r)
        BY <1>2, <3>1, <3>4, <4>1
      <4>4. f[p] \in Nat /\ f[y] \in Nat /\ SumFunctionOnSet(f, r) \in Nat
        BY <1>1, <3>1, <4>1
      <4> HIDE DEF r
      <4>5. QED
        BY <3>2, <4>2, <4>3, <4>4
    <3>5. QED
      BY <3>3, <3>4
  <2>2. QED
    BY <2>1
<1>3. \A t \in SUBSET S : t \in Q
  <2>1. Q \subseteq SUBSET S /\ {} \in Q
    OBVIOUS
  <2> HIDE DEF Q
  <2>2. QED
    BY <1>2, <2>1, BySize
<1>4. QED
  BY <1>3

\* Only the values at the indices matter.
LEMMA SumSame ==
    ASSUME NEW f, NEW h, NEW S, IsFiniteSet(S), \A x \in S : f[x] = h[x]
    PROVE  SumFunctionOnSet(f, S) = SumFunctionOnSet(h, S)
<1> DEFINE Q == {t \in SUBSET S : SumFunctionOnSet(f, t) = SumFunctionOnSet(h, t)}
<1>1. {} \in Q
  BY SumEmpty
<1>2. ASSUME NEW t \in SUBSET S, \A x \in t : t \ {x} \in Q PROVE t \in Q
  <2>1. CASE t = {}
    BY <1>1, <2>1
  <2>2. CASE t # {}
    <3>1. IsFiniteSet(t) /\ Pick(t) \in t
      BY <2>2, FS_Subset, PickOne
    <3>2. /\ SumFunctionOnSet(f, t) = f[Pick(t)] + SumFunctionOnSet(f, t \ {Pick(t)})
          /\ SumFunctionOnSet(h, t) = h[Pick(t)] + SumFunctionOnSet(h, t \ {Pick(t)})
      BY <2>2, <3>1, SumPick
    <3>3. /\ SumFunctionOnSet(f, t \ {Pick(t)}) = SumFunctionOnSet(h, t \ {Pick(t)})
          /\ f[Pick(t)] = h[Pick(t)]
      BY <1>2, <3>1
    <3>4. QED
      BY <3>2, <3>3
  <2>3. QED
    BY <2>1, <2>2
<1>3. \A t \in SUBSET S : t \in Q
  <2>1. Q \subseteq SUBSET S
    OBVIOUS
  <2> HIDE DEF Q
  <2>2. QED
    BY <1>1, <1>2, <2>1, BySize
<1>4. QED
  BY <1>3

\* One more at one index is one more in the sum.
LEMMA SumRaised ==
    ASSUME NEW f, NEW h, NEW S, NEW x \in S, IsFiniteSet(S), \A y \in S : f[y] \in Nat,
           h[x] = f[x] + 1, \A y \in S : y # x => h[y] = f[y]
    PROVE  SumFunctionOnSet(h, S) = SumFunctionOnSet(f, S) + 1
<1>1. IsFiniteSet(S \ {x})
  BY FS_RemoveElement
<1>2. SumFunctionOnSet(f, S \ {x}) = SumFunctionOnSet(h, S \ {x})
  BY <1>1, SumSame
<1>3. SumFunctionOnSet(f, S) = f[x] + SumFunctionOnSet(f, S \ {x})
  BY SumElement
<1>4. \A y \in S : h[y] \in Nat
  OBVIOUS
<1>5. SumFunctionOnSet(h, S) = h[x] + SumFunctionOnSet(h, S \ {x})
  BY <1>4, SumElement
<1>6. SumFunctionOnSet(f, S \ {x}) \in Nat /\ f[x] \in Nat
  BY <1>1, SumType
<1>7. QED
  BY <1>2, <1>3, <1>5, <1>6

\* A sum is that over some of the indices and that over the others.
LEMMA SumSplit ==
    ASSUME NEW f, NEW S, NEW T \in SUBSET S, IsFiniteSet(S), \A x \in S : f[x] \in Nat
    PROVE  SumFunctionOnSet(f, S) = SumFunctionOnSet(f, T) + SumFunctionOnSet(f, S \ T)
<1> DEFINE Q == {t \in SUBSET S :
        SumFunctionOnSet(f, S) = SumFunctionOnSet(f, t) + SumFunctionOnSet(f, S \ t)}
<1>1. \A t \in SUBSET S : IsFiniteSet(t) /\ SumFunctionOnSet(f, t) \in Nat
  BY FS_Subset, SumType
<1>2. {} \in Q
  <2>1. S \ {} = S /\ S \in SUBSET S
    OBVIOUS
  <2>2. QED
    BY <1>1, <2>1, SumEmpty
<1>3. ASSUME NEW t \in SUBSET S, \A x \in t : t \ {x} \in Q PROVE t \in Q
  <2>1. CASE t = {}
    BY <1>2, <2>1
  <2>2. CASE t # {}
    <3>1. PICK x \in t : TRUE
      BY <2>2
    <3> DEFINE u == t \ {x}
               v == S \ u
    <3>2. u \in SUBSET S /\ v \in SUBSET S /\ x \in v /\ v \ {x} = S \ t /\ u \in Q
      BY <1>3, <3>1
    <3>3. SumFunctionOnSet(f, S) = SumFunctionOnSet(f, u) + SumFunctionOnSet(f, v)
      BY <3>2
    <3>4. SumFunctionOnSet(f, t) = f[x] + SumFunctionOnSet(f, u)
      BY <1>1, <3>1, SumElement
    <3> HIDE DEF u, v
    <3>5. SumFunctionOnSet(f, v) = f[x] + SumFunctionOnSet(f, S \ t)
      <4>1. IsFiniteSet(v) /\ (\A y \in v : f[y] \in Nat) /\ x \in v
        BY <1>1, <3>2
      <4>2. SumFunctionOnSet(f, v) = f[x] + SumFunctionOnSet(f, v \ {x})
        BY <4>1, SumElement
      <4>3. QED
        BY <3>2, <4>2
    <3>6. /\ f[x] \in Nat /\ SumFunctionOnSet(f, u) \in Nat
          /\ SumFunctionOnSet(f, S \ t) \in Nat
      BY <1>1, <3>1, <3>2
    <3>7. SumFunctionOnSet(f, S) = SumFunctionOnSet(f, t) + SumFunctionOnSet(f, S \ t)
      BY <3>3, <3>4, <3>5, <3>6
    <3>8. QED
      BY <3>7
  <2>3. QED
    BY <2>1, <2>2
<1>4. \A t \in SUBSET S : t \in Q
  <2>1. Q \subseteq SUBSET S
    OBVIOUS
  <2> HIDE DEF Q
  <2>2. QED
    BY <1>2, <1>3, <2>1, BySize
<1>5. QED
  BY <1>4

-------------------------------------------------------------------------------
(* Types *)

LEMMA NewCallType == NewCall \in Call
BY VisitCountingAssumption DEF NewCall, Call

LEMMA InitType == Init => TypeOK
<1> SUFFICES ASSUME Init PROVE TypeOK
  OBVIOUS
<1>1. visits \in Seq([total: Nat, by: Replicas]) /\ fresh \subseteq DOMAIN visits
  BY DEF Init
<1>2. NewCall \in Call
  BY NewCallType
<1>3. IdleWorker \in Worker
  BY DEF IdleWorker, Worker
<1>4. \A f \in Frontends : frontQueue[f] \in Seq(Redirects)
  BY DEF Init
<1>5. frontQueue \in [Frontends -> Seq(Redirects)]
  BY <1>4 DEF Init
<1>6. QED
  BY <1>1, <1>2, <1>3, <1>5, VisitCountingAssumption DEF Init, TypeOK

\* The calls: how they begin, end and fail.
LEMMA AttemptType ==
    ASSUME NEW c \in Call, NEW n \in 0 .. MaxAttempts
    PROVE  [c EXCEPT !.pc = "sent", !.attempts = n] \in Call
BY DEF Call

LEMMA SentType ==
    ASSUME call \in [Redirects -> Call], NEW v \in Redirects
    PROVE  Sent(v) \in [Redirects -> Call]
<1>1. 1 \in 0 .. MaxAttempts
  BY VisitCountingAssumption
<1>2. [NewCall EXCEPT !.pc = "sent", !.attempts = 1] \in Call
  BY <1>1, AttemptType, NewCallType
<1>3. QED
  BY <1>2 DEF Sent

LEMMA CallEndsType ==
    ASSUME TypeOK, NEW v \in Redirects, NEW success \in BOOLEAN, CallEnds(v, success)
    PROVE  /\ call' \in [Redirects -> Call] /\ frontQueue' \in [Frontends -> Seq(Redirects)]
           /\ notifying' \in [Frontends -> SUBSET Redirects] /\ answered' \subseteq Redirects
BY DEF CallEnds, TypeOK, Call

LEMMA AttemptsFailType ==
    ASSUME TypeOK, NEW failed \in SUBSET Redirects, AttemptsFail(failed)
    PROVE  /\ call' \in [Redirects -> Call] /\ frontQueue' \in [Frontends -> Seq(Redirects)]
           /\ notifying' \in [Frontends -> SUBSET Redirects] /\ answered' \subseteq Redirects
<1> DEFINE last == {v \in failed : call[v].attempts = MaxAttempts}
           next(v) == IF v \in last THEN [call[v] EXCEPT !.pc = "over", !.at = "none"]
                      ELSE IF v \in failed
                           THEN [NewCall EXCEPT !.pc = "sent", !.attempts = call[v].attempts + 1]
                      ELSE call[v]
<1>1. ASSUME NEW v \in Redirects PROVE next(v) \in Call
  <2>1. call[v] \in Call
    BY DEF TypeOK
  <2>2. CASE v \in last
    BY <2>1, <2>2 DEF Call
  <2>3. CASE v \in failed \ last
    <3> DEFINE n == call[v].attempts + 1
    <3>1. n \in 0 .. MaxAttempts
      BY <2>1, <2>3, VisitCountingAssumption DEF Call
    <3> HIDE DEF n
    <3>3. [NewCall EXCEPT !.pc = "sent", !.attempts = n] \in Call
      BY <3>1, AttemptType, NewCallType
    <3>4. next(v) = [NewCall EXCEPT !.pc = "sent", !.attempts = n]
      BY <2>3 DEF n
    <3>5. QED
      BY <3>3, <3>4
  <2>4. CASE v \notin failed
    BY <2>1, <2>4
  <2>5. QED
    BY <2>2, <2>3, <2>4
<1>2. call' = [v \in Redirects |-> next(v)]
  BY DEF AttemptsFail
<1>3. call' \in [Redirects -> Call]
  <2> HIDE DEF next
  <2>1. QED
    BY <1>1, <1>2
<1>4. notifying' = [f \in Frontends |-> notifying[f] \ last]
  BY DEF AttemptsFail
<1>5. QED
  BY <1>3, <1>4 DEF AttemptsFail, TypeOK

\* The rows: a new one, and one more visit in one that is there.
LEMMA AppendRow ==
    ASSUME NEW s \in Seq([total: Nat, by: Replicas]), NEW r \in Replicas
    PROVE  LET t == Append(s, [total |-> 1, by |-> r])
           IN /\ t \in Seq([total: Nat, by: Replicas])
              /\ DOMAIN t = DOMAIN s \union {Len(s) + 1}
              /\ t[Len(s) + 1].by = r /\ \A i \in DOMAIN s : t[i] = s[i]
<1> DEFINE row == [total |-> 1, by |-> r]
<1>1. row \in [total: Nat, by: Replicas] /\ row.by = r
  OBVIOUS
<1> HIDE DEF row
<1>2. /\ Append(s, row) \in Seq([total: Nat, by: Replicas])
      /\ DOMAIN Append(s, row) = DOMAIN s \union {Len(s) + 1}
      /\ Append(s, row)[Len(s) + 1] = row /\ \A i \in DOMAIN s : Append(s, row)[i] = s[i]
  BY <1>1
<1>3. QED
  BY <1>1, <1>2 DEF row

LEMMA ElementType ==
    ASSUME NEW T, NEW s \in Seq(T)
    PROVE  DOMAIN s = 1 .. Len(s) /\ Len(s) \in Nat /\ \A i \in DOMAIN s : s[i] \in T
OBVIOUS

LEMMA UpdateRow ==
    ASSUME NEW s \in Seq([total: Nat, by: Replicas]), NEW j \in DOMAIN s
    PROVE  LET t == [s EXCEPT ![j].total = @ + 1]
           IN /\ t \in Seq([total: Nat, by: Replicas]) /\ DOMAIN t = DOMAIN s
              /\ \A i \in DOMAIN s : t[i].by = s[i].by
<1>1. DOMAIN s = 1 .. Len(s) /\ Len(s) \in Nat
      /\ \A i \in DOMAIN s : s[i] \in [total: Nat, by: Replicas]
  BY ElementType
<1>2. [s[j] EXCEPT !.total = @ + 1] \in [total: Nat, by: Replicas]
      /\ [s[j] EXCEPT !.total = @ + 1].by = s[j].by
  BY <1>1
<1>3. QED
  BY <1>1, <1>2

LEMMA NextType == TypeOK /\ [Next]_vars => TypeOK'
<1> SUFFICES ASSUME TypeOK, [Next]_vars PROVE TypeOK'
  OBVIOUS
<1> USE DEF dbVars, frontVars
<1>1. ASSUME NEW v \in Redirects, NEW f \in Frontends, RedirectHit(v, f) PROVE TypeOK'
  <2>1. Append(frontQueue[f], v) \in Seq(Redirects)
    BY DEF TypeOK
  <2>2. frontQueue' \in [Frontends -> Seq(Redirects)]
    BY <1>1, <2>1 DEF RedirectHit, TypeOK
  <2>3. QED
    BY <1>1, <2>2 DEF RedirectHit, TypeOK
<1>2. ASSUME NEW v \in Redirects, RedirectMiss(v) PROVE TypeOK'
  BY <1>2, SentType DEF RedirectMiss, TypeOK
<1>3. ASSUME NEW f \in Frontends, NotifyRedirect(f) PROVE TypeOK'
  <2>1. frontQueue[f] \in Seq(Redirects) /\ frontQueue[f] # <<>>
    BY <1>3 DEF NotifyRedirect, TypeOK
  <2>2. Head(frontQueue[f]) \in Redirects /\ Tail(frontQueue[f]) \in Seq(Redirects)
    BY <2>1
  <2>3. call' \in [Redirects -> Call]
    BY <1>3, <2>2, SentType DEF NotifyRedirect, TypeOK
  <2>4. frontQueue' \in [Frontends -> Seq(Redirects)]
        /\ notifying' \in [Frontends -> SUBSET Redirects]
    BY <1>3, <2>2 DEF NotifyRedirect, TypeOK
  <2>5. QED
    BY <1>3, <2>3, <2>4 DEF NotifyRedirect, TypeOK
<1>4. ASSUME NEW f \in Frontends, FrontendCrash(f) PROVE TypeOK'
  <2>1. <<>> \in Seq(Redirects)
    OBVIOUS
  <2>2. \A v \in Redirects : [call[v] EXCEPT !.pc = "over", !.at = "none"] \in Call
    BY DEF TypeOK, Call
  <2>3. call' \in [Redirects -> Call]
    BY <1>4, <2>2 DEF FrontendCrash, TypeOK
  <2>4. frontQueue' \in [Frontends -> Seq(Redirects)]
        /\ notifying' \in [Frontends -> SUBSET Redirects]
    BY <1>4, <2>1 DEF FrontendCrash, TypeOK
  <2>5. QED
    BY <1>4, <2>3, <2>4 DEF FrontendCrash, TypeOK
<1>5. ASSUME NEW v \in Redirects, NEW r \in Replicas, Receive(v, r) PROVE TypeOK'
  <2>1. CASE CallEnds(v, FALSE)
    BY <1>5, <2>1, CallEndsType DEF Receive, TypeOK
  <2>2. CASE call' = [call EXCEPT ![v] = [@ EXCEPT !.pc = "read", !.at = r]] /\ UNCHANGED frontVars
    <3>1. call' \in [Redirects -> Call]
      BY <2>2 DEF TypeOK, Call
    <3>2. QED
      BY <1>5, <2>2, <3>1 DEF Receive, TypeOK
  <2>3. QED
    BY <1>5, <2>1, <2>2 DEF Receive
<1>6. ASSUME NEW v \in Redirects, IncrementVisitInBackground(v) PROVE TypeOK'
  <2>1. call' \in [Redirects -> Call]
    BY <1>6 DEF IncrementVisitInBackground, TypeOK, Call
  <2>2. queue' \in [Replicas -> 0 .. Capacity]
    <3> DEFINE r == call[v].at
    <3>1. queue' = [queue EXCEPT ![r] = @ + 1] /\ queue[r] < Capacity
      BY <1>6 DEF IncrementVisitInBackground
    <3>2. queue \in [Replicas -> 0 .. Capacity]
      BY DEF TypeOK
    <3> HIDE DEF r
    <3>3. CASE r \in Replicas
      BY <3>1, <3>2, <3>3, VisitCountingAssumption
    <3>4. CASE r \notin Replicas
      BY <3>1, <3>2, <3>4
    <3>5. QED
      BY <3>3, <3>4
  <2>3. QED
    BY <1>6, <2>1, <2>2 DEF IncrementVisitInBackground, TypeOK
<1>7. ASSUME NEW v \in Redirects, Reply(v) PROVE TypeOK'
  <2>1. CallEnds(v, TRUE)
    BY <1>7 DEF Reply
  <2>2. QED
    BY <1>7, <2>1, CallEndsType DEF Reply, TypeOK
<1>8. ASSUME NEW v \in Redirects, AttemptFails(v) PROVE TypeOK'
  <2>1. AttemptsFail({v})
    BY <1>8 DEF AttemptFails
  <2>2. QED
    BY <1>8, <2>1, AttemptsFailType DEF AttemptFails, TypeOK
<1>9. ASSUME NEW r \in Replicas, Dequeue(r) PROVE TypeOK'
  <2>1. worker' \in [Replicas -> Worker]
    BY <1>9 DEF Dequeue, Becomes, TypeOK, Worker
  <2>2. queue' \in [Replicas -> 0 .. Capacity]
    BY <1>9, VisitCountingAssumption DEF Dequeue, TypeOK
  <2>3. QED
    BY <1>9, <2>1, <2>2 DEF Dequeue, TypeOK
<1>10. ASSUME NEW r \in Replicas, IncrementVisit(r) PROVE TypeOK'
  <2>1. worker' \in [Replicas -> Worker]
    BY <1>10 DEF IncrementVisit, Becomes, TypeOK, Worker
  <2>2. QED
    BY <1>10, <2>1 DEF IncrementVisit, TypeOK
<1>11. ASSUME NEW r \in Replicas, GetLastHour(r) PROVE TypeOK'
  <2>1. fresh \subseteq Nat
    BY DEF TypeOK
  <2>2. worker' \in [Replicas -> Worker]
    <3>1. worker \in [Replicas -> Worker]
      BY DEF TypeOK
    <3>2. CASE worker' = [worker EXCEPT ![r].pc = "insert"]
      BY <3>1, <3>2 DEF Worker
    <3>3. CASE \E i \in fresh : worker' = [worker EXCEPT ![r] = [pc |-> "update", visit |-> i]]
      BY <2>1, <3>1, <3>3 DEF Worker
    <3>4. QED
      BY <1>11, <3>2, <3>3 DEF GetLastHour
  <2>3. missed' \subseteq Replicas
    BY <1>11 DEF GetLastHour, TypeOK
  <2>4. QED
    BY <1>11, <2>2, <2>3 DEF GetLastHour, TypeOK
<1>12. ASSUME NEW r \in Replicas, Insert(r) PROVE TypeOK'
  <2>1. visits' \in Seq([total: Nat, by: Replicas]) /\ fresh' \subseteq DOMAIN visits'
    BY <1>12, AppendRow DEF Insert, TypeOK
  <2>2. worker' \in [Replicas -> Worker]
    BY <1>12 DEF Insert, TypeOK, Worker, IdleWorker
  <2>3. QED
    BY <1>12, <2>1, <2>2 DEF Insert, TypeOK
<1>13. ASSUME NEW r \in Replicas, Update(r) PROVE TypeOK'
  <2>1. visits' \in Seq([total: Nat, by: Replicas]) /\ fresh' \subseteq DOMAIN visits'
    BY <1>13, UpdateRow DEF Update, TypeOK
  <2>2. worker' \in [Replicas -> Worker]
    BY <1>13 DEF Update, TypeOK, Worker, IdleWorker
  <2>3. QED
    BY <1>13, <2>1, <2>2 DEF Update, TypeOK
<1>14. ASSUME NEW r \in Replicas, VisitTaskThrows(r) PROVE TypeOK'
  <2>1. worker' \in [Replicas -> Worker]
    BY <1>14 DEF VisitTaskThrows, TypeOK, Worker, IdleWorker
  <2>2. QED
    BY <1>14, <2>1 DEF VisitTaskThrows, TypeOK
<1>15. ASSUME NEW r \in Replicas, ReplicaCrash(r) PROVE TypeOK'
  <2>1. worker' \in [Replicas -> Worker] /\ queue' \in [Replicas -> 0 .. Capacity]
    BY <1>15, VisitCountingAssumption DEF ReplicaCrash, TypeOK, Worker, IdleWorker
  <2>2. AttemptsFail({v \in Redirects : call[v].at = r})
    BY <1>15 DEF ReplicaCrash
  <2>3. QED
    BY <1>15, <2>1, <2>2, AttemptsFailType DEF ReplicaCrash, TypeOK
<1>16. ASSUME HourPasses PROVE TypeOK'
  BY <1>16 DEF HourPasses, TypeOK
<1>17. ASSUME DeleteLink PROVE TypeOK'
  <2>1. visits' \in Seq([total: Nat, by: Replicas]) /\ fresh' \subseteq DOMAIN visits'
    BY <1>17 DEF DeleteLink
  <2>2. QED
    BY <1>17, <2>1 DEF DeleteLink, TypeOK
<1>18. ASSUME UNCHANGED vars PROVE TypeOK'
  BY <1>18 DEF vars, TypeOK
<1>19. ASSUME NEW r \in Replicas, ChangeTypeWaits(r) PROVE TypeOK'
  <2>1. worker' \in [Replicas -> Worker]
    BY <1>19 DEF ChangeTypeWaits, Becomes, TypeOK, Worker
  <2>2. QED
    BY <1>19, <2>1 DEF ChangeTypeWaits, TypeOK
<1>20. QED
  BY <1>1, <1>2, <1>3, <1>4, <1>5, <1>6, <1>7, <1>8, <1>9, <1>10, <1>11, <1>12, <1>13,
     <1>14, <1>15, <1>16, <1>17, <1>18, <1>19
     DEF Next, CallStep, WorkerStep

\* Every reachable state of the counting of visits is well typed.
THEOREM TypeCorrect == Spec => []TypeOK
<1>1. QED
  BY InitType, NextType, PTL DEF Spec

-------------------------------------------------------------------------------
(* One row per replica and hour *)

\* A replica whose task is about to insert has no fresh row, unless its lookup missed
\* one; and nobody else inserts one for it.
NoRowYet ==
    \A r \in Replicas : worker[r].pc = "insert" =>
        r \in missed \/ \A i \in fresh : visits[i].by # r

RowsInv == NoRowYet /\ OneRowPerReplicaAndHour

\* A step that keeps the rows, may take rows out of the fresh ones, forgets a lookup only
\* when the row that it missed is not fresh any more, and brings no replica to its
\* insert, keeps the invariant.
LEMMA RowsKept ==
    ASSUME TypeOK, RowsInv, UNCHANGED visits, fresh' \subseteq fresh,
           \A r \in missed : r \in missed' \/ \A i \in fresh' : visits[i].by # r,
           \A r \in Replicas : worker'[r].pc = "insert" => worker[r].pc = "insert"
    PROVE  RowsInv'
<1>1. NoRowYet'
  BY DEF RowsInv, NoRowYet
<1>2. ASSUME NEW i \in fresh', NEW j \in fresh', visits'[i].by = visits'[j].by, i # j
      PROVE  visits'[i].by \in missed'
  <2>1. visits[i].by \in missed
    BY <1>2 DEF RowsInv, OneRowPerReplicaAndHour
  <2>2. QED
    BY <1>2, <2>1
<1>3. OneRowPerReplicaAndHour'
  BY <1>2 DEF OneRowPerReplicaAndHour
<1>4. QED
  BY <1>1, <1>3 DEF RowsInv

LEMMA NextRows == TypeOK /\ RowsInv /\ [Next]_vars => RowsInv'
<1> SUFFICES ASSUME TypeOK, RowsInv, [Next]_vars PROVE RowsInv'
  OBVIOUS
<1>1. ASSUME NEW r \in Replicas, GetLastHour(r) PROVE RowsInv'
  <2>1. UNCHANGED <<visits, fresh>> /\ missed \subseteq missed'
    BY <1>1 DEF GetLastHour
  <2>2. CASE worker' = [worker EXCEPT ![r].pc = "insert"]
             /\ missed' = missed \union {q \in {r} : InsertedBy(q)}
    <3>1. r \in missed' \/ \A i \in fresh : visits[i].by # r
      BY <2>2 DEF InsertedBy
    <3>2. \A q \in Replicas : q # r /\ worker'[q].pc = "insert" => worker[q].pc = "insert"
      BY <2>2 DEF TypeOK
    <3>3. QED
      BY <2>1, <3>1, <3>2 DEF RowsInv, NoRowYet, OneRowPerReplicaAndHour
  <2>3. CASE \E i \in fresh : worker' = [worker EXCEPT ![r] = [pc |-> "update", visit |-> i]]
    <3>1. \A q \in Replicas : worker'[q].pc = "insert" => worker[q].pc = "insert"
      BY <2>3 DEF TypeOK
    <3>2. QED
      BY <2>1, <3>1, RowsKept
  <2>4. QED
    BY <1>1, <2>2, <2>3 DEF GetLastHour
<1>2. ASSUME NEW r \in Replicas, Insert(r) PROVE RowsInv'
  <2>1. \A q \in Replicas : worker'[q].pc = "insert" => q # r /\ worker[q].pc = "insert"
    BY <1>2 DEF Insert, TypeOK, IdleWorker
  <2>m. missed' = missed
    BY <1>2 DEF Insert
  <2>2. CASE UNCHANGED <<visits, fresh>>
    BY <2>1, <2>m, <2>2, RowsKept
  <2>3. CASE /\ visits' = Append(visits, [total |-> 1, by |-> r])
             /\ fresh' = fresh \union {Len(visits) + 1}
    <3>1. visits \in Seq([total: Nat, by: Replicas]) /\ fresh \subseteq DOMAIN visits
      BY DEF TypeOK
    <3>2. /\ visits'[Len(visits) + 1].by = r
          /\ \A i \in fresh : visits'[i] = visits[i]
          /\ r \in missed \/ \A i \in fresh : visits[i].by # r
      BY <1>2, <2>3, <3>1, AppendRow DEF Insert, RowsInv, NoRowYet
    <3>3. \A i \in fresh' : i = Len(visits) + 1 \/ i \in fresh
      BY <2>3
    <3>4. NoRowYet'
      BY <2>1, <2>m, <3>2, <3>3 DEF RowsInv, NoRowYet
    <3>5. OneRowPerReplicaAndHour'
      BY <2>m, <3>2, <3>3 DEF RowsInv, OneRowPerReplicaAndHour
    <3>6. QED
      BY <3>4, <3>5 DEF RowsInv
  <2>4. QED
    BY <1>2, <2>2, <2>3 DEF Insert
<1>3. ASSUME NEW r \in Replicas, Update(r) PROVE RowsInv'
  <2>1. \A q \in Replicas : worker'[q].pc = "insert" => worker[q].pc = "insert"
    BY <1>3 DEF Update, TypeOK, IdleWorker
  <2>2. UNCHANGED <<fresh, missed>> /\ \A i \in fresh : visits'[i].by = visits[i].by
    BY <1>3, UpdateRow DEF Update, TypeOK
  <2>3. QED
    BY <2>1, <2>2 DEF RowsInv, NoRowYet, OneRowPerReplicaAndHour
<1>4. ASSUME NEW r \in Replicas,
             \/ Dequeue(r) \/ IncrementVisit(r) \/ ChangeTypeWaits(r)
             \/ VisitTaskThrows(r) \/ ReplicaCrash(r)
      PROVE  RowsInv'
  <2>1. UNCHANGED <<visits, fresh, missed>>
    BY <1>4 DEF Dequeue, IncrementVisit, ChangeTypeWaits, VisitTaskThrows, ReplicaCrash, dbVars
  <2>2. \A q \in Replicas : worker'[q].pc = "insert" => worker[q].pc = "insert"
    <3>1. \A q \in Replicas \ {r} : worker'[q] = worker[q]
      BY <1>4 DEF Dequeue, IncrementVisit, ChangeTypeWaits, VisitTaskThrows, ReplicaCrash,
         Becomes, TypeOK
    <3>2. CASE Dequeue(r) \/ IncrementVisit(r) \/ ChangeTypeWaits(r)
      BY <3>1, <3>2 DEF Dequeue, IncrementVisit, ChangeTypeWaits, Becomes, TypeOK, Worker
    <3>3. CASE VisitTaskThrows(r) \/ ReplicaCrash(r)
      BY <3>1, <3>3 DEF VisitTaskThrows, ReplicaCrash, TypeOK, IdleWorker
    <3>4. QED
      BY <1>4, <3>2, <3>3
  <2>3. QED
    BY <2>1, <2>2, RowsKept
<1>5. ASSUME UNCHANGED <<visits, fresh, missed, worker>> PROVE RowsInv'
  BY <1>5, RowsKept
<1>6. ASSUME NEW v \in Redirects, NEW f \in Frontends, RedirectHit(v, f)
      PROVE  UNCHANGED <<visits, fresh, missed, worker>>
  BY <1>6 DEF RedirectHit, dbVars
<1>7. ASSUME HourPasses PROVE RowsInv'
  <2>1. fresh' \subseteq fresh /\ UNCHANGED <<visits, worker>>
    BY <1>7 DEF HourPasses
  <2>2. \A r \in missed : r \in missed' \/ \A i \in fresh' : visits[i].by # r
    BY <1>7 DEF HourPasses
  <2>3. QED
    BY <2>1, <2>2, RowsKept
<1>8. ASSUME DeleteLink PROVE RowsInv'
  BY <1>8 DEF DeleteLink, RowsInv, NoRowYet, OneRowPerReplicaAndHour
<1>9. ASSUME NEW v \in Redirects, RedirectMiss(v) \/ CallStep(v)
      PROVE  UNCHANGED <<visits, fresh, missed, worker>>
  BY <1>9 DEF RedirectMiss, CallStep, Receive, IncrementVisitInBackground,
              Reply, AttemptFails, dbVars
<1>10. ASSUME NEW f \in Frontends, NotifyRedirect(f) \/ FrontendCrash(f)
       PROVE  UNCHANGED <<visits, fresh, missed, worker>>
  BY <1>10 DEF NotifyRedirect, FrontendCrash, dbVars
<1>11. ASSUME UNCHANGED vars PROVE RowsInv'
  BY <1>5, <1>11 DEF vars, dbVars
<1>12. QED
  BY <1>1, <1>2, <1>3, <1>4, <1>5, <1>6, <1>7, <1>8, <1>9, <1>10, <1>11 DEF Next, WorkerStep

\* However replicas race for the row of an hour, whatever is retried, lost or stopped,
\* none of them inserts a second one unless a lookup of its own missed the first.
THEOREM NoSecondRow == Spec => []OneRowPerReplicaAndHour
<1>1. Init => RowsInv
  BY DEF Init, IdleWorker, RowsInv, NoRowYet, OneRowPerReplicaAndHour
<1>2. RowsInv => OneRowPerReplicaAndHour
  BY DEF RowsInv
<1>3. QED
  BY InitType, NextType, NextRows, <1>1, <1>2, PTL DEF Spec

-------------------------------------------------------------------------------
(* The rows never show more than TotalViews *)

Row == [total: Nat, by: Replicas]
Totals(s) == [i \in DOMAIN s |-> s[i].total]
TotalOf(s) == SumFunctionOnSet(Totals(s), DOMAIN s)

LEMMA VisitTotalIs == VisitTotal = TotalOf(visits)
BY DEF VisitTotal, TotalOf, Totals, SumFunction

LEMMA TotalType ==
    ASSUME NEW s \in Seq(Row)
    PROVE  /\ IsFiniteSet(DOMAIN s) /\ DOMAIN Totals(s) = DOMAIN s
           /\ \A i \in DOMAIN s : Totals(s)[i] = s[i].total /\ s[i].total \in Nat
           /\ TotalOf(s) \in Nat
<1>1. DOMAIN s = 1 .. Len(s) /\ Len(s) \in Nat /\ \A i \in DOMAIN s : s[i] \in Row
  BY ElementType
<1>2. IsFiniteSet(DOMAIN s)
  BY <1>1, FS_Interval
<1>3. \A i \in DOMAIN s : Totals(s)[i] = s[i].total /\ s[i].total \in Nat
  BY <1>1 DEF Totals, Row
<1>4. TotalOf(s) \in Nat
  BY <1>2, <1>3, SumType DEF TotalOf
<1>5. QED
  BY <1>2, <1>3, <1>4 DEF Totals

LEMMA TotalOfNew ==
    ASSUME NEW s \in Seq(Row), NEW r \in Replicas
    PROVE  TotalOf(Append(s, [total |-> 1, by |-> r])) = TotalOf(s) + 1
<1> DEFINE t == Append(s, [total |-> 1, by |-> r])
           n == Len(s) + 1
<1>1. /\ t \in Seq(Row) /\ DOMAIN t = DOMAIN s \union {n}
      /\ \A i \in DOMAIN s : t[i] = s[i]
  BY AppendRow DEF Row
<1>2. t[n] = [total |-> 1, by |-> r]
  OBVIOUS
<1>3. n \notin DOMAIN s
  BY ElementType
<1> HIDE DEF t, n
<1>4. /\ IsFiniteSet(DOMAIN t) /\ n \in DOMAIN t
      /\ \A i \in DOMAIN t : Totals(t)[i] = t[i].total /\ t[i].total \in Nat
  BY <1>1, TotalType
<1>5. TotalOf(t) = Totals(t)[n] + SumFunctionOnSet(Totals(t), DOMAIN t \ {n})
  <2>1. \A i \in DOMAIN t : Totals(t)[i] \in Nat
    BY <1>4
  <2>2. QED
    BY <1>4, <2>1, SumElement DEF TotalOf
<1>6. DOMAIN t \ {n} = DOMAIN s
  BY <1>1, <1>3
<1>7. SumFunctionOnSet(Totals(t), DOMAIN s) = SumFunctionOnSet(Totals(s), DOMAIN s)
  <2>1. IsFiniteSet(DOMAIN s) /\ \A i \in DOMAIN s : Totals(s)[i] = s[i].total
    BY TotalType
  <2>2. \A i \in DOMAIN s : Totals(t)[i] = Totals(s)[i]
    BY <1>1, <1>4, <2>1
  <2>3. QED
    BY <2>1, <2>2, SumSame
<1>8. Totals(t)[n] = 1
  BY <1>2, <1>4
<1>9. TotalOf(t) = TotalOf(s) + 1
  <2>1. TotalOf(s) \in Nat
    BY TotalType
  <2>2. TotalOf(t) = 1 + TotalOf(s)
    BY <1>5, <1>6, <1>7, <1>8 DEF TotalOf
  <2>3. QED
    BY <2>1, <2>2
<1>10. QED
  BY <1>9 DEF t

LEMMA TotalOfRaised ==
    ASSUME NEW s \in Seq(Row), NEW j \in DOMAIN s
    PROVE  TotalOf([s EXCEPT ![j].total = @ + 1]) = TotalOf(s) + 1
<1> DEFINE t == [s EXCEPT ![j].total = @ + 1]
<1>1. t \in Seq(Row) /\ DOMAIN t = DOMAIN s
  BY UpdateRow DEF Row
<1>2. \A i \in DOMAIN s : s[i] \in Row
  BY ElementType
<1>3. t[j].total = s[j].total + 1
  BY <1>2 DEF Row
<1>4. \A i \in DOMAIN s : i # j => t[i] = s[i]
  OBVIOUS
<1> HIDE DEF t
<1>5. /\ IsFiniteSet(DOMAIN s)
      /\ \A i \in DOMAIN s : Totals(s)[i] = s[i].total /\ s[i].total \in Nat
      /\ \A i \in DOMAIN s : Totals(t)[i] = t[i].total
  BY <1>1, TotalType
<1>6. /\ \A i \in DOMAIN s : Totals(s)[i] \in Nat
      /\ Totals(t)[j] = Totals(s)[j] + 1
      /\ \A i \in DOMAIN s : i # j => Totals(t)[i] = Totals(s)[i]
  BY <1>3, <1>4, <1>5
<1>7. SumFunctionOnSet(Totals(t), DOMAIN s) = SumFunctionOnSet(Totals(s), DOMAIN s) + 1
  BY <1>5, <1>6, SumRaised
<1>8. TotalOf(t) = TotalOf(s) + 1
  BY <1>1, <1>7 DEF TotalOf
<1>9. QED
  BY <1>8 DEF t

\* The tasks that have incremented TotalViews and not yet the row of the hour.
Counting == {r \in Replicas : worker[r].pc \in {"incremented", "insert", "update"}}

\* Each of those is a visit that the rows do not show yet; a deleted link has
\* neither rows nor views, and no task brings it back.
TotalsInv ==
    /\ ~present => visits = <<>> /\ totalViews = 0
    /\ present => VisitTotal + Cardinality(Counting) <= totalViews

LEMMA CountingType ==
    /\ Counting \subseteq Replicas /\ IsFiniteSet(Counting) /\ Cardinality(Counting) \in Nat
<1>1. Counting \subseteq Replicas
  BY DEF Counting
<1>2. QED
  BY <1>1, VisitCountingAssumption, FS_Subset, FS_CardinalityType

\* A step that leaves the database alone, and after which no more tasks are between
\* the two increments.
LEMMA TotalsKept ==
    ASSUME TypeOK, TotalsInv, UNCHANGED <<present, totalViews, visits>>,
           Counting' \subseteq Counting
    PROVE  TotalsInv'
<1>1. Cardinality(Counting') <= Cardinality(Counting) /\ Cardinality(Counting') \in Nat
      /\ Cardinality(Counting) \in Nat
  BY CountingType, FS_Subset, FS_CardinalityType
<1>2. VisitTotal' = VisitTotal
  BY VisitTotalIs DEF VisitTotal
<1>3. TotalOf(visits) \in Nat /\ VisitTotal = TotalOf(visits) /\ totalViews \in Nat
  BY TotalType, VisitTotalIs DEF TypeOK, Row
<1> HIDE DEF Counting
<1>4. QED
  BY <1>1, <1>2, <1>3 DEF TotalsInv

\* A task that ends with a visit more in the rows is no longer between the two.
LEMMA TotalsMove ==
    ASSUME NEW r \in Replicas, TypeOK, TotalsInv, present, UNCHANGED <<present, totalViews>>,
           TotalOf(visits') = TotalOf(visits) + 1,
           r \in Counting, worker' = [worker EXCEPT ![r] = IdleWorker]
    PROVE  TotalsInv'
<1>1. Counting' = Counting \ {r}
  BY DEF Counting, TypeOK, IdleWorker
<1>2. Cardinality(Counting') = Cardinality(Counting) - 1 /\ Cardinality(Counting) \in Nat
  BY <1>1, CountingType, FS_RemoveElement
<1>3. TotalOf(visits) \in Nat /\ VisitTotal = TotalOf(visits) /\ totalViews \in Nat
  BY TotalType, VisitTotalIs DEF TypeOK, Row
<1>4. VisitTotal' = TotalOf(visits')
  BY DEF VisitTotal, TotalOf, Totals, SumFunction
<1> HIDE DEF Counting
<1>5. QED
  BY <1>2, <1>3, <1>4 DEF TotalsInv

LEMMA NextTotals == TypeOK /\ TotalsInv /\ [Next]_vars => TotalsInv'
<1> SUFFICES ASSUME TypeOK, TotalsInv, [Next]_vars PROVE TotalsInv'
  OBVIOUS
<1>1. ASSUME NEW r \in Replicas, IncrementVisit(r) PROVE TotalsInv'
  <2>1. worker[r].pc = "start" /\ worker \in [Replicas -> Worker] /\ UNCHANGED <<present, visits>>
    BY <1>1 DEF IncrementVisit, TypeOK
  <2>2. \A q \in Replicas : worker'[q].pc = IF q = r THEN "incremented" ELSE worker[q].pc
    BY <1>1, <2>1 DEF IncrementVisit, Becomes, Worker
  <2>3. Counting' = Counting \union {r} /\ r \notin Counting
    BY <2>1, <2>2 DEF Counting
  <2>4. Cardinality(Counting') = Cardinality(Counting) + 1 /\ Cardinality(Counting) \in Nat
    BY <2>3, CountingType, FS_AddElement
  <2>5. TotalOf(visits) \in Nat /\ VisitTotal = TotalOf(visits) /\ totalViews \in Nat
    BY TotalType, VisitTotalIs DEF TypeOK, Row
  <2>6. VisitTotal' = VisitTotal
    BY <2>1 DEF VisitTotal
  <2>7. totalViews' = IF present THEN totalViews + 1 ELSE totalViews
    BY <1>1 DEF IncrementVisit
  <2> HIDE DEF Counting
  <2>8. QED
    BY <2>1, <2>4, <2>5, <2>6, <2>7 DEF TotalsInv
<1>2. ASSUME NEW r \in Replicas, Insert(r) PROVE TotalsInv'
  <2>1. worker' = [worker EXCEPT ![r] = IdleWorker] /\ UNCHANGED <<present, totalViews>>
    BY <1>2 DEF Insert
  <2>2. CASE present /\ visits' = Append(visits, [total |-> 1, by |-> r])
    <3>1. TotalOf(visits') = TotalOf(visits) + 1
      BY <2>2, TotalOfNew DEF TypeOK, Row
    <3>2. r \in Counting
      BY <1>2 DEF Insert, Counting
    <3>3. QED
      BY <2>1, <2>2, <3>1, <3>2, TotalsMove
  <2>3. CASE UNCHANGED visits
    <3>1. Counting' \subseteq Counting
      BY <2>1 DEF Counting, TypeOK, IdleWorker
    <3>2. QED
      BY <2>1, <2>3, <3>1, TotalsKept
  <2>4. QED
    BY <1>2, <2>2, <2>3 DEF Insert
<1>3. ASSUME NEW r \in Replicas, Update(r) PROVE TotalsInv'
  <2> DEFINE i == worker[r].visit
  <2>1. /\ worker' = [worker EXCEPT ![r] = IdleWorker] /\ UNCHANGED <<present, totalViews>>
        /\ visits' = IF i \in DOMAIN visits
                     THEN [visits EXCEPT ![i].total = @ + 1] ELSE visits
    BY <1>3 DEF Update
  <2> HIDE DEF i
  <2>2. CASE i \in DOMAIN visits
    <3>1. TotalOf(visits') = TotalOf(visits) + 1
      BY <2>1, <2>2, TotalOfRaised DEF TypeOK, Row
    <3>2. r \in Counting
      BY <1>3 DEF Update, Counting
    <3>3. present
      BY <2>2 DEF TotalsInv, TypeOK
    <3>4. QED
      BY <2>1, <3>1, <3>2, <3>3, TotalsMove
  <2>3. CASE i \notin DOMAIN visits
    <3>1. Counting' \subseteq Counting
      BY <2>1 DEF Counting, TypeOK, IdleWorker
    <3>2. QED
      BY <2>1, <2>3, <3>1, TotalsKept
  <2>4. QED
    BY <2>2, <2>3
<1>4. ASSUME NEW r \in Replicas,
             \/ Dequeue(r) \/ GetLastHour(r) \/ ChangeTypeWaits(r)
             \/ VisitTaskThrows(r) \/ ReplicaCrash(r)
      PROVE  TotalsInv'
  <2>1. UNCHANGED <<present, totalViews, visits>>
    BY <1>4 DEF Dequeue, GetLastHour, ChangeTypeWaits, VisitTaskThrows, ReplicaCrash, dbVars
  <2>2. \A q \in Replicas \ {r} : worker'[q] = worker[q]
    BY <1>4 DEF Dequeue, GetLastHour, ChangeTypeWaits, VisitTaskThrows, ReplicaCrash, Becomes, TypeOK
  <2>3. worker'[r].pc \in {"incremented", "insert", "update"} => worker[r].pc = "incremented"
    <3>1. worker \in [Replicas -> Worker]
      BY DEF TypeOK
    <3>2. CASE Dequeue(r) \/ ChangeTypeWaits(r)
      BY <3>1, <3>2 DEF Dequeue, ChangeTypeWaits, Becomes, Worker
    <3>3. CASE GetLastHour(r)
      BY <3>3 DEF GetLastHour
    <3>4. CASE VisitTaskThrows(r) \/ ReplicaCrash(r)
      BY <3>1, <3>4 DEF VisitTaskThrows, ReplicaCrash, IdleWorker
    <3>5. QED
      BY <1>4, <3>2, <3>3, <3>4
  <2>4. Counting' \subseteq Counting
    BY <2>2, <2>3 DEF Counting
  <2>5. QED
    BY <2>1, <2>4, TotalsKept
<1>5. ASSUME UNCHANGED <<present, totalViews, visits, worker>> PROVE TotalsInv'
  <2>1. Counting' \subseteq Counting
    BY <1>5 DEF Counting
  <2>2. QED
    BY <1>5, <2>1, TotalsKept
<1>6. ASSUME NEW v \in Redirects, NEW f \in Frontends, RedirectHit(v, f)
      PROVE  UNCHANGED <<present, totalViews, visits, worker>>
  BY <1>6 DEF RedirectHit, dbVars
<1>7. ASSUME HourPasses PROVE UNCHANGED <<present, totalViews, visits, worker>>
  BY <1>7 DEF HourPasses
<1>8. ASSUME DeleteLink PROVE TotalsInv'
  BY <1>8 DEF DeleteLink, TotalsInv
<1>9. ASSUME NEW v \in Redirects, RedirectMiss(v) \/ CallStep(v)
      PROVE  UNCHANGED <<present, totalViews, visits, worker>>
  BY <1>9 DEF RedirectMiss, CallStep, Receive, IncrementVisitInBackground,
              Reply, AttemptFails, dbVars
<1>10. ASSUME NEW f \in Frontends, NotifyRedirect(f) \/ FrontendCrash(f)
       PROVE  UNCHANGED <<present, totalViews, visits, worker>>
  BY <1>10 DEF NotifyRedirect, FrontendCrash, dbVars
<1>11. ASSUME UNCHANGED vars PROVE UNCHANGED <<present, totalViews, visits, worker>>
  BY <1>11 DEF vars, dbVars
<1>12. QED
  BY <1>1, <1>2, <1>3, <1>4, <1>5, <1>6, <1>7, <1>8, <1>9, <1>10, <1>11 DEF Next, WorkerStep

\* Whatever is retried, lost or cut short between the two tables, the hourly rows of
\* a link add up to at most its TotalViews.
THEOREM RowsWithinTotal == Spec => []VisitsNeverExceedViews
<1>1. Init => TotalsInv
  <2> SUFFICES ASSUME Init PROVE TotalsInv
    OBVIOUS
  <2>1. VisitTotal = 0 /\ totalViews = 0
    <3>1. DOMAIN visits = {}
      BY DEF Init
    <3>2. QED
      BY <3>1, VisitTotalIs, SumEmpty DEF TotalOf, Init
  <2>2. Counting = {}
    BY DEF Init, IdleWorker, Counting
  <2>3. Cardinality(Counting) = 0
    BY <2>2, FS_EmptySet
  <2> HIDE DEF Counting
  <2>4. QED
    BY <2>1, <2>3 DEF TotalsInv, Init
<1>2. TypeOK /\ TotalsInv => VisitsNeverExceedViews
  <2> SUFFICES ASSUME TypeOK, TotalsInv PROVE VisitTotal <= totalViews
    BY DEF VisitsNeverExceedViews
  <2>1. TotalOf(visits) \in Nat /\ VisitTotal = TotalOf(visits) /\ totalViews \in Nat
    BY TotalType, VisitTotalIs DEF TypeOK, Row
  <2>2. CASE present
    <3>1. Cardinality(Counting) \in Nat
      BY CountingType
    <3> HIDE DEF Counting
    <3>2. QED
      BY <2>1, <2>2, <3>1 DEF TotalsInv
  <2>3. CASE ~present
    <3>1. visits = <<>> /\ totalViews = 0
      BY <2>3 DEF TotalsInv
    <3>2. DOMAIN visits = {}
      BY <3>1
    <3>3. QED
      BY <2>1, <3>1, <3>2, SumEmpty DEF TotalOf
  <2>4. QED
    BY <2>2, <2>3
<1>3. QED
  BY InitType, NextType, NextTotals, <1>1, <1>2, PTL DEF Spec
===============================================================================
