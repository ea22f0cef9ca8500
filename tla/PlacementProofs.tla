-------------------------- MODULE PlacementProofs --------------------------
(***************************************************************************)
(* Proofs about Placement for any number of environments and rules, any    *)
(* figures and any orders of the maps.                                     *)
(*                                                                         *)
(* The algorithm consists of loops: filterByConstraints over the           *)
(* environments, scoreAndSelect over the candidates, Place over the rules. *)
(* What a loop computes is proved by a least counterexample: if it were    *)
(* wrong in some round, then in a first one (LeastNumber).  From Answers,  *)
(* which says without a loop what comes out, the properties follow by the  *)
(* arithmetic of the scores.                                               *)
(***************************************************************************)
EXTENDS Placement, FiniteSetTheorems, WellFoundedInduction, TLAPS

-----------------------------------------------------------------------------
(* Loops.                                                                  *)

(* The least number principle, which stands in for induction here.         *)
LEMMA LeastNumber ==
    ASSUME NEW S, S \subseteq Nat, S # {}
    PROVE  \E n \in S : \A m \in S : n <= m
<1> DEFINE R == {ss \in Nat \X Nat : ss[1] < ss[2]}
<1>1. IsWellFoundedOn(R, Nat)
  BY NatLessThanWellFounded DEF OpToRel
<1>2. \A x, y \in Nat : x < y => <<x, y>> \in R
  OBVIOUS
<1> HIDE DEF R
<1>3. PICK x \in S : \A y \in S : <<y, x>> \notin R
  BY <1>1, WFMin
<1>4. \A y \in S : ~(y < x)
  BY <1>2, <1>3
<1>5. \A y \in S : x <= y
  BY <1>4
<1> QED BY <1>5

(* The results, round by round, of a loop over the indices from m to n.    *)
Terminates(m, n, V, base, step) ==
    \E f \in [m..n -> V] :
      \A i \in m..n : f[i] = IF i = m THEN base ELSE step[<<i, f[i - 1]>>]

(* A loop over the indices from m to n has a result in every round.        *)
LEMMA LoopExists ==
    ASSUME NEW m \in Nat, NEW n \in Nat, NEW V, NEW base \in V, NEW step \in [Nat \X V -> V]
    PROVE  Terminates(m, n, V, base, step)
<1> DEFINE Solves(f, k) == /\ f \in [m..k -> V]
                           /\ \A i \in m..k : f[i] = IF i = m THEN base ELSE step[<<i, f[i - 1]>>]
           T == {k \in Nat : ~ \E f : Solves(f, k)}
<1>1. T = {}
  <2> SUFFICES ASSUME T # {} PROVE FALSE
    OBVIOUS
  <2>1. PICK k \in T : \A j \in T : k <= j
    BY LeastNumber
  <2>2. CASE k <= m
    <3>1. Solves([i \in m..k |-> base], k)
      BY <2>2
    <3> QED BY <3>1
  <2>3. CASE k > m
    <3>1. k - 1 \in Nat /\ k - 1 \notin T
      BY <2>1, <2>3
    <3>2. PICK f : Solves(f, k - 1)
      BY <3>1
    <3> DEFINE g == [i \in m..k |-> IF i = k THEN step[<<k, f[k - 1]>>] ELSE f[i]]
    <3>3. f[k - 1] \in V
      BY <2>3, <3>2
    <3>4. g \in [m..k -> V]
      BY <2>3, <3>2, <3>3
    <3>5. /\ \A j \in m..(k - 1) : g[j] = f[j]
          /\ g[k] = step[<<k, f[k - 1]>>] /\ g[k - 1] = f[k - 1]
      BY <2>3
    <3> HIDE DEF g
    <3>6. ASSUME NEW i \in m..k PROVE g[i] = IF i = m THEN base ELSE step[<<i, g[i - 1]>>]
      <4>1. CASE i = k
        BY <2>3, <3>5, <4>1
      <4>2. CASE i # k
        <5>1. i \in m..(k - 1) /\ (i # m => i - 1 \in m..(k - 1))
          BY <4>2
        <5> QED BY <3>2, <3>5, <5>1
      <4> QED BY <4>1, <4>2
    <3>7. Solves(g, k)
      BY <3>4, <3>6
    <3> QED BY <3>7
  <2> QED BY <2>2, <2>3
<1>2. PICK f : Solves(f, n)
  BY <1>1
<1> QED BY <1>2 DEF Terminates

(* A sequence that enumerates a finite set leaves nothing out.             *)
LEMMA Enumeration ==
    ASSUME NEW S, IsFiniteSet(S), NEW s \in SetToSeqs(S)
    PROVE  /\ s \in Seq(S) /\ DOMAIN s = 1..Len(s)
           /\ \A x \in S : \E i \in DOMAIN s : s[i] = x
           /\ s = <<>> <=> S = {}
<1> DEFINE n == Cardinality(S)
<1>1. n \in Nat
  BY FS_CardinalityType
<1>2. s \in [1..n -> S] /\ \A i, j \in 1..n : i # j => s[i] # s[j]
  BY DEF SetToSeqs
<1>3. s \in Injection(1..n, S)
  BY <1>2, Zenon DEF Injection, IsInjective
<1>4. Cardinality(1..n) = n
  BY <1>1, FS_Interval
<1>5. s \in Surjection(1..n, S)
  BY <1>3, <1>4, FS_Injection
<1>6. \A x \in S : \E i \in 1..n : s[i] = x
  BY <1>5 DEF Surjection
<1>7. s \in Seq(S) /\ Len(s) = n /\ DOMAIN s = 1..n
  BY <1>1, <1>2
<1>8. n = 0 <=> S = {}
  BY FS_EmptySet
<1> QED BY <1>1, <1>6, <1>7, <1>8

-----------------------------------------------------------------------------
(* The algorithm.                                                          *)

(* The candidates are the environments that qualify, all of them.          *)
LEMMA Candidates ==
    ASSUME NEW S, NEW envs \in Seq(S), NEW t, NEW constraints
    PROVE  LET c == FilterByConstraints(t, constraints, envs) IN
           /\ c \in Seq(S)
           /\ \A i \in DOMAIN c : Eligible(t, constraints, c[i])
           /\ \A j \in DOMAIN envs :
                Eligible(t, constraints, envs[j]) => \E i \in DOMAIN c : c[i] = envs[j]
<1> DEFINE n == Len(envs)
           Body(h) == [i \in 0..n |->
                         IF i = 0 THEN <<>>
                         ELSE IF Eligible(t, constraints, envs[i]) THEN Append(h[i - 1], envs[i])
                         ELSE h[i - 1]]
           result == CHOOSE h : h = Body(h)
           Good(i) == /\ result[i] \in Seq(S)
                      /\ \A j \in DOMAIN result[i] : Eligible(t, constraints, result[i][j])
                      /\ \A j \in 1..i : Eligible(t, constraints, envs[j]) =>
                           \E l \in DOMAIN result[i] : result[i][l] = envs[j]
           T == {i \in 0..n : ~Good(i)}
<1>1. n \in Nat /\ DOMAIN envs = 1..n /\ \A i \in 1..n : envs[i] \in S
  OBVIOUS
<1>2. \E h : h = Body(h)
  <2> DEFINE step == [p \in Nat \X Seq(S) |->
                        IF p[1] \in 1..n /\ Eligible(t, constraints, envs[p[1]])
                        THEN Append(p[2], envs[p[1]]) ELSE p[2]]
  <2>1. step \in [Nat \X Seq(S) -> Seq(S)]
    BY <1>1
  <2>2. \A i \in 1..n, s \in Seq(S) :
          step[<<i, s>>] = IF Eligible(t, constraints, envs[i]) THEN Append(s, envs[i]) ELSE s
    BY <1>1
  <2> DEFINE V == Seq(S)
             base == <<>>
  <2>a. base \in V /\ step \in [Nat \X V -> V]
    BY <2>1
  <2> HIDE DEF step, V, base
  <2>3. PICK f \in [0..n -> V] :
          \A i \in 0..n : f[i] = IF i = 0 THEN base ELSE step[<<i, f[i - 1]>>]
    <3>1. Terminates(0, n, V, base, step)
      BY <1>1, <2>a, LoopExists
    <3> QED BY <3>1 DEF Terminates
  <2>4. ASSUME NEW i \in 1..n
        PROVE  f[i] = IF Eligible(t, constraints, envs[i]) THEN Append(f[i - 1], envs[i])
                      ELSE f[i - 1]
    <3>1. i \in 0..n /\ i # 0 /\ i - 1 \in 0..n
      BY <1>1
    <3>2. f[i - 1] \in Seq(S)
      BY <2>3, <3>1 DEF V
    <3>3. f[i] = step[<<i, f[i - 1]>>]
      BY <2>3, <3>1
    <3> QED BY <2>2, <3>2, <3>3
  <2>4a. f[0] = <<>>
    BY <1>1, <2>3 DEF base
  <2>5. f = Body(f)
    <3>1. \A i \in 0..n : f[i] = Body(f)[i]
      BY <1>1, <2>4, <2>4a
    <3> QED BY <2>3, <3>1
  <2> QED BY <2>5
<1>3. result = Body(result)
  BY <1>2
<1>4. FilterByConstraints(t, constraints, envs) = result[n]
  BY DEF FilterByConstraints
<1> HIDE DEF result
<1>5. /\ result[0] = <<>>
      /\ \A i \in 1..n : result[i] = IF Eligible(t, constraints, envs[i])
                                     THEN Append(result[i - 1], envs[i]) ELSE result[i - 1]
  <2>1. \A i \in 0..n : result[i] = Body(result)[i]
    BY <1>3
  <2>2. \A i \in 1..n : i \in 0..n /\ i # 0
    BY <1>1
  <2>3. 0 \in 0..n
    BY <1>1
  <2> QED BY <2>1, <2>2, <2>3
<1>6. T = {}
  <2> SUFFICES ASSUME T # {} PROVE FALSE
    OBVIOUS
  <2>0. T \subseteq Nat
    BY <1>1
  <2>1. PICK k \in T : \A j \in T : k <= j
    <3> HIDE DEF T
    <3> QED BY <2>0, LeastNumber
  <2>2. k # 0
    <3>1. Good(0)
      BY <1>5
    <3> QED BY <2>1, <3>1
  <2>3. k - 1 \in 0..n /\ k \in 1..n /\ Good(k - 1)
    <3>1. k \in 0..n
      BY <2>1
    <3>2. k - 1 \in 0..n /\ k \in 1..n /\ k - 1 < k
      BY <1>1, <2>2, <3>1
    <3>3. k - 1 \notin T
      <4> HIDE DEF T
      <4> QED BY <2>1, <3>1, <3>2
    <3> QED BY <3>2, <3>3
  <2>4. CASE ~Eligible(t, constraints, envs[k])
    <3>1. result[k] = result[k - 1]
      BY <1>5, <2>3, <2>4
    <3>2. Good(k)
      BY <2>3, <2>4, <3>1
    <3> QED BY <2>1, <3>2
  <2>5. CASE Eligible(t, constraints, envs[k])
    <3> DEFINE r == result[k - 1]
               q == result[k]
    <3>1. q = Append(r, envs[k]) /\ r \in Seq(S) /\ envs[k] \in S
      BY <1>1, <1>5, <2>3, <2>5
    <3>2. /\ q \in Seq(S) /\ DOMAIN q = 1..(Len(r) + 1) /\ DOMAIN r = 1..Len(r) /\ Len(r) \in Nat
          /\ \A i \in 1..Len(r) : q[i] = r[i]
          /\ q[Len(r) + 1] = envs[k]
      BY <3>1
    <3>3. \A j \in DOMAIN r : Eligible(t, constraints, r[j])
      BY <2>3
    <3>4. \A j \in 1..(k - 1) : Eligible(t, constraints, envs[j]) => \E l \in DOMAIN r : r[l] = envs[j]
      BY <2>3
    <3> HIDE DEF r, q
    <3>5. \A j \in DOMAIN q : Eligible(t, constraints, q[j])
      BY <2>5, <3>2, <3>3
    <3>6. ASSUME NEW j \in 1..k, Eligible(t, constraints, envs[j]) PROVE \E l \in DOMAIN q : q[l] = envs[j]
      <4>1. CASE j = k
        BY <3>2, <4>1
      <4>2. CASE j # k
        <5>1. j \in 1..(k - 1)
          BY <2>3, <4>2
        <5> QED BY <3>2, <3>4, <3>6, <5>1
      <4> QED BY <4>1, <4>2
    <3>7. Good(k)
      BY <3>2, <3>5, <3>6 DEF q
    <3> QED BY <2>1, <3>7
  <2> QED BY <2>4, <2>5
<1>7. Good(n)
  BY <1>1, <1>6
<1> QED BY <1>1, <1>4, <1>7

-----------------------------------------------------------------------------
(* Scores.                                                                 *)

Fraction == Nat \X (Nat \ {0})

(* A product that is compared keeps its order when a factor is dropped.    *)
LEMMA Cancel ==
    ASSUME NEW x \in Int, NEW y \in Int, NEW k \in Nat \ {0}
    PROVE  /\ x * k <= y * k => x <= y
           /\ k * x <= k * y => x <= y
<1>1. ASSUME y < x PROVE y * k < x * k
  BY <1>1
<1>2. k * x = x * k /\ k * y = y * k
  OBVIOUS
<1> QED BY <1>1, <1>2

(* Fractions are compared transitively.                                    *)
LEMMA NotAboveTransitive ==
    ASSUME NEW x \in Fraction, NEW y \in Fraction, NEW z \in Fraction,
           ~Above(x, y), Above(z, y)
    PROVE  ~Above(x, z)
<1>1. /\ x[1] \in Nat /\ y[1] \in Nat /\ z[1] \in Nat
      /\ x[2] \in Nat \ {0} /\ y[2] \in Nat \ {0} /\ z[2] \in Nat \ {0}
  BY DEF Fraction
<1>2. x[1] * y[2] <= y[1] * x[2] /\ z[1] * y[2] > y[1] * z[2]
  BY <1>1 DEF Above
<1> DEFINE a == x[1]  b == x[2]  c == y[1]  d == y[2]  e == z[1]  g == z[2]
<1>3. (a * d) * g <= (c * b) * g
  BY <1>1, <1>2
<1>4. (c * g) * b <= (e * d) * b
  BY <1>1, <1>2
<1>5. /\ (a * d) * g = (a * g) * d /\ (c * b) * g = (c * g) * b /\ (e * d) * b = (e * b) * d
      /\ a * g \in Int /\ e * b \in Int
  BY <1>1
<1>6. (a * g) * d <= (e * b) * d
  BY <1>1, <1>3, <1>4, <1>5
<1>7. a * g <= e * b
  BY <1>1, <1>5, <1>6, Cancel
<1> QED BY <1>1, <1>7 DEF Above

(* Nothing is above itself, and of two fractions one is not above.         *)
LEMMA AboveIsStrict ==
    ASSUME NEW x \in Fraction, NEW y \in Fraction
    PROVE  ~Above(x, x) /\ (Above(x, y) => ~Above(y, x))
<1>1. /\ x[1] \in Nat /\ y[1] \in Nat
      /\ x[2] \in Nat \ {0} /\ y[2] \in Nat \ {0}
  BY DEF Fraction
<1>2. x[1] * y[2] \in Int /\ y[1] * x[2] \in Int /\ x[1] * x[2] \in Int
  BY <1>1
<1> QED BY <1>2 DEF Above

(* The product of two denominators is one.                                 *)
LEMMA Denominators ==
    ASSUME NEW a \in Nat \ {0}, NEW b \in Nat \ {0}
    PROVE  a * b \in Nat \ {0}
<1>1. a * b \in Nat
  OBVIOUS
<1>2. 0 * b < a * b
  OBVIOUS
<1> QED BY <1>1, <1>2

(* Sums and quotients of scores are scores.                                *)
LEMMA ScoresAddUp ==
    ASSUME NEW x \in Fraction, NEW y \in Fraction, NEW k \in Nat \ {0}
    PROVE  Sum(x, y) \in Fraction /\ Over(x, k) \in Fraction
<1>1. /\ x[1] \in Nat /\ y[1] \in Nat
      /\ x[2] \in Nat \ {0} /\ y[2] \in Nat \ {0}
  BY DEF Fraction
<1>2. x[2] * y[2] \in Nat \ {0} /\ x[2] * k \in Nat \ {0}
  BY <1>1, Denominators
<1>3. x[1] * y[2] \in Nat /\ y[1] * x[2] \in Nat
  BY <1>1
<1>4. x[1] * y[2] + y[1] * x[2] \in Nat
  BY <1>3
<1> QED BY <1>1, <1>2, <1>4 DEF Sum, Over, Fraction

(* What is known of the numbers of an environment.                         *)
LEMMA Numbers ==
    ASSUME NEW info \in Info
    PROVE  /\ info.static.cost \in Nat /\ info.static.maxReplicas \in Nat
           /\ info.dynamic.cpu \in Nat /\ info.dynamic.memory \in Nat
           /\ info.dynamic.running \in Nat
           /\ info.static \in Static
           /\ CostUnit \in Nat \ {0} /\ FullCPU \in Nat \ {0} /\ FullMemory \in Nat \ {0}
<1>1. info.static \in Static /\ info.dynamic \in Dynamic
  BY PlacementAssumption DEF Info, NoLoad, Dynamic
<1> QED BY <1>1, PlacementAssumption DEF Static, Dynamic

(* Every environment has a score, whatever is compared.                    *)
LEMMA ScoreIsFraction ==
    ASSUME NEW info \in Info, NEW prefs
    PROVE  ComputeScore(prefs, info) \in Fraction
<1>1. Neutral \in Fraction
  BY DEF Neutral, Fraction
<1>2. ScoreCost(info) \in Fraction
  BY <1>1, Numbers DEF ScoreCost, Fraction
<1>3. ScoreAvailableResources(info) \in Fraction
  <2> DEFINE c == <<Least(info.dynamic.cpu, FullCPU), FullCPU>>
             m == <<Least(info.dynamic.memory, FullMemory), FullMemory>>
  <2>1. c \in Fraction /\ m \in Fraction
    BY Numbers DEF Least, Fraction
  <2>2. ScoreAvailableResources(info) = Neutral \/ ScoreAvailableResources(info) = Over(Sum(c, m), 2)
    BY DEF ScoreAvailableResources
  <2> HIDE DEF c, m
  <2>3. Sum(c, m) \in Fraction
    BY <2>1, ScoresAddUp
  <2>4. Over(Sum(c, m), 2) \in Fraction
    BY <2>3, ScoresAddUp
  <2> QED BY <1>1, <2>2, <2>4
<1>4. ScoreRunningResources(info) \in Fraction
  BY <1>1, Numbers DEF ScoreRunningResources, Least, Fraction
<1>5. Over(Sum(ScoreCost(info), ScoreAvailableResources(info)), 2) \in Fraction
  <2>1. Sum(ScoreCost(info), ScoreAvailableResources(info)) \in Fraction
    BY <1>2, <1>3, ScoresAddUp
  <2> QED BY <2>1, ScoresAddUp
<1> QED BY <1>2, <1>3, <1>4, <1>5 DEF ComputeScore

(* The loop over the candidates ends with one that none is above.          *)
LEMMA Best ==
    ASSUME NEW S, NEW candidates \in Seq(S), candidates # <<>>, NEW prefs,
           \A i \in DOMAIN candidates :
             ComputeScore(prefs, environments[candidates[i]]) \in Fraction
    PROVE  \E b \in DOMAIN candidates :
             /\ ScoreAndSelect(prefs, candidates) = candidates[b]
             /\ \A i \in DOMAIN candidates :
                  ~Above(ComputeScore(prefs, environments[candidates[i]]),
                         ComputeScore(prefs, environments[candidates[b]]))
<1> DEFINE n == Len(candidates)
           score(i) == ComputeScore(prefs, environments[candidates[i]])
           D == DOMAIN candidates
           Body(h) == [i \in D |->
                         IF i = 1 THEN 1
                         ELSE IF Above(score(i), score(h[i - 1])) THEN i ELSE h[i - 1]]
           best == CHOOSE h : h = Body(h)
<1>1. n \in Nat \ {0} /\ D = 1..n
  OBVIOUS
<1>2. ScoreAndSelect(prefs, candidates) = candidates[best[n]]
  BY DEF ScoreAndSelect
<1>3. \A i \in D : score(i) \in Fraction
  OBVIOUS
<1> HIDE DEF n, score, D
<1>4. \E h : h = Body(h)
  <2> DEFINE V == D
             base == 1
             step == [p \in Nat \X V |->
                        IF p[1] \in D /\ Above(score(p[1]), score(p[2])) THEN p[1] ELSE p[2]]
  <2>1. base \in V /\ step \in [Nat \X V -> V]
    BY <1>1
  <2>2. \A i \in D, v \in V : step[<<i, v>>] = IF Above(score(i), score(v)) THEN i ELSE v
    BY <1>1
  <2>3. 1 \in Nat /\ n \in Nat
    BY <1>1
  <2> HIDE DEF step, V, base
  <2>4. PICK f \in [1..n -> V] :
          \A i \in 1..n : f[i] = IF i = 1 THEN base ELSE step[<<i, f[i - 1]>>]
    <3>1. Terminates(1, n, V, base, step)
      BY <2>1, <2>3, LoopExists
    <3> QED BY <3>1 DEF Terminates
  <2>5. ASSUME NEW i \in D PROVE f[i] = Body(f)[i]
    <3>1. CASE i = 1
      BY <1>1, <2>4, <3>1 DEF base
    <3>2. CASE i # 1
      <4>1. i - 1 \in 1..n /\ i \in 1..n
        BY <1>1, <3>2
      <4>2. f[i - 1] \in V /\ f[i] = step[<<i, f[i - 1]>>]
        BY <2>4, <3>2, <4>1
      <4> QED BY <2>2, <3>2, <4>2
    <3> QED BY <3>1, <3>2
  <2>6. f = Body(f)
    BY <1>1, <2>4, <2>5
  <2> QED BY <2>6
<1>5. best = Body(best)
  BY <1>4
<1> HIDE DEF best
<1>6. /\ best[1] = 1
      /\ \A i \in 2..n : best[i] = IF Above(score(i), score(best[i - 1])) THEN i ELSE best[i - 1]
  <2>1. \A i \in D : best[i] = Body(best)[i]
    BY <1>5
  <2>2. 1 \in D /\ \A i \in 2..n : i \in D /\ i # 1
    BY <1>1
  <2> QED BY <2>1, <2>2
<1> DEFINE Good(i) == best[i] \in 1..i /\ \A j \in 1..i : ~Above(score(j), score(best[i]))
           T == {i \in 1..n : ~Good(i)}
<1>7. T = {}
  <2> SUFFICES ASSUME T # {} PROVE FALSE
    OBVIOUS
  <2>0. T \subseteq Nat
    BY <1>1
  <2>1. PICK k \in T : \A j \in T : k <= j
    <3> HIDE DEF T
    <3> QED BY <2>0, LeastNumber
  <2>2. Good(1)
    BY <1>1, <1>3, <1>6, AboveIsStrict
  <2>3. k \in 1..n /\ ~Good(k)
    BY <2>1
  <2>4. k \in 2..n /\ k - 1 \in 1..n /\ k - 1 < k
    <3> HIDE DEF Good
    <3> QED BY <1>1, <2>2, <2>3
  <2>5. Good(k - 1)
    <3>1. k - 1 \notin T
      <4> HIDE DEF T
      <4> QED BY <2>1, <2>3, <2>4
    <3> QED BY <2>4, <3>1
  <2> DEFINE b == best[k - 1]
             c == best[k]
  <2>6. c = IF Above(score(k), score(b)) THEN k ELSE b
    BY <1>6, <2>4
  <2>7. b \in 1..(k - 1) /\ \A j \in 1..(k - 1) : ~Above(score(j), score(b))
    BY <2>5
  <2>8. c \in 1..k /\ ~ (\A j \in 1..k : ~Above(score(j), score(c)))
    <3>1. c \in 1..k
      <4> HIDE DEF b, c
      <4> QED BY <2>4, <2>6, <2>7
    <3> QED BY <2>3, <3>1
  <2> HIDE DEF b, c
  <2>9. PICK j \in 1..k : Above(score(j), score(c))
    BY <2>8
  <2>10. j \in D /\ k \in D /\ b \in D /\ (j = k \/ j \in 1..(k - 1))
    BY <1>1, <2>4, <2>7
  <2>11. score(j) \in Fraction /\ score(k) \in Fraction /\ score(b) \in Fraction
    BY <1>3, <2>10
  <2>12. CASE Above(score(k), score(b))
    <3>1. c = k
      BY <2>6, <2>12
    <3>2. j # k
      BY <2>9, <2>11, <3>1, AboveIsStrict
    <3>3. ~Above(score(j), score(b))
      BY <2>7, <2>10, <3>2
    <3>4. ~Above(score(j), score(k))
      BY <2>11, <2>12, <3>3, NotAboveTransitive
    <3> QED BY <2>9, <3>1, <3>4
  <2>13. CASE ~Above(score(k), score(b))
    <3>1. c = b
      BY <2>6, <2>13
    <3> QED BY <2>7, <2>9, <2>10, <2>13, <3>1
  <2> QED BY <2>12, <2>13
<1>8. Good(n)
  <2>1. n \in 1..n
    BY <1>1
  <2> QED BY <1>7, <2>1
<1>9. best[n] \in D /\ \A i \in D : ~Above(score(i), score(best[n]))
  BY <1>1, <1>8
<1> QED BY <1>2, <1>9 DEF score, D

-----------------------------------------------------------------------------
(* The registry.                                                           *)

(* The types, and that finitely many environments and rules exist: their   *)
(* enumerations are then sequences.                                        *)
RegistryInv ==
    /\ TypeOK
    /\ IsFiniteSet(DOMAIN environments) /\ IsFiniteSet(DOMAIN rules)

(* The registry is empty at the start.                                     *)
LEMMA RegistryInit == Init => RegistryInv
BY FS_EmptySet DEF Init, RegistryInv, TypeOK

(* An entry that is added or replaced, and one that is removed.            *)
LEMMA Entries ==
    ASSUME NEW f, NEW x, NEW y, NEW S, NEW V, IsFiniteSet(DOMAIN f),
           DOMAIN f \subseteq S, \A z \in DOMAIN f : f[z] \in V
    PROVE  /\ x \in S /\ y \in V =>
                /\ DOMAIN With(f, x, y) \subseteq S /\ IsFiniteSet(DOMAIN With(f, x, y))
                /\ \A z \in DOMAIN With(f, x, y) : With(f, x, y)[z] \in V
           /\ DOMAIN Minus(f, x) \subseteq S /\ IsFiniteSet(DOMAIN Minus(f, x))
           /\ \A z \in DOMAIN Minus(f, x) : Minus(f, x)[z] \in V
<1>1. DOMAIN With(f, x, y) = DOMAIN f \cup {x} /\ DOMAIN Minus(f, x) = DOMAIN f \ {x}
  BY DEF With, Minus
<1>2. IsFiniteSet(DOMAIN f \cup {x}) /\ IsFiniteSet(DOMAIN f \ {x})
  BY FS_AddElement, FS_RemoveElement
<1> QED BY <1>1, <1>2 DEF With, Minus

(* Every operation of the registry keeps it so.                            *)
LEMMA RegistryNext == RegistryInv /\ [Next]_vars => RegistryInv'
<1> SUFFICES ASSUME RegistryInv, [Next]_vars PROVE RegistryInv'
  OBVIOUS
<1>0. /\ DOMAIN environments \subseteq Names /\ \A z \in DOMAIN environments : environments[z] \in Info
      /\ IsFiniteSet(DOMAIN environments)
      /\ DOMAIN rules \subseteq RuleNames /\ \A z \in DOMAIN rules : rules[z] \in RuleBodies
      /\ IsFiniteSet(DOMAIN rules)
      /\ watched \subseteq Names
  BY DEF RegistryInv, TypeOK
<1>1. ASSUME NEW n \in Names, NEW static \in Statics, Register(n, static) PROVE RegistryInv'
  <2>1. [static |-> static, dynamic |-> NoLoad] \in Info
    BY DEF Info
  <2> QED BY <1>0, <1>1, <2>1, Entries DEF Register, RegistryInv, TypeOK
<1>2. ASSUME NEW n \in Names, NEW dynamic \in Dynamics, Heartbeat(n, dynamic) PROVE RegistryInv'
  <2>1. environments[n] \in Info
    BY <1>0, <1>2 DEF Heartbeat
  <2>2. [environments[n] EXCEPT !.dynamic = dynamic] \in Info
    BY <2>1 DEF Info
  <2>3. /\ DOMAIN environments' = DOMAIN environments
        /\ \A z \in DOMAIN environments' : environments'[z] \in Info
    BY <1>0, <1>2, <2>2 DEF Heartbeat
  <2> QED BY <1>0, <1>2, <2>3 DEF Heartbeat, RegistryInv, TypeOK
<1>3. ASSUME NEW n \in Names, Unregister(n) PROVE RegistryInv'
  BY <1>0, <1>3, Entries DEF Unregister, RegistryInv, TypeOK
<1>4. ASSUME NEW n \in Names, Watch(n) \/ WatchEnds(n) PROVE RegistryInv'
  BY <1>0, <1>4 DEF Watch, WatchEnds, RegistryInv, TypeOK
<1>5. ASSUME NEW r \in RuleNames, NEW body \in RuleBodies, PutRule(r, body) PROVE RegistryInv'
  BY <1>0, <1>5, Entries DEF PutRule, RegistryInv, TypeOK
<1>6. ASSUME NEW r \in RuleNames, DeleteRule(r) PROVE RegistryInv'
  BY <1>0, <1>6, Entries DEF DeleteRule, RegistryInv, TypeOK
<1>7. CASE UNCHANGED vars
  BY <1>0, <1>7 DEF vars, RegistryInv, TypeOK
<1> QED BY <1>1, <1>2, <1>3, <1>4, <1>5, <1>6, <1>7 DEF Next

(* The registry of pkg/grpcapi/server.go is finite in every state.         *)
THEOREM RegistryInvariance == Spec => []RegistryInv
BY RegistryInit, RegistryNext, PTL DEF Spec

(* Whatever agents register and report, and whatever rules are stored, the *)
(* registry holds what its types say (pkg/grpcapi/server.go).              *)
THEOREM TypeCorrect == Spec => []TypeOK
<1>1. RegistryInv => TypeOK
  BY DEF RegistryInv
<1> QED BY <1>1, RegistryInvariance, PTL

-----------------------------------------------------------------------------
(* What Place answers.                                                     *)

(* The answer that candidates give: the best of all that qualify, or a     *)
(* failure if none does.                                                   *)
Answers(a, t, prefs, constraints, rule) ==
    LET qualified == {n \in DOMAIN environments : Eligible(t, constraints, n)} IN
    /\ a.failed \in BOOLEAN
    /\ a.failed => a = Failed /\ qualified = {}
    /\ ~a.failed =>
         /\ a.rule = rule /\ a.env \in qualified
         /\ \A n \in qualified : ~Above(ComputeScore(prefs, environments[n]),
                                        ComputeScore(prefs, environments[a.env]))

(* Filtering the environments and selecting by score is exactly that, in   *)
(* whatever order the environments come.                                   *)
LEMMA ChosenAnswers ==
    ASSUME RegistryInv, NEW envs \in GetEnvironments,
           NEW t, NEW prefs, NEW constraints, NEW rule
    PROVE  Answers(Chosen(prefs, FilterByConstraints(t, constraints, envs), rule),
                   t, prefs, constraints, rule)
<1> DEFINE S == DOMAIN environments
           c == FilterByConstraints(t, constraints, envs)
           a == Chosen(prefs, c, rule)
           score(n) == ComputeScore(prefs, environments[n])
<1>1. IsFiniteSet(S) /\ \A n \in S : environments[n] \in Info
  BY DEF RegistryInv, TypeOK
<1>2. envs \in Seq(S) /\ \A x \in S : \E i \in DOMAIN envs : envs[i] = x
  BY <1>1, Enumeration DEF GetEnvironments
<1>3. /\ c \in Seq(S)
      /\ \A i \in DOMAIN c : Eligible(t, constraints, c[i])
      /\ \A j \in DOMAIN envs : Eligible(t, constraints, envs[j]) => \E i \in DOMAIN c : c[i] = envs[j]
  BY <1>2, Candidates
<1> HIDE DEF c, S
<1>4. \A n \in S : Eligible(t, constraints, n) => \E i \in DOMAIN c : c[i] = n
  BY <1>2, <1>3
<1>5. CASE c = <<>>
  <2>1. \A n \in S : ~Eligible(t, constraints, n)
    BY <1>4, <1>5
  <2>2. a = Failed
    BY <1>5 DEF Chosen
  <2> QED BY <2>1, <2>2 DEF Answers, Failed, S, c
<1>6. CASE c # <<>>
  <2>1. \A i \in DOMAIN c : c[i] \in S
    BY <1>3
  <2>2. \A i \in DOMAIN c : score(c[i]) \in Fraction
    BY <1>1, <2>1, ScoreIsFraction
  <2>3. PICK b \in DOMAIN c : /\ ScoreAndSelect(prefs, c) = c[b]
                              /\ \A i \in DOMAIN c : ~Above(score(c[i]), score(c[b]))
    BY <1>3, <1>6, <2>2, Best
  <2>4. a.failed = FALSE /\ a.rule = rule /\ a.env = c[b]
    BY <1>6, <2>3 DEF Chosen
  <2>5. a.env \in S /\ Eligible(t, constraints, a.env)
    BY <1>3, <2>1, <2>4
  <2>6. \A n \in S : Eligible(t, constraints, n) => ~Above(score(n), score(a.env))
    BY <1>4, <2>3, <2>4
  <2> QED BY <2>4, <2>5, <2>6 DEF Answers, S, c
<1> QED BY <1>5, <1>6

(* The rules are tried from the highest priority down, each of them.       *)
LEMMA MatchingRules ==
    ASSUME RegistryInv, NEW t, NEW matching \in FindMatchingRules(t)
    PROVE  /\ matching \in Seq(Governing(t)) /\ DOMAIN matching = 1..Len(matching)
           /\ \A r \in Governing(t) : \E i \in DOMAIN matching : matching[i] = r
           /\ matching = <<>> <=> Governing(t) = {}
           /\ \A i, j \in DOMAIN matching :
                i < j => rules[matching[i]].priority >= rules[matching[j]].priority
<1>1. Governing(t) = {r \in DOMAIN rules : EqualFold(rules[r].type, t)}
  BY DEF Governing, EqualFold
<1>2. Governing(t) \subseteq DOMAIN rules /\ IsFiniteSet(DOMAIN rules)
  BY DEF Governing, RegistryInv
<1>3. IsFiniteSet(Governing(t))
  BY <1>2, FS_Subset
<1>4. /\ matching \in SetToSeqs(Governing(t))
      /\ \A i, j \in DOMAIN matching :
           i < j => rules[matching[i]].priority >= rules[matching[j]].priority
  BY <1>1 DEF FindMatchingRules
<1> QED BY <1>3, <1>4, Enumeration

(* The first success is one, with none before it.                          *)
LEMMA FirstSuccess ==
    ASSUME NEW T, T \subseteq Nat, T # {}
    PROVE  Min(T) \in T /\ \A i \in T : Min(T) <= i
<1>1. \E x \in T : \A y \in T : x <= y
  BY LeastNumber
<1> QED BY <1>1 DEF Min

(* What the algorithm says of an environment, and what a rule means.       *)
LEMMA EligibleIsMeets ==
    ASSUME RegistryInv, NEW t, NEW r \in DOMAIN rules, NEW n
    PROVE  Eligible(t, rules[r], n) <=> Meets(n, t, r)
BY DEF Eligible, Meets

(* Place answers by the rule of highest priority that somebody meets, by   *)
(* the fallback if there is no rule, and otherwise fails.                  *)
LEMMA PlaceAnswers ==
    ASSUME RegistryInv, NEW t, NEW a \in Outcomes(t)
    PROVE  \/ Governing(t) = {} /\ Answers(a, t, NoPreferences, NoConstraints, NoRule)
           \/ /\ Governing(t) # {} /\ a = Failed
              /\ \A r \in Governing(t), n \in DOMAIN environments : ~Meets(n, t, r)
           \/ \E r \in Governing(t) :
                /\ Answers(a, t, rules[r], rules[r], r) /\ ~a.failed
                /\ \A q \in Governing(t) : rules[q].priority > rules[r].priority
                     => \A n \in DOMAIN environments : ~Meets(n, t, q)
<1>1. PICK matching \in FindMatchingRules(t), envs \in GetEnvironments : a = Place(t, matching, envs)
  BY DEF Outcomes
<1> DEFINE G == Governing(t)
           answer(i) == PlaceWithRule(t, matching[i], envs)
           successful == {i \in DOMAIN matching : ~answer(i).failed}
<1>2. /\ matching \in Seq(G) /\ DOMAIN matching = 1..Len(matching)
      /\ \A r \in G : \E i \in DOMAIN matching : matching[i] = r
      /\ matching = <<>> <=> G = {}
      /\ \A i, j \in DOMAIN matching :
           i < j => rules[matching[i]].priority >= rules[matching[j]].priority
  BY MatchingRules
<1>3. G \subseteq DOMAIN rules /\ \A r \in G : rules[r].priority \in Int
  <2>1. G \subseteq DOMAIN rules /\ \A r \in DOMAIN rules : rules[r] \in RuleBodies
    BY DEF Governing, RegistryInv, TypeOK
  <2>2. \A b \in RuleBodies : b \in Rule
    BY PlacementAssumption
  <2> QED BY <2>1, <2>2 DEF Rule
<1>4. a = IF matching = <<>> THEN PlaceFallback(t, envs)
          ELSE IF successful = {} THEN Failed ELSE answer(Min(successful))
  BY <1>1 DEF Place
<1>5. \A i \in DOMAIN matching : matching[i] \in G /\ Answers(answer(i), t, rules[matching[i]], rules[matching[i]], matching[i])
  <2>1. \A i \in DOMAIN matching : matching[i] \in G
    BY <1>2
  <2> QED BY <2>1, ChosenAnswers DEF PlaceWithRule
<1> HIDE DEF G, answer
<1>6. ASSUME NEW i \in DOMAIN matching, i \notin successful
      PROVE  \A n \in DOMAIN environments : ~Meets(n, t, matching[i])
  <2>1. answer(i).failed
    BY <1>6
  <2>2. \A n \in DOMAIN environments : ~Eligible(t, rules[matching[i]], n)
    BY <1>5, <2>1 DEF Answers
  <2>3. matching[i] \in DOMAIN rules
    BY <1>3, <1>5
  <2> QED BY <2>2, <2>3, EligibleIsMeets
<1>7. CASE matching = <<>>
  <2>1. a = PlaceFallback(t, envs)
    BY <1>4, <1>7
  <2>2. Answers(a, t, NoPreferences, NoConstraints, NoRule)
    BY <2>1, ChosenAnswers DEF PlaceFallback
  <2> QED BY <1>2, <1>7, <2>2 DEF G
<1>8. CASE matching # <<>> /\ successful = {}
  <2>1. a = Failed /\ G # {}
    BY <1>2, <1>4, <1>8
  <2>2. \A r \in G, n \in DOMAIN environments : ~Meets(n, t, r)
    <3> HIDE DEF successful
    <3> QED BY <1>2, <1>6, <1>8
  <2> QED BY <2>1, <2>2 DEF G
<1>9. CASE matching # <<>> /\ successful # {}
  <2> DEFINE m == Min(successful)
  <2>1. successful \subseteq Nat
    BY <1>2
  <2> HIDE DEF successful
  <2>2. m \in successful /\ \A i \in successful : m <= i
    BY <1>9, <2>1, FirstSuccess
  <2> HIDE DEF m
  <2>3. m \in DOMAIN matching /\ ~answer(m).failed
    BY <2>2 DEF successful
  <2>4. a = answer(m)
    BY <1>4, <1>9 DEF m
  <2> DEFINE r == matching[m]
  <2>5. r \in G /\ Answers(a, t, rules[r], rules[r], r) /\ ~a.failed
    BY <1>5, <2>3, <2>4
  <2>6. ASSUME NEW q \in G, rules[q].priority > rules[r].priority
        PROVE  \A n \in DOMAIN environments : ~Meets(n, t, q)
    <3>1. PICK i \in DOMAIN matching : matching[i] = q
      BY <1>2
    <3>2. rules[q].priority \in Int /\ rules[r].priority \in Int
      BY <1>3, <2>5
    <3>3. i < m
      <4>1. ~(m < i) /\ i # m
        BY <1>2, <2>3, <2>6, <3>1, <3>2
      <4> QED BY <1>2, <2>3, <4>1
    <3>4. i \notin successful
      BY <1>2, <2>1, <2>2, <3>3
    <3> QED BY <1>6, <3>1, <3>4
  <2> QED BY <2>5, <2>6 DEF G
<1> QED BY <1>7, <1>8, <1>9

(* The dispatcher's placement (pkg/placement/engine.go) obeys the rules.   *)
THEOREM PlacementObeysTheRules == Spec => []PlacedByTheRules
<1>1. ASSUME RegistryInv PROVE PlacedByTheRules
  <2> SUFFICES ASSUME NEW t \in Types, NEW a \in Outcomes(t), ~a.failed
               PROVE  /\ a.env \in watched \cap DOMAIN environments
                      /\ t \in environments[a.env].static.recipes
                      /\ IF a.rule = NoRule THEN Governing(t) = {}
                         ELSE /\ a.rule \in Governing(t) /\ Meets(a.env, t, a.rule)
                              /\ \A r \in Governing(t) :
                                   rules[r].priority > rules[a.rule].priority
                                     => \A n \in DOMAIN environments : ~Meets(n, t, r)
    BY DEF PlacedByTheRules
  <2>1. CASE Governing(t) = {} /\ Answers(a, t, NoPreferences, NoConstraints, NoRule)
    BY <2>1 DEF Answers, Eligible
  <2>2. ASSUME NEW r \in Governing(t), Answers(a, t, rules[r], rules[r], r),
               \A q \in Governing(t) : rules[q].priority > rules[r].priority
                  => \A n \in DOMAIN environments : ~Meets(n, t, q)
        PROVE  /\ a.env \in watched \cap DOMAIN environments
               /\ t \in environments[a.env].static.recipes
               /\ a.rule # NoRule
               /\ a.rule \in Governing(t) /\ Meets(a.env, t, a.rule)
               /\ \A q \in Governing(t) :
                    rules[q].priority > rules[a.rule].priority
                      => \A n \in DOMAIN environments : ~Meets(n, t, q)
    <3>1. a.rule = r /\ a.env \in DOMAIN environments /\ Eligible(t, rules[r], a.env)
      BY <2>2 DEF Answers
    <3>2. r \in DOMAIN rules /\ r # NoRule
      BY <1>1, PlacementAssumption DEF Governing, RegistryInv, TypeOK
    <3>3. Meets(a.env, t, r)
      BY <1>1, <3>1, <3>2, EligibleIsMeets
    <3> QED BY <2>2, <3>1, <3>2, <3>3 DEF Eligible
  <2>3. a # Failed
    BY DEF Failed
  <2> QED BY <1>1, <2>1, <2>2, <2>3, PlaceAnswers
<1> QED BY <1>1, RegistryInvariance, PTL

(* A resource is refused for want of an environment exactly if nobody can  *)
(* be chosen; if rules govern its type and none can be met, that is so     *)
(* whatever environments there are (pkg/placement/engine.go).              *)
THEOREM PlacementFailsWithoutFallback == Spec => []FailsWithoutFallback
<1>1. ASSUME RegistryInv PROVE FailsWithoutFallback
  <2> SUFFICES ASSUME NEW t \in Types, NEW a \in Outcomes(t)
               PROVE  a.failed <=> ~CanBePlaced(t)
    BY DEF FailsWithoutFallback
  <2>1. CASE Governing(t) = {} /\ Answers(a, t, NoPreferences, NoConstraints, NoRule)
    <3>1. \A n : Eligible(t, NoConstraints, n)
                  <=> n \in watched /\ t \in environments[n].static.recipes
      BY DEF Eligible, NoConstraints
    <3>2. CanBePlaced(t) <=> \E n \in DOMAIN environments : Eligible(t, NoConstraints, n)
      BY <2>1, <3>1 DEF CanBePlaced
    <3> QED BY <2>1, <3>2 DEF Answers
  <2>2. CASE /\ Governing(t) # {} /\ a = Failed
             /\ \A r \in Governing(t), m \in DOMAIN environments : ~Meets(m, t, r)
    BY <2>2 DEF CanBePlaced, Failed
  <2>3. ASSUME NEW r \in Governing(t), Answers(a, t, rules[r], rules[r], r), ~a.failed
        PROVE  CanBePlaced(t)
    <3>1. a.env \in DOMAIN environments /\ Eligible(t, rules[r], a.env)
      BY <2>3 DEF Answers
    <3>2. r \in DOMAIN rules
      BY DEF Governing
    <3>3. Meets(a.env, t, r)
      BY <1>1, <3>1, <3>2, EligibleIsMeets
    <3> QED BY <3>1, <3>3 DEF CanBePlaced
  <2> QED BY <1>1, <2>1, <2>2, <2>3, PlaceAnswers
<1> QED BY <1>1, RegistryInvariance, PTL

(* Rules that minimize cost do (pkg/placement/scorer.go).                 *)
THEOREM PlacementMinimizesCost == Spec => []CostIsMinimized
<1>1. ASSUME RegistryInv PROVE CostIsMinimized
  <2> SUFFICES ASSUME NEW t \in Types, NEW a \in Outcomes(t),
                      ~a.failed, a.rule # NoRule, rules[a.rule].cheap, ~rules[a.rule].roomy,
                      NEW n \in DOMAIN environments,
                      Meets(n, t, a.rule), environments[n].static.cost > 0
               PROVE  IF environments[a.env].static.cost > 0
                      THEN environments[a.env].static.cost <= environments[n].static.cost
                      ELSE environments[n].static.cost >= CostUnit
    BY DEF CostIsMinimized
  <2> DEFINE prefs == rules[a.rule]
             cost == environments[n].static.cost
             paid == environments[a.env].static.cost
  <2>1. a # Failed
    BY DEF Failed
  <2>2. PICK r \in Governing(t) : Answers(a, t, rules[r], rules[r], r)
    <3>1. ~(Governing(t) = {} /\ Answers(a, t, NoPreferences, NoConstraints, NoRule))
      BY DEF Answers
    <3> QED BY <1>1, <2>1, <3>1, PlaceAnswers
  <2>3. a.rule = r /\ a.env \in DOMAIN environments /\ r \in DOMAIN rules
    BY <2>2 DEF Answers, Governing
  <2>4. Eligible(t, rules[r], n)
    BY <1>1, <2>3, EligibleIsMeets
  <2>5. ~Above(ComputeScore(prefs, environments[n]), ComputeScore(prefs, environments[a.env]))
    BY <2>2, <2>3, <2>4 DEF Answers
  <2>6. ~Above(ScoreCost(environments[n]), ScoreCost(environments[a.env]))
    BY <2>5 DEF ComputeScore
  <2>7. environments[n] \in Info /\ environments[a.env] \in Info
    BY <1>1, <2>3 DEF RegistryInv, TypeOK
  <2>8. cost \in Nat /\ paid \in Nat /\ CostUnit \in Nat \ {0}
    BY <2>7, Numbers
  <2>9. ScoreCost(environments[n]) = <<CostUnit, CostUnit + cost>>
    BY <2>8 DEF ScoreCost
  <2>10. CASE paid > 0
    <3>1. ScoreCost(environments[a.env]) = <<CostUnit, CostUnit + paid>>
      BY <2>8, <2>10 DEF ScoreCost
    <3>2. CostUnit * (CostUnit + paid) <= CostUnit * (CostUnit + cost)
      BY <2>6, <2>8, <2>9, <3>1 DEF Above
    <3>3. CostUnit + paid <= CostUnit + cost
      <4> DEFINE x == CostUnit + paid
                 y == CostUnit + cost
      <4>1. x \in Int /\ y \in Int
        BY <2>8
      <4> HIDE DEF x, y
      <4>2. CostUnit * x <= CostUnit * y
        BY <3>2 DEF x, y
      <4>3. x <= y
        BY <2>8, <4>1, <4>2, Cancel
      <4> QED BY <4>3 DEF x, y
    <3> QED BY <2>8, <2>10, <3>3
  <2>11. CASE ~(paid > 0)
    <3>1. ScoreCost(environments[a.env]) = Neutral
      BY <2>8, <2>11 DEF ScoreCost
    <3>2. ~(CostUnit * 2 > 1 * (CostUnit + cost))
      BY <2>6, <2>9, <3>1 DEF Above, Neutral
    <3> QED BY <2>8, <2>11, <3>2
  <2> QED BY <2>10, <2>11
<1> QED BY <1>1, RegistryInvariance, PTL

(* Without preferences the load decides (pkg/placement/scorer.go).        *)
THEOREM PlacementAvoidsFull == Spec => []FullIsTheLastChoice
<1> DEFINE Full(n) == /\ environments[n].static.maxReplicas > 0
                      /\ environments[n].dynamic.running >= environments[n].static.maxReplicas
<1>1. ASSUME RegistryInv PROVE FullIsTheLastChoice
  <2> SUFFICES ASSUME NEW t \in Types, NEW a \in Outcomes(t),
                      ~a.failed, a.rule = NoRule, Full(a.env),
                      NEW n \in DOMAIN environments \cap watched,
                      t \in environments[n].static.recipes
               PROVE  Full(n)
    BY DEF FullIsTheLastChoice
  <2> DEFINE score(m) == ScoreRunningResources(environments[m])
             max == environments[a.env].static.maxReplicas
             room == environments[n].static.maxReplicas
             running == environments[n].dynamic.running
  <2>1. a # Failed
    BY DEF Failed
  <2>2. Answers(a, t, NoPreferences, NoConstraints, NoRule)
    <3>1. ASSUME NEW r \in Governing(t), Answers(a, t, rules[r], rules[r], r) PROVE FALSE
      BY <1>1, <3>1, PlacementAssumption DEF Answers, Governing, RegistryInv, TypeOK
    <3> QED BY <1>1, <2>1, <3>1, PlaceAnswers
  <2>3. Eligible(t, NoConstraints, n) /\ a.env \in DOMAIN environments
    BY <2>2 DEF Eligible, NoConstraints, Answers
  <2>4. ~Above(score(n), score(a.env))
    <3>1. ~Above(ComputeScore(NoPreferences, environments[n]), ComputeScore(NoPreferences, environments[a.env]))
      BY <2>2, <2>3 DEF Answers
    <3> QED BY <3>1 DEF ComputeScore, NoPreferences
  <2>5. environments[n] \in Info /\ environments[a.env] \in Info
    BY <1>1, <2>3 DEF RegistryInv, TypeOK
  <2>6. /\ max \in Nat \ {0} /\ room \in Nat /\ running \in Nat
        /\ environments[a.env].dynamic.running \in Nat
        /\ environments[a.env].dynamic.running >= max
    BY <2>5, Numbers
  <2>7. score(a.env) = <<0, max>>
    BY <2>6 DEF ScoreRunningResources, Least
  <2>8. CASE room = 0
    <3>1. score(n) = Neutral
      BY <2>8 DEF ScoreRunningResources
    <3>2. ~(1 * max > 0 * 2)
      BY <2>4, <2>7, <3>1 DEF Above, Neutral
    <3> QED BY <2>6, <3>2
  <2>9. CASE room # 0 /\ running < room
    <3>1. score(n) = <<room - running, room>>
      BY <2>6, <2>9 DEF ScoreRunningResources, Least
    <3>2. ~((room - running) * max > 0 * room)
      BY <2>4, <2>7, <3>1 DEF Above
    <3>3. 0 * max < (room - running) * max
      <4>1. room - running \in Nat \ {0}
        BY <2>6, <2>9
      <4>2. (room - running) * max \in Nat \ {0}
        BY <2>6, <4>1, Denominators
      <4> QED BY <2>6, <4>2
    <3> QED BY <2>6, <3>2, <3>3
  <2> QED BY <2>6, <2>8, <2>9
<1> QED BY <1>1, RegistryInvariance, PTL

-----------------------------------------------------------------------------
(* There is an answer.                                                     *)

(* Of finitely many things one has the least number.                       *)
LEMMA LeastOfSet ==
    ASSUME NEW S, IsFiniteSet(S), NEW p \in [S -> Int]
    PROVE  \A U \in SUBSET S : U # {} => \E x \in U : \A y \in U : p[x] <= p[y]
<1> DEFINE HasLeast(U) == \E x \in U : \A y \in U : p[x] <= p[y]
           T == {k \in Nat : \E U \in SUBSET S : U # {} /\ Cardinality(U) = k /\ ~HasLeast(U)}
<1>1. \A U \in SUBSET S : IsFiniteSet(U) /\ Cardinality(U) \in Nat
  BY FS_Subset, FS_CardinalityType
<1>2. T = {}
  <2> SUFFICES ASSUME T # {} PROVE FALSE
    OBVIOUS
  <2>1. PICK k \in T : \A j \in T : k <= j
    BY LeastNumber
  <2>2. PICK U \in SUBSET S : U # {} /\ Cardinality(U) = k /\ ~HasLeast(U)
    BY <2>1
  <2>3. PICK z \in U : TRUE
    BY <2>2
  <2> DEFINE W == U \ {z}
  <2>4. Cardinality(W) = k - 1 /\ W \in SUBSET S /\ k - 1 \in Nat
    <3>1. Cardinality(W) = k - 1
      BY <1>1, <2>2, FS_RemoveElement
    <3> QED BY <1>1, <3>1
  <2>5. W # {}
    BY <2>2, <2>3
  <2>6. HasLeast(W)
    <3>1. k - 1 \notin T
      BY <2>1, <2>4
    <3> QED BY <2>4, <2>5, <3>1
  <2>7. PICK x \in W : \A y \in W : p[x] <= p[y]
    BY <2>6
  <2>8. \A y \in U : p[y] \in Int
    OBVIOUS
  <2>9. CASE p[x] <= p[z]
    <3>1. x \in U /\ \A y \in U : p[x] <= p[y]
      BY <2>7, <2>9
    <3> QED BY <2>2, <3>1
  <2>10. CASE p[z] <= p[x]
    <3>1. \A y \in U : p[z] <= p[y]
      BY <2>3, <2>7, <2>8, <2>10
    <3> QED BY <2>2, <2>3, <3>1
  <2> QED BY <2>3, <2>7, <2>8, <2>9, <2>10
<1> QED BY <1>1, <1>2

(* sort.Slice has a result.                                                *)
LEMMA Sorted ==
    ASSUME NEW S, IsFiniteSet(S), NEW p \in [S -> Int]
    PROVE  \E s \in SetToSeqs(S) : \A i, j \in DOMAIN s : i < j => p[s[i]] >= p[s[j]]
<1> DEFINE Descends(s) == \A i, j \in DOMAIN s : i < j => p[s[i]] >= p[s[j]]
           T == {k \in Nat : \E U \in SUBSET S :
                   Cardinality(U) = k /\ ~ \E s \in SetToSeqs(U) : Descends(s)}
<1>1. \A U \in SUBSET S : IsFiniteSet(U) /\ Cardinality(U) \in Nat
  BY FS_Subset, FS_CardinalityType
<1>2. T = {}
  <2> SUFFICES ASSUME T # {} PROVE FALSE
    OBVIOUS
  <2>1. PICK k \in T : \A j \in T : k <= j
    BY LeastNumber
  <2>2. PICK U \in SUBSET S : Cardinality(U) = k /\ ~ \E s \in SetToSeqs(U) : Descends(s)
    BY <2>1
  <2>3. CASE U = {}
    <3>1. <<>> \in SetToSeqs(U) /\ Descends(<<>>)
      BY <2>3, FS_EmptySet DEF SetToSeqs
    <3> QED BY <2>2, <3>1
  <2>4. CASE U # {}
    <3>1. PICK x \in U : \A y \in U : p[x] <= p[y]
      BY <2>4, LeastOfSet
    <3> DEFINE W == U \ {x}
               m == k - 1
    <3>2. Cardinality(W) = m /\ W \in SUBSET S /\ m \in Nat
      <4>1. Cardinality(W) = m
        BY <1>1, <2>2, FS_RemoveElement
      <4> QED BY <1>1, <4>1
    <3>3. PICK s \in SetToSeqs(W) : Descends(s)
      <4>1. m \notin T
        BY <2>1, <3>2
      <4> QED BY <3>2, <4>1
    <3>4. s \in [1..m -> W] /\ \A i, j \in 1..m : i # j => s[i] # s[j]
      BY <3>2 DEF SetToSeqs
    <3> DEFINE q == [i \in 1..k |-> IF i = k THEN x ELSE s[i]]
    <3>5. k \in Nat \ {0} /\ m \in Nat /\ m + 1 = k
      BY <2>1, <3>2
    <3> HIDE DEF m, W
    <3>6. \A i \in 1..k : i = k \/ i \in 1..m
      BY <3>5
    <3>7. q[k] = x /\ \A i \in 1..m : q[i] = s[i] /\ s[i] \in W /\ i # k
      BY <3>4, <3>5
    <3>8. DOMAIN q = 1..k /\ q \in [1..k -> U]
      BY <3>1, <3>6, <3>7 DEF W
    <3> HIDE DEF q
    <3>9. \A i, j \in 1..k : i # j => q[i] # q[j]
      BY <3>4, <3>6, <3>7 DEF W
    <3>10. q \in SetToSeqs(U)
      BY <2>2, <3>8, <3>9 DEF SetToSeqs
    <3>11. ASSUME NEW i \in 1..k, NEW j \in 1..k, i < j PROVE p[q[i]] >= p[q[j]]
      <4>1. i \in 1..m
        BY <3>5, <3>11
      <4>2. CASE j = k
        <5>1. q[i] \in U /\ p[x] \in Int /\ p[q[i]] \in Int
          BY <3>1, <3>8
        <5> QED BY <3>1, <3>7, <4>2, <5>1
      <4>3. CASE j # k
        <5>1. j \in 1..m /\ DOMAIN s = 1..m
          BY <3>4, <3>6, <4>3
        <5> QED BY <3>3, <3>7, <3>11, <4>1, <5>1
      <4> QED BY <4>2, <4>3
    <3>12. Descends(q)
      BY <3>8, <3>11
    <3> QED BY <2>2, <3>10, <3>12
  <2> QED BY <2>3, <2>4
<1>3. \E s \in SetToSeqs(S) : Descends(s)
  BY <1>1, <1>2
<1> QED BY <1>3

(* Place has an answer in every state for every type, so what is said of   *)
(* all its answers is said of something (pkg/placement/engine.go).         *)
THEOREM PlacementAnswers == Spec => [](\A t \in Types : Outcomes(t) # {})
<1>1. ASSUME RegistryInv PROVE \A t \in Types : Outcomes(t) # {}
  <2> SUFFICES ASSUME NEW t \in Types PROVE Outcomes(t) # {}
    OBVIOUS
  <2> DEFINE G == {r \in DOMAIN rules : EqualFold(rules[r].type, t)}
             E == DOMAIN environments
             p == [r \in G |-> rules[r].priority]
             zero == [n \in E |-> 0]
  <2>1. IsFiniteSet(G) /\ IsFiniteSet(E)
    BY <1>1, FS_Subset DEF RegistryInv
  <2>2. p \in [G -> Int] /\ zero \in [E -> Int]
    <3>1. \A r \in G : rules[r] \in RuleBodies
      BY <1>1 DEF RegistryInv, TypeOK
    <3>2. \A b \in RuleBodies : b.priority \in Int
      BY PlacementAssumption DEF Rule
    <3> QED BY <3>1, <3>2
  <2>3. \E s \in SetToSeqs(G) : \A i, j \in DOMAIN s : i < j => p[s[i]] >= p[s[j]]
    <3> HIDE DEF G, E, p, zero
    <3> QED BY <2>1, <2>2, Sorted
  <2>4. PICK s \in SetToSeqs(G) : \A i, j \in DOMAIN s : i < j => p[s[i]] >= p[s[j]]
    BY <2>3
  <2>5. s \in Seq(G)
    <3> HIDE DEF G
    <3> QED BY <2>1, Enumeration
  <2>6. \A i \in DOMAIN s : p[s[i]] = rules[s[i]].priority
    BY <2>5
  <2>7. s \in FindMatchingRules(t)
    BY <2>4, <2>6 DEF FindMatchingRules
  <2>8. \E envs : envs \in GetEnvironments
    <3>1. \E envs \in SetToSeqs(E) : \A i, j \in DOMAIN envs : i < j => zero[envs[i]] >= zero[envs[j]]
      <4> HIDE DEF E, zero
      <4> QED BY <2>1, <2>2, Sorted
    <3> QED BY <3>1 DEF GetEnvironments
  <2>9. PICK envs : envs \in GetEnvironments
    BY <2>8
  <2>10. Place(t, s, envs) \in Outcomes(t)
    <3> DEFINE M == FindMatchingRules(t)
               O == GetEnvironments
    <3>1. s \in M /\ envs \in O
      BY <2>7, <2>9
    <3>2. Outcomes(t) = {Place(t, matching, order) : matching \in M, order \in O}
      BY DEF Outcomes
    <3> HIDE DEF M, O
    <3> QED BY <3>1, <3>2
  <2> QED BY <2>10
<1> QED BY <1>1, RegistryInvariance, PTL
=============================================================================
