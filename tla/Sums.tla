-------------------------------- MODULE Sums --------------------------------
(***************************************************************************)
(* Sums over a finite set, for proofs.  The sum of v over S is known by a  *)
(* list of S and its partial sums, which carry what induction would be     *)
(* needed for otherwise: along a range without negative (without positive) *)
(* terms the partial sums do not fall (rise).  Changing one term shifts    *)
(* the partial sums after it, so a step of an invariant needs no           *)
(* induction.                                                              *)
(***************************************************************************)
EXTENDS Integers, FiniteSetTheorems, TLAPS

\* e lists the members of S, each once.
Lists(e, N, S) ==
  /\ e \in [1..N -> S]
  /\ \A i, j \in 1..N : e[i] = e[j] => i = j
  /\ \A r \in S : \E i \in 1..N : e[i] = r

\* No term after the i-th up to the j-th is negative, or positive.
Rises(f, N, i, j) == \A h \in 1..N : i < h /\ h <= j => f[h] >= 0

Falls(f, N, i, j) == \A h \in 1..N : i < h /\ h <= j => f[h] <= 0

\* p lists the partial sums of base + f[1] + ... + f[N].
Partial(p, f, N, base) ==
  /\ p \in [0..N -> Int]
  /\ p[0] = base
  /\ \A i \in 1..N : p[i] = p[i - 1] + f[i]
  /\ \A i, j \in 0..N :
       i <= j => /\ Rises(f, N, i, j) => p[i] <= p[j]
                 /\ Falls(f, N, i, j) => p[i] >= p[j]

Terms(f, N) == N \in Nat /\ f \in [1..N -> Int]

Changed(g, f, N, k, x) == k \in 1..N /\ x \in Int /\ g = [f EXCEPT ![k] = x]

\* Changing one term changes the sum of a list by the difference.
LEMMA PartialShift ==
  ASSUME NEW N, NEW f, Terms(f, N), NEW base \in Int, NEW p, Partial(p, f, N, base),
         NEW k, NEW x, NEW g, Changed(g, f, N, k, x)
  PROVE  \E q : Partial(q, g, N, base) /\ q[N] = p[N] + (x - f[k])
<1> DEFINE d == x - f[k]
           q == [i \in 0..N |-> IF i >= k THEN p[i] + d ELSE p[i]]
<1>0. /\ N \in Nat /\ f \in [1..N -> Int] /\ k \in 1..N /\ x \in Int /\ g = [f EXCEPT ![k] = x]
      /\ k \in 0..N /\ k - 1 \in 0..N /\ f[k] \in Int /\ d \in Int
  BY DEF Terms, Changed
<1>1. /\ \A i \in 0..N : p[i] \in Int
      /\ p[k] = p[k - 1] + f[k]
  BY <1>0 DEF Partial
<1>2. /\ \A i \in 0..N : q[i] = IF i >= k THEN p[i] + d ELSE p[i]
      /\ \A i \in 1..N : g[i] = IF i = k THEN x ELSE f[i]
  BY <1>0
<1>3. q \in [0..N -> Int] /\ q[0] = base /\ q[N] = p[N] + (x - f[k])
  <2>1. q \in [0..N -> Int]
    BY <1>0, <1>1
  <2>2. q[0] = p[0] /\ q[N] = p[N] + d
    BY <1>0, <1>2
  <2> QED BY <2>1, <2>2 DEF Partial
<1>4. d + f[k] = x
  BY <1>0
<1> HIDE DEF q, d
<1>5. ASSUME NEW i \in 1..N PROVE q[i] = q[i - 1] + g[i]
  <2>1. /\ i \in 0..N /\ i - 1 \in 0..N /\ p[i] = p[i - 1] + f[i] /\ p[i] \in Int
        /\ p[i - 1] \in Int /\ f[i] \in Int
    BY <1>0, <1>1 DEF Partial
  <2>2. CASE i = k
    <3>1. q[i] = p[i] + d /\ q[i - 1] = p[i - 1] /\ g[i] = x
      BY <1>0, <1>2, <2>1, <2>2
    <3> QED BY <1>0, <1>4, <2>1, <2>2, <3>1
  <2>3. CASE i < k
    <3>1. q[i] = p[i] /\ q[i - 1] = p[i - 1] /\ g[i] = f[i]
      BY <1>0, <1>2, <2>1, <2>3
    <3> QED BY <2>1, <3>1
  <2>4. CASE i > k
    <3>0. i >= k /\ i - 1 >= k /\ i # k
      BY <1>0, <2>4
    <3>1. q[i] = p[i] + d /\ q[i - 1] = p[i - 1] + d /\ g[i] = f[i]
      BY <1>2, <2>1, <3>0
    <3> QED BY <1>0, <2>1, <3>1
  <2> QED BY <1>0, <2>1, <2>2, <2>3, <2>4
<1>6. ASSUME NEW i \in 0..N, NEW j \in 0..N, i <= j
      PROVE  /\ Rises(g, N, i, j) => q[i] <= q[j]
             /\ Falls(g, N, i, j) => q[i] >= q[j]
  <2>1. /\ p[i] \in Int /\ p[j] \in Int
        /\ Rises(f, N, i, j) => p[i] <= p[j]
        /\ Falls(f, N, i, j) => p[i] >= p[j]
    BY <1>6 DEF Partial
  <2>2. CASE i < k /\ k <= j
    <3>0. q[i] = p[i] /\ q[j] = p[j] + d /\ g[k] = x
      BY <1>0, <1>2, <2>2
    <3>k. p[k] \in Int /\ p[k - 1] \in Int
      BY <1>0, <1>1
    <3>1. /\ Rises(f, N, i, k - 1) => p[i] <= p[k - 1]
          /\ Falls(f, N, i, k - 1) => p[i] >= p[k - 1]
          /\ Rises(f, N, k, j) => p[k] <= p[j]
          /\ Falls(f, N, k, j) => p[k] >= p[j]
      BY <1>0, <2>2 DEF Partial
    <3>2. ASSUME Rises(g, N, i, j) PROVE q[i] <= q[j]
      <4>1. Rises(f, N, i, k - 1) /\ Rises(f, N, k, j) /\ x >= 0
        BY <1>0, <1>2, <2>2, <3>0, <3>2 DEF Rises
      <4> QED BY <1>0, <1>1, <1>4, <2>1, <3>0, <3>1, <3>k, <4>1
    <3>3. ASSUME Falls(g, N, i, j) PROVE q[i] >= q[j]
      <4>1. Falls(f, N, i, k - 1) /\ Falls(f, N, k, j) /\ x <= 0
        BY <1>0, <1>2, <2>2, <3>0, <3>3 DEF Falls
      <4> QED BY <1>0, <1>1, <1>4, <2>1, <3>0, <3>1, <3>k, <4>1
    <3> QED BY <3>2, <3>3
  <2>3. CASE ~(i < k /\ k <= j)
    <3>1. (q[i] = p[i] /\ q[j] = p[j]) \/ (q[i] = p[i] + d /\ q[j] = p[j] + d)
      BY <1>0, <1>2, <1>6, <2>3
    <3>2. (Rises(g, N, i, j) => Rises(f, N, i, j)) /\ (Falls(g, N, i, j) => Falls(f, N, i, j))
      BY <1>0, <1>2, <2>3 DEF Rises, Falls
    <3> QED BY <1>0, <2>1, <3>1, <3>2
  <2> QED BY <2>2, <2>3
<1>7. Partial(q, g, N, base)
  BY <1>3, <1>5, <1>6 DEF Partial
<1> QED BY <1>3, <1>7

-----------------------------------------------------------------------------
\* y is base plus the sum of v over S.
IsSum(y, v, S, base) ==
  \E N, e, p : /\ N \in Nat /\ Lists(e, N, S)
               /\ Partial(p, [i \in 1..N |-> v[e[i]]], N, base)
               /\ p[N] = y

\* One term of v changes.
Moved(w, v, S, r, x) == r \in S /\ x \in Int /\ v \in [S -> Int] /\ w = [v EXCEPT ![r] = x]

\* A sum of zeros is its base.
LEMMA SumInit ==
  ASSUME NEW S, IsFiniteSet(S), NEW v, v = [r \in S |-> 0], NEW base \in Int
  PROVE  IsSum(base, v, S, base)
<1>1. PICK N \in Nat : ExistsBijection(1..N, S)
  BY FS_NatBijection
<1>2. PICK e : e \in Bijection(1..N, S)
  BY <1>1 DEF ExistsBijection
<1>3. Lists(e, N, S)
  BY <1>2 DEF Lists, Bijection, Injection, IsInjective, Surjection
<1> DEFINE p == [i \in 0..N |-> base]
           f == [i \in 1..N |-> v[e[i]]]
<1>4. \A i \in 1..N : f[i] = 0
  BY <1>3 DEF Lists
<1>5. Partial(p, f, N, base) /\ p[N] = base
  BY <1>4 DEF Partial
<1> QED BY <1>3, <1>5 DEF IsSum

\* Changing one term changes the sum by the difference.
LEMMA SumShift ==
  ASSUME NEW y, NEW v, NEW S, NEW base \in Int, IsSum(y, v, S, base),
         NEW w, NEW r, NEW x, Moved(w, v, S, r, x)
  PROVE  IsSum(y + (x - v[r]), w, S, base)
<1>0. r \in S /\ x \in Int /\ v \in [S -> Int] /\ w = [v EXCEPT ![r] = x]
  BY DEF Moved
<1>1. PICK N, e, p : /\ N \in Nat /\ Lists(e, N, S)
                     /\ Partial(p, [i \in 1..N |-> v[e[i]]], N, base)
                     /\ p[N] = y
  BY DEF IsSum
<1>2. PICK k \in 1..N : e[k] = r
  BY <1>0, <1>1 DEF Lists
<1> DEFINE f == [i \in 1..N |-> v[e[i]]]
           g == [i \in 1..N |-> w[e[i]]]
<1>3. Terms(f, N)
  BY <1>0, <1>1 DEF Lists, Terms
<1>4. g = [f EXCEPT ![k] = x]
  <2>1. ASSUME NEW i \in 1..N PROVE w[e[i]] = IF i = k THEN x ELSE v[e[i]]
    <3>1. e[i] \in S /\ (e[i] = r <=> i = k)
      BY <1>1, <1>2 DEF Lists
    <3> QED BY <1>0, <3>1
  <2> QED BY <2>1
<1>5. Changed(g, f, N, k, x)
  BY <1>0, <1>2, <1>4 DEF Changed
<1>6. Partial(p, f, N, base) /\ p[N] = y /\ f[k] = v[r]
  BY <1>1, <1>2
<1> HIDE DEF f, g
<1>7. PICK q : Partial(q, g, N, base) /\ q[N] = p[N] + (x - f[k])
  BY <1>3, <1>5, <1>6, PartialShift
<1>8. q[N] = y + (x - v[r])
  BY <1>6, <1>7
<1> QED BY <1>1, <1>7, <1>8 DEF IsSum, g

\* A sum is an integer, its base when every term is zero, and no term of a sum
\* of naturals exceeds it.
LEMMA SumFacts ==
  ASSUME NEW y, NEW v, NEW S, NEW base \in Int, v \in [S -> Int], IsSum(y, v, S, base)
  PROVE  /\ y \in Int
         /\ (\A r \in S : v[r] = 0) => y = base
         /\ (\A r \in S : v[r] >= 0) => \A r \in S : base + v[r] <= y
<1>1. PICK N, e, p : /\ N \in Nat /\ Lists(e, N, S)
                     /\ Partial(p, [i \in 1..N |-> v[e[i]]], N, base)
                     /\ p[N] = y
  BY DEF IsSum
<1> DEFINE f == [i \in 1..N |-> v[e[i]]]
<1>2. /\ 0 \in 0..N /\ N \in 0..N /\ p[0] = base /\ p[N] = y
      /\ \A i \in 0..N : p[i] \in Int
      /\ \A i \in 1..N : e[i] \in S /\ f[i] = v[e[i]] /\ f[i] \in Int
  BY <1>1 DEF Partial, Lists
<1>3. Partial(p, f, N, base)
  BY <1>1
<1> HIDE DEF f
<1>4. ASSUME \A r \in S : v[r] = 0 PROVE y = base
  <2>1. \A i \in 1..N : f[i] = 0
    BY <1>2, <1>4
  <2>2. Rises(f, N, 0, N) /\ Falls(f, N, 0, N)
    BY <2>1 DEF Rises, Falls
  <2>3. p[0] <= p[N] /\ p[0] >= p[N]
    BY <1>2, <1>3, <2>2 DEF Partial
  <2> QED BY <1>2, <2>3
<1>5. ASSUME \A r \in S : v[r] >= 0, NEW r \in S PROVE base + v[r] <= y
  <2>1. PICK k \in 1..N : e[k] = r
    BY <1>1 DEF Lists
  <2>2. \A i \in 1..N : f[i] >= 0
    BY <1>2, <1>5
  <2>3. k \in 0..N /\ k - 1 \in 0..N /\ p[k] = p[k - 1] + f[k] /\ f[k] = v[r]
    BY <1>2, <1>3, <2>1 DEF Partial
  <2>r. Rises(f, N, 0, k - 1) /\ Rises(f, N, k, N)
    BY <2>2 DEF Rises
  <2>4. p[0] <= p[k - 1] /\ p[k] <= p[N]
    BY <1>2, <1>3, <2>1, <2>3, <2>r DEF Partial
  <2> QED BY <1>2, <2>3, <2>4
<1> QED BY <1>2, <1>4, <1>5

-----------------------------------------------------------------------------
(* Induction over the subsets of a finite set, stated for a set of subsets *)
(* rather than for an operator, and what follows from it about sums.       *)

\* A set of naturals has a least member.
LEMMA LeastNatural ==
  ASSUME NEW T, T \subseteq Nat, T # {}
  PROVE  \E m \in T : \A n \in T : m <= n
<1>1. PICK m \in T : \A n \in T : ~(<<n, m>> \in OpToRel(<, Nat))
  BY WFMin, NatLessThanWellFounded
<1>2. ASSUME NEW n \in T PROVE m <= n
  <2>1. <<n, m>> \in Nat \X Nat /\ ~(<<n, m>> \in OpToRel(<, Nat))
    BY <1>1
  <2>2. ~(n < m)
    BY <2>1 DEF OpToRel
  <2> QED BY <2>2
<1> QED BY <1>2

\* What holds of {} and carries over when a member is added holds of every
\* subset.
LEMMA SubsetInduction ==
  ASSUME NEW S, IsFiniteSet(S), NEW G, {} \in G,
         \A T \in SUBSET S : T # {} /\ (\A r \in T : T \ {r} \in G) => T \in G
  PROVE  \A T \in SUBSET S : T \in G
<1> SUFFICES ASSUME NEW X \in SUBSET S, X \notin G PROVE FALSE
  OBVIOUS
<1> DEFINE B == {T \in SUBSET S : T \notin G}
           K == {Cardinality(T) : T \in B}
<1>1. \A T \in B : IsFiniteSet(T) /\ Cardinality(T) \in Nat
  BY FS_Subset, FS_CardinalityType
<1>2. K \subseteq Nat /\ K # {}
  BY <1>1
<1>3. PICK m \in K : \A n \in K : m <= n
  BY <1>2, LeastNatural
<1>4. PICK T \in B : Cardinality(T) = m
  BY <1>3
<1>5. T # {}
  BY <1>4
<1>6. PICK q \in T : T \ {q} \in B
  BY <1>4, <1>5
<1>7. Cardinality(T \ {q}) \in K /\ Cardinality(T \ {q}) = m - 1 /\ m \in Nat
  BY <1>1, <1>4, <1>5, <1>6, FS_RemoveElement
<1> QED BY <1>3, <1>7

Weights(v, S) == v \in [S -> Int]

\* v on T, and nothing elsewhere.
Within(v, S, T) == [r \in S |-> IF r \in T THEN v[r] ELSE 0]

\* Restricting v to one member more changes that term.
LEMMA WithinMoved ==
  ASSUME NEW S, NEW v, Weights(v, S), NEW T \in SUBSET S, NEW r \in T
  PROVE  /\ Moved(Within(v, S, T), Within(v, S, T \ {r}), S, r, v[r])
         /\ Moved(Within(v, S, T \ {r}), Within(v, S, T), S, r, 0)
         /\ Within(v, S, T)[r] = v[r] /\ Within(v, S, T \ {r})[r] = 0 /\ v[r] \in Int
         /\ Weights(Within(v, S, T), S) /\ Weights(Within(v, S, T \ {r}), S)
<1> DEFINE t == Within(v, S, T)
           u == Within(v, S, T \ {r})
<1>0. v \in [S -> Int] /\ r \in S /\ v[r] \in Int /\ 0 \in Int
  BY DEF Weights
<1>1. t \in [S -> Int] /\ u \in [S -> Int]
  BY <1>0 DEF Within
<1>2. \A q \in S : /\ t[q] = IF q \in T THEN v[q] ELSE 0
                  /\ u[q] = IF q \in T \ {r} THEN v[q] ELSE 0
  BY DEF Within, Weights
<1> HIDE DEF t, u
<1>3. t = [u EXCEPT ![r] = v[r]] /\ u = [t EXCEPT ![r] = 0] /\ t[r] = v[r] /\ u[r] = 0
  BY <1>0, <1>1, <1>2
<1> QED BY <1>0, <1>1, <1>3 DEF Moved, Weights, t, u

\* A sum is an integer.
LEMMA SumInt ==
  ASSUME NEW S, NEW v, Weights(v, S), NEW base \in Int, NEW y, IsSum(y, v, S, base)
  PROVE  y \in Int
<1>1. v \in [S -> Int]
  BY DEF Weights
<1> QED BY <1>1, SumFacts

\* There is exactly one sum.
LEMMA SumUnique ==
  ASSUME NEW S, IsFiniteSet(S), NEW v, Weights(v, S), NEW base \in Int
  PROVE  /\ \E y : IsSum(y, v, S, base)
         /\ \A y, z : IsSum(y, v, S, base) /\ IsSum(z, v, S, base) => y = z
<1> DEFINE W(T) == Within(v, S, T)
           G == {T \in SUBSET S : /\ \E y : IsSum(y, W(T), S, base)
                                  /\ \A y, z : IsSum(y, W(T), S, base) /\ IsSum(z, W(T), S, base) => y = z}
<1>1. {} \in G
  <2>1. W({}) = [r \in S |-> 0] /\ Weights(W({}), S) /\ \A r \in S : W({})[r] = 0
    BY DEF Within, Weights
  <2>2. IsSum(base, W({}), S, base)
    BY <2>1, SumInit
  <2>3. \A y : IsSum(y, W({}), S, base) => y = base
    BY <2>1, SumFacts DEF Weights
  <2> QED BY <2>2, <2>3
<1>2. ASSUME NEW T \in SUBSET S, T # {}, \A r \in T : T \ {r} \in G PROVE T \in G
  <2>0. PICK r \in T : T \ {r} \in G
    BY <1>2
  <2>1. /\ Moved(W(T), W(T \ {r}), S, r, v[r])
        /\ Moved(W(T \ {r}), W(T), S, r, 0)
        /\ W(T)[r] = v[r] /\ W(T \ {r})[r] = 0 /\ v[r] \in Int
        /\ Weights(W(T), S)
    BY WithinMoved
  <2>2. PICK y : IsSum(y, W(T \ {r}), S, base)
    BY <2>0
  <2>3. IsSum(y + (v[r] - W(T \ {r})[r]), W(T), S, base)
    BY <2>1, <2>2, SumShift
  <2>4. ASSUME NEW a, NEW b, IsSum(a, W(T), S, base), IsSum(b, W(T), S, base) PROVE a = b
    <3>1. /\ IsSum(a + (0 - W(T)[r]), W(T \ {r}), S, base)
          /\ IsSum(b + (0 - W(T)[r]), W(T \ {r}), S, base)
      BY <2>1, <2>4, SumShift
    <3>2. a + (0 - W(T)[r]) = b + (0 - W(T)[r])
      BY <2>0, <3>1
    <3>3. a \in Int /\ b \in Int
      BY <2>1, <2>4, SumInt
    <3> QED BY <2>1, <3>2, <3>3
  <2> QED BY <2>3, <2>4
<1> HIDE DEF G
<1>3. S \in G
  <2>1. \A T \in SUBSET S : T # {} /\ (\A r \in T : T \ {r} \in G) => T \in G
    BY <1>2
  <2>2. \A T \in SUBSET S : T \in G
    BY <1>1, <2>1, SubsetInduction
  <2> QED BY <2>2
<1>4. W(S) = v
  BY DEF Within, Weights
<1> QED BY <1>3, <1>4 DEF G

\* it sums v over every subset of S, one chosen member after the other: the
\* function that MapThenSumSet is defined by.
SumFold(it, v, S) ==
  it = [s \in SUBSET S |->
          IF s = {} THEN 0 ELSE v[CHOOSE x \in s : TRUE] + it[s \ {CHOOSE x \in s : TRUE}]]

\* There is such a function.
LEMMA FoldExists ==
  ASSUME NEW S, IsFiniteSet(S), NEW v, Weights(v, S)
  PROVE  \E it : SumFold(it, v, S)
<1> DEFINE W(T) == Within(v, S, T)
           h == [s \in SUBSET S |-> CHOOSE y : IsSum(y, W(s), S, 0)]
<1>1. ASSUME NEW s \in SUBSET S
      PROVE  /\ Weights(W(s), S) /\ IsSum(h[s], W(s), S, 0)
             /\ \A z : IsSum(z, W(s), S, 0) => z = h[s]
  <2>1. Weights(W(s), S)
    BY DEF Within, Weights
  <2>2. /\ \E y : IsSum(y, W(s), S, 0)
        /\ \A y, z : IsSum(y, W(s), S, 0) /\ IsSum(z, W(s), S, 0) => y = z
    BY <2>1, SumUnique
  <2> QED BY <2>1, <2>2
<1>2. h[{}] = 0
  <2>1. W({}) = [r \in S |-> 0]
    BY DEF Within, Weights
  <2> QED BY <1>1, <2>1, SumInit
<1>3. ASSUME NEW s \in SUBSET S, NEW x \in s PROVE h[s] = v[x] + h[s \ {x}]
  <2>1. /\ Moved(W(s), W(s \ {x}), S, x, v[x]) /\ W(s \ {x})[x] = 0 /\ v[x] \in Int
        /\ Weights(W(s \ {x}), S)
    BY WithinMoved
  <2>2. IsSum(h[s \ {x}], W(s \ {x}), S, 0)
    BY <1>1
  <2>3. IsSum(h[s \ {x}] + (v[x] - W(s \ {x})[x]), W(s), S, 0)
    BY <2>1, <2>2, SumShift
  <2>4. h[s \ {x}] \in Int
    BY <2>1, <2>2, SumInt
  <2>5. h[s \ {x}] + (v[x] - W(s \ {x})[x]) = h[s]
    BY <1>1, <2>3
  <2> QED BY <2>1, <2>4, <2>5
<1>4. ASSUME NEW s \in SUBSET S
      PROVE  h[s] = IF s = {} THEN 0 ELSE v[CHOOSE x \in s : TRUE] + h[s \ {CHOOSE x \in s : TRUE}]
  <2>1. CASE s = {}
    BY <1>2, <2>1
  <2>2. CASE s # {}
    <3>1. PICK x \in s : x = CHOOSE z \in s : TRUE
      BY <2>2
    <3>2. h[s] = v[x] + h[s \ {x}]
      BY <1>3
    <3> QED BY <2>2, <3>1, <3>2
  <2> QED BY <2>1, <2>2
<1>5. h = [s \in SUBSET S |-> h[s]]
  OBVIOUS
<1> HIDE DEF h
<1>6. SumFold(h, v, S)
  BY <1>4, <1>5 DEF SumFold
<1> QED BY <1>6

\* Every such function computes the sum.
LEMMA FoldIsSum ==
  ASSUME NEW S, IsFiniteSet(S), NEW v, Weights(v, S), NEW it, SumFold(it, v, S)
  PROVE  IsSum(it[S], v, S, 0)
<1> DEFINE W(T) == Within(v, S, T)
           G == {T \in SUBSET S : IsSum(it[T], W(T), S, 0)}
<1>1. {} \in G
  <2>1. W({}) = [r \in S |-> 0]
    BY DEF Within, Weights
  <2>2. it[{}] = 0
    BY DEF SumFold
  <2> QED BY <2>1, <2>2, SumInit
<1>2. ASSUME NEW T \in SUBSET S, T # {}, \A r \in T : T \ {r} \in G PROVE T \in G
  <2>1. PICK x \in T : it[T] = v[x] + it[T \ {x}]
    BY <1>2 DEF SumFold
  <2>2. /\ Moved(W(T), W(T \ {x}), S, x, v[x]) /\ W(T \ {x})[x] = 0 /\ v[x] \in Int
        /\ Weights(W(T \ {x}), S)
    BY WithinMoved
  <2>3. IsSum(it[T \ {x}], W(T \ {x}), S, 0)
    BY <1>2
  <2>4. IsSum(it[T \ {x}] + (v[x] - W(T \ {x})[x]), W(T), S, 0)
    BY <2>2, <2>3, SumShift
  <2>5. it[T \ {x}] \in Int
    BY <2>2, <2>3, SumInt
  <2>6. it[T] = it[T \ {x}] + (v[x] - W(T \ {x})[x])
    BY <2>1, <2>2, <2>5
  <2> QED BY <2>4, <2>6
<1> HIDE DEF G
<1>3. S \in G
  <2>1. \A T \in SUBSET S : T # {} /\ (\A r \in T : T \ {r} \in G) => T \in G
    BY <1>2
  <2>2. \A T \in SUBSET S : T \in G
    BY <1>1, <2>1, SubsetInduction
  <2> QED BY <2>2
<1>4. W(S) = v
  BY DEF Within, Weights
<1> QED BY <1>3, <1>4 DEF G

=============================================================================
