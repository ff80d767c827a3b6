----------------------------- MODULE SumsProofs -----------------------------
(***************************************************************************)
(* What Total computes, for every bound.  A recursive function is a CHOOSE *)
(* of a function that satisfies its equation, so the first lemmas show     *)
(* that such a function exists and is unique.                              *)
(***************************************************************************)
EXTENDS Sums, WellFoundedInduction, TLAPS

\* Every non-empty set of naturals has a least element: how the lemmas below argue
\* by induction over an interval.
LEMMA LeastElement ==
  ASSUME NEW T \in SUBSET Nat, T # {}
  PROVE  \E x \in T : \A y \in T : x <= y
<1>1. \E x \in T : \A y \in T : ~(<<y, x>> \in OpToRel(<, Nat))
  BY WFMin, NatLessThanWellFounded
<1>2. PICK x \in T : \A y \in T : ~(<<y, x>> \in OpToRel(<, Nat))
  BY <1>1
<1>3. \A y \in T : ~(y < x)
  BY <1>2 DEF OpToRel
<1> QED BY <1>3

\* s is the sequence of partial sums of f up to n.
IsSums(s, f, n) == s = [i \in 0..n |-> IF i = 0 THEN 0 ELSE s[i-1] + f[i]]

\* The partial sums that Total chooses exist.
LEMMA SumsExist ==
  ASSUME NEW N \in Nat, NEW f \in [1..N -> Nat], NEW n \in 0..N
  PROVE  \E s : IsSums(s, f, n) /\ s \in [0..n -> Nat]
<1> DEFINE Bad == {k \in 0..N : ~ \E s : IsSums(s, f, k) /\ s \in [0..k -> Nat]}
<1>1. SUFFICES ASSUME Bad # {} PROVE FALSE
  OBVIOUS
<1>a. Bad \in SUBSET Nat
  OBVIOUS
<1>b. \E k \in Bad : \A y \in Bad : k <= y
  <2> HIDE DEF Bad
  <2> QED BY <1>1, <1>a, LeastElement
<1>2. PICK k \in Bad : \A y \in Bad : k <= y
  BY <1>b
<1>3. CASE k = 0
  <2> DEFINE z == [i \in 0..0 |-> 0]
  <2>1. IsSums(z, f, 0) /\ z \in [0..0 -> Nat]
    BY DEF IsSums
  <2> QED BY <1>3, <2>1
<1>4. CASE k # 0
  <2>1. k-1 \in 0..N /\ k-1 \notin Bad /\ k \in 1..N
    <3>1. k \in 0..N
      OBVIOUS
    <3>2. k-1 \notin Bad
      <4> HIDE DEF Bad
      <4> QED BY <3>1, <1>2
    <3> QED BY <3>1, <3>2, <1>4
  <2>2. PICK s : IsSums(s, f, k-1) /\ s \in [0..(k-1) -> Nat]
    BY <2>1
  <2> DEFINE t == [i \in 0..k |-> IF i = k THEN s[k-1] + f[k] ELSE s[i]]
  <2>a. \A i \in 0..(k-1) : s[i] = IF i = 0 THEN 0 ELSE s[i-1] + f[i]
    BY <2>2, Zenon DEF IsSums
  <2>3. t \in [0..k -> Nat]
    BY <2>1, <2>2
  <2>b. \A i \in 0..k : t[i] = IF i = 0 THEN 0 ELSE t[i-1] + f[i]
    <3> TAKE i \in 0..k
    <3>1. CASE i = k
      <4>1. t[i] = s[k-1] + f[k] /\ t[i-1] = s[k-1]
        BY <3>1, <2>1
      <4> QED BY <4>1, <3>1, <1>4
    <3>2. CASE i # k
      <4>1. i \in 0..(k-1)
        BY <3>2, <2>1
      <4>2. CASE i = 0
        BY <4>1, <4>2, <2>a, <3>2
      <4>3. CASE i # 0
        <5>1. t[i] = s[i] /\ t[i-1] = s[i-1]
          BY <4>1, <4>3, <3>2, <2>1
        <5> QED BY <5>1, <4>1, <4>3, <2>a
      <4> QED BY <4>2, <4>3
    <3> QED BY <3>1, <3>2
  <2>4. IsSums(t, f, k)
    BY <2>3, <2>b DEF IsSums
  <2> QED BY <2>3, <2>4
<1> QED BY <1>3, <1>4

\* Total is the last of the partial sums.
LEMMA TotalDef ==
  ASSUME NEW N \in Nat, NEW f \in [1..N -> Nat], NEW n \in 0..N
  PROVE  \E s \in [0..n -> Nat] : 
             /\ s[0] = 0
             /\ \A i \in 1..n : s[i] = s[i-1] + f[i]
             /\ Total(f, n) = s[n]
<1> DEFINE s == CHOOSE s : s = [i \in 0..n |-> IF i = 0 THEN 0 ELSE s[i-1] + f[i]]
<1>0. PICK t : t = [i \in 0..n |-> IF i = 0 THEN 0 ELSE t[i-1] + f[i]] /\ t \in [0..n -> Nat]
  BY SumsExist DEF IsSums
<1>1. s = [i \in 0..n |-> IF i = 0 THEN 0 ELSE s[i-1] + f[i]]
  BY <1>0, Zenon
<1>2. Total(f, n) = s[n]
  BY Zenon DEF Total
<1> HIDE DEF s
<1>3. \A i \in 0..n : s[i] = IF i = 0 THEN 0 ELSE s[i-1] + f[i]
  BY <1>1, Zenon
<1>4. \A i \in 0..n : s[i] = t[i]
  <2> DEFINE Bad == {k \in 0..n : s[k] # t[k]}
  <2>1. SUFFICES ASSUME Bad # {} PROVE FALSE
    OBVIOUS
  <2>a. Bad \in SUBSET Nat
    OBVIOUS
  <2>b. \E k \in Bad : \A y \in Bad : k <= y
    <3> HIDE DEF Bad
    <3> QED BY <2>1, <2>a, LeastElement
  <2>2. PICK k \in Bad : \A y \in Bad : k <= y
    BY <2>b
  <2>3. k # 0
    BY <1>0, <1>3
  <2>4. s[k-1] = t[k-1]
    BY <2>2, <2>3
  <2> QED BY <1>0, <1>3, <2>2, <2>3, <2>4
<1>5. s \in [0..n -> Nat]
  BY <1>0, <1>1, <1>4
<1>6. s[0] = 0 /\ \A i \in 1..n : s[i] = s[i-1] + f[i]
  BY <1>3
<1> QED BY <1>2, <1>6, <1>5

\* A sum of naturals is a natural.
LEMMA TotalNat ==
  ASSUME NEW N \in Nat, NEW f \in [1..N -> Nat]
  PROVE  Total(f, N) \in Nat
<1>0. N \in 0..N
  OBVIOUS
<1>1. PICK s \in [0..N -> Nat] : Total(f, N) = s[N]
  BY <1>0, TotalDef
<1> QED BY <1>1

\* Two sequences of partial sums that differ by d before an index differ by d and
\* the difference of the summands after it.
LEMMA ShiftedStep ==
  ASSUME NEW N \in Nat, NEW f \in [1..N -> Nat], NEW g \in [1..N -> Nat],
         NEW s \in [0..N -> Nat], NEW t \in [0..N -> Nat], NEW d \in Int,
         \A i \in 1..N : s[i] = s[i-1] + f[i],
         \A i \in 1..N : t[i] = t[i-1] + g[i],
         NEW k \in 1..N, t[k-1] = s[k-1] + d
  PROVE  t[k] = s[k] + (d + g[k] - f[k])
<1>1. k-1 \in 0..N /\ k \in 0..N
  OBVIOUS
<1>2. s[k-1] \in Nat /\ t[k-1] \in Nat /\ f[k] \in Nat /\ g[k] \in Nat
  BY <1>1
<1>3. s[k] = s[k-1] + f[k] /\ t[k] = t[k-1] + g[k]
  OBVIOUS
<1> QED BY <1>2, <1>3

\* Changing one summand changes the sum by the same amount: why a step of one user
\* can be judged by that user's claim alone.
LEMMA TotalUpdate ==
  ASSUME NEW N \in Nat, NEW f \in [1..N -> Nat], NEW g \in [1..N -> Nat],
         NEW u \in 1..N, \A i \in 1..N : i # u => g[i] = f[i]
  PROVE  Total(g, N) = Total(f, N) + g[u] - f[u]
<1>0. N \in 0..N
  OBVIOUS
<1>1. PICK s \in [0..N -> Nat] : /\ s[0] = 0
                                 /\ \A i \in 1..N : s[i] = s[i-1] + f[i]
                                 /\ Total(f, N) = s[N]
  BY <1>0, TotalDef
<1>2. PICK t \in [0..N -> Nat] : /\ t[0] = 0
                                 /\ \A i \in 1..N : t[i] = t[i-1] + g[i]
                                 /\ Total(g, N) = t[N]
  BY <1>0, TotalDef
<1> DEFINE D(i) == IF i < u THEN 0 ELSE g[u] - f[u]
           Bad == {k \in 0..N : t[k] # s[k] + D(k)}
<1>3. ASSUME Bad # {} PROVE FALSE
  <2>1. Bad \in SUBSET Nat
    OBVIOUS
  <2>2. \E k \in Bad : \A y \in Bad : k <= y
    <3> HIDE DEF Bad
    <3> QED BY <1>3, <2>1, LeastElement
  <2>3. PICK k \in 0..N : k \in Bad /\ \A y \in Bad : k <= y
    BY <2>2
  <2>4. t[k] # s[k] + D(k)
    BY <2>3
  <2>5. k # 0
    BY <2>4, <1>1, <1>2
  <2>6. k-1 \in 0..N /\ k \in 1..N
    BY <2>5
  <2>7. k-1 \notin Bad
    <3> HIDE DEF Bad
    <3> QED BY <2>3
  <2>8. t[k-1] = s[k-1] + D(k-1)
    BY <2>6, <2>7
  <2>9. D(k-1) \in Int
    OBVIOUS
  <2>10. t[k] = s[k] + (D(k-1) + g[k] - f[k])
    <3> HIDE DEF D, Bad
    <3> QED BY <1>1, <1>2, <2>6, <2>8, <2>9, ShiftedStep
  <2>11. D(k-1) + g[k] - f[k] = D(k)
    <3>1. CASE k < u
      BY <3>1, <2>6
    <3>2. CASE k = u
      BY <3>2, <2>6
    <3>3. CASE k > u
      <4>1. g[k] = f[k] /\ g[k] \in Nat /\ g[u] \in Nat /\ f[u] \in Nat
        BY <3>3, <2>6
      <4>2. D(k) = g[u] - f[u] /\ D(k-1) = g[u] - f[u]
        BY <3>3, <2>6
      <4>3. \A x, y \in Int : x + y - y = x
        OBVIOUS
      <4>4. D(k-1) + g[k] - g[k] = D(k-1)
        <5> HIDE DEF D, Bad
        <5> QED BY <4>1, <4>3, <2>9
      <4> HIDE DEF D, Bad
      <4> QED BY <4>1, <4>2, <4>4
    <3> QED BY <3>1, <3>2, <3>3, <2>6
  <2> QED
    <3> HIDE DEF D, Bad
    <3> QED BY <2>4, <2>10, <2>11
<1>4. N \notin Bad
  BY <1>3, Zenon
<1>5. t[N] = s[N] + (g[u] - f[u])
  BY <1>4
<1>6. t[N] \in Nat /\ s[N] \in Nat /\ g[u] \in Nat /\ f[u] \in Nat
  OBVIOUS
<1> QED BY <1>1, <1>2, <1>5, <1>6

\* A sum of naturals is at least each of its summands.
LEMMA TotalBoundsEntry ==
  ASSUME NEW N \in Nat, NEW f \in [1..N -> Nat], NEW u \in 1..N
  PROVE  f[u] <= Total(f, N)
<1> DEFINE g == [f EXCEPT ![u] = 0]
<1>1. g \in [1..N -> Nat] /\ g[u] = 0 /\ \A i \in 1..N : i # u => g[i] = f[i]
  OBVIOUS
<1> HIDE DEF g
<1>2. Total(g, N) = Total(f, N) + g[u] - f[u]
  BY <1>1, TotalUpdate
<1>3. Total(g, N) \in Nat /\ Total(f, N) \in Nat
  BY <1>1, TotalNat
<1> QED BY <1>1, <1>2, <1>3

\* Sums of equal summands are equal.
LEMMA TotalSame ==
  ASSUME NEW N \in Nat, NEW f \in [1..N -> Nat], NEW g \in [1..N -> Nat],
         \A i \in 1..N : g[i] = f[i]
  PROVE  Total(g, N) = Total(f, N)
<1>1. g = f
  OBVIOUS
<1> QED BY <1>1

\* A sum of zeros is zero.
LEMMA TotalZero ==
  ASSUME NEW N \in Nat, NEW f \in [1..N -> Nat], \A i \in 1..N : f[i] = 0
  PROVE  Total(f, N) = 0
<1>0. N \in 0..N
  OBVIOUS
<1>1. PICK s \in [0..N -> Nat] : /\ s[0] = 0
                                 /\ \A i \in 1..N : s[i] = s[i-1] + f[i]
                                 /\ Total(f, N) = s[N]
  BY <1>0, TotalDef
<1> DEFINE Bad == {k \in 0..N : s[k] # 0}
<1>2. ASSUME Bad # {} PROVE FALSE
  <2>1. Bad \in SUBSET Nat
    OBVIOUS
  <2>2. \E k \in Bad : \A y \in Bad : k <= y
    <3> HIDE DEF Bad
    <3> QED BY <1>2, <2>1, LeastElement
  <2>3. PICK k \in 0..N : k \in Bad /\ \A y \in Bad : k <= y
    BY <2>2
  <2>4. k # 0
    BY <2>3, <1>1
  <2>5. k-1 \in 0..N /\ k \in 1..N
    BY <2>4
  <2>6. k-1 \notin Bad
    <3> HIDE DEF Bad
    <3> QED BY <2>3
  <2>7. s[k-1] = 0
    BY <2>5, <2>6
  <2>8. s[k] = s[k-1] + f[k] /\ f[k] = 0
    BY <1>1, <2>5
  <2> QED BY <2>3, <2>7, <2>8
<1>3. N \notin Bad
  BY <1>2, Zenon
<1> QED BY <1>0, <1>1, <1>3

\* A sum grows with its summands.
LEMMA TotalMonotone ==
  ASSUME NEW N \in Nat, NEW f \in [1..N -> Nat], NEW g \in [1..N -> Nat],
         \A i \in 1..N : f[i] <= g[i]
  PROVE  Total(f, N) <= Total(g, N)
<1>0. N \in 0..N
  OBVIOUS
<1>1. PICK s \in [0..N -> Nat] : /\ s[0] = 0
                                 /\ \A i \in 1..N : s[i] = s[i-1] + f[i]
                                 /\ Total(f, N) = s[N]
  BY <1>0, TotalDef
<1>2. PICK t \in [0..N -> Nat] : /\ t[0] = 0
                                 /\ \A i \in 1..N : t[i] = t[i-1] + g[i]
                                 /\ Total(g, N) = t[N]
  BY <1>0, TotalDef
<1> DEFINE Bad == {k \in 0..N : ~(s[k] <= t[k])}
<1>3. ASSUME Bad # {} PROVE FALSE
  <2>1. Bad \in SUBSET Nat
    OBVIOUS
  <2>2. \E k \in Bad : \A y \in Bad : k <= y
    <3> HIDE DEF Bad
    <3> QED BY <1>3, <2>1, LeastElement
  <2>3. PICK k \in 0..N : k \in Bad /\ \A y \in Bad : k <= y
    BY <2>2
  <2>4. k # 0
    BY <2>3, <1>1, <1>2
  <2>5. k-1 \in 0..N /\ k \in 1..N
    BY <2>4
  <2>6. k-1 \notin Bad
    <3> HIDE DEF Bad
    <3> QED BY <2>3
  <2>7. s[k-1] <= t[k-1]
    BY <2>5, <2>6
  <2>8. s[k] = s[k-1] + f[k] /\ t[k] = t[k-1] + g[k] /\ f[k] <= g[k]
    BY <1>1, <1>2, <2>5
  <2>9. s[k-1] \in Nat /\ t[k-1] \in Nat /\ f[k] \in Nat /\ g[k] \in Nat
    BY <2>5
  <2>10. \A a, b, c, d \in Nat : a <= b /\ c <= d => a + c <= b + d
    OBVIOUS
  <2>11. s[k] <= t[k]
    BY <2>7, <2>8, <2>9, <2>10, Zenon
  <2> QED BY <2>3, <2>11
<1>4. N \notin Bad
  BY <1>3, Zenon
<1> QED BY <1>0, <1>1, <1>2, <1>4

\* The sum of two functions' values is the sum of their sums.
LEMMA TotalSum ==
  ASSUME NEW N \in Nat, NEW f \in [1..N -> Nat], NEW g \in [1..N -> Nat],
         NEW h \in [1..N -> Nat], \A i \in 1..N : h[i] = f[i] + g[i]
  PROVE  Total(h, N) = Total(f, N) + Total(g, N)
<1>0. N \in 0..N
  OBVIOUS
<1>1. PICK s \in [0..N -> Nat] : /\ s[0] = 0
                                 /\ \A i \in 1..N : s[i] = s[i-1] + f[i]
                                 /\ Total(f, N) = s[N]
  BY <1>0, TotalDef
<1>2. PICK t \in [0..N -> Nat] : /\ t[0] = 0
                                 /\ \A i \in 1..N : t[i] = t[i-1] + g[i]
                                 /\ Total(g, N) = t[N]
  BY <1>0, TotalDef
<1>3. PICK r \in [0..N -> Nat] : /\ r[0] = 0
                                 /\ \A i \in 1..N : r[i] = r[i-1] + h[i]
                                 /\ Total(h, N) = r[N]
  BY <1>0, TotalDef
<1> DEFINE Bad == {k \in 0..N : r[k] # s[k] + t[k]}
<1>4. ASSUME Bad # {} PROVE FALSE
  <2>1. Bad \in SUBSET Nat
    OBVIOUS
  <2>2. \E k \in Bad : \A y \in Bad : k <= y
    <3> HIDE DEF Bad
    <3> QED BY <1>4, <2>1, LeastElement
  <2>3. PICK k \in 0..N : k \in Bad /\ \A y \in Bad : k <= y
    BY <2>2
  <2>4. k # 0
    BY <2>3, <1>1, <1>2, <1>3
  <2>5. k-1 \in 0..N /\ k \in 1..N
    BY <2>4
  <2>6. k-1 \notin Bad
    <3> HIDE DEF Bad
    <3> QED BY <2>3
  <2>7. r[k-1] = s[k-1] + t[k-1]
    BY <2>5, <2>6
  <2>8. /\ s[k] = s[k-1] + f[k] /\ t[k] = t[k-1] + g[k] /\ r[k] = r[k-1] + h[k]
        /\ h[k] = f[k] + g[k]
    BY <1>1, <1>2, <1>3, <2>5
  <2>9. s[k-1] \in Nat /\ t[k-1] \in Nat /\ f[k] \in Nat /\ g[k] \in Nat
    BY <2>5
  <2> DEFINE x == s[k-1]
             y == t[k-1]
             u == f[k]
             v == g[k]
  <2>10. x \in Nat /\ y \in Nat /\ u \in Nat /\ v \in Nat
    BY <2>9
  <2>11. r[k] = (x + y) + (u + v) /\ s[k] = x + u /\ t[k] = y + v
    BY <2>7, <2>8, Zenon
  <2>12. r[k] = s[k] + t[k]
    <3> HIDE DEF x, y, u, v, Bad
    <3> QED BY <2>10, <2>11
  <2> QED BY <2>3, <2>12
<1>5. N \notin Bad
  BY <1>4, Zenon
<1> QED BY <1>0, <1>1, <1>2, <1>3, <1>5

\* When c times each value of g is at most a times the value of f, the same holds of
\* the sums.
LEMMA TotalWeighted ==
  ASSUME NEW N \in Nat, NEW f \in [1..N -> Nat], NEW g \in [1..N -> Nat],
         NEW a \in Nat, NEW c \in Nat, \A i \in 1..N : g[i] * c <= a * f[i]
  PROVE  Total(g, N) * c <= a * Total(f, N)
<1>0. N \in 0..N
  OBVIOUS
<1>1. PICK s \in [0..N -> Nat] : /\ s[0] = 0
                                 /\ \A i \in 1..N : s[i] = s[i-1] + f[i]
                                 /\ Total(f, N) = s[N]
  BY <1>0, TotalDef
<1>2. PICK t \in [0..N -> Nat] : /\ t[0] = 0
                                 /\ \A i \in 1..N : t[i] = t[i-1] + g[i]
                                 /\ Total(g, N) = t[N]
  BY <1>0, TotalDef
<1> DEFINE Bad == {k \in 0..N : ~(t[k] * c <= a * s[k])}
<1>3. ASSUME Bad # {} PROVE FALSE
  <2>1. Bad \in SUBSET Nat
    OBVIOUS
  <2>2. \E k \in Bad : \A y \in Bad : k <= y
    <3> HIDE DEF Bad
    <3> QED BY <1>3, <2>1, LeastElement
  <2>3. PICK k \in 0..N : k \in Bad /\ \A y \in Bad : k <= y
    BY <2>2
  <2>4. k # 0
    <3>1. 0 * c = 0 /\ a * 0 = 0
      OBVIOUS
    <3> QED BY <2>3, <3>1, <1>1, <1>2
  <2>5. k-1 \in 0..N /\ k \in 1..N
    BY <2>4
  <2>6. k-1 \notin Bad
    <3> HIDE DEF Bad
    <3> QED BY <2>3
  <2>7. t[k-1] * c <= a * s[k-1]
    BY <2>5, <2>6
  <2>8. s[k] = s[k-1] + f[k] /\ t[k] = t[k-1] + g[k] /\ g[k] * c <= a * f[k]
    BY <1>1, <1>2, <2>5
  <2>9. s[k-1] \in Nat /\ t[k-1] \in Nat /\ f[k] \in Nat /\ g[k] \in Nat
    BY <2>5
  <2>10. \A x, y, u, v \in Nat : x * c <= a * u /\ y * c <= a * v
                                   => (x + y) * c <= a * (u + v)
    <3> TAKE x, y, u, v \in Nat
    <3>1. (x + y) * c = x * c + y * c /\ a * (u + v) = a * u + a * v
      OBVIOUS
    <3>2. x * c \in Nat /\ y * c \in Nat /\ a * u \in Nat /\ a * v \in Nat
      OBVIOUS
    <3> QED BY <3>1, <3>2
  <2>11. t[k] * c <= a * s[k]
    BY <2>7, <2>8, <2>9, <2>10, Zenon
  <2> QED BY <2>3, <2>11
<1>4. N \notin Bad
  BY <1>3, Zenon
<1> QED BY <1>0, <1>1, <1>2, <1>4

=============================================================================
