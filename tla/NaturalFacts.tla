---------------------------- MODULE NaturalFacts ----------------------------
(***************************************************************************)
(* Induction and maxima, stated for sets, and division.  The induction     *)
(* theorems of the library take a predicate as a parameter; a set of       *)
(* numbers says the same and can be given to a lemma like any other value. *)
(***************************************************************************)
EXTENDS Integers, FiniteSetsExt, WellFoundedInduction, TLAPS

\* A set of numbers that is not empty has a least element.
LEMMA Least ==
  ASSUME NEW S \in SUBSET Nat, S # {}
  PROVE  \E m \in S : \A n \in S : m <= n
  <1> DEFINE R == OpToRel(<, Nat)
  <1>1. IsWellFoundedOn(R, Nat)  BY NatLessThanWellFounded
  <1> HIDE DEF R
  <1>2. PICK m \in S : \A n \in S : ~(<<n, m>> \in R)  BY <1>1, WFMin
  <1>3. \A n \in S : ~(n < m)  BY <1>2 DEF R, OpToRel
  <1> QED  BY <1>3

\* A set that holds 0 and with a number the next holds every number.
LEMMA Induction ==
  ASSUME NEW S, 0 \in S, \A n \in Nat : n \in S => n + 1 \in S
  PROVE  Nat \subseteq S
  <1> SUFFICES ASSUME Nat \ S # {} PROVE FALSE  OBVIOUS
  <1>1. PICK m \in Nat \ S : \A n \in Nat \ S : m <= n  BY Least
  <1>2. m # 0 /\ m - 1 \in Nat  OBVIOUS
  <1>3. m - 1 \in S  BY <1>1, <1>2
  <1> QED  BY <1>2, <1>3

\* f is built from 0 on, each value out of the one before it.
Builds(f, n, base, step) == f[0] = base /\ \A i \in 1..n : f[i] = step[i][f[i - 1]]

\* A function can be built from 0 on, each value out of the one before it.
LEMMA Recursion ==
  ASSUME NEW n \in Nat, NEW X, NEW base \in X, NEW step,
         \A x \in X : \A i \in 1..n : step[i][x] \in X
  PROVE  \E f : f \in [0..n -> X] /\ Builds(f, n, base, step)
  <1> DEFINE S == {k \in Nat : k <= n => \E f \in [0..k -> X] : Builds(f, k, base, step)}
  <1>1. 0 \in S
    <2> DEFINE f == [i \in 0..0 |-> base]
    <2>1. f \in [0..0 -> X] /\ f[0] = base /\ 1..0 = {}  OBVIOUS
    <2> HIDE DEF f
    <2>2. Builds(f, 0, base, step)  BY <2>1 DEF Builds
    <2> QED  BY <2>1, <2>2
  <1>2. ASSUME NEW k \in Nat, k \in S PROVE k + 1 \in S
    <2> SUFFICES ASSUME k + 1 <= n
                 PROVE  \E f \in [0..(k + 1) -> X] : Builds(f, k + 1, base, step)
      OBVIOUS
    <2>1. PICK f \in [0..k -> X] : Builds(f, k, base, step)  BY <1>2
    <2> DEFINE g == [i \in 0..(k + 1) |-> IF i = k + 1 THEN step[k + 1][f[k]] ELSE f[i]]
    <2>2. f[k] \in X /\ k + 1 \in 1..n  BY <2>1
    <2>3. step[k + 1][f[k]] \in X  BY <2>2
    <2>4. g \in [0..(k + 1) -> X]  BY <2>1, <2>3
    <2>5. \A i \in 0..k : g[i] = f[i]  OBVIOUS
    <2>6. g[k + 1] = step[k + 1][f[k]]  OBVIOUS
    <2> HIDE DEF g
    <2>7. ASSUME NEW i \in 1..(k + 1) PROVE g[i] = step[i][g[i - 1]]
      <3>1. CASE i = k + 1
        <4>1. g[i - 1] = f[k]  BY <2>5, <3>1
        <4> QED  BY <2>6, <3>1, <4>1
      <3>2. CASE i \in 1..k
        <4>1. i - 1 \in 0..k /\ i \in 0..k  BY <3>2
        <4> QED  BY <2>1, <2>5, <3>2, <4>1 DEF Builds
      <3> QED  BY <3>1, <3>2
    <2>8. g[0] = base  BY <2>1, <2>5 DEF Builds
    <2>9. Builds(g, k + 1, base, step)  BY <2>7, <2>8 DEF Builds
    <2> QED  BY <2>4, <2>9
  <1> HIDE DEF S
  <1>3. n \in S  BY <1>1, <1>2, Induction
  <1> QED  BY <1>3 DEF S

\* f and g begin alike and go on alike.
Alike(n, f, g) == f[0] = g[0] /\ \A i \in 1..n : f[i - 1] = g[i - 1] => f[i] = g[i]

\* Such functions are alike.
LEMMA RecursionAgrees ==
  ASSUME NEW n \in Nat, NEW f, NEW g, Alike(n, f, g)
  PROVE  \A i \in 0..n : f[i] = g[i]
  <1> DEFINE S == {k \in Nat : k <= n => f[k] = g[k]}
  <1>1. 0 \in S  BY DEF Alike
  <1>2. ASSUME NEW k \in Nat, k \in S PROVE k + 1 \in S
    <2> SUFFICES ASSUME k + 1 <= n PROVE f[k + 1] = g[k + 1]  OBVIOUS
    <2>1. f[k] = g[k] /\ k + 1 \in 1..n /\ (k + 1) - 1 = k  BY <1>2
    <2> QED  BY <2>1 DEF Alike
  <1> HIDE DEF S
  <1>3. Nat \subseteq S  BY <1>1, <1>2, Induction
  <1> QED  BY <1>3 DEF S

\* Max of a bounded set of numbers is in it and above all others.
LEMMA MaxOf ==
  ASSUME NEW k \in Nat, NEW S \in SUBSET (0..k), S # {}
  PROVE  Max(S) \in S /\ \A x \in S : x <= Max(S)
  <1> DEFINE U == {u \in Nat : \A x \in S : x <= u}
  <1>1. U \in SUBSET Nat /\ k \in U  OBVIOUS
  <1> HIDE DEF U
  <1>2. PICK m \in U : \A n \in U : m <= n  BY <1>1, Least
  <1>3. m \in Nat /\ \A x \in S : x <= m  BY <1>2 DEF U
  <1>4. m \in S
    <2> SUFFICES ASSUME m \notin S PROVE FALSE  OBVIOUS
    <2>1. \A x \in S : x \in Nat /\ x <= m - 1  BY <1>3
    <2>2. m - 1 \in Nat
      <3>1. PICK x \in S : TRUE  OBVIOUS
      <3> QED  BY <1>3, <2>1, <3>1
    <2>3. m - 1 \in U  BY <2>1, <2>2 DEF U
    <2> QED  BY <1>2, <1>3, <2>3
  <1>5. \E x \in S : \A y \in S : x >= y  BY <1>3, <1>4
  <1> QED  BY <1>5 DEF Max

\* Min of a set of numbers is in it and below all others.
LEMMA MinOf ==
  ASSUME NEW S \in SUBSET Nat, S # {}
  PROVE  Min(S) \in S /\ \A x \in S : Min(S) <= x
  <1>1. \E x \in S : \A y \in S : x <= y  BY Least
  <1> QED  BY <1>1 DEF Min

\* What \div and % are: the quotient and the rest.
LEMMA Divided ==
  ASSUME NEW n \in Int, NEW d \in Nat \ {0}
  PROVE  /\ n \div d \in Int /\ n % d \in Int /\ 0 <= n % d /\ n % d < d
         /\ n = d * (n \div d) + (n % d)
  <1>1. d \in Nat /\ d > 0  OBVIOUS
  <1>2. n = d * (n \div d) + (n % d)  BY <1>1
  <1>3. n % d \in 0..(d - 1) /\ n \div d \in Int  BY <1>1
  <1> QED  BY <1>2, <1>3

\* A number has one quotient and one rest.
LEMMA QuotientUnique ==
  ASSUME NEW d \in Nat \ {0}, NEW p \in Int, NEW q \in Int, NEW r \in Int, NEW s \in Int,
         0 <= r, r < d, 0 <= s, s < d, d * p + r = d * q + s
  PROVE  p = q /\ r = s
  <1>1. ~(p < q)
    <2> SUFFICES ASSUME p < q PROVE FALSE  OBVIOUS
    <2>1. d * (p + 1) <= d * q
      <3>1. PICK k \in Nat : q = p + 1 + k
        <4>1. q - p - 1 \in Nat /\ q = p + 1 + (q - p - 1)  OBVIOUS
        <4> QED  BY <4>1
      <3>2. d * q = d * (p + 1) + d * k /\ d * k \in Nat  BY <3>1
      <3> QED  BY <3>2
    <2>2. d * (p + 1) = d * p + d  OBVIOUS
    <2>3. d * p \in Int /\ d * q \in Int  OBVIOUS
    <2> QED  BY <2>1, <2>2, <2>3
  <1>2. ~(q < p)
    <2> SUFFICES ASSUME q < p PROVE FALSE  OBVIOUS
    <2>1. d * (q + 1) <= d * p
      <3>1. PICK k \in Nat : p = q + 1 + k
        <4>1. p - q - 1 \in Nat /\ p = q + 1 + (p - q - 1)  OBVIOUS
        <4> QED  BY <4>1
      <3>2. d * p = d * (q + 1) + d * k /\ d * k \in Nat  BY <3>1
      <3> QED  BY <3>2
    <2>2. d * (q + 1) = d * q + d  OBVIOUS
    <2>3. d * p \in Int /\ d * q \in Int  OBVIOUS
    <2> QED  BY <2>1, <2>2, <2>3
  <1>3. p = q  BY <1>1, <1>2
  <1> QED  BY <1>3

\* A number is divided as its quotient and its rest say.
DividesInto(n, d, q, r) == q \in Int /\ r \in Int /\ 0 <= r /\ r < d /\ n = d * q + r

\* What says how a number is divided names its quotient and its rest.
LEMMA QuotientIs ==
  ASSUME NEW d \in Nat \ {0}, NEW n, NEW q, NEW r, DividesInto(n, d, q, r)
  PROVE  n \div d = q /\ n % d = r
  <1>1. n \in Int  BY DEF DividesInto
  <1> QED  BY <1>1, Divided, QuotientUnique DEF DividesInto

\* One number leaves no more than one quotient.
LEMMA Quotient ==
  ASSUME NEW n \in Int, NEW d \in Nat \ {0}, NEW q \in Int, q * d <= n, n < (q + 1) * d
  PROVE  n \div d = q
  <1>1. (q + 1) * d = d * q + d /\ q * d = d * q /\ d * q \in Int  OBVIOUS
  <1>2. DividesInto(n, d, q, n - d * q)  BY <1>1 DEF DividesInto
  <1> QED  BY <1>2, QuotientIs

\* Between which multiples of d a number lies.
LEMMA QuotientBounds ==
  ASSUME NEW n \in Int, NEW d \in Nat \ {0}
  PROVE  (n \div d) * d <= n /\ n < (n \div d + 1) * d /\ n \div d \in Int
  <1>1. PICK q \in Int, r \in Int : q = n \div d /\ r = n % d /\ 0 <= r /\ r < d /\ n = d * q + r
    BY Divided
  <1>2. (q + 1) * d = d * q + d /\ q * d = d * q /\ d * q \in Int  OBVIOUS
  <1> QED  BY <1>1, <1>2
=============================================================================
