---------------------------- MODULE NumberFacts ----------------------------
(***************************************************************************)
(* Facts about numbers that the other proofs rest on: quotients and        *)
(* remainders, least numbers, induction, loops, and the powers of two.     *)
(* The provers cannot instantiate an induction rule for a predicate, but   *)
(* they can for a set.                                                     *)
(***************************************************************************)
EXTENDS Integers, FiniteSetTheorems, FunctionTheorems, TLAPS

-----------------------------------------------------------------------------
(***************************************************************************)
(* Quotients and remainders                                                *)
(***************************************************************************)
\* What \div and % are.
LEMMA DivMod ==
    ASSUME NEW a \in Int, NEW n \in Nat \ {0}
    PROVE  /\ a % n \in 0 .. n - 1 /\ a \div n \in Int
           /\ a = n * (a \div n) + (a % n)
  BY SMT

\* A product with a positive number is no smaller.
LEMMA ProductGrows ==
    ASSUME NEW j \in Int, NEW n \in Nat \ {0}, j >= 1
    PROVE  n * j >= n
  BY SMT

\* Products are ordered as their second factors.
LEMMA ProductOrder ==
    ASSUME NEW n \in Nat \ {0}, NEW i \in Int, NEW j \in Int, i <= j
    PROVE  n * i <= n * j
  BY SMT

\* There is only one quotient and remainder.
LEMMA ModUnique ==
    ASSUME NEW a \in Int, NEW n \in Nat \ {0}, NEW k \in Int, NEW r \in 0 .. n - 1,
           a = n * k + r
    PROVE  a % n = r /\ a \div n = k
<1> DEFINE q == a \div n
<1>1. a % n \in 0 .. n - 1 /\ q \in Int /\ a = n * q + (a % n)
  BY DivMod
<1>2. n * (q - k) = n * q - n * k /\ n * (k - q) = n * k - n * q
  BY <1>1
<1>3. (q - k >= 1 => n * (q - k) >= n) /\ (k - q >= 1 => n * (k - q) >= n)
  BY <1>1, ProductGrows
<1>4. q = k
  BY <1>1, <1>2, <1>3
<1> QED
  BY <1>1, <1>4

\* Multiples of the modulus do not count.
LEMMA ModShift ==
    ASSUME NEW a \in Int, NEW n \in Nat \ {0}, NEW k \in Int
    PROVE  (a + n * k) % n = a % n
<1>1. /\ a % n \in 0 .. n - 1 /\ a \div n \in Int
      /\ a = n * (a \div n) + (a % n)
  BY DivMod
<1>2. a + n * k = n * ((a \div n) + k) + (a % n) /\ (a \div n) + k \in Int
  BY <1>1
<1>3. a + n * k \in Int
  OBVIOUS
<1> QED
  BY <1>1, <1>2, <1>3, ModUnique

\* A set of numbers has a least one.
LEMMA LeastNumber ==
    ASSUME NEW T \in SUBSET Nat, T # {}
    PROVE  \E x \in T : \A y \in T : x <= y
<1> DEFINE R == {ss \in Nat \X Nat : ss[1] < ss[2]}
<1>1. IsWellFoundedOn(R, Nat)
  BY NatLessThanWellFounded DEF OpToRel
<1>2. PICK x \in T : \A y \in T : ~(<<y, x>> \in R)
  <2> HIDE DEF R
  <2> QED
    BY <1>1, WFMin
<1>3. \A y \in T : ~(y < x)
  BY <1>2
<1> QED
  BY <1>3

\* Induction up to n, over the numbers of a set.
LEMMA Reaches ==
    ASSUME NEW n \in Nat, NEW X, 0 \in X, \A i \in 0 .. n - 1 : i \in X => i + 1 \in X
    PROVE  \A i \in 0 .. n : i \in X
<1> DEFINE T == {i \in 0 .. n : i \notin X}
<1>1. CASE T = {}
  BY <1>1
<1>2. CASE T # {}
  <2>1. T \in SUBSET Nat
    OBVIOUS
  <2>2. PICK x \in T : \A y \in T : x <= y
    <3> HIDE DEF T
    <3> QED
      BY <1>2, <2>1, LeastNumber
  <2>3. x \in 0 .. n /\ x \notin X /\ x # 0
    OBVIOUS
  <2>4. x - 1 \in 0 .. n - 1 /\ (x - 1) + 1 = x /\ x - 1 \in 0 .. n /\ ~(x <= x - 1)
    BY <2>3
  <2>5. x - 1 \in X
    BY <2>2, <2>4
  <2> QED
    BY <2>3, <2>4, <2>5
<1> QED
  BY <1>1, <1>2

\* A loop of n rounds on values of T, of which round i takes a value w to
\* step[i][w], and f, the values it goes through.
Steps(n, T) == [1 .. n -> [T -> T]]

Loop(f, n, T, b, step) ==
    /\ f \in [0 .. n -> T]
    /\ f[0] = b
    /\ \A i \in 1 .. n : f[i] = step[i][f[i - 1]]

\* Every loop goes through some values.
LEMMA Iterates ==
    ASSUME NEW n \in Nat, NEW T, NEW b \in T, NEW step \in Steps(n, T)
    PROVE  \E f : Loop(f, n, T, b, step)
<1> DEFINE Runs(f, m) == f[0] = b /\ \A i \in 1 .. m : f[i] = step[i][f[i - 1]]
           X == {m \in 0 .. n : \E f \in [0 .. m -> T] : Runs(f, m)}
<1>1. 0 \in X
  <2> DEFINE f == [i \in 0 .. 0 |-> b]
  <2>1. f \in [0 .. 0 -> T] /\ f[0] = b
    OBVIOUS
  <2> HIDE DEF f
  <2>2. Runs(f, 0)
    BY <2>1
  <2> HIDE DEF Runs
  <2> QED
    BY <2>1, <2>2
<1>2. ASSUME NEW m \in 0 .. n - 1, m \in X PROVE m + 1 \in X
  <2>1. PICK f \in [0 .. m -> T] : Runs(f, m)
    BY <1>2
  <2> DEFINE g == [i \in 0 .. m + 1 |-> IF i = m + 1 THEN step[m + 1][f[m]] ELSE f[i]]
  <2>2. m \in Nat /\ m + 1 \in 1 .. n /\ m + 1 \in 0 .. n /\ m \in 0 .. m
    OBVIOUS
  <2>3. step[m + 1] \in [T -> T] /\ f[m] \in T
    BY <2>2 DEF Steps
  <2>4. step[m + 1][f[m]] \in T
    BY <2>3
  <2>5. g \in [0 .. m + 1 -> T]
    BY <2>2, <2>4
  <2>6. \A i \in 0 .. m : g[i] = f[i]
    BY <2>2
  <2>7. g[m + 1] = step[m + 1][f[m]]
    BY <2>2
  <2>8. Runs(g, m + 1)
    <3> HIDE DEF g
    <3>1. g[0] = b
      BY <2>1, <2>2, <2>6
    <3>2. ASSUME NEW i \in 1 .. m + 1 PROVE g[i] = step[i][g[i - 1]]
      <4>1. CASE i = m + 1
        <5>1. i - 1 = m /\ g[m] = f[m]
          BY <2>2, <2>6, <4>1
        <5> QED
          BY <2>7, <4>1, <5>1
      <4>2. CASE i # m + 1
        <5>1. i \in 1 .. m /\ i \in 0 .. m /\ i - 1 \in 0 .. m
          BY <2>2, <4>2
        <5>2. g[i] = f[i] /\ g[i - 1] = f[i - 1] /\ f[i] = step[i][f[i - 1]]
          BY <2>1, <2>6, <5>1
        <5> QED
          BY <5>2
      <4> QED
        BY <4>1, <4>2
    <3> QED
      BY <3>1, <3>2
  <2> HIDE DEF g, Runs
  <2> QED
    BY <2>2, <2>5, <2>8
<1>3. \A m \in 0 .. n : m \in X
  <2> HIDE DEF X
  <2> QED
    BY <1>1, <1>2, Reaches
<1>4. n \in X
  <2>1. n \in 0 .. n
    OBVIOUS
  <2> HIDE DEF X
  <2> QED
    BY <1>3, <2>1
<1>5. PICK f \in [0 .. n -> T] : Runs(f, n)
  BY <1>4
<1> QED
  BY <1>5 DEF Loop

-----------------------------------------------------------------------------
(***************************************************************************)
(* Powers of two.  The provers know nothing of 2^k but that it counts the  *)
(* subsets of a set of k elements.                                         *)
(***************************************************************************)
\* 2^k counts the subsets of 1 .. k.
LEMMA PowerCounts ==
    ASSUME NEW k \in Nat
    PROVE  /\ IsFiniteSet(SUBSET (1 .. k))
           /\ Cardinality(SUBSET (1 .. k)) = 2^k
<1>1. IsFiniteSet(1 .. k) /\ Cardinality(1 .. k) = k
  BY FS_Interval
<1> QED
  BY <1>1, FS_SUBSET

\* It is a positive number.
LEMMA PowerType ==
    ASSUME NEW k \in Nat
    PROVE  2^k \in Nat \ {0}
<1>1. Cardinality(SUBSET (1 .. k)) \in Nat
  BY PowerCounts, FS_CardinalityType
<1>2. Cardinality(SUBSET (1 .. k)) # 0
  <2>1. PICK S : S = SUBSET (1 .. k)
    OBVIOUS
  <2>2. S # {} /\ IsFiniteSet(S)
    BY <2>1, PowerCounts
  <2>3. Cardinality(S) # 0
    BY <2>2, FS_EmptySet
  <2> QED
    BY <2>1, <2>3
<1> QED
  BY <1>1, <1>2, PowerCounts

LEMMA PowerZero == 2^0 = 1
<1>1. SUBSET (1 .. 0) = {{}}
  OBVIOUS
<1>2. Cardinality(SUBSET (1 .. 0)) = 1
  BY <1>1, FS_Singleton
<1> QED
  BY <1>2, PowerCounts

\* One more element doubles the subsets: those without it and those with it.
LEMMA PowerNext ==
    ASSUME NEW k \in Nat
    PROVE  2^(k + 1) = 2 * 2^k
<1> DEFINE A == SUBSET (1 .. k)
           B == {X \in SUBSET (1 .. k + 1) : k + 1 \in X}
           f == [X \in A |-> X \cup {k + 1}]
<1>1. SUBSET (1 .. k + 1) = A \cup B
  <2>1. ASSUME NEW X \in SUBSET (1 .. k + 1), k + 1 \notin X
        PROVE  X \in A
    BY <2>1
  <2> QED
    BY <2>1
<1>2. A \cap B = {}
  OBVIOUS
<1>3. f \in Bijection(A, B)
  <2>1. f \in [A -> B]
    OBVIOUS
  <2>2. ASSUME NEW X \in A, NEW Y \in A, f[X] = f[Y]
        PROVE  X = Y
    <3>1. k + 1 \notin X /\ k + 1 \notin Y
      OBVIOUS
    <3>2. X \cup {k + 1} = Y \cup {k + 1}
      BY <2>2
    <3> QED
      BY <3>1, <3>2
  <2>3. ASSUME NEW Z \in B
        PROVE  \E X \in A : f[X] = Z
    <3>1. Z \ {k + 1} \in A
      OBVIOUS
    <3>2. (Z \ {k + 1}) \cup {k + 1} = Z
      OBVIOUS
    <3> QED
      BY <3>1, <3>2
  <2> HIDE DEF A, B, f
  <2> QED
    BY <2>1, <2>2, <2>3, Fun_IsBij
<1>4. IsFiniteSet(A) /\ Cardinality(A) = 2^k
  BY PowerCounts
<1>5. IsFiniteSet(B) /\ Cardinality(B) = Cardinality(A)
  <2> HIDE DEF A, B, f
  <2> QED
    BY <1>3, <1>4, FS_Bijection DEF ExistsBijection
<1>6. Cardinality(A \cup B) = Cardinality(A) + Cardinality(B) - Cardinality(A \cap B)
  <2> HIDE DEF A, B, f
  <2> QED
    BY <1>4, <1>5, FS_Union
<1>7. Cardinality(A \cap B) = 0
  BY <1>2, FS_EmptySet
<1>8. Cardinality(SUBSET (1 .. k + 1)) = 2^(k + 1)
  <2>1. k + 1 \in Nat
    OBVIOUS
  <2> QED
    BY <2>1, PowerCounts
<1>9. 2^k \in Nat
  BY PowerType
<1> HIDE DEF A, B, f
<1>10. Cardinality(A \cup B) = 2^(k + 1)
  BY <1>1, <1>8
<1> QED
  BY <1>4, <1>5, <1>6, <1>7, <1>9, <1>10

\* A smaller power divides a larger one.
LEMMA PowerDivides ==
    ASSUME NEW a \in Nat, NEW b \in Nat, a <= b
    PROVE  \E m \in Nat \ {0} : 2^b = 2^a * m
<1> DEFINE T == {n \in Nat : ~ \E m \in Nat \ {0} : 2^(a + n) = 2^a * m}
<1>1. CASE T = {}
  <2>0. b - a \in Nat
    OBVIOUS
  <2>1. b - a \in Nat /\ b - a \notin T
    <3> HIDE DEF T
    <3> QED
      BY <1>1, <2>0
  <2>2. a + (b - a) = b
    OBVIOUS
  <2> QED
    BY <2>1, <2>2
<1>2. CASE T # {}
  <2>0. T \in SUBSET Nat
    OBVIOUS
  <2>1. PICK n \in T : \A y \in T : n <= y
    <3> HIDE DEF T
    <3> QED
      BY <1>2, <2>0, LeastNumber
  <2>2. n # 0
    <3>1. 2^(a + 0) = 2^a * 1
      BY PowerType
    <3>2. 0 \notin T
      BY <3>1
    <3> QED
      BY <3>2
  <2>3. n - 1 \in Nat /\ n - 1 \notin T
    BY <2>1, <2>2
  <2>4. PICK m \in Nat \ {0} : 2^(a + (n - 1)) = 2^a * m
    BY <2>3
  <2>5. PICK c \in Nat : c = a + (n - 1)
    BY <2>3
  <2>6. c + 1 = a + n /\ 2^(c + 1) = 2 * 2^c
    BY <2>3, <2>5, PowerNext
  <2>7. 2^a \in Nat /\ 2 * m \in Nat \ {0}
    BY PowerType
  <2>8. 2^(a + n) = 2 * (2^a * m)
    BY <2>4, <2>5, <2>6
  <2>9. 2 * (2^a * m) = 2^a * (2 * m)
    BY <2>7
  <2>10. n \notin T
    BY <2>7, <2>8, <2>9
  <2> QED
    BY <2>10
<1> QED
  BY <1>1, <1>2
=============================================================================
