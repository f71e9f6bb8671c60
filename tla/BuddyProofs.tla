---------------------------- MODULE BuddyProofs ----------------------------
(***************************************************************************)
(* Theorems about the buddy system of Buddy, for every MAX_ORDER and every *)
(* size of the pool.                                                       *)
(*                                                                         *)
(* Two page frames are together at order k if one aligned block of 2^k     *)
(* frames holds both.  All the arithmetic is in the first section; from    *)
(* then on the argument is about blocks that are together or are not.      *)
(***************************************************************************)
EXTENDS Buddy, NumberFacts, SequenceTheorems

-----------------------------------------------------------------------------
(***************************************************************************)
(* Aligned blocks                                                          *)
(***************************************************************************)
Together(f, g, k) == f \div 2^k = g \div 2^k

Aligned(p, k) == p % 2^k = 0

\* Dividing twice is dividing by the product.
LEMMA DivDiv ==
    ASSUME NEW f \in Nat, NEW a \in Nat \ {0}, NEW m \in Nat \ {0}
    PROVE  f \div (a * m) = (f \div a) \div m
<1>1. PICK q \in Int, r \in 0 .. a - 1 : q = f \div a /\ f = a * q + r
  BY DivMod
<1>2. PICK h \in Int, b \in 0 .. m - 1 : h = q \div m /\ q = m * h + b
  BY DivMod
<1>3. PICK n \in Nat \ {0} : n = a * m
  OBVIOUS
<1>4. a * q = n * h + a * b
  <2>1. a * q = a * (m * h) + a * b
    BY <1>2
  <2>2. a * (m * h) = (a * m) * h
    OBVIOUS
  <2> QED
    BY <1>3, <2>1, <2>2
<1>5. a * b + r \in 0 .. n - 1
  <2>1. a * b <= a * (m - 1) /\ a * 0 <= a * b
    BY ProductOrder
  <2>2. a * (m - 1) = n - a /\ a * b \in Int /\ a * 0 = 0
    BY <1>3
  <2> QED
    BY <2>1, <2>2
<1>6. PICK x \in 0 .. n - 1 : x = a * b + r
  BY <1>5
<1>7. n * h \in Int /\ a * b \in Int
  OBVIOUS
<1>8. f = n * h + x
  BY <1>1, <1>4, <1>6, <1>7
<1>9. f \div n = h
  BY <1>8, ModUnique
<1> QED
  BY <1>1, <1>2, <1>3, <1>9

\* A quotient of natural numbers.
LEMMA DivNat ==
    ASSUME NEW f \in Nat, NEW a \in Nat \ {0}
    PROVE  f \div a \in Nat
<1>1. PICK q \in Int, r \in 0 .. a - 1 : q = f \div a /\ f = a * q + r
  BY DivMod
<1>2. q <= -1 => a * q <= a * (-1)
  BY ProductOrder
<1>3. a * (-1) = -a /\ a * q \in Int
  OBVIOUS
<1> QED
  BY <1>1, <1>2, <1>3

\* The frames of an aligned block are those together with its first one.
LEMMA SpanTogether ==
    ASSUME NEW p \in Nat, NEW k \in Nat, Aligned(p, k), NEW f
    PROVE  f \in Span(p, k) <=> f \in Nat /\ Together(f, p, k)
<1>1. PICK w \in Nat \ {0} : w = 2^k
  BY PowerType
<1>2. PICK q \in Int : q = p \div w /\ p = w * q
  BY <1>1, DivMod DEF Aligned
<1>3. ASSUME f \in Span(p, k)
      PROVE  f \in Nat /\ Together(f, p, k)
  <2>1. f \in p .. p + w - 1
    BY <1>1, <1>3 DEF Span
  <2>2. PICK r \in 0 .. w - 1 : r = f - p
    BY <2>1
  <2>3. f \in Nat /\ f = w * q + r
    BY <1>2, <2>1, <2>2
  <2>4. f \div w = q
    BY <2>3, ModUnique
  <2> QED
    BY <1>1, <1>2, <2>3, <2>4 DEF Together
<1>4. ASSUME f \in Nat, Together(f, p, k)
      PROVE  f \in Span(p, k)
  <2>1. f \div w = q
    BY <1>1, <1>2, <1>4 DEF Together
  <2>2. PICK r \in 0 .. w - 1 : f = w * q + r
    <3>1. f \in Int /\ f % w \in 0 .. w - 1 /\ f = w * (f \div w) + (f % w)
      BY <1>4, DivMod
    <3> QED
      BY <2>1, <3>1
  <2>3. f \in p .. p + w - 1
    BY <1>2, <1>4, <2>2
  <2> QED
    BY <1>1, <2>3 DEF Span
<1> QED
  BY <1>3, <1>4

\* Frames that are together stay so at higher orders.
LEMMA TogetherUp ==
    ASSUME NEW f \in Nat, NEW g \in Nat, NEW a \in Nat, NEW b \in Nat, a <= b,
           Together(f, g, a)
    PROVE  Together(f, g, b)
<1>1. PICK m \in Nat \ {0} : 2^b = 2^a * m
  BY PowerDivides
<1>2. 2^a \in Nat \ {0}
  BY PowerType
<1>3. f \div (2^a * m) = (f \div 2^a) \div m /\ g \div (2^a * m) = (g \div 2^a) \div m
  BY <1>2, DivDiv
<1> QED
  BY <1>1, <1>3 DEF Together

\* An aligned frame is a multiple of the block size.
LEMMA AlignedMultiple ==
    ASSUME NEW p \in Nat, NEW k \in Nat, Aligned(p, k)
    PROVE  \E q \in Int : p = 2^k * q
<1>1. PICK w \in Nat \ {0} : w = 2^k
  BY PowerType
<1>2. p % w \in 0 .. w - 1 /\ p \div w \in Int /\ p = w * (p \div w) + (p % w)
  BY DivMod
<1>3. PICK q \in Int : p = w * q
  <2>1. PICK q \in Int : q = p \div w
    BY <1>2
  <2>2. p = w * q + 0
    BY <1>1, <1>2, <2>1 DEF Aligned
  <2> QED
    BY <2>2
<1> QED
  BY <1>1, <1>3

\* An aligned frame is aligned at lower orders.
LEMMA AlignedDown ==
    ASSUME NEW p \in Nat, NEW a \in Nat, NEW b \in Nat, a <= b, Aligned(p, b)
    PROVE  Aligned(p, a)
<1>1. PICK m \in Nat \ {0} : 2^b = 2^a * m
  BY PowerDivides
<1>2. PICK v \in Nat \ {0} : v = 2^a
  BY PowerType
<1>3. PICK w \in Nat \ {0} : w = 2^b
  BY PowerType
<1>4. PICK q \in Int : p = w * q
  BY <1>3, AlignedMultiple
<1>5. w * q = v * (m * q) /\ m * q \in Int
  BY <1>1, <1>2, <1>3
<1>6. p = v * (m * q) + 0 /\ 0 \in 0 .. v - 1
  BY <1>4, <1>5
<1>7. p % v = 0
  BY <1>5, <1>6, ModUnique
<1> QED
  BY <1>2, <1>7 DEF Aligned

\* Two aligned frames that are together are the same.
LEMMA AlignedSame ==
    ASSUME NEW p \in Nat, NEW q \in Nat, NEW k \in Nat, Aligned(p, k), Aligned(q, k),
           Together(p, q, k)
    PROVE  p = q
<1>1. PICK w \in Nat \ {0} : w = 2^k
  BY PowerType
<1>2. p = w * (p \div w) + (p % w) /\ q = w * (q \div w) + (q % w)
      /\ p \div w \in Int /\ q \div w \in Int
  BY DivMod
<1>3. p \div w = q \div w /\ p % w = 0 /\ q % w = 0
  BY <1>1 DEF Together, Aligned
<1> QED
  BY <1>2, <1>3

\* A multiple of 2^k.
LEMMA Multiple ==
    ASSUME NEW k \in Nat, NEW q \in Int, NEW p, p = 2^k * q
    PROVE  Aligned(p, k) /\ p \div 2^k = q
<1>1. PICK w \in Nat \ {0} : w = 2^k
  BY PowerType
<1>2. p \in Int /\ p = w * q + 0 /\ 0 \in 0 .. w - 1
  BY <1>1
<1>3. p % w = 0 /\ p \div w = q
  BY <1>2, ModUnique
<1> QED
  BY <1>1, <1>3 DEF Aligned

\* Merged(p, k) is the first frame of the block of order k that p is in.
LEMMA MergedFirst ==
    ASSUME NEW p \in Nat, NEW k \in Nat
    PROVE  /\ Merged(p, k) \in Nat /\ Aligned(Merged(p, k), k)
           /\ Together(Merged(p, k), p, k)
           /\ Aligned(p, k) => Merged(p, k) = p
<1>1. PICK w \in Nat \ {0} : w = 2^k
  BY PowerType
<1>2. PICK q \in Int, r \in 0 .. w - 1 : q = p \div w /\ r = p % w /\ p = w * q + r
  BY DivMod
<1>3. q \in Nat
  BY <1>2, DivNat
<1>4. w * q \in Nat /\ Merged(p, k) = w * q
  BY <1>1, <1>2, <1>3 DEF Merged
<1>5. Aligned(Merged(p, k), k) /\ Merged(p, k) \div 2^k = q
  BY <1>1, <1>4, Multiple
<1>6. Aligned(p, k) => Merged(p, k) = p
  BY <1>1, <1>2, <1>4 DEF Aligned
<1> QED
  BY <1>1, <1>2, <1>4, <1>5, <1>6 DEF Together

\* The buddy of an aligned block is the other half of the block of the next order.
LEMMA BuddyHalf ==
    ASSUME NEW p \in Nat, NEW k \in Nat, Aligned(p, k)
    PROVE  LET b == FIND_BUDDY_PFN(p, k)
           IN  /\ b \in Nat /\ Aligned(b, k)
               /\ ~Together(b, p, k) /\ Together(b, p, k + 1)
               /\ FIND_BUDDY_PFN(b, k) = p
               /\ \A f \in Nat : Together(f, p, k + 1) =>
                                   Together(f, p, k) \/ Together(f, b, k)
<1> DEFINE b == FIND_BUDDY_PFN(p, k)
<1>1. PICK w \in Nat \ {0} : w = 2^k
  BY PowerType
<1>2. PICK q \in Nat : q = p \div w /\ p = w * q
  BY <1>1, DivMod, DivNat DEF Aligned
<1>3. PICK h \in Nat, e \in {0, 1} : q = 2 * h + e /\ e = q % 2 /\ h = q \div 2
  <2>1. q \div 2 \in Int /\ q % 2 \in 0 .. 1 /\ q = 2 * (q \div 2) + (q % 2)
    BY DivMod
  <2>2. q \div 2 \in Nat
    BY DivNat
  <2> QED
    BY <2>1, <2>2
<1>4. PICK c \in Nat : c = IF e = 0 THEN q + 1 ELSE q - 1
  BY <1>3
<1>5. w * (q + 1) = w * q + w /\ w * (q - 1) = w * q - w /\ w * q \in Int
  OBVIOUS
<1>6. b = w * c
  BY <1>1, <1>2, <1>3, <1>4, <1>5 DEF FIND_BUDDY_PFN
<1>7. b \in Nat /\ Aligned(b, k) /\ b \div 2^k = c
  <2> HIDE DEF b
  <2>1. w * c \in Nat
    OBVIOUS
  <2>2. b = 2^k * c
    BY <1>1, <1>6
  <2> QED
    BY <1>6, <2>1, <2>2, Multiple
<1>8. c = 2 * h + (1 - e) /\ c # q
  BY <1>3, <1>4
<1>9. c \div 2 = h /\ c % 2 = 1 - e
  BY <1>3, <1>8, ModUnique
<1>10. FIND_BUDDY_PFN(b, k) = p
  <2> HIDE DEF b
  <2>1. FIND_BUDDY_PFN(b, k) = IF c % 2 = 0 THEN b + w ELSE b - w
    BY <1>1, <1>7 DEF FIND_BUDDY_PFN
  <2> QED
    BY <1>2, <1>3, <1>4, <1>5, <1>6, <1>9, <2>1
<1> HIDE DEF b
<1>11. ~Together(b, p, k)
  BY <1>1, <1>2, <1>7, <1>8 DEF Together
<1>12. \A f \in Nat : f \div 2^(k + 1) = (f \div w) \div 2
  <2>1. 2^(k + 1) = w * 2
    BY <1>1, PowerNext
  <2>2. ASSUME NEW f \in Nat PROVE f \div (w * 2) = (f \div w) \div 2
    BY DivDiv
  <2> QED
    BY <2>1, <2>2
<1>13. Together(b, p, k + 1)
  BY <1>1, <1>2, <1>3, <1>7, <1>9, <1>12 DEF Together
<1>14. ASSUME NEW f \in Nat, Together(f, p, k + 1)
       PROVE  Together(f, p, k) \/ Together(f, b, k)
  <2>1. PICK x \in Nat : x = f \div w
    BY DivNat
  <2>2. x \div 2 = h
    BY <1>2, <1>3, <1>12, <1>14, <2>1 DEF Together
  <2>3. x = 2 * h + (x % 2) /\ x % 2 \in 0 .. 1
    BY <2>2, DivMod
  <2>4. x = q \/ x = c
    BY <1>3, <1>8, <2>3
  <2> QED
    BY <1>1, <1>2, <1>7, <2>1, <2>4 DEF Together
<1> QED
  BY <1>7, <1>10, <1>11, <1>13, <1>14 DEF b

\* What the merge loop looks at, at order k: the half of the block of order k + 1 that
\* the merged block is not.
LEMMA BuddyAtHalf ==
    ASSUME NEW p \in Nat, NEW k \in Nat
    PROVE  /\ BuddyAt(p, k) \in Nat /\ Aligned(BuddyAt(p, k), k)
           /\ FIND_BUDDY_PFN(BuddyAt(p, k), k) = Merged(p, k)
           /\ \A f \in Nat : Together(f, BuddyAt(p, k), k) =>
                               ~Together(f, p, k) /\ Together(f, p, k + 1)
           /\ \A f \in Nat : Together(f, p, k + 1) /\ ~Together(f, p, k) =>
                               Together(f, BuddyAt(p, k), k)
<1> DEFINE q == Merged(p, k)
           b == BuddyAt(p, k)
<1>1. q \in Nat /\ Aligned(q, k) /\ Together(q, p, k)
  BY MergedFirst
<1>2. b = FIND_BUDDY_PFN(q, k)
  BY DEF BuddyAt
<1> HIDE DEF q, b
<1>3. /\ b \in Nat /\ Aligned(b, k)
      /\ ~Together(b, q, k) /\ Together(b, q, k + 1)
      /\ FIND_BUDDY_PFN(b, k) = q
      /\ \A f \in Nat : Together(f, q, k + 1) => Together(f, q, k) \/ Together(f, b, k)
  BY <1>1, <1>2, BuddyHalf
<1>4. Together(q, p, k + 1)
  BY <1>1, TogetherUp
<1>5. ASSUME NEW f \in Nat, Together(f, b, k)
      PROVE  ~Together(f, p, k) /\ Together(f, p, k + 1)
  <2>1. Together(f, b, k + 1)
    BY <1>3, <1>5, TogetherUp
  <2> QED
    BY <1>1, <1>3, <1>4, <1>5, <2>1 DEF Together
<1>6. ASSUME NEW f \in Nat, Together(f, p, k + 1), ~Together(f, p, k)
      PROVE  Together(f, b, k)
  <2>1. Together(f, q, k + 1) /\ ~Together(f, q, k)
    BY <1>1, <1>4, <1>6 DEF Together
  <2> QED
    BY <1>3, <2>1
<1> QED
  BY <1>3, <1>5, <1>6 DEF q, b

\* A block of order m is cut into the block of order o of one of its frames and the
\* buddies at the orders between.
LEMMA Chain ==
    ASSUME NEW p \in Nat, NEW f \in Nat, NEW o \in Nat, NEW m \in Nat, o <= m,
           Together(f, p, m)
    PROVE  Together(f, p, o) \/ \E k \in o .. m - 1 : Together(f, BuddyAt(p, k), k)
<1> DEFINE T == {k \in o .. m : Together(f, p, k)}
<1>1. T \in SUBSET Nat /\ m \in T
  OBVIOUS
<1>2. PICK k \in T : \A y \in T : k <= y
  <2> HIDE DEF T
  <2> QED
    BY <1>1, LeastNumber
<1>3. CASE k = o
  BY <1>2, <1>3
<1>4. CASE k # o
  <2>1. k - 1 \in o .. m - 1 /\ k - 1 \in Nat /\ (k - 1) + 1 = k /\ k - 1 \notin T
    BY <1>2, <1>4
  <2>2. ~Together(f, p, k - 1) /\ Together(f, p, (k - 1) + 1)
    BY <1>2, <2>1
  <2>3. PICK j \in Nat : j = k - 1
    BY <2>1
  <2>4. Together(f, BuddyAt(p, j), j)
    BY <2>2, <2>3, BuddyAtHalf
  <2> QED
    BY <2>1, <2>3, <2>4
<1> QED
  BY <1>3, <1>4

\* The pieces do not overlap.
LEMMA ChainApart ==
    ASSUME NEW p \in Nat, NEW f \in Nat, NEW k \in Nat, Together(f, BuddyAt(p, k), k)
    PROVE  /\ \A o \in Nat : o <= k => ~Together(f, p, o)
           /\ \A m \in Nat : k < m => Together(f, p, m)
           /\ \A j \in Nat : Together(f, BuddyAt(p, j), j) => j = k
<1>1. ASSUME NEW a \in Nat, Together(f, BuddyAt(p, a), a)
      PROVE  /\ \A o \in Nat : o <= a => ~Together(f, p, o)
             /\ \A m \in Nat : a < m => Together(f, p, m)
  <2>1. ~Together(f, p, a) /\ Together(f, p, a + 1)
    BY <1>1, BuddyAtHalf
  <2>2. ASSUME NEW o \in Nat, o <= a PROVE ~Together(f, p, o)
    BY <2>1, <2>2, TogetherUp
  <2>3. ASSUME NEW m \in Nat, a < m PROVE Together(f, p, m)
    <3>1. a + 1 \in Nat /\ a + 1 <= m
      BY <2>3
    <3> QED
      BY <2>1, <3>1, TogetherUp
  <2> QED
    BY <2>2, <2>3
<1>2. ASSUME NEW j \in Nat, Together(f, BuddyAt(p, j), j)
      PROVE  j = k
  <2>1. j < k => FALSE
    BY <1>1, <1>2
  <2>2. k < j => FALSE
    BY <1>1, <1>2
  <2> QED
    BY <2>1, <2>2
<1> QED
  BY <1>1, <1>2

\* Where the merge loop has put the block it frees: the block itself or a buddy.
LEMMA MergedChain ==
    ASSUME NEW p \in Nat, NEW o \in Nat, NEW m \in Nat, o <= m, Aligned(p, o)
    PROVE  Merged(p, m) = p \/ \E k \in o .. m - 1 : Merged(p, m) = BuddyAt(p, k)
<1> DEFINE q == Merged(p, m)
<1>1. q \in Nat /\ Aligned(q, m) /\ Together(q, p, m)
  BY MergedFirst
<1> HIDE DEF q
<1>2. CASE Together(q, p, o)
  <2>1. Aligned(q, o)
    BY <1>1, AlignedDown
  <2>2. q = p
    BY <1>1, <1>2, <2>1, AlignedSame
  <2> QED
    BY <2>2 DEF q
<1>3. ASSUME NEW k \in o .. m - 1, Together(q, BuddyAt(p, k), k)
      PROVE  q = BuddyAt(p, k)
  <2>1. k \in Nat /\ k <= m
    OBVIOUS
  <2>2. Aligned(q, k)
    BY <1>1, <2>1, AlignedDown
  <2>3. BuddyAt(p, k) \in Nat /\ Aligned(BuddyAt(p, k), k)
    BY <2>1, BuddyAtHalf
  <2> QED
    BY <1>1, <1>3, <2>1, <2>2, <2>3, AlignedSame
<1>4. Together(q, p, o) \/ \E k \in o .. m - 1 : Together(q, BuddyAt(p, k), k)
  BY <1>1, Chain
<1> QED
  BY <1>2, <1>3, <1>4 DEF q

\* The constants.
LEMMA BuddyBounds ==
    /\ MAX_ORDER \in Nat /\ NrBlocks \in Nat \ {0} /\ 2^MAX_ORDER \in Nat \ {0}
    /\ NULL \notin Frames
    /\ \A f \in Frames : f \in Nat
    /\ \A k \in Orders : k \in Nat /\ k <= MAX_ORDER
<1>1. MAX_ORDER \in Nat /\ NrBlocks \in Nat \ {0} /\ NULL \notin Int
  BY BuddyAssumption
<1>2. 2^MAX_ORDER \in Nat \ {0}
  BY <1>1, PowerType
<1>3. NrBlocks * 2^MAX_ORDER \in Nat
  BY <1>1, <1>2
<1>4. \A f \in Frames : f \in Nat
  BY <1>3 DEF Frames
<1>5. \A k \in Orders : k \in Nat /\ k <= MAX_ORDER
  BY <1>1 DEF Orders
<1> QED
  BY <1>1, <1>2, <1>4, <1>5

\* A number is a frame if the block of order MAX_ORDER it is in is one of the pool.
LEMMA FrameBlock ==
    ASSUME NEW f \in Nat
    PROVE  f \in Frames <=> f \div 2^MAX_ORDER < NrBlocks
<1>1. PICK w \in Nat \ {0} : w = 2^MAX_ORDER
  BY BuddyBounds
<1>2. PICK n \in Nat \ {0} : n = NrBlocks
  BY BuddyBounds
<1>3. f % w \in 0 .. w - 1 /\ f \div w \in Int /\ f = w * (f \div w) + (f % w)
  BY DivMod
<1>4. PICK q \in Int, r \in 0 .. w - 1 : q = f \div w /\ f = w * q + r
  BY <1>3
<1>5. w * q \in Int /\ w * n \in Int /\ w * (q + 1) = w * q + w /\ n * w = w * n
  OBVIOUS
<1>6. q + 1 <= n => w * (q + 1) <= w * n
  BY ProductOrder
<1>7. n <= q => w * n <= w * q
  BY ProductOrder
<1>8. f < w * n <=> q < n
  BY <1>4, <1>5, <1>6, <1>7
<1>9. f \in Frames <=> f < w * n
  BY <1>1, <1>2, <1>5 DEF Frames
<1> QED
  BY <1>1, <1>2, <1>4, <1>8, <1>9

\* What is together with a frame is a frame.
LEMMA FrameTogether ==
    ASSUME NEW p \in Frames, NEW k \in Orders, NEW f \in Nat, Together(f, p, k)
    PROVE  f \in Frames
<1>1. p \in Nat /\ k \in Nat /\ MAX_ORDER \in Nat /\ k <= MAX_ORDER
  BY BuddyBounds
<1>2. Together(f, p, MAX_ORDER)
  BY <1>1, TogetherUp
<1>3. p \div 2^MAX_ORDER < NrBlocks
  BY <1>1, FrameBlock
<1> QED
  BY <1>2, <1>3, FrameBlock DEF Together

\* The frames of the merge loop are frames.
LEMMA ChainFrames ==
    ASSUME NEW p \in Frames
    PROVE  /\ \A k \in Orders : Merged(p, k) \in Frames
           /\ \A k \in Orders : k < MAX_ORDER => BuddyAt(p, k) \in Frames
<1>1. p \in Nat /\ MAX_ORDER \in Nat /\ MAX_ORDER \in Orders
  BY BuddyBounds DEF Orders
<1>2. ASSUME NEW k \in Orders PROVE Merged(p, k) \in Frames
  <2>1. k \in Nat
    BY BuddyBounds
  <2> QED
    BY <1>1, <2>1, MergedFirst, FrameTogether
<1>3. ASSUME NEW k \in Orders, k < MAX_ORDER PROVE BuddyAt(p, k) \in Frames
  <2>1. k \in Nat /\ k + 1 \in Orders
    BY <1>1, <1>3, BuddyBounds DEF Orders
  <2>2. BuddyAt(p, k) \in Nat /\ Together(BuddyAt(p, k), BuddyAt(p, k), k)
    BY <1>1, <2>1, BuddyAtHalf DEF Together
  <2>3. Together(BuddyAt(p, k), p, k + 1)
    BY <1>1, <2>1, <2>2, BuddyAtHalf
  <2> QED
    BY <2>1, <2>2, <2>3, FrameTogether
<1> QED
  BY <1>2, <1>3

-----------------------------------------------------------------------------
(***************************************************************************)
(* The free lists.  A list holds each of its pages once.                   *)
(***************************************************************************)
Once(s) == \A i, j \in 1 .. Len(s) : s[i] = s[j] => i = j

\* list_add_tail
LEMMA ListAdded ==
    ASSUME NEW S, NEW s \in Seq(S), Once(s), NEW e \in S, e \notin ToSet(s)
    PROVE  /\ Append(s, e) \in Seq(S) /\ Len(Append(s, e)) = Len(s) + 1
           /\ ToSet(Append(s, e)) = ToSet(s) \cup {e}
           /\ Once(Append(s, e))
<1> DEFINE t == Append(s, e)
           n == Len(s)
<1>1. /\ n \in Nat /\ t \in Seq(S) /\ Len(t) = n + 1 /\ t[n + 1] = e
      /\ \A i \in 1 .. n : t[i] = s[i]
  BY AppendProperties
<1>2. DOMAIN s = 1 .. n /\ DOMAIN t = 1 .. n + 1
  BY <1>1
<1> HIDE DEF t
<1>3. \A i \in 1 .. n : s[i] # e
  BY <1>2 DEF ToSet
<1>4. ToSet(t) = ToSet(s) \cup {e}
  BY <1>1, <1>2 DEF ToSet
<1>5. Once(t)
  BY <1>1, <1>3 DEF Once
<1> QED
  BY <1>1, <1>4, <1>5 DEF t

\* The list without its first page.
LEMMA ListTail ==
    ASSUME NEW S, NEW s \in Seq(S), Once(s), s # <<>>
    PROVE  /\ Head(s) \in S /\ Head(s) \in ToSet(s)
           /\ Tail(s) \in Seq(S) /\ Len(Tail(s)) = Len(s) - 1
           /\ ToSet(Tail(s)) = ToSet(s) \ {Head(s)}
           /\ Once(Tail(s))
<1> DEFINE t == Tail(s)
           n == Len(s)
<1>1. /\ n \in Nat \ {0} /\ t \in Seq(S) /\ Len(t) = n - 1 /\ Head(s) = s[1]
      /\ \A i \in 1 .. n - 1 : t[i] = s[i + 1]
  OBVIOUS
<1>2. DOMAIN s = 1 .. n /\ DOMAIN t = 1 .. n - 1 /\ 1 \in 1 .. n /\ s[1] \in S
  BY <1>1
<1> HIDE DEF t
<1>3. \A i \in 1 .. n - 1 : i + 1 \in 1 .. n /\ s[i + 1] # s[1]
  BY <1>1, <1>2 DEF Once
<1>4. ASSUME NEW i \in 1 .. n, s[i] # s[1]
      PROVE  i - 1 \in 1 .. n - 1 /\ t[i - 1] = s[i]
  <2>1. i - 1 \in 1 .. n - 1 /\ (i - 1) + 1 = i
    BY <1>1, <1>4
  <2> QED
    BY <1>1, <2>1
<1>5. ToSet(t) = ToSet(s) \ {s[1]}
  <2>1. ASSUME NEW x \in ToSet(t) PROVE x \in ToSet(s) \ {s[1]}
    <3>1. PICK i \in 1 .. n - 1 : x = t[i]
      BY <1>2 DEF ToSet
    <3>2. x = s[i + 1] /\ i + 1 \in 1 .. n /\ s[i + 1] # s[1]
      BY <1>1, <1>3, <3>1
    <3> QED
      BY <1>2, <3>2 DEF ToSet
  <2>2. ASSUME NEW x \in ToSet(s) \ {s[1]} PROVE x \in ToSet(t)
    BY <1>2, <1>4 DEF ToSet
  <2> QED
    BY <2>1, <2>2
<1>6. Once(t)
  BY <1>1, <1>3 DEF Once
<1> QED
  BY <1>1, <1>2, <1>5, <1>6 DEF t, ToSet

\* list_del
LEMMA ListDeleted ==
    ASSUME NEW S, NEW s \in Seq(S), Once(s), NEW e \in ToSet(s)
    PROVE  /\ RemoveFirst(s, e) \in Seq(S) /\ Len(RemoveFirst(s, e)) = Len(s) - 1
           /\ ToSet(RemoveFirst(s, e)) = ToSet(s) \ {e}
           /\ Once(RemoveFirst(s, e))
<1> DEFINE n == Len(s)
           t == RemoveFirst(s, e)
           I == {i \in 1 .. n : s[i] = e}
           p == CHOOSE x \in I : \A y \in I : x <= y
<1>1. n \in Nat /\ DOMAIN s = 1 .. n /\ I # {} /\ I \in SUBSET Nat
  BY DEF ToSet
<1>2. t = SubSeq(s, 1, p - 1) \o SubSeq(s, p + 1, n)
  <2>1. SelectInSeq(s, LAMBDA v : v = e) = p
    BY <1>1 DEF SelectInSeq, Min
  <2>2. t = RemoveAt(s, SelectInSeq(s, LAMBDA v : v = e))
    BY <1>1 DEF RemoveFirst
  <2> QED
    BY <2>1, <2>2 DEF RemoveAt
<1>3. p \in I
  <2>1. \E x \in I : \A y \in I : x <= y
    <3> HIDE DEF I
    <3> QED
      BY <1>1, LeastNumber
  <2> QED
    BY <2>1
<1>4. p \in 1 .. n /\ s[p] = e
  BY <1>3
<1> HIDE DEF p, I, t
<1>5. PICK a \in Seq(S), b \in Seq(S) :
        /\ a = SubSeq(s, 1, p - 1) /\ b = SubSeq(s, p + 1, n)
        /\ Len(a) = p - 1 /\ Len(b) = n - p
        /\ \A i \in 1 .. p - 1 : a[i] = s[i]
        /\ \A i \in 1 .. n - p : b[i] = s[p + i]
  <2>1. SubSeq(s, 1, p - 1) \in Seq(S) /\ Len(SubSeq(s, 1, p - 1)) = p - 1
        /\ \A i \in 1 .. p - 1 : SubSeq(s, 1, p - 1)[i] = s[i]
    BY <1>1, <1>4
  <2>2. SubSeq(s, p + 1, n) \in Seq(S) /\ Len(SubSeq(s, p + 1, n)) = n - p
        /\ \A i \in 1 .. n - p : SubSeq(s, p + 1, n)[i] = s[p + i]
    <3>1. PICK c \in 1 .. n + 1 : c = p + 1
      BY <1>1, <1>4
    <3>2. /\ SubSeq(s, c, n) \in Seq(S) /\ Len(SubSeq(s, c, n)) = n - c + 1
          /\ \A i \in 1 .. n - c + 1 : SubSeq(s, c, n)[i] = s[c + i - 1]
      BY <1>1, SubSeqProperties
    <3>3. n - c + 1 = n - p /\ \A i \in 1 .. n - p : c + i - 1 = p + i
      BY <1>1, <1>4, <3>1
    <3> QED
      BY <3>1, <3>2, <3>3
  <2> QED
    BY <2>1, <2>2
<1>6. /\ t \in Seq(S) /\ Len(t) = (p - 1) + (n - p)
      /\ \A i \in 1 .. (p - 1) + (n - p) : t[i] = IF i <= p - 1 THEN a[i] ELSE b[i - (p - 1)]
  <2>1. /\ a \o b \in Seq(S) /\ Len(a \o b) = Len(a) + Len(b)
        /\ \A i \in 1 .. Len(a) + Len(b) :
             (a \o b)[i] = IF i <= Len(a) THEN a[i] ELSE b[i - Len(a)]
    BY ConcatProperties
  <2> QED
    BY <1>2, <1>5, <2>1
<1>7. (p - 1) + (n - p) = n - 1
  BY <1>1, <1>4
<1>8. \A i \in 1 .. n - 1 : t[i] = IF i < p THEN s[i] ELSE s[i + 1]
  <2> SUFFICES ASSUME NEW i \in 1 .. n - 1 PROVE t[i] = IF i < p THEN s[i] ELSE s[i + 1]
    OBVIOUS
  <2>1. t[i] = IF i <= p - 1 THEN a[i] ELSE b[i - (p - 1)]
    BY <1>6, <1>7
  <2>2. CASE i < p
    <3>1. i \in 1 .. p - 1 /\ i <= p - 1
      BY <1>1, <1>4, <2>2
    <3>2. a[i] = s[i]
      BY <1>5, <3>1
    <3> QED
      BY <2>1, <2>2, <3>1, <3>2
  <2>3. CASE ~(i < p)
    <3>1. i - (p - 1) \in 1 .. n - p /\ p + (i - (p - 1)) = i + 1 /\ ~(i <= p - 1)
      BY <1>1, <1>4, <2>3
    <3> QED
      BY <1>5, <2>1, <2>3, <3>1
  <2> QED
    BY <2>2, <2>3
<1>9. Len(t) = n - 1 /\ DOMAIN t = 1 .. n - 1
  BY <1>6, <1>7
<1>10. \A i \in 1 .. n : s[i] = e => i = p
  BY <1>4 DEF Once
<1>11. ToSet(t) = ToSet(s) \ {e}
  <2>1. ASSUME NEW i \in 1 .. n - 1 PROVE t[i] \in ToSet(s) \ {e}
    <3>1. i \in 1 .. n /\ i + 1 \in 1 .. n
      BY <1>1
    <3>2. CASE i < p
      <4>1. t[i] = s[i] /\ i # p
        BY <1>1, <1>4, <1>8, <3>2
      <4> QED
        BY <1>1, <1>10, <3>1, <4>1 DEF ToSet
    <3>3. CASE ~(i < p)
      <4>1. t[i] = s[i + 1] /\ i + 1 # p
        BY <1>1, <1>4, <1>8, <3>3
      <4> QED
        BY <1>1, <1>10, <3>1, <4>1 DEF ToSet
    <3> QED
      BY <3>2, <3>3
  <2>2. ASSUME NEW i \in 1 .. n, s[i] # e PROVE s[i] \in ToSet(t)
    <3>1. CASE i < p
      <4>1. i \in 1 .. n - 1 /\ t[i] = s[i]
        BY <1>1, <1>4, <1>8, <3>1
      <4> QED
        BY <1>9, <4>1 DEF ToSet
    <3>2. CASE i > p
      <4>1. i - 1 \in 1 .. n - 1 /\ ~(i - 1 < p) /\ (i - 1) + 1 = i
        BY <1>1, <1>4, <3>2
      <4>2. t[i - 1] = s[i]
        BY <1>8, <4>1
      <4> QED
        BY <1>9, <4>1, <4>2 DEF ToSet
    <3> QED
      BY <1>1, <1>4, <2>2, <3>1, <3>2
  <2>3. \A x \in ToSet(t) : x \in ToSet(s) \ {e}
    BY <1>9, <2>1 DEF ToSet
  <2>4. \A x \in ToSet(s) \ {e} : x \in ToSet(t)
    BY <1>1, <2>2 DEF ToSet
  <2> QED
    BY <2>3, <2>4
<1>12. Once(t)
  <2> SUFFICES ASSUME NEW i \in 1 .. n - 1, NEW j \in 1 .. n - 1, t[i] = t[j]
               PROVE  i = j
    BY <1>9 DEF Once
  <2>1. i \in 1 .. n /\ j \in 1 .. n /\ i + 1 \in 1 .. n /\ j + 1 \in 1 .. n
    BY <1>1
  <2>2. PICK x \in 1 .. n, y \in 1 .. n : /\ x = IF i < p THEN i ELSE i + 1
                                          /\ y = IF j < p THEN j ELSE j + 1
    BY <2>1
  <2>3. s[x] = s[y]
    BY <1>8, <2>2
  <2>4. x = y
    BY <2>3 DEF Once
  <2> QED
    BY <1>1, <1>4, <2>2, <2>4
<1> QED
  BY <1>6, <1>9, <1>11, <1>12 DEF t

\* How many pages a list holds.
LEMMA ListCount ==
    ASSUME NEW S, NEW s \in Seq(S), Once(s)
    PROVE  Cardinality(ToSet(s)) = Len(s)
<1>1. Len(s) \in Nat /\ DOMAIN s = 1 .. Len(s) /\ s \in [1 .. Len(s) -> ToSet(s)]
  BY DEF ToSet
<1>2. s \in Bijection(1 .. Len(s), ToSet(s))
  <2>1. \A i, j \in 1 .. Len(s) : s[i] = s[j] => i = j
    BY DEF Once
  <2>2. \A x \in ToSet(s) : \E i \in 1 .. Len(s) : s[i] = x
    BY <1>1 DEF ToSet
  <2> QED
    BY <1>1, <2>1, <2>2, Fun_IsBij
<1>3. ExistsBijection(1 .. Len(s), ToSet(s))
  BY <1>2 DEF ExistsBijection
<1> QED
  BY <1>1, <1>3, FS_CountingElements

-----------------------------------------------------------------------------
(***************************************************************************)
(* Tilings.  B is the set of the first frames of blocks, ord their orders: *)
(* every frame of the pool is in exactly one of them.                      *)
(***************************************************************************)
Tiles(B, ord) ==
    /\ \A p \in B : p \in Frames /\ ord[p] \in Orders /\ Aligned(p, ord[p])
    /\ \A p, q \in B : \A f \in Frames :
         Together(f, p, ord[p]) /\ Together(f, q, ord[q]) => p = q
    /\ \A f \in Frames : \E p \in B : Together(f, p, ord[p])

\* The halves that buddy_block_alloc puts back when it cuts block t from order i to o,
\* and the buddies with which buddy_block_free merges t from order o to i.
Halves(t, o, i) == {BuddyAt(t, k) : k \in o .. i - 1}

\* The halves are different from one another and from t.
LEMMA HalvesApart ==
    ASSUME NEW t \in Frames, NEW o \in Orders, NEW i \in Orders,
           NEW k \in o .. i - 1
    PROVE  /\ k \in Orders /\ k < MAX_ORDER /\ k \in Nat /\ k < i
           /\ BuddyAt(t, k) \in Frames /\ BuddyAt(t, k) # t
           /\ Together(BuddyAt(t, k), t, i)
           /\ \A j \in o .. i - 1 : BuddyAt(t, j) = BuddyAt(t, k) => j = k
<1>1. MAX_ORDER \in Nat /\ o \in Nat /\ i \in Nat /\ i <= MAX_ORDER /\ t \in Nat
  BY BuddyBounds
<1>2. k \in Orders /\ k < MAX_ORDER /\ k \in Nat /\ k < i
  BY <1>1 DEF Orders
<1>3. BuddyAt(t, k) \in Frames /\ BuddyAt(t, k) \in Nat
  BY <1>2, ChainFrames, BuddyBounds
<1>4. Together(BuddyAt(t, k), BuddyAt(t, k), k) /\ Together(t, t, k)
  BY DEF Together
<1>5. ~Together(BuddyAt(t, k), t, k) /\ Together(BuddyAt(t, k), t, i)
  BY <1>1, <1>2, <1>3, <1>4, ChainApart
<1>6. ASSUME NEW j \in o .. i - 1, BuddyAt(t, j) = BuddyAt(t, k)
      PROVE  j = k
  <2>1. j \in Nat /\ Together(BuddyAt(t, k), BuddyAt(t, j), j)
    BY <1>1, <1>6 DEF Together
  <2> QED
    BY <1>1, <1>2, <1>3, <1>4, <2>1, ChainApart
<1> QED
  BY <1>2, <1>3, <1>4, <1>5, <1>6

\* A block cut in halves: the pool is still tiled.
LEMMA CutTiles ==
    ASSUME NEW B, NEW ord, Tiles(B, ord), NEW t \in B, NEW o \in Orders, o <= ord[t],
           NEW cut, cut[t] = o,
           \A k \in o .. ord[t] - 1 : cut[BuddyAt(t, k)] = k,
           \A p \in B : p # t => cut[p] = ord[p]
    PROVE  Tiles(B \cup Halves(t, o, ord[t]), cut)
<1> DEFINE i == ord[t]
           C == B \cup Halves(t, o, i)
<1>1. /\ t \in Frames /\ i \in Orders /\ Aligned(t, i) /\ t \in Nat /\ i \in Nat /\ o \in Nat
      /\ o <= i
  BY BuddyBounds DEF Tiles
<1>2. Aligned(t, o)
  BY <1>1, AlignedDown
<1>3. \A k \in o .. i - 1 : /\ k \in Nat /\ k \in Orders /\ BuddyAt(t, k) \in Frames
                            /\ BuddyAt(t, k) # t /\ Aligned(BuddyAt(t, k), k)
  BY <1>1, HalvesApart, BuddyAtHalf
<1> HIDE DEF i
<1>4. \A k \in o .. i - 1 : cut[BuddyAt(t, k)] = k
  BY DEF i
<1>5. \A p \in C : p \in Frames /\ cut[p] \in Orders /\ Aligned(p, cut[p])
  <2>1. \A p \in B : p \in Frames /\ cut[p] \in Orders /\ Aligned(p, cut[p])
    BY <1>2 DEF Tiles
  <2>2. \A p \in Halves(t, o, i) : p \in Frames /\ cut[p] \in Orders /\ Aligned(p, cut[p])
    BY <1>3, <1>4 DEF Halves
  <2> QED
    BY <2>1, <2>2
\* A frame of the old block t is in no other old block, and in one of the pieces.
<1>6. ASSUME NEW f \in Frames, NEW p \in B, p # t, Together(f, p, cut[p])
      PROVE  ~Together(f, t, i)
  BY <1>6 DEF Tiles, i
<1>7. ASSUME NEW f \in Frames, NEW p \in C, Together(f, p, cut[p])
      PROVE  \/ p \in B /\ p # t /\ ~Together(f, t, i)
             \/ p = t /\ Together(f, t, o) /\ Together(f, t, i)
             \/ \E k \in o .. i - 1 : /\ p = BuddyAt(t, k) /\ Together(f, t, i)
                                      /\ Together(f, BuddyAt(t, k), k)
  <2>0. f \in Nat
    BY BuddyBounds
  <2>1. CASE p \in B /\ p # t
    BY <1>6, <1>7, <2>1
  <2>2. CASE p = t
    BY <1>1, <1>7, <2>0, <2>2, TogetherUp
  <2>3. CASE p \in Halves(t, o, i)
    <3>1. PICK k \in o .. i - 1 : p = BuddyAt(t, k)
      BY <2>3 DEF Halves
    <3>2. Together(f, BuddyAt(t, k), k) /\ k \in Nat /\ k < i
      BY <1>1, <1>3, <1>4, <1>7, <3>1
    <3>3. Together(f, t, i)
      BY <1>1, <2>0, <3>2, ChainApart
    <3> QED
      BY <3>1, <3>2, <3>3
  <2> QED
    BY <2>1, <2>2, <2>3
<1>8. ASSUME NEW f \in Frames, NEW p \in C, NEW q \in C,
             Together(f, p, cut[p]), Together(f, q, cut[q])
      PROVE  p = q
  <2>0. f \in Nat
    BY BuddyBounds
  <2>1. CASE p \in B /\ p # t /\ q \in B /\ q # t
    BY <1>8, <2>1 DEF Tiles
  <2>2. ASSUME NEW x \in C, NEW k \in o .. i - 1, x = t, Together(f, x, o),
               Together(f, BuddyAt(t, k), k)
        PROVE  FALSE
    BY <1>1, <1>3, <2>0, <2>2, ChainApart
  <2>3. ASSUME NEW j \in o .. i - 1, NEW k \in o .. i - 1, Together(f, BuddyAt(t, j), j),
               Together(f, BuddyAt(t, k), k)
        PROVE  j = k
    BY <1>1, <1>3, <2>0, <2>3, ChainApart
  <2> QED
    BY <1>7, <1>8, <2>1, <2>2, <2>3
<1>9. ASSUME NEW f \in Frames
      PROVE  \E p \in C : Together(f, p, cut[p])
  <2>0. f \in Nat
    BY BuddyBounds
  <2>1. PICK p \in B : Together(f, p, ord[p])
    BY DEF Tiles
  <2>2. CASE p # t
    BY <2>1, <2>2
  <2>3. CASE p = t
    <3>1. Together(f, t, o) \/ \E k \in o .. i - 1 : Together(f, BuddyAt(t, k), k)
      BY <1>1, <2>0, <2>1, <2>3, Chain DEF i
    <3>2. CASE Together(f, t, o)
      BY <3>2
    <3>3. ASSUME NEW k \in o .. i - 1, Together(f, BuddyAt(t, k), k)
          PROVE  \E q \in C : Together(f, q, cut[q])
      BY <1>4, <3>3 DEF Halves
    <3> QED
      BY <3>1, <3>2, <3>3
  <2> QED
    BY <2>2, <2>3
<1> QED
  BY <1>5, <1>8, <1>9 DEF Tiles, i

\* Blocks merged: the pool is still tiled.
LEMMA MergeTiles ==
    ASSUME NEW B, NEW ord, Tiles(B, ord), NEW t \in B, NEW m \in Orders, ord[t] <= m,
           Halves(t, ord[t], m) \subseteq B,
           \A k \in ord[t] .. m - 1 : ord[BuddyAt(t, k)] = k,
           NEW C, C = (B \ ({t} \cup Halves(t, ord[t], m))) \cup {Merged(t, m)},
           NEW big, big[Merged(t, m)] = m,
           \A p \in C : p # Merged(t, m) => big[p] = ord[p]
    PROVE  Tiles(C, big)
<1> DEFINE o == ord[t]
           q == Merged(t, m)
<1>1. /\ t \in Frames /\ t \in Nat /\ o \in Orders /\ o \in Nat /\ m \in Nat /\ Aligned(t, o)
      /\ o <= m
  BY BuddyBounds DEF Tiles
<1>2. q \in Frames /\ q \in Nat /\ Aligned(q, m) /\ Together(q, t, m)
  BY <1>1, MergedFirst, ChainFrames
<1>3. \A p \in C : p \in Frames /\ big[p] \in Orders /\ Aligned(p, big[p])
  BY <1>2 DEF Tiles
\* No block that is left has a frame of the merged one.
<1>4. ASSUME NEW f \in Frames, NEW p \in C, p # q, Together(f, p, big[p])
      PROVE  ~Together(f, q, m)
  <2>0. f \in Nat /\ p \in B /\ p # t /\ p \notin Halves(t, o, m) /\ Together(f, p, ord[p])
    BY <1>4, BuddyBounds
  <2>1. SUFFICES ASSUME Together(f, t, m) PROVE FALSE
    BY <1>2 DEF Together
  <2>2. ~Together(f, t, o)
    BY <2>0 DEF Tiles
  <2>3. ASSUME NEW k \in o .. m - 1, Together(f, BuddyAt(t, k), k)
        PROVE  FALSE
    <3>1. BuddyAt(t, k) \in Halves(t, o, m) /\ BuddyAt(t, k) \in B /\ ord[BuddyAt(t, k)] = k
      BY DEF Halves
    <3>2. BuddyAt(t, k) = p
      BY <2>0, <2>3, <3>1 DEF Tiles
    <3> QED
      BY <2>0, <3>1, <3>2
  <2> QED
    BY <1>1, <2>0, <2>1, <2>2, <2>3, Chain
<1>5. ASSUME NEW f \in Frames, NEW p \in C, NEW r \in C,
             Together(f, p, big[p]), Together(f, r, big[r])
      PROVE  p = r
  <2>1. CASE p # q /\ r # q
    BY <1>5, <2>1 DEF Tiles
  <2> QED
    BY <1>4, <1>5, <2>1
<1>6. ASSUME NEW f \in Frames
      PROVE  \E p \in C : Together(f, p, big[p])
  <2>0. f \in Nat
    BY BuddyBounds
  <2>1. PICK p \in B : Together(f, p, ord[p])
    BY DEF Tiles
  <2>2. CASE p \in C /\ p # q
    BY <2>1, <2>2
  <2>3. CASE p = t \/ p \in Halves(t, o, m)
    <3>1. Together(f, t, m)
      <4>1. CASE p = t
        BY <1>1, <2>0, <2>1, <4>1, TogetherUp
      <4>2. ASSUME NEW k \in o .. m - 1, p = BuddyAt(t, k)
            PROVE  Together(f, t, m)
        <5>1. Together(f, BuddyAt(t, k), k) /\ k \in Nat /\ k < m
          BY <1>1, <2>1, <4>2
        <5> QED
          BY <1>1, <2>0, <5>1, ChainApart
      <4> QED
        BY <2>3, <4>1, <4>2 DEF Halves
    <3>2. Together(f, q, m)
      BY <1>2, <3>1 DEF Together
    <3> QED
      BY <3>2
  <2>4. CASE p = q
    <3>1. Aligned(q, ord[q]) /\ q \in B
      BY <2>1, <2>4 DEF Tiles
    <3>2. t = q \/ \E k \in o .. m - 1 : q = BuddyAt(t, k)
      BY <1>1, MergedChain
    <3> QED
      BY <2>3, <2>4, <3>2 DEF Halves
  <2> QED
    BY <2>2, <2>3, <2>4
<1> QED
  BY <1>3, <1>5, <1>6 DEF Tiles

-----------------------------------------------------------------------------
(***************************************************************************)
(* The inductive invariant.  A frame is the first of a block if a caller   *)
(* holds it or if it is marked free and has an order; the blocks tile the  *)
(* pool, and free list k is the set of the free blocks of order k.         *)
(***************************************************************************)
FreeBlocks == {p \in Frames : used[p] = "Free" /\ order[p] # -1}

Blocks == held \cup FreeBlocks

FreeOf(k) == {p \in Frames : used[p] = "Free" /\ order[p] = k}

HeldTaken == \A p \in held : used[p] = "Taken"

ListsKept ==
    \A k \in Orders : /\ Once(freelist[k])
                      /\ nr_free[k] = Len(freelist[k])
                      /\ ToSet(freelist[k]) = FreeOf(k)

BuddyInv ==
    /\ BuddyTypeOK
    /\ HeldTaken
    /\ Tiles(Blocks, order)
    /\ ListsKept
    /\ Coalesced

\* The free blocks of an order are blocks.
LEMMA FreeOfBlocks ==
    ASSUME NEW k \in Orders, NEW p \in FreeOf(k)
    PROVE  p \in Frames /\ p \in FreeBlocks /\ p \in Blocks /\ used[p] = "Free" /\ order[p] = k
  BY BuddyBounds DEF FreeOf, FreeBlocks, Blocks

\* page_init and free_area_init
LEMMA InitBuddyInv == BuddyInit => BuddyInv
<1> SUFFICES ASSUME BuddyInit PROVE BuddyInv
  OBVIOUS
<1>0. MAX_ORDER \in Nat /\ NrBlocks \in Nat \ {0} /\ MAX_ORDER \in Orders
  BY BuddyBounds DEF Orders
<1>1. PICK w \in Nat \ {0} : w = 2^MAX_ORDER
  BY BuddyBounds
<1>2. /\ \A p \in Frames : order[p] = IF Aligned(p, MAX_ORDER) THEN MAX_ORDER ELSE -1
      /\ order \in [Frames -> -1 .. MAX_ORDER]
  BY <1>0 DEF BuddyInit, Aligned
<1>3. \A p \in Frames : used[p] = "Free"
  BY DEF BuddyInit
<1>4. FreeOf(MAX_ORDER) = {p \in Frames : Aligned(p, MAX_ORDER)}
      /\ \A k \in Orders : k # MAX_ORDER => FreeOf(k) = {}
  BY <1>0, <1>2, <1>3 DEF FreeOf, Orders
<1>5. Blocks = {p \in Frames : Aligned(p, MAX_ORDER)}
  BY <1>0, <1>2, <1>3 DEF Blocks, FreeBlocks, BuddyInit
<1>6. Tiles(Blocks, order)
  <2>1. \A p \in Blocks : p \in Frames /\ order[p] = MAX_ORDER /\ Aligned(p, MAX_ORDER)
    BY <1>2, <1>5
  <2>2. ASSUME NEW p \in Blocks, NEW q \in Blocks, NEW f \in Frames,
               Together(f, p, MAX_ORDER), Together(f, q, MAX_ORDER)
        PROVE  p = q
    <3>1. Together(p, q, MAX_ORDER)
      BY <2>2 DEF Together
    <3>2. p \in Nat /\ q \in Nat
      BY <2>1, BuddyBounds
    <3> QED
      BY <1>0, <2>1, <3>1, <3>2, AlignedSame
  <2>3. ASSUME NEW f \in Frames
        PROVE  \E p \in Blocks : Together(f, p, MAX_ORDER)
    <3>1. f \in Nat /\ Merged(f, MAX_ORDER) \in Frames
      BY <1>0, BuddyBounds, ChainFrames
    <3>2. Aligned(Merged(f, MAX_ORDER), MAX_ORDER) /\ Together(Merged(f, MAX_ORDER), f, MAX_ORDER)
      BY <1>0, <3>1, MergedFirst
    <3>3. Together(f, Merged(f, MAX_ORDER), MAX_ORDER)
      BY <3>2 DEF Together
    <3> QED
      BY <1>5, <3>1, <3>2, <3>3
  <2> QED
    BY <1>0, <2>1, <2>2, <2>3 DEF Tiles
<1>7. /\ MaxBlocks \in Seq(Frames) /\ Len(MaxBlocks) = NrBlocks /\ Once(MaxBlocks)
      /\ ToSet(MaxBlocks) = {p \in Frames : Aligned(p, MAX_ORDER)}
  <2>1. PICK n \in Nat \ {0} : n = NrBlocks
    BY <1>0
  <2>2. MaxBlocks = [i \in 1 .. n |-> (i - 1) * w]
    BY <1>1, <2>1 DEF MaxBlocks
  <2>3. ASSUME NEW i \in 1 .. n
        PROVE  /\ (i - 1) * w \in Frames /\ Aligned((i - 1) * w, MAX_ORDER)
               /\ ((i - 1) * w) \div w = i - 1
    <3>1. PICK j \in Nat : j = i - 1
      OBVIOUS
    <3>2. j * w = w * j /\ w * j \in Nat
      OBVIOUS
    <3>3. Aligned(w * j, MAX_ORDER) /\ (w * j) \div 2^MAX_ORDER = j
      <4>1. PICK x : x = w * j
        OBVIOUS
      <4>2. x = 2^MAX_ORDER * j /\ j \in Int
        BY <1>1, <4>1
      <4>3. Aligned(x, MAX_ORDER) /\ x \div 2^MAX_ORDER = j
        BY <1>0, <4>2, Multiple
      <4> QED
        BY <4>1, <4>3
    <3>4. j < NrBlocks
      BY <2>1, <3>1
    <3>5. w * j \in Frames
      BY <3>2, <3>3, <3>4, FrameBlock
    <3> QED
      BY <1>1, <3>1, <3>2, <3>3, <3>5
  <2>4. MaxBlocks \in Seq(Frames) /\ Len(MaxBlocks) = n /\ DOMAIN MaxBlocks = 1 .. n
        /\ \A i \in 1 .. n : MaxBlocks[i] = (i - 1) * w
    <3>1. \A i \in 1 .. n : MaxBlocks[i] = (i - 1) * w
      BY <2>2
    <3>2. MaxBlocks \in [1 .. n -> Frames]
      BY <2>2, <2>3
    <3> QED
      BY <3>1, <3>2
  <2>5. Once(MaxBlocks)
    <3> SUFFICES ASSUME NEW i \in 1 .. n, NEW j \in 1 .. n, (i - 1) * w = (j - 1) * w
                 PROVE  i = j
      BY <2>4 DEF Once
    <3>1. i - 1 = j - 1
      BY <2>3
    <3> QED
      BY <3>1
  <2>6. ASSUME NEW p \in Frames, Aligned(p, MAX_ORDER)
        PROVE  \E i \in 1 .. n : MaxBlocks[i] = p
    <3>1. p \in Nat /\ p \div w < n
      BY <1>1, <2>1, FrameBlock, BuddyBounds
    <3>2. PICK q \in Nat : q = p \div w
      BY <3>1, DivNat
    <3>3. p = w * q
      <4>1. PICK r \in Int : p = 2^MAX_ORDER * r
        BY <1>0, <2>6, <3>1, AlignedMultiple
      <4>2. p \div 2^MAX_ORDER = r
        BY <1>0, <4>1, Multiple
      <4> QED
        BY <1>1, <3>2, <4>1, <4>2
    <3>4. q + 1 \in 1 .. n /\ (q + 1) - 1 = q /\ q * w = w * q
      BY <3>1, <3>2
    <3> QED
      BY <2>4, <3>3, <3>4
  <2>7. ToSet(MaxBlocks) = {p \in Frames : Aligned(p, MAX_ORDER)}
    BY <2>3, <2>4, <2>6, ZenonT(60) DEF ToSet
  <2> QED
    BY <2>1, <2>4, <2>5, <2>7
<1>8. ListsKept
  <2>1. Once(<<>>) /\ Len(<<>>) = 0 /\ ToSet(<<>>) = {}
    BY DEF Once, ToSet
  <2>2. ASSUME NEW k \in Orders, k # MAX_ORDER
        PROVE  freelist[k] = <<>> /\ nr_free[k] = 0 /\ FreeOf(k) = {}
    BY <1>4, <2>2 DEF BuddyInit
  <2>3. freelist[MAX_ORDER] = MaxBlocks /\ nr_free[MAX_ORDER] = NrBlocks
    BY <1>0 DEF BuddyInit
  <2> QED
    BY <1>4, <1>7, <2>1, <2>2, <2>3 DEF ListsKept
<1>9. Coalesced
  <2>1. ASSUME NEW k \in 0 .. MAX_ORDER - 1 PROVE Listed(k) = {}
    <3>1. k \in Orders /\ k # MAX_ORDER
      BY <1>0 DEF Orders
    <3>2. freelist[k] = <<>>
      BY <3>1 DEF BuddyInit
    <3> QED
      BY <3>2 DEF Listed, ToSet
  <2> QED
    BY <2>1 DEF Coalesced
<1>10. BuddyTypeOK
  <2>1. used \in [Frames -> {"Free", "Taken"}] /\ held \subseteq Frames /\ ret \in Frames \cup {NULL}
    BY DEF BuddyInit
  <2>2. nr_free \in [Orders -> Int]
    BY <1>0 DEF BuddyInit
  <2>3. freelist \in [Orders -> Seq(Frames)]
    BY <1>7 DEF BuddyInit
  <2> QED
    BY <1>2, <2>1, <2>2, <2>3 DEF BuddyTypeOK
<1>11. HeldTaken
  BY DEF HeldTaken, BuddyInit
<1> QED
  BY <1>6, <1>8, <1>9, <1>10, <1>11 DEF BuddyInv

-----------------------------------------------------------------------------
(***************************************************************************)
(* buddy_block_alloc                                                       *)
(***************************************************************************)
\* The block that is cut, and what a cut does to each frame: only the frames of the
\* pieces change, and none of them was the start of another block.
LEMMA TakeFacts ==
    ASSUME BuddyInv, NEW o \in Orders, NEW i \in Orders, Source(o, i),
           Take(o, i, Head(freelist[i]))
    PROVE  LET t == Head(freelist[i])
               H == Halves(t, o, i)
           IN  /\ t \in Frames /\ t \in Blocks /\ t \in FreeOf(i) /\ t \notin held /\ o <= i
               /\ H \subseteq Frames /\ t \notin H /\ H \cap Blocks = {}
               /\ order' \in [Frames -> -1 .. MAX_ORDER] /\ used' \in [Frames -> {"Free", "Taken"}]
               /\ order'[t] = o /\ used'[t] = "Taken"
               /\ \A k \in o .. i - 1 :
                    /\ Split(t, k) = BuddyAt(t, k)
                    /\ order'[BuddyAt(t, k)] = k /\ used'[BuddyAt(t, k)] = "Free"
               /\ \A p \in Frames : p # t /\ p \notin H =>
                    order'[p] = order[p] /\ used'[p] = used[p]
<1> DEFINE t == Head(freelist[i])
           H == Halves(t, o, i)
<1>1. /\ MAX_ORDER \in Nat /\ o \in Nat /\ i \in Nat /\ o <= i /\ i <= MAX_ORDER
  BY BuddyBounds DEF Source
<1>2. t \in FreeOf(i) /\ t \in Frames
  <2>1. freelist[i] \in Seq(Frames) /\ Once(freelist[i]) /\ freelist[i] # <<>>
        /\ ToSet(freelist[i]) = FreeOf(i)
    BY DEF BuddyInv, BuddyTypeOK, ListsKept, Source
  <2> QED
    BY <2>1, ListTail
<1>3. /\ t \in Blocks /\ t \notin held /\ order[t] = i /\ used[t] = "Free"
  BY <1>2, FreeOfBlocks DEF BuddyInv, HeldTaken
<1>4. Aligned(t, i) /\ t \in Nat
  BY <1>2, <1>3, BuddyBounds DEF BuddyInv, Tiles
<1>5. ASSUME NEW k \in o .. i - 1
      PROVE  Split(t, k) = BuddyAt(t, k)
  <2>1. k \in Nat /\ k <= i
    BY <1>1
  <2>2. Merged(t, k) = t
    BY <1>1, <1>4, <2>1, AlignedDown, MergedFirst
  <2> QED
    BY <2>2 DEF Split, BuddyAt
<1>6. ASSUME NEW k \in o .. i - 1
      PROVE  /\ k \in Orders /\ BuddyAt(t, k) \in Frames /\ BuddyAt(t, k) # t
             /\ Together(BuddyAt(t, k), t, i)
             /\ \A j \in o .. i - 1 : BuddyAt(t, j) = BuddyAt(t, k) => j = k
  BY <1>2, HalvesApart
<1>7. \A p \in Frames : (\E k \in o .. i - 1 : p = Split(t, k)) <=> p \in H
  BY <1>5 DEF Halves
<1>8. H \subseteq Frames /\ t \notin H
  BY <1>6 DEF Halves
<1>9. H \cap Blocks = {}
  <2> SUFFICES ASSUME NEW k \in o .. i - 1, BuddyAt(t, k) \in Blocks PROVE FALSE
    BY DEF Halves
  <2>1. Together(BuddyAt(t, k), BuddyAt(t, k), order[BuddyAt(t, k)])
    BY DEF Together
  <2>2. BuddyAt(t, k) = t
    BY <1>3, <1>6, <2>1 DEF BuddyInv, Tiles
  <2> QED
    BY <1>6, <2>2
<1> HIDE DEF t, H
<1>10. /\ order' = [p \in Frames |->
                      IF p = t THEN o
                      ELSE IF \E k \in o .. i - 1 : p = Split(t, k)
                      THEN CHOOSE k \in o .. i - 1 : p = Split(t, k)
                      ELSE order[p]]
       /\ used' = [p \in Frames |->
                     IF p = t THEN "Taken"
                     ELSE IF \E k \in o .. i - 1 : p = Split(t, k) THEN "Free"
                     ELSE used[p]]
  BY DEF Take, t
<1>11. order'[t] = o /\ used'[t] = "Taken"
  BY <1>2, <1>10
<1>12. ASSUME NEW k \in o .. i - 1
       PROVE  order'[BuddyAt(t, k)] = k /\ used'[BuddyAt(t, k)] = "Free"
  <2>1. PICK b \in Frames : b = BuddyAt(t, k)
    BY <1>6
  <2>2. b # t /\ b = Split(t, k)
    BY <1>5, <1>6, <2>1
  <2>3. \A j \in o .. i - 1 : b = Split(t, j) => j = k
    BY <1>5, <1>6, <2>1
  <2>4. (CHOOSE j \in o .. i - 1 : b = Split(t, j)) = k
    BY <2>2, <2>3
  <2>5. order'[b] = (CHOOSE j \in o .. i - 1 : b = Split(t, j)) /\ used'[b] = "Free"
    BY <1>10, <2>2
  <2> QED
    BY <2>1, <2>4, <2>5
<1>13. ASSUME NEW p \in Frames, p # t, p \notin H
       PROVE  order'[p] = order[p] /\ used'[p] = used[p]
  BY <1>7, <1>10, <1>13
<1>14. used' \in [Frames -> {"Free", "Taken"}]
  BY <1>10 DEF BuddyInv, BuddyTypeOK
<1>15. order' \in [Frames -> -1 .. MAX_ORDER]
  <2>1. ASSUME NEW p \in Frames PROVE order'[p] \in -1 .. MAX_ORDER
    <3>1. CASE p = t
      BY <1>1, <1>11, <3>1
    <3>2. CASE p \in H
      <4>1. PICK k \in o .. i - 1 : p = BuddyAt(t, k)
        BY <3>2 DEF H, Halves
      <4> QED
        BY <1>1, <1>12, <4>1
    <3>3. CASE p # t /\ p \notin H
      BY <1>13, <3>3 DEF BuddyInv, BuddyTypeOK
    <3> QED
      BY <3>1, <3>2, <3>3
  <2>2. order' = [p \in Frames |-> order'[p]]
    BY <1>10
  <2> QED
    BY <2>1, <2>2
<1> QED
  BY <1>1, <1>2, <1>3, <1>5, <1>8, <1>9, <1>11, <1>12, <1>13, <1>14, <1>15 DEF t, H

\* A successful allocation keeps the invariant.
LEMMA TakeInv ==
    ASSUME BuddyInv, NEW o \in Orders, NEW i \in Orders, Source(o, i),
           Take(o, i, Head(freelist[i])), held' = held \cup {Head(freelist[i])},
           ret' = Head(freelist[i])
    PROVE  BuddyInv'
<1> DEFINE t == Head(freelist[i])
           H == Halves(t, o, i)
<1>1. /\ t \in Frames /\ t \in Blocks /\ t \in FreeOf(i) /\ t \notin held /\ o <= i
      /\ H \subseteq Frames /\ t \notin H /\ H \cap Blocks = {}
      /\ order' \in [Frames -> -1 .. MAX_ORDER] /\ used' \in [Frames -> {"Free", "Taken"}]
      /\ order'[t] = o /\ used'[t] = "Taken"
      /\ \A k \in o .. i - 1 : /\ Split(t, k) = BuddyAt(t, k)
                               /\ order'[BuddyAt(t, k)] = k /\ used'[BuddyAt(t, k)] = "Free"
      /\ \A p \in Frames : p # t /\ p \notin H => order'[p] = order[p] /\ used'[p] = used[p]
  BY TakeFacts
<1>2. held' = held \cup {t} /\ ret' = t
  OBVIOUS
<1>3. /\ freelist' = [k \in Orders |->
                        IF k = i THEN Tail(freelist[k])
                        ELSE IF k \in o .. i - 1 THEN Append(freelist[k], Split(t, k))
                        ELSE freelist[k]]
      /\ nr_free' = [k \in Orders |->
                       IF k = i THEN nr_free[k] - 1
                       ELSE IF k \in o .. i - 1 THEN nr_free[k] + 1
                       ELSE nr_free[k]]
  BY DEF Take
<1>4. /\ MAX_ORDER \in Nat /\ o \in Nat /\ i \in Nat /\ i <= MAX_ORDER
      /\ freelist[i] # <<>> /\ \A j \in o .. i - 1 : freelist[j] = <<>>
  BY BuddyBounds DEF Source
<1>5. order[t] = i /\ used[t] = "Free"
  BY <1>1, FreeOfBlocks
<1>6. \A k \in o .. i - 1 : k \in Orders /\ k # i /\ BuddyAt(t, k) \in H /\ k # -1
  BY <1>4 DEF Halves, Orders
<1>7. \A p \in H : \E k \in o .. i - 1 : p = BuddyAt(t, k)
  BY DEF Halves
<1> HIDE DEF t, H
<1>8. Blocks \subseteq Frames /\ held \subseteq Frames
  BY DEF BuddyInv, BuddyTypeOK, Blocks, FreeBlocks
<1>9. Blocks' = Blocks \cup H
  <2>1. ASSUME NEW p \in Frames, p # t, p \notin H
        PROVE  p \in Blocks' <=> p \in Blocks
    BY <1>1, <1>2, <2>1 DEF Blocks, FreeBlocks
  <2>2. t \in Blocks'
    BY <1>2 DEF Blocks
  <2>3. ASSUME NEW p \in H PROVE p \in Blocks'
    BY <1>1, <1>6, <1>7 DEF Blocks, FreeBlocks
  <2>4. Blocks' \subseteq Frames
    BY <1>1, <1>2, <1>8 DEF Blocks, FreeBlocks
  <2> QED
    BY <1>1, <1>8, <2>1, <2>2, <2>3, <2>4
<1>10. Tiles(Blocks, order)'
  <2>1. \A p \in Blocks : p # t => order'[p] = order[p]
    BY <1>1, <1>8
  <2>2. Tiles(Blocks, order)
    BY DEF BuddyInv
  <2>3. Tiles(Blocks \cup Halves(t, o, order[t]), order')
    BY <1>1, <1>5, <2>1, <2>2, CutTiles
  <2> QED
    BY <1>5, <1>9, <2>3 DEF H
<1>11. HeldTaken'
  <2>1. ASSUME NEW p \in held PROVE used'[p] = "Taken"
    <3>1. p \in Blocks /\ p \in Frames /\ p # t
      BY <1>1, <1>8 DEF Blocks
    <3> QED
      BY <1>1, <3>1 DEF BuddyInv, HeldTaken
  <2> QED
    BY <1>1, <1>2, <2>1 DEF HeldTaken
\* The three kinds of lists.
<1>12. \A k \in Orders : /\ freelist[k] \in Seq(Frames) /\ Once(freelist[k])
                         /\ nr_free[k] = Len(freelist[k]) /\ ToSet(freelist[k]) = FreeOf(k)
  BY DEF BuddyInv, BuddyTypeOK, ListsKept
<1>13. /\ freelist'[i] \in Seq(Frames) /\ Once(freelist'[i]) /\ nr_free'[i] = Len(freelist'[i])
       /\ ToSet(freelist'[i]) = FreeOf(i)' /\ FreeOf(i)' \subseteq FreeOf(i)
  <2>1. freelist'[i] = Tail(freelist[i]) /\ nr_free'[i] = nr_free[i] - 1
    BY <1>3
  <2>2. /\ Tail(freelist[i]) \in Seq(Frames) /\ Len(Tail(freelist[i])) = Len(freelist[i]) - 1
        /\ ToSet(Tail(freelist[i])) = FreeOf(i) \ {t} /\ Once(Tail(freelist[i]))
    BY <1>4, <1>12, ListTail DEF t
  <2>3. FreeOf(i)' = FreeOf(i) \ {t}
    <3>1. ASSUME NEW p \in Frames
          PROVE  p \in FreeOf(i)' <=> p \in FreeOf(i) \ {t}
      <4>1. CASE p = t
        BY <1>1, <4>1 DEF FreeOf
      <4>2. CASE p \in H
        <5>1. p \notin FreeOf(i)
          BY <1>1, <4>2, FreeOfBlocks
        <5>2. order'[p] # i
          BY <1>1, <1>6, <1>7, <4>2
        <5> QED
          BY <5>1, <5>2 DEF FreeOf
      <4>3. CASE p # t /\ p \notin H
        BY <1>1, <4>3 DEF FreeOf
      <4> QED
        BY <4>1, <4>2, <4>3
    <3> QED
      BY <3>1 DEF FreeOf
  <2> QED
    BY <1>12, <2>1, <2>2, <2>3
<1>14. ASSUME NEW k \in o .. i - 1
       PROVE  /\ freelist'[k] \in Seq(Frames) /\ Once(freelist'[k])
              /\ nr_free'[k] = Len(freelist'[k])
              /\ ToSet(freelist'[k]) = FreeOf(k)' /\ FreeOf(k)' = {BuddyAt(t, k)}
  <2>1. k \in Orders /\ k # i /\ freelist[k] = <<>> /\ BuddyAt(t, k) \in Frames
    BY <1>1, <1>4, <1>6
  <2>2. freelist'[k] = Append(freelist[k], BuddyAt(t, k)) /\ nr_free'[k] = nr_free[k] + 1
    BY <1>1, <1>3, <2>1
  <2>3. ToSet(freelist[k]) = {} /\ FreeOf(k) = {}
    BY <1>12, <2>1 DEF ToSet
  <2>4. /\ freelist'[k] \in Seq(Frames) /\ Len(freelist'[k]) = Len(freelist[k]) + 1
        /\ ToSet(freelist'[k]) = {BuddyAt(t, k)} /\ Once(freelist'[k])
    <3>1. freelist[k] \in Seq(Frames) /\ Once(freelist[k])
      BY <1>12, <2>1
    <3>2. PICK s \in Seq(Frames), b \in Frames : s = freelist[k] /\ b = BuddyAt(t, k)
      BY <2>1, <3>1
    <3>3. Once(s) /\ ToSet(s) = {}
      BY <2>3, <3>1, <3>2
    <3>4. /\ Append(s, b) \in Seq(Frames) /\ Len(Append(s, b)) = Len(s) + 1
          /\ ToSet(Append(s, b)) = ToSet(s) \cup {b} /\ Once(Append(s, b))
      BY <3>3, ListAdded
    <3> QED
      BY <2>2, <3>2, <3>3, <3>4
  <2>5. FreeOf(k)' = {BuddyAt(t, k)}
    <3>1. ASSUME NEW p \in Frames
          PROVE  p \in FreeOf(k)' <=> p = BuddyAt(t, k)
      <4>1. CASE p = t
        BY <1>1, <1>6, <4>1 DEF FreeOf
      <4>2. CASE p \in H
        <5>1. PICK j \in o .. i - 1 : p = BuddyAt(t, j)
          BY <1>7, <4>2
        <5>2. order'[p] = j /\ used'[p] = "Free"
          BY <1>1, <5>1
        <5> QED
          BY <1>1, <5>1, <5>2 DEF FreeOf
      <4>3. CASE p # t /\ p \notin H
        <5>1. p # BuddyAt(t, k) /\ p \notin FreeOf(k)
          BY <1>6, <2>3, <4>3
        <5> QED
          BY <1>1, <4>3, <5>1 DEF FreeOf
      <4> QED
        BY <4>1, <4>2, <4>3
    <3> QED
      BY <2>1, <3>1 DEF FreeOf
  <2> QED
    BY <1>12, <2>1, <2>2, <2>4, <2>5
<1>15. ASSUME NEW k \in Orders, k # i, k \notin o .. i - 1
       PROVE  /\ freelist'[k] = freelist[k] /\ nr_free'[k] = nr_free[k]
              /\ FreeOf(k)' = FreeOf(k)
  <2>1. freelist'[k] = freelist[k] /\ nr_free'[k] = nr_free[k]
    BY <1>3, <1>15
  <2>2. ASSUME NEW p \in Frames PROVE p \in FreeOf(k)' <=> p \in FreeOf(k)
    <3>1. CASE p = t
      BY <1>1, <1>5, <1>15, <3>1 DEF FreeOf
    <3>2. CASE p \in H
      <4>1. p \notin FreeOf(k)
        BY <1>1, <3>2, FreeOfBlocks
      <4>2. order'[p] # k
        BY <1>1, <1>7, <1>15, <3>2
      <4> QED
        BY <4>1, <4>2 DEF FreeOf
    <3>3. CASE p # t /\ p \notin H
      BY <1>1, <3>3 DEF FreeOf
    <3> QED
      BY <3>1, <3>2, <3>3
  <2> QED
    BY <2>1, <2>2 DEF FreeOf
<1>16. ListsKept'
  <2>1. ASSUME NEW k \in Orders
        PROVE  Once(freelist'[k]) /\ nr_free'[k] = Len(freelist'[k]) /\ ToSet(freelist'[k]) = FreeOf(k)'
    BY <1>12, <1>13, <1>14, <1>15
  <2> QED
    BY <2>1 DEF ListsKept
<1>17. Coalesced'
  <2> SUFFICES ASSUME NEW k \in 0 .. MAX_ORDER - 1, NEW p \in FreeOf(k)',
                      FIND_BUDDY_PFN(p, k) \in FreeOf(k)'
               PROVE  FALSE
    <3>1. \A k \in 0 .. MAX_ORDER - 1 : k \in Orders
      BY <1>4 DEF Orders
    <3> QED
      BY <1>16, <3>1 DEF Coalesced, Listed, ListsKept
  <2>1. k \in Orders
    BY <1>4 DEF Orders
  <2>2. CASE k \in o .. i - 1
    <3>1. p = BuddyAt(t, k) /\ FIND_BUDDY_PFN(p, k) = BuddyAt(t, k)
      BY <1>14, <2>2
    <3>2. t \in Nat /\ k \in Nat
      BY <1>1, <2>1, BuddyBounds
    <3>3. FIND_BUDDY_PFN(p, k) = Merged(t, k)
      BY <3>1, <3>2, BuddyAtHalf
    <3>4. Together(Merged(t, k), t, k) /\ Merged(t, k) \in Nat
      BY <3>2, MergedFirst
    <3>5. Together(BuddyAt(t, k), BuddyAt(t, k), k)
      BY DEF Together
    <3>6. BuddyAt(t, k) \in Nat
      BY <3>2, BuddyAtHalf
    <3>7. ~Together(BuddyAt(t, k), t, k)
      BY <3>2, <3>5, <3>6, BuddyAtHalf
    <3> QED
      BY <3>1, <3>3, <3>4, <3>7
  <2>3. CASE k \notin o .. i - 1
    <3>1. p \in FreeOf(k) /\ FIND_BUDDY_PFN(p, k) \in FreeOf(k)
      BY <1>13, <1>15, <2>1, <2>3
    <3>2. \A x \in Listed(k) : FIND_BUDDY_PFN(x, k) \notin Listed(k)
      BY DEF BuddyInv, Coalesced
    <3>3. Listed(k) = FreeOf(k)
      BY <1>12, <2>1 DEF Listed
    <3> QED
      BY <3>1, <3>2, <3>3
  <2> QED
    BY <2>2, <2>3
<1>18. BuddyTypeOK'
  <2>1. \A k \in Orders : freelist'[k] \in Seq(Frames)
    BY <1>12, <1>13, <1>14, <1>15
  <2>2. freelist' \in [Orders -> Seq(Frames)]
    BY <1>3, <2>1
  <2>3. nr_free' \in [Orders -> Int]
    BY <1>3 DEF BuddyInv, BuddyTypeOK
  <2> QED
    BY <1>1, <1>2, <1>8, <2>2, <2>3 DEF BuddyTypeOK
<1> QED
  BY <1>10, <1>11, <1>16, <1>17, <1>18 DEF BuddyInv

-----------------------------------------------------------------------------
(***************************************************************************)
(* buddy_block_free                                                        *)
(***************************************************************************)
\* The block that is freed and those it is merged with; only their pages change.
LEMMA MergeFacts ==
    ASSUME BuddyInv, NEW p \in held, NEW m \in Orders, Top(p, m), MergedPages(p, m)
    PROVE  LET H == Halves(p, order[p], m)
               g == Merged(p, m)
           IN  /\ p \in Frames /\ p \in Blocks /\ used[p] = "Taken" /\ order[p] \in Orders
               /\ order[p] <= m /\ p \notin H
               /\ g \in Frames /\ (g = p \/ g \in H)
               /\ \A k \in order[p] .. m - 1 :
                    k \in Orders /\ k # m /\ BuddyAt(p, k) \in FreeOf(k)
               /\ order' \in [Frames -> -1 .. MAX_ORDER] /\ used' \in [Frames -> {"Free", "Taken"}]
               /\ order'[g] = m /\ used'[g] = "Free"
               /\ \A q \in Frames : q # g /\ (q = p \/ q \in H) => used'[q] = "Taken"
               /\ \A q \in Frames : q # p /\ q \notin H =>
                    order'[q] = order[q] /\ used'[q] = used[q]
<1> DEFINE o == order[p]
           H == Halves(p, o, m)
           g == Merged(p, m)
<1>1. p \in Frames /\ p \in Blocks /\ used[p] = "Taken"
  BY DEF BuddyInv, BuddyTypeOK, Blocks, HeldTaken
<1>2. o \in Orders /\ Aligned(p, o) /\ o <= m
  BY <1>1 DEF BuddyInv, Tiles, Top
<1>3. MAX_ORDER \in Nat /\ o \in Nat /\ m \in Nat /\ m <= MAX_ORDER /\ p \in Nat
  BY <1>1, <1>2, BuddyBounds
<1>4. ASSUME NEW k \in o .. m - 1
      PROVE  k \in Orders /\ k # m /\ BuddyAt(p, k) \in FreeOf(k) /\ BuddyAt(p, k) # p
  <2>1. k \in Orders /\ BuddyAt(p, k) \in Frames /\ BuddyAt(p, k) # p
    BY <1>1, <1>2, HalvesApart
  <2>2. Merges(p, k)
    BY DEF Top
  <2> QED
    BY <1>3, <2>1, <2>2 DEF Merges, FreeOf
<1>5. p \notin H
  BY <1>4 DEF Halves
<1>6. g \in Frames
  BY <1>1, ChainFrames
<1>7. ASSUME NEW k \in Nat, o <= k, k <= m
      PROVE  Merged(p, k) = p \/ Merged(p, k) \in H
  <2>1. Merged(p, k) = p \/ \E j \in o .. k - 1 : Merged(p, k) = BuddyAt(p, j)
    BY <1>2, <1>3, <1>7, MergedChain
  <2>2. \A j \in o .. k - 1 : j \in o .. m - 1
    BY <1>3, <1>7
  <2> QED
    BY <2>1, <2>2 DEF Halves
<1>8. g = p \/ g \in H
  BY <1>2, <1>3, <1>7
<1> HIDE DEF g
<1>9. order'[g] = m /\ used'[g] = "Free"
  BY <1>6 DEF MergedPages, g
<1>10. ASSUME NEW q \in Frames, q # g, q = p \/ q \in H
       PROVE  used'[q] = "Taken"
  <2>1. CASE q \in H
    BY <1>10, <2>1 DEF MergedPages, Halves, g
  <2>2. CASE q = p
    <3>1. ~ \E k \in o .. m - 1 : q = BuddyAt(p, k)
      BY <1>4, <2>2
    <3> QED
      BY <1>1, <1>10, <2>2, <3>1 DEF MergedPages, g
  <2> QED
    BY <1>10, <2>1, <2>2
<1>11. ASSUME NEW q \in Frames, q # p, q \notin H
       PROVE  order'[q] = order[q] /\ used'[q] = used[q]
  <2>1. q # g
    BY <1>8, <1>11
  <2>2. ~ \E k \in o .. m - 1 : q = BuddyAt(p, k)
    BY <1>11 DEF Halves
  <2>3. ~ \E k \in o .. m - 1 : q = Merged(p, k)
    <3>1. \A k \in o .. m - 1 : k \in Nat /\ o <= k /\ k <= m
      BY <1>3
    <3> QED
      BY <1>7, <1>11, <3>1
  <2> QED
    BY <2>1, <2>2, <2>3 DEF MergedPages, g
<1>12. used' \in [Frames -> {"Free", "Taken"}]
  BY DEF MergedPages, BuddyInv, BuddyTypeOK
<1>13. order' \in [Frames -> -1 .. MAX_ORDER]
  <2>1. ASSUME NEW q \in Frames PROVE order'[q] \in -1 .. MAX_ORDER
    <3>1. CASE q = g
      BY <1>3, <1>9, <3>1
    <3>2. CASE q # g /\ ~ \E k \in o .. m - 1 : q = Merged(p, k)
      BY <3>2 DEF MergedPages, g, BuddyInv, BuddyTypeOK
    <3>3. ASSUME q # g, NEW a \in o .. m - 1, q = Merged(p, a)
          PROVE  order'[q] \in -1 .. MAX_ORDER
      <4> DEFINE T == {k \in a .. m : q # Merged(p, k)}
      <4>1. m \in T /\ T \in SUBSET Nat
        BY <1>3, <3>3 DEF g
      <4>2. PICK k \in T : \A y \in T : k <= y
        <5> HIDE DEF T
        <5> QED
          BY <4>1, LeastNumber
      <4>3. k \in a .. m /\ q # Merged(p, k) /\ k # a
        BY <3>3, <4>2
      <4>4. k - 1 \in o .. m - 1 /\ k - 1 \in a .. m /\ ~(k <= k - 1) /\ (k - 1) + 1 = k
        BY <1>3, <4>3
      <4>5. k - 1 \notin T
        <5> HIDE DEF T
        <5> QED
          BY <4>2, <4>4
      <4>6. q = Merged(p, k - 1) /\ q # Merged(p, (k - 1) + 1)
        BY <4>3, <4>4, <4>5
      <4>7. order'[q] = CHOOSE j \in o .. m - 1 : q = Merged(p, j) /\ q # Merged(p, j + 1)
        BY <3>3 DEF MergedPages, g
      <4>8. order'[q] \in o .. m - 1
        BY <4>4, <4>6, <4>7
      <4> QED
        BY <1>3, <4>8
    <3> QED
      BY <3>1, <3>2, <3>3
  <2>2. order' = [q \in Frames |-> order'[q]]
    BY DEF MergedPages
  <2> QED
    BY <2>1, <2>2
<1> QED
  BY <1>1, <1>2, <1>4, <1>5, <1>6, <1>8, <1>9, <1>10, <1>11, <1>12, <1>13 DEF g

\* A block that is freed: the invariant is kept.
LEMMA FreeInv ==
    ASSUME BuddyInv, NEW p \in held, buddy_block_free(p)
    PROVE  BuddyInv'
<1>1. PICK m \in Orders :
        /\ Top(p, m) /\ MergedPages(p, m)
        /\ freelist' = [k \in Orders |->
                          IF k = m THEN Append(freelist[k], Merged(p, m))
                          ELSE IF k \in order[p] .. m - 1
                          THEN RemoveFirst(freelist[k], BuddyAt(p, k))
                          ELSE freelist[k]]
        /\ nr_free' = [k \in Orders |->
                         IF k = m THEN nr_free[k] + 1
                         ELSE IF k \in order[p] .. m - 1 THEN Popped(p, k)
                         ELSE nr_free[k]]
        /\ held' = held \ {p} /\ ret' = ret
  BY DEF buddy_block_free
<1> DEFINE o == order[p]
           H == Halves(p, o, m)
           g == Merged(p, m)
<1>2. /\ p \in Frames /\ p \in Blocks /\ used[p] = "Taken" /\ o \in Orders
      /\ o <= m /\ p \notin H
      /\ g \in Frames /\ (g = p \/ g \in H)
      /\ \A k \in o .. m - 1 : k \in Orders /\ k # m /\ BuddyAt(p, k) \in FreeOf(k)
      /\ order' \in [Frames -> -1 .. MAX_ORDER] /\ used' \in [Frames -> {"Free", "Taken"}]
      /\ order'[g] = m /\ used'[g] = "Free"
      /\ \A q \in Frames : q # g /\ (q = p \/ q \in H) => used'[q] = "Taken"
      /\ \A q \in Frames : q # p /\ q \notin H => order'[q] = order[q] /\ used'[q] = used[q]
  BY <1>1, MergeFacts
<1>3. /\ MAX_ORDER \in Nat /\ o \in Nat /\ m \in Nat /\ m <= MAX_ORDER /\ p \in Nat /\ m # -1
  BY <1>2, BuddyBounds
<1>4. \A q \in H : \E k \in o .. m - 1 : q = BuddyAt(p, k)
  BY DEF Halves
<1>5. \A k \in o .. m - 1 : BuddyAt(p, k) \in H
  BY DEF Halves
<1>6. H \subseteq FreeBlocks /\ \A q \in H : q \in Frames /\ q \in Blocks /\ used[q] = "Free"
  BY <1>2, <1>4, FreeOfBlocks
<1>7. \A k \in o .. m - 1 : order[BuddyAt(p, k)] = k
  BY <1>2, FreeOfBlocks
<1>8. g \in Nat /\ Together(g, p, m) /\ Aligned(g, m)
  BY <1>3, MergedFirst
<1>9. ~Merges(p, m)
  BY <1>1 DEF Top
<1>10. FIND_BUDDY_PFN(g, m) = BuddyAt(p, m)
  BY DEF BuddyAt
<1>11. freelist' = [k \in Orders |->
                      IF k = m THEN Append(freelist[k], g)
                      ELSE IF k \in o .. m - 1
                      THEN RemoveFirst(freelist[k], BuddyAt(p, k))
                      ELSE freelist[k]]
       /\ nr_free' = [k \in Orders |->
                        IF k = m THEN nr_free[k] + 1
                        ELSE IF k \in o .. m - 1 THEN nr_free[k] - 1
                        ELSE nr_free[k]]
       /\ held' = held \ {p} /\ ret' = ret
  BY <1>1 DEF Popped
<1> DEFINE C == (Blocks \ ({p} \cup H)) \cup {g}
<1>12. Blocks \subseteq Frames /\ held \subseteq Frames
  BY DEF BuddyInv, BuddyTypeOK, Blocks, FreeBlocks
<1>13. Tiles(Blocks, order) /\ HeldTaken
  BY DEF BuddyInv
<1>14. Halves(p, order[p], m) \subseteq Blocks /\ \A k \in order[p] .. m - 1 : order[BuddyAt(p, k)] = k
  BY <1>6, <1>7
<1>15. \A q \in C : q # Merged(p, m) => order'[q] = order[q]
  BY <1>2, <1>12
<1>16. Tiles(C, order')
  <2>1. C = (Blocks \ ({p} \cup Halves(p, order[p], m))) \cup {Merged(p, m)}
    OBVIOUS
  <2>2. order'[Merged(p, m)] = m /\ order[p] <= m
    BY <1>2
  <2> HIDE DEF C, H, g, o
  <2> QED
    BY <1>2, <1>13, <1>14, <1>15, <2>1, <2>2, MergeTiles
<1> HIDE DEF o, H, g
<1>17. Blocks' = C
  <2>1. g \in Blocks'
    BY <1>2, <1>3 DEF Blocks, FreeBlocks
  <2>2. ASSUME NEW q \in Frames, q # g, q = p \/ q \in H
        PROVE  q \notin Blocks'
    <3>1. used'[q] = "Taken"
      BY <1>2, <2>2
    <3>2. q \notin held'
      BY <1>6, <1>11, <1>13, <2>2 DEF HeldTaken
    <3> QED
      BY <3>1, <3>2 DEF Blocks, FreeBlocks
  <2>3. ASSUME NEW q \in Frames, q # p, q \notin H
        PROVE  q \in Blocks' <=> q \in Blocks
    BY <1>2, <1>11, <2>3 DEF Blocks, FreeBlocks
  <2>4. Blocks' \subseteq Frames
    BY <1>11, <1>12 DEF Blocks, FreeBlocks
  <2> QED
    BY <1>2, <1>12, <2>1, <2>2, <2>3, <2>4
<1>18. Tiles(Blocks, order)'
  BY <1>16, <1>17
<1> HIDE DEF C
<1>19. HeldTaken'
  <2>1. ASSUME NEW q \in held, q # p PROVE used'[q] = "Taken"
    <3>1. q \in Frames /\ used[q] = "Taken" /\ q \notin H
      BY <1>6, <1>12, <1>13 DEF HeldTaken
    <3> QED
      BY <1>2, <2>1, <3>1
  <2> QED
    BY <1>11, <2>1 DEF HeldTaken
\* The three kinds of lists.
<1>20. \A k \in Orders : /\ freelist[k] \in Seq(Frames) /\ Once(freelist[k])
                         /\ nr_free[k] = Len(freelist[k]) /\ ToSet(freelist[k]) = FreeOf(k)
  BY DEF BuddyInv, BuddyTypeOK, ListsKept
<1>21. ASSUME NEW k \in Orders, NEW q \in FreeOf(k), k \notin o .. m - 1 \/ q # BuddyAt(p, k)
       PROVE  q \in Frames /\ q # p /\ q \notin H /\ q # g /\ used[q] = "Free" /\ order[q] = k
  <2>1. q \in Frames /\ used[q] = "Free" /\ order[q] = k
    BY FreeOfBlocks
  <2>2. q # p
    BY <1>2, <2>1
  <2>3. q \notin H
    BY <1>4, <1>7, <1>21, <2>1 DEF o
  <2> QED
    BY <1>2, <2>1, <2>2, <2>3
<1>22. /\ freelist'[m] \in Seq(Frames) /\ Once(freelist'[m]) /\ nr_free'[m] = Len(freelist'[m])
       /\ ToSet(freelist'[m]) = FreeOf(m)' /\ FreeOf(m)' = FreeOf(m) \cup {g}
  <2>1. freelist'[m] = Append(freelist[m], g) /\ nr_free'[m] = nr_free[m] + 1
    BY <1>11
  <2>2. g \notin FreeOf(m)
    BY <1>3, <1>21
  <2>3. /\ freelist'[m] \in Seq(Frames) /\ Len(freelist'[m]) = Len(freelist[m]) + 1
        /\ ToSet(freelist'[m]) = FreeOf(m) \cup {g} /\ Once(freelist'[m])
    BY <1>2, <1>20, <2>1, <2>2, ListAdded
  <2>4. FreeOf(m)' = FreeOf(m) \cup {g}
    <3>1. ASSUME NEW q \in FreeOf(m)' PROVE q \in FreeOf(m) \cup {g}
      BY <1>2 DEF FreeOf
    <3>2. ASSUME NEW q \in FreeOf(m) PROVE q \in FreeOf(m)'
      <4>1. q \in Frames /\ q # p /\ q \notin H /\ used[q] = "Free" /\ order[q] = m
        BY <1>3, <1>21
      <4> QED
        BY <1>2, <4>1 DEF FreeOf
    <3>3. g \in FreeOf(m)'
      BY <1>2 DEF FreeOf
    <3> QED
      BY <3>1, <3>2, <3>3
  <2> QED
    BY <1>20, <2>1, <2>3, <2>4
<1>23. ASSUME NEW k \in o .. m - 1
       PROVE  /\ freelist'[k] \in Seq(Frames) /\ Once(freelist'[k])
              /\ nr_free'[k] = Len(freelist'[k])
              /\ ToSet(freelist'[k]) = FreeOf(k)' /\ FreeOf(k)' \subseteq FreeOf(k)
  <2>1. k \in Orders /\ k # m /\ BuddyAt(p, k) \in FreeOf(k)
    BY <1>2
  <2>2. freelist'[k] = RemoveFirst(freelist[k], BuddyAt(p, k)) /\ nr_free'[k] = nr_free[k] - 1
    BY <1>11, <2>1
  <2>3. /\ freelist'[k] \in Seq(Frames) /\ Len(freelist'[k]) = Len(freelist[k]) - 1
        /\ ToSet(freelist'[k]) = FreeOf(k) \ {BuddyAt(p, k)} /\ Once(freelist'[k])
    <3>1. PICK s \in Seq(Frames), e \in FreeOf(k) : s = freelist[k] /\ e = BuddyAt(p, k)
      BY <1>20, <2>1
    <3>2. Once(s) /\ e \in ToSet(s)
      BY <1>20, <2>1, <3>1
    <3>3. /\ RemoveFirst(s, e) \in Seq(Frames) /\ Len(RemoveFirst(s, e)) = Len(s) - 1
          /\ ToSet(RemoveFirst(s, e)) = ToSet(s) \ {e} /\ Once(RemoveFirst(s, e))
      BY <3>2, ListDeleted
    <3> QED
      BY <1>20, <2>1, <2>2, <3>1, <3>3
  <2>4. FreeOf(k)' = FreeOf(k) \ {BuddyAt(p, k)}
    <3>1. ASSUME NEW q \in FreeOf(k)' PROVE q \in FreeOf(k) \ {BuddyAt(p, k)}
      <4>1. q \in Frames /\ used'[q] = "Free" /\ order'[q] = k
        BY DEF FreeOf
      <4>2. q # g
        BY <1>2, <2>1, <4>1
      <4>3. q # p /\ q \notin H
        BY <1>2, <4>1, <4>2
      <4> QED
        BY <1>2, <1>5, <4>1, <4>3 DEF FreeOf
    <3>2. ASSUME NEW q \in FreeOf(k), q # BuddyAt(p, k) PROVE q \in FreeOf(k)'
      <4>1. q \in Frames /\ q # p /\ q \notin H /\ used[q] = "Free" /\ order[q] = k
        BY <1>21, <2>1, <3>2
      <4> QED
        BY <1>2, <4>1 DEF FreeOf
    <3> QED
      BY <3>1, <3>2
  <2> QED
    BY <1>20, <2>1, <2>2, <2>3, <2>4
<1>24. ASSUME NEW k \in Orders, k # m, k \notin o .. m - 1
       PROVE  /\ freelist'[k] = freelist[k] /\ nr_free'[k] = nr_free[k]
              /\ FreeOf(k)' = FreeOf(k)
  <2>1. freelist'[k] = freelist[k] /\ nr_free'[k] = nr_free[k]
    BY <1>11, <1>24
  <2>2. ASSUME NEW q \in FreeOf(k)' PROVE q \in FreeOf(k)
    <3>1. q \in Frames /\ used'[q] = "Free" /\ order'[q] = k
      BY DEF FreeOf
    <3>2. q # g
      BY <1>2, <1>24, <3>1
    <3>3. q # p /\ q \notin H
      BY <1>2, <3>1, <3>2
    <3> QED
      BY <1>2, <3>1, <3>3 DEF FreeOf
  <2>3. ASSUME NEW q \in FreeOf(k) PROVE q \in FreeOf(k)'
    <3>1. q \in Frames /\ q # p /\ q \notin H /\ used[q] = "Free" /\ order[q] = k
      BY <1>21, <1>24
    <3> QED
      BY <1>2, <3>1 DEF FreeOf
  <2> QED
    BY <2>1, <2>2, <2>3
<1>25. ListsKept'
  <2>1. ASSUME NEW k \in Orders
        PROVE  Once(freelist'[k]) /\ nr_free'[k] = Len(freelist'[k]) /\ ToSet(freelist'[k]) = FreeOf(k)'
    BY <1>20, <1>22, <1>23, <1>24
  <2> QED
    BY <2>1 DEF ListsKept
<1>26. Coalesced'
  <2> SUFFICES ASSUME NEW k \in 0 .. MAX_ORDER - 1, NEW q \in FreeOf(k)',
                      FIND_BUDDY_PFN(q, k) \in FreeOf(k)'
               PROVE  FALSE
    <3>1. \A k \in 0 .. MAX_ORDER - 1 : k \in Orders
      BY <1>3 DEF Orders
    <3> QED
      BY <1>25, <3>1 DEF Coalesced, Listed, ListsKept
  <2>1. k \in Orders /\ k \in Nat
    BY <1>3 DEF Orders
  <2>2. \A x \in FreeOf(k) : FIND_BUDDY_PFN(x, k) \notin FreeOf(k)
    <3>1. \A x \in Listed(k) : FIND_BUDDY_PFN(x, k) \notin Listed(k)
      BY DEF BuddyInv, Coalesced
    <3>2. Listed(k) = FreeOf(k)
      BY <1>20, <2>1 DEF Listed
    <3> QED
      BY <3>1, <3>2
  <2>3. CASE k # m
    <3>1. FreeOf(k)' \subseteq FreeOf(k)
      BY <1>23, <1>24, <2>1, <2>3
    <3> QED
      BY <2>2, <3>1
  <2>4. CASE k = m
    <3>1. BuddyAt(p, m) \notin FreeOf(m)
      BY <1>3, <1>9, <2>4 DEF Merges, FreeOf
    <3>2. BuddyAt(p, m) # g
      <4>1. Together(BuddyAt(p, m), BuddyAt(p, m), m) /\ BuddyAt(p, m) \in Nat
        BY <1>3, BuddyAtHalf DEF Together
      <4>2. ~Together(BuddyAt(p, m), p, m)
        BY <1>3, <4>1, BuddyAtHalf
      <4> QED
        BY <1>8, <4>2
    <3>3. q # g
      BY <1>10, <1>22, <2>4, <3>1, <3>2
    <3>4. q \in FreeOf(m) /\ FIND_BUDDY_PFN(q, m) = g
      BY <1>22, <2>2, <2>4, <3>3
    <3>5. q \in Nat /\ Aligned(q, m)
      <4>1. q \in Blocks /\ order[q] = m /\ q \in Frames
        BY <3>4, FreeOfBlocks
      <4> QED
        BY <1>13, <4>1, BuddyBounds DEF Tiles
    <3>6. FIND_BUDDY_PFN(FIND_BUDDY_PFN(q, m), m) = q
      BY <1>3, <3>5, BuddyHalf
    <3>7. q = BuddyAt(p, m)
      BY <1>10, <3>4, <3>6
    <3> QED
      BY <3>1, <3>4, <3>7
  <2> QED
    BY <2>3, <2>4
<1>27. BuddyTypeOK'
  <2>1. \A k \in Orders : freelist'[k] \in Seq(Frames)
    BY <1>20, <1>22, <1>23, <1>24
  <2>2. freelist' \in [Orders -> Seq(Frames)]
    BY <1>11, <2>1
  <2>3. nr_free' \in [Orders -> Int]
    BY <1>11 DEF BuddyInv, BuddyTypeOK
  <2>4. held' \subseteq Frames /\ ret' \in Frames \cup {NULL}
    BY <1>11, <1>12 DEF BuddyInv, BuddyTypeOK
  <2> QED
    BY <1>2, <2>2, <2>3, <2>4 DEF BuddyTypeOK
<1> QED
  BY <1>18, <1>19, <1>25, <1>26, <1>27 DEF BuddyInv

-----------------------------------------------------------------------------
(***************************************************************************)
(* The invariant and what follows from it                                  *)
(***************************************************************************)
\* Every call of the allocator keeps the invariant.
LEMMA NextBuddyInv == BuddyInv /\ [BuddyNext]_buddyVars => BuddyInv'
<1> SUFFICES ASSUME BuddyInv, [BuddyNext]_buddyVars PROVE BuddyInv'
  OBVIOUS
<1>1. CASE UNCHANGED <<order, used, freelist, nr_free, held>> /\ ret' \in Frames \cup {NULL}
  BY <1>1 DEF BuddyInv, BuddyTypeOK, HeldTaken, Tiles, Blocks, FreeBlocks, ListsKept,
              FreeOf, Coalesced, Listed, Together, Aligned, Once
<1>2. ASSUME NEW o \in Orders, buddy_block_alloc(o) PROVE BuddyInv'
  <2>1. CASE Exhausted(o) /\ ret' = NULL /\ UNCHANGED <<order, used, freelist, nr_free, held>>
    BY <1>1, <2>1
  <2>2. CASE \E i \in Orders : /\ Source(o, i)
                               /\ Take(o, i, Head(freelist[i]))
                               /\ held' = held \cup {Head(freelist[i])}
                               /\ ret' = Head(freelist[i])
    BY <2>2, TakeInv
  <2> QED
    BY <1>2, <2>1, <2>2 DEF buddy_block_alloc
<1>3. ASSUME NEW p \in held, buddy_block_free(p) PROVE BuddyInv'
  BY <1>3, FreeInv
<1>4. CASE UNCHANGED buddyVars
  BY <1>1, <1>4 DEF buddyVars, BuddyInv, BuddyTypeOK
<1> QED
  BY <1>2, <1>3, <1>4 DEF BuddyNext

\* The inductive invariant holds in every reachable state.
LEMMA BuddyInvHolds == BuddySpec => []BuddyInv
  BY InitBuddyInv, NextBuddyInv, PTL DEF BuddySpec

\* What bookkeep[] and free_area[] hold keeps its type: in particular order is -1 or
\* an order, and the lists hold page frames only.
THEOREM BuddyTypeCorrect == BuddySpec => []BuddyTypeOK
<1>1. BuddyInv => BuddyTypeOK
  BY DEF BuddyInv
<1> QED
  BY <1>1, BuddyInvHolds, PTL

\* The merge loop leaves no two free buddies of one order apart.
THEOREM BuddyCoalesced == BuddySpec => []Coalesced
<1>1. BuddyInv => Coalesced
  BY DEF BuddyInv
<1> QED
  BY <1>1, BuddyInvHolds, PTL

\* The test of the merge loop on a page structure tells exactly the blocks on the list,
\* and nr_free is the number of them.
THEOREM BuddyListsMatch == BuddySpec => []ListsMatchPages
<1>1. BuddyInv => ListsMatchPages
  <2> SUFFICES ASSUME BuddyInv, NEW k \in Orders
               PROVE  /\ \A p \in Frames :
                           (used[p] = "Free" /\ order[p] = k) <=> p \in Listed(k)
                      /\ nr_free[k] = Len(freelist[k])
                      /\ nr_free[k] = Cardinality(Listed(k))
    BY DEF ListsMatchPages
  <2>1. /\ freelist[k] \in Seq(Frames) /\ Once(freelist[k])
        /\ nr_free[k] = Len(freelist[k]) /\ ToSet(freelist[k]) = FreeOf(k)
    BY DEF BuddyInv, BuddyTypeOK, ListsKept
  <2>2. Cardinality(ToSet(freelist[k])) = Len(freelist[k])
    BY <2>1, ListCount
  <2> QED
    BY <2>1, <2>2 DEF Listed, FreeOf
<1> QED
  BY <1>1, BuddyInvHolds, PTL

\* Each page frame is in exactly one block: one held block and no free list, or one
\* place of one free list and no held block.
THEOREM BuddyTiling == BuddySpec => []Tiling
<1>1. BuddyInv => Tiling
  <2> SUFFICES ASSUME BuddyInv, NEW f \in Frames
               PROVE  Cardinality({p \in held : f \in Span(p, order[p])})
                        + Cardinality(PlacesOf(f)) = 1
    BY DEF Tiling
  <2> DEFINE A == {p \in held : f \in Span(p, order[p])}
  <2>1. \A k \in Orders : freelist[k] \in Seq(Frames) /\ Once(freelist[k]) /\ ToSet(freelist[k]) = FreeOf(k)
    BY DEF BuddyInv, BuddyTypeOK, ListsKept
  <2>2. Tiles(Blocks, order) /\ held \subseteq Blocks
    BY DEF BuddyInv, Blocks
  <2>3. ASSUME NEW p \in Blocks
        PROVE  f \in Span(p, order[p]) <=> Together(f, p, order[p])
    <3>1. p \in Nat /\ order[p] \in Nat /\ Aligned(p, order[p]) /\ f \in Nat
      BY <2>2, BuddyBounds DEF Tiles
    <3> QED
      BY <3>1, SpanTogether
  <2>4. PICK p \in Blocks : Together(f, p, order[p])
    BY <2>2 DEF Tiles
  <2>5. p \in Frames /\ order[p] \in Orders /\ f \in Span(p, order[p])
    BY <2>2, <2>3, <2>4 DEF Tiles
  <2>6. \A q \in Blocks : f \in Span(q, order[q]) => q = p
    BY <2>2, <2>3, <2>4 DEF Tiles
  \* The places of f are the places of p on the list of its order.
  <2>7. ASSUME NEW e \in PlacesOf(f)
        PROVE  /\ p \in FreeBlocks
               /\ \E i \in DOMAIN freelist[order[p]] :
                    freelist[order[p]][i] = p /\ e = <<order[p], i>>
    <3>0. PICK k \in Orders : \E i \in DOMAIN freelist[k] :
            e = <<k, i>> /\ f \in Span(freelist[k][i], k)
      BY DEF PlacesOf, Places
    <3>1. PICK i \in DOMAIN freelist[k] : e = <<k, i>> /\ f \in Span(freelist[k][i], k)
      BY <3>0
    <3>2. freelist[k][i] \in FreeOf(k)
      BY <2>1, <3>1 DEF ToSet
    <3>3. freelist[k][i] \in Blocks /\ freelist[k][i] \in FreeBlocks /\ order[freelist[k][i]] = k
      BY <3>2, FreeOfBlocks
    <3>4. freelist[k][i] = p /\ order[p] = k
      BY <2>6, <3>1, <3>3
    <3> QED
      BY <3>1, <3>3, <3>4
  <2>8. CASE p \in held
    <3>1. A = {p}
      BY <2>2, <2>5, <2>6, <2>8
    <3>2. p \notin FreeBlocks
      BY <2>8 DEF BuddyInv, HeldTaken, FreeBlocks
    <3>3. PlacesOf(f) = {}
      BY <2>7, <3>2
    <3>4. Cardinality({p}) = 1 /\ Cardinality({}) = 0
      BY FS_Singleton, FS_EmptySet
    <3>5. Cardinality(A) = 1 /\ Cardinality(PlacesOf(f)) = 0
      BY ONLY <3>1, <3>3, <3>4
    <3> HIDE DEF A
    <3> QED
      BY ONLY <3>5 DEF A
  <2>9. CASE p \in FreeBlocks
    <3>1. p \notin held
      BY <2>9 DEF BuddyInv, HeldTaken, FreeBlocks
    <3>2. A = {}
      BY <2>2, <2>6, <3>1
    <3>3. p \in FreeOf(order[p])
      BY <2>9 DEF FreeBlocks, FreeOf
    <3>4. PICK i \in DOMAIN freelist[order[p]] : freelist[order[p]][i] = p
      BY <2>1, <2>5, <3>3 DEF ToSet
    <3>5. \A j \in DOMAIN freelist[order[p]] : freelist[order[p]][j] = p => j = i
      BY <2>1, <2>5, <3>4 DEF Once
    <3>6. <<order[p], i>> \in PlacesOf(f)
      BY <2>5, <3>4 DEF PlacesOf, Places
    <3>7. PlacesOf(f) = {<<order[p], i>>}
      <4>1. \A e \in PlacesOf(f) : e = <<order[p], i>>
        BY <2>7, <3>5
      <4> QED
        BY <3>6, <4>1
    <3>8. Cardinality({<<order[p], i>>}) = 1 /\ Cardinality({}) = 0
      BY FS_Singleton, FS_EmptySet
    <3> HIDE DEF A
    <3>9. Cardinality(A) = 0 /\ Cardinality(PlacesOf(f)) = 1
      BY <3>2, <3>7, <3>8
    <3>10. Cardinality(A) + Cardinality(PlacesOf(f)) = 1
      BY <3>9
    <3> QED
      BY <3>10 DEF A
  <2> QED
    BY <2>8, <2>9 DEF Blocks
<1> QED
  BY <1>1, BuddyInvHolds, PTL

-----------------------------------------------------------------------------
(***************************************************************************)
(* The buddy system implements PageAlloc: the abstract allocator's set of  *)
(* held blocks is the set of held page frames with their orders.           *)
(***************************************************************************)
HeldBlocks == {<<p, order[p]>> : p \in held}

\* A frame is held if it is together with the start of a held block.
LEMMA PromiseHeld ==
    ASSUME BuddyInv, NEW f
    PROVE  f \in Promise!HeldFrames <=>
             f \in Nat /\ \E p \in held : Together(f, p, order[p])
<1>1. f \in Promise!HeldFrames <=> \E p \in held : f \in Span(p, order[p])
  <2>1. Promise!HeldFrames = UNION {Span(b[1], b[2]) : b \in HeldBlocks}
    BY DEF Promise!HeldFrames, Promise!Span, Span, HeldBlocks
  <2>2. \A p \in held : <<p, order[p]>> \in HeldBlocks
    BY DEF HeldBlocks
  <2>3. \A b \in HeldBlocks : \E p \in held : b[1] = p /\ b[2] = order[p]
    BY DEF HeldBlocks
  <2>4. ASSUME f \in Promise!HeldFrames PROVE \E p \in held : f \in Span(p, order[p])
    <3>1. PICK b \in HeldBlocks : f \in Span(b[1], b[2])
      BY <2>1, <2>4
    <3> QED
      BY <2>3, <3>1
  <2>5. ASSUME NEW p \in held, f \in Span(p, order[p]) PROVE f \in Promise!HeldFrames
    <3>1. PICK b \in HeldBlocks : b = <<p, order[p]>>
      BY <2>2
    <3>2. f \in Span(b[1], b[2])
      BY <2>5, <3>1
    <3> QED
      BY <2>1, <3>2
  <2> QED
    BY <2>4, <2>5
<1>2. ASSUME NEW p \in held
      PROVE  f \in Span(p, order[p]) <=> f \in Nat /\ Together(f, p, order[p])
  <2>1. p \in Nat /\ order[p] \in Nat /\ Aligned(p, order[p])
    BY BuddyBounds DEF BuddyInv, Tiles, Blocks
  <2> QED
    BY <2>1, SpanTogether
<1> QED
  BY <1>1, <1>2

\* If the lists from o up are empty, every aligned block of order o has a held frame.
\* Otherwise it is cut into free blocks of lower orders; take one of the least order.
\* The frames of its buddy are in a free block too, which has the same order, or it
\* would hold both: two free buddies apart, which the merge loop excludes.
LEMMA ExhaustedNone ==
    ASSUME BuddyInv, NEW o \in Orders, Exhausted(o), NEW s \in Frames, Aligned(s, o),
           \A f \in Frames : \A p \in held : Together(f, p, order[p]) => ~Together(f, s, o)
    PROVE  FALSE
<1> DEFINE W == {k \in Orders : \E q \in FreeOf(k) : Together(q, s, o)}
<1>1. MAX_ORDER \in Nat /\ o \in Nat /\ o <= MAX_ORDER /\ s \in Nat
  BY BuddyBounds
<1>2. Tiles(Blocks, order) /\ \A k \in Orders : Listed(k) = FreeOf(k)
  BY DEF BuddyInv, ListsKept, Listed
<1>3. \A k \in Orders : k \in Nat /\ (FreeOf(k) # {} => k < o)
  <2> SUFFICES ASSUME NEW k \in Orders, o <= k PROVE FreeOf(k) = {}
    BY <1>1, BuddyBounds
  <2>1. freelist[k] = <<>>
    BY <1>1 DEF Exhausted, Orders
  <2>2. ToSet(freelist[k]) = {}
    BY <2>1 DEF ToSet
  <2> QED
    BY <1>2, <2>2 DEF Listed
\* A frame of the block is in a free block, which lies in it.
<1>4. ASSUME NEW f \in Frames, Together(f, s, o)
      PROVE  \E b \in Blocks : /\ Together(f, b, order[b]) /\ b \in FreeOf(order[b])
                               /\ Together(b, s, o) /\ order[b] \in W
  <2>1. PICK b \in Blocks : Together(f, b, order[b])
    BY <1>2 DEF Tiles
  <2>2. b \in Frames /\ order[b] \in Orders /\ b \in Nat /\ f \in Nat /\ order[b] \in Nat
    BY <1>2, BuddyBounds DEF Tiles
  <2>3. b \notin held
    BY <1>4, <2>1
  <2>4. b \in FreeOf(order[b])
    BY <2>3 DEF Blocks, FreeBlocks, FreeOf
  <2>5. order[b] < o
    BY <1>3, <2>2, <2>4
  <2>6. Together(f, b, o)
    BY <1>1, <2>1, <2>2, <2>5, TogetherUp
  <2>7. Together(b, s, o)
    BY <1>4, <2>6 DEF Together
  <2> QED
    BY <2>1, <2>2, <2>4, <2>7
<1>5. W # {} /\ W \in SUBSET Nat
  <2>1. Together(s, s, o)
    BY DEF Together
  <2> QED
    BY <1>3, <1>4, <2>1
<1>6. PICK k \in W : \A j \in W : k <= j
  BY <1>5, LeastNumber
<1>7. PICK q \in FreeOf(k) : Together(q, s, o)
  BY <1>6
<1>8. k \in Orders /\ k \in Nat /\ k < o
  BY <1>3, <1>7
<1>9. q \in Blocks /\ order[q] = k /\ q \in Nat /\ q \in Frames /\ Aligned(q, k)
  <2>1. q \in Blocks /\ order[q] = k /\ q \in Frames
    BY <1>8, FreeOfBlocks
  <2> QED
    BY <1>2, <2>1, BuddyBounds DEF Tiles
<1> DEFINE r == FIND_BUDDY_PFN(q, k)
<1>10. r \in Nat /\ Aligned(r, k) /\ Together(r, q, k + 1)
  BY <1>8, <1>9, BuddyHalf
<1>11. r \notin FreeOf(k)
  <2>1. k \in 0 .. MAX_ORDER - 1
    BY <1>1, <1>8
  <2>2. q \in Listed(k) /\ Listed(k) = FreeOf(k)
    BY <1>2, <1>7, <1>8
  <2> QED
    BY <2>1, <2>2 DEF BuddyInv, Coalesced
<1> HIDE DEF r, W
<1>12. Together(r, s, o)
  <2>1. Together(r, q, o)
    <3>1. k + 1 \in Nat /\ k + 1 <= o
      BY <1>1, <1>8
    <3> QED
      BY <1>1, <1>9, <1>10, <3>1, TogetherUp
  <2> QED
    BY <1>7, <2>1 DEF Together
<1>13. r \in Frames
  BY <1>10, <1>12, FrameTogether
<1>14. PICK b \in Blocks : /\ Together(r, b, order[b]) /\ b \in FreeOf(order[b])
                           /\ Together(b, s, o) /\ order[b] \in W
  BY <1>4, <1>12, <1>13
<1>15. /\ b \in Frames /\ b \in Nat /\ order[b] \in Nat /\ Aligned(b, order[b])
       /\ k <= order[b]
  BY <1>2, <1>6, <1>14, BuddyBounds DEF Tiles
<1>16. CASE order[b] = k
  <2>1. r = b
    BY <1>8, <1>10, <1>14, <1>15, <1>16, AlignedSame
  <2> QED
    BY <1>11, <1>14, <1>16, <2>1
<1>17. CASE order[b] # k
  <2>1. k + 1 <= order[b] /\ k + 1 \in Nat
    BY <1>8, <1>15, <1>17
  <2>2. Together(r, q, order[b])
    BY <1>9, <1>10, <1>15, <2>1, TogetherUp
  <2>3. Together(q, b, order[b]) /\ Together(q, q, order[q])
    BY <1>14, <2>2 DEF Together
  <2>4. q = b
    BY <1>2, <1>9, <2>3 DEF Tiles
  <2> QED
    BY <1>9, <1>17, <2>4
<1> QED
  BY <1>16, <1>17

\* A successful allocation hands out a block that is aligned and of which no frame is held.
LEMMA TakePromise ==
    ASSUME BuddyInv, NEW o \in Orders, NEW i \in Orders, Source(o, i),
           Take(o, i, Head(freelist[i])), held' = held \cup {Head(freelist[i])},
           ret' = Head(freelist[i])
    PROVE  Promise!Alloc(o)
<1> DEFINE t == Head(freelist[i])
           H == Halves(t, o, i)
<1>1. /\ t \in Frames /\ t \in Blocks /\ t \in FreeOf(i) /\ t \notin held /\ o <= i
      /\ H \cap Blocks = {} /\ order'[t] = o
      /\ \A p \in Frames : p # t /\ p \notin H => order'[p] = order[p]
  BY TakeFacts
<1>2. held' = held \cup {t} /\ ret' = t
  OBVIOUS
<1> HIDE DEF t, H
<1>3. Tiles(Blocks, order) /\ held \subseteq Blocks /\ held \subseteq Frames
  BY DEF BuddyInv, BuddyTypeOK, Blocks
<1>4. o \in Nat /\ i \in Nat /\ t \in Nat /\ order[t] = i /\ Aligned(t, i)
  <2>1. order[t] = i
    BY <1>1, FreeOfBlocks
  <2> QED
    BY <1>1, <1>3, <2>1, BuddyBounds DEF Tiles
<1>5. Aligned(t, o)
  BY <1>1, <1>4, AlignedDown
<1>6. ASSUME NEW f \in Span(t, o) PROVE f \notin Promise!HeldFrames
  <2>1. f \in Nat /\ Together(f, t, o)
    BY <1>4, <1>5, SpanTogether
  <2>2. Together(f, t, i) /\ f \in Frames
    BY <1>1, <1>4, <2>1, TogetherUp, FrameTogether
  <2>3. \A p \in held : ~Together(f, p, order[p])
    BY <1>1, <1>3, <1>4, <2>2 DEF Tiles
  <2> QED
    BY <2>3, PromiseHeld
<1>7. t \in Promise!Available(o)
  <2>1. t \in Promise!Frames /\ Promise!Span(t, o) = Span(t, o) /\ (t % 2^o) = 0
    BY <1>1, <1>5 DEF Promise!Frames, Frames, Promise!Span, Span, Aligned
  <2> QED
    BY <1>6, <2>1 DEF Promise!Available
<1>8. HeldBlocks' = HeldBlocks \cup {<<t, o>>}
  <2>1. \A p \in held : order'[p] = order[p]
    BY <1>1, <1>3
  <2>2. HeldBlocks' = {<<p, order'[p]>> : p \in held \cup {t}}
    BY <1>2 DEF HeldBlocks
  <2>3. {<<p, order'[p]>> : p \in held \cup {t}} = {<<p, order'[p]>> : p \in held} \cup {<<t, order'[t]>>}
    OBVIOUS
  <2>4. {<<p, order'[p]>> : p \in held} = HeldBlocks
    BY <2>1 DEF HeldBlocks
  <2> QED
    BY <1>1, <2>2, <2>3, <2>4
<1> QED
  BY <1>2, <1>7, <1>8 DEF Promise!Alloc, HeldBlocks

\* buddy_block_alloc keeps the promise when it fails too.
LEMMA NonePromise ==
    ASSUME BuddyInv, NEW o \in Orders, Exhausted(o), ret' = NULL, UNCHANGED <<order, held>>
    PROVE  Promise!Alloc(o)
<1>1. ASSUME NEW s \in Promise!Available(o) PROVE FALSE
  <2>1. s \in Frames /\ Aligned(s, o) /\ Promise!Span(s, o) \cap Promise!HeldFrames = {}
    BY DEF Promise!Available, Promise!Frames, Frames, Aligned
  <2>2. s \in Nat /\ o \in Nat /\ \A f \in Frames : f \in Nat
    BY <2>1, BuddyBounds
  <2>3. Promise!Span(s, o) = Span(s, o)
    BY DEF Promise!Span, Span
  <2>4. ASSUME NEW f \in Frames, NEW p \in held, Together(f, p, order[p]), Together(f, s, o)
        PROVE  FALSE
    <3>1. f \in Span(s, o)
      BY <2>1, <2>2, <2>4, SpanTogether
    <3>2. f \in Promise!HeldFrames
      BY <2>2, <2>4, PromiseHeld
    <3> QED
      BY <2>1, <2>3, <3>1, <3>2
  <2> QED
    BY <2>1, <2>4, ExhaustedNone
<1> QED
  BY <1>1 DEF Promise!Alloc

\* A free gives back the one block, whatever it is merged with.
LEMMA FreePromise ==
    ASSUME BuddyInv, NEW p \in held, buddy_block_free(p)
    PROVE  Promise!Free(<<p, order[p]>>)
<1>1. PICK m \in Orders : Top(p, m) /\ MergedPages(p, m) /\ held' = held \ {p} /\ ret' = ret
  BY DEF buddy_block_free
<1> DEFINE H == Halves(p, order[p], m)
<1>2. /\ \A k \in order[p] .. m - 1 : k \in Orders /\ BuddyAt(p, k) \in FreeOf(k)
      /\ \A q \in Frames : q # p /\ q \notin H => order'[q] = order[q]
  BY <1>1, MergeFacts
<1>3. \A q \in H : used[q] = "Free"
  <2>1. \A q \in H : \E k \in order[p] .. m - 1 : q = BuddyAt(p, k)
    BY DEF Halves
  <2> QED
    BY <1>2, <2>1, FreeOfBlocks
<1> HIDE DEF H
<1>4. ASSUME NEW q \in held, q # p PROVE order'[q] = order[q]
  <2>1. q \in Frames /\ q \notin H
    BY <1>3 DEF BuddyInv, BuddyTypeOK, HeldTaken
  <2> QED
    BY <1>2, <1>4, <2>1
<1>5. HeldBlocks' = HeldBlocks \ {<<p, order[p]>>}
  <2>1. HeldBlocks' = {<<q, order'[q]>> : q \in held \ {p}}
    BY <1>1 DEF HeldBlocks
  <2>2. {<<q, order'[q]>> : q \in held \ {p}} = {<<q, order[q]>> : q \in held \ {p}}
    BY <1>4
  <2>3. {<<q, order[q]>> : q \in held \ {p}} = HeldBlocks \ {<<p, order[p]>>}
    BY DEF HeldBlocks
  <2> QED
    BY <2>1, <2>2, <2>3
<1> QED
  BY <1>1, <1>5 DEF Promise!Free, HeldBlocks

\* The allocator of mm.c does what mm.h promises: blocks that are aligned and do not
\* overlap while they are held, and a null pointer only when no such block exists.
THEOREM BuddyKeepsPromise == BuddySpec => ImplementsPageAlloc
<1>1. BuddyInit => Promise!Init
  BY DEF BuddyInit, Promise!Init
<1>2. BuddyInv /\ [BuddyNext]_buddyVars => [Promise!Next]_(Promise!vars)
  <2> SUFFICES ASSUME BuddyInv, [BuddyNext]_buddyVars PROVE [Promise!Next]_(Promise!vars)
    OBVIOUS
  <2>1. ASSUME NEW o \in Orders, buddy_block_alloc(o) PROVE Promise!Next
    <3>1. Promise!Alloc(o)
      BY <2>1, TakePromise, NonePromise DEF buddy_block_alloc
    <3> QED
      BY <3>1 DEF Promise!Next, Promise!Orders, Orders
  <2>2. ASSUME NEW p \in held, buddy_block_free(p) PROVE Promise!Next
    <3>1. Promise!Free(<<p, order[p]>>)
      BY <2>2, FreePromise
    <3>2. PICK b \in HeldBlocks : b = <<p, order[p]>>
      BY DEF HeldBlocks
    <3>3. Promise!Free(b)
      BY <3>1, <3>2 DEF Promise!Free
    <3> QED
      BY <3>3 DEF Promise!Next, HeldBlocks
  <2>3. CASE UNCHANGED buddyVars
    BY <2>3 DEF buddyVars, Promise!vars
  <2> QED
    BY <2>1, <2>2, <2>3 DEF BuddyNext
<1> QED
  BY <1>1, <1>2, BuddyInvHolds, PTL DEF BuddySpec, ImplementsPageAlloc, Promise!Spec
=============================================================================
