--------------------------- MODULE KmallocProofs ---------------------------
(***************************************************************************)
(* Theorems about kmalloc and kfree, for every size of the pool, every set *)
(* of object sizes and every limit on empty pages: the lists, counters and *)
(* pages of the object allocators agree with what the callers hold, and    *)
(* the buddy system below them is only ever asked for what it allows.      *)
(*                                                                         *)
(* Addresses are dealt with in the first section.  Then an invariant is    *)
(* stated page by page and allocator by allocator: a step of kmalloc or    *)
(* kfree is about one page and at most one allocator, and all others are   *)
(* left alone.                                                             *)
(***************************************************************************)
EXTENDS Kmalloc, BuddyProofs

-----------------------------------------------------------------------------
(***************************************************************************)
(* The inductive invariant                                                 *)
(***************************************************************************)
\* The objects of page p when allocator t has it.
Object(t, p, a) == \E i \in 0 .. obj_per_page(t) - 1 : a = phy_addr(p) + i * objsize(t)

\* What the fields g of page p say of the addresses on it, of which callers hold lv.
\* The page is in no block or inside one; or a caller holds it as a block;
\* or an allocator owns it.
Unused(p, g, lv) == g.obj_alloc = NULL /\ \A a \in PageAddresses(p) : lv[a] = 0

Block(p, g, lv) ==
    /\ g.obj_alloc = NULL
    /\ \A a \in PageAddresses(p) : lv[a] = IF a = phy_addr(p) THEN 1 ELSE 0

Slab(p, g, lv) ==
    /\ g.obj_alloc \in Tokens
    /\ g.obj_used <= obj_per_page(g.obj_alloc)
    /\ g.free # NULL => Object(g.obj_alloc, p, g.free)
    /\ IsFiniteSet(Units(lv, PageAddresses(p)))
    /\ g.obj_used = Cardinality(Units(lv, PageAddresses(p)))
    /\ \A a \in PageAddresses(p) : lv[a] > 0 => Object(g.obj_alloc, p, a)

PageInv(p) ==
    \/ p \notin held /\ Unused(p, page[p], live)
    \/ p \in held /\ Block(p, page[p], live)
    \/ p \in held /\ order[p] = 0 /\ Slab(p, page[p], live)

\* List l holds the pages of S, each of them once.
Lists(l, S) == l \in Seq(Frames) /\ Once(l) /\ ToSet(l) = S

UsedUnits(pg, S) == Units([p \in Frames |-> pg[p].obj_used], S)

\* Fields a of allocator t, which owns the pages S, as their fields pg say.
Linked(t, a, pg, S) ==
    /\ Lists(a.full, {p \in S : p # a.curr_page /\ pg[p].obj_used = obj_per_page(t)})
    /\ Lists(a.partial, {p \in S : /\ p # a.curr_page
                                   /\ pg[p].obj_used > 0
                                   /\ pg[p].obj_used < obj_per_page(t)})
    /\ Lists(a.empty, {p \in S : p # a.curr_page /\ pg[p].obj_used = 0})
    /\ Len(a.empty) < EmptyLimit
    /\ a.curr_page # NULL => a.curr_page \in S /\ pg[a.curr_page].obj_used < obj_per_page(t)

Counted(a, pg, S) ==
    /\ IsFiniteSet(UsedUnits(pg, S)) /\ a.obj_used = Cardinality(UsedUnits(pg, S))
    /\ a.page_used = Cardinality(S)

AllocatorInv(t) == Linked(t, pool[t], page, SlabPages(t)) /\ Counted(pool[t], page, SlabPages(t))

KmallocInv ==
    /\ TypeOK
    /\ BuddyInv
    /\ \A p \in Frames : PageInv(p)
    /\ \A t \in Tokens : AllocatorInv(t)

-----------------------------------------------------------------------------
(***************************************************************************)
(* Addresses                                                               *)
(***************************************************************************)
LEMMA KmallocBounds ==
    /\ PAGE_SIZE \in Nat \ {0} /\ LOW_MEMORY \in Nat
    /\ NULL \notin Int /\ NULL \notin Tokens /\ NULL \notin Addresses
    /\ EmptyLimit \in Nat \ {0}
<1>1. /\ PAGE_SHIFT \in Nat /\ LOW_MEMORY \in Nat /\ EmptyLimit \in Nat \ {0}
      /\ NULL \notin Int
  BY KmallocAssumption, BuddyAssumption
<1>2. PAGE_SIZE \in Nat \ {0}
  BY <1>1, PowerType DEF PAGE_SIZE
<1>3. NULL \notin Tokens /\ NULL \notin Addresses
  BY <1>1 DEF Tokens, Addresses
<1> QED
  BY <1>1, <1>2, <1>3

\* A page holds a number of objects without a rest, and more than one.
LEMMA ObjectSizes ==
    ASSUME NEW t \in Tokens
    PROVE  /\ objsize(t) \in Nat \ {0} /\ obj_per_page(t) \in Nat /\ obj_per_page(t) > 1
           /\ PAGE_SIZE = objsize(t) * obj_per_page(t)
<1> DEFINE k == t + MIN_KMALLOC_ORDER
           w == 2^k
<1>1. /\ PAGE_SHIFT \in Nat /\ MIN_KMALLOC_ORDER \in Nat
      /\ MAX_KMALLOC_ORDER \in MIN_KMALLOC_ORDER .. PAGE_SHIFT - 1
  BY KmallocAssumption
<1>2. k \in Nat /\ k <= PAGE_SHIFT - 1 /\ PAGE_SHIFT - 1 \in Nat
  BY <1>1 DEF Tokens
<1> HIDE DEF k
<1>3. w \in Nat \ {0}
  BY <1>2, PowerType
<1>4. PICK m \in Nat \ {0} : 2^(PAGE_SHIFT - 1) = w * m
  BY <1>2, PowerDivides
<1>5. PAGE_SIZE = 2 * 2^(PAGE_SHIFT - 1)
  <2>1. (PAGE_SHIFT - 1) + 1 = PAGE_SHIFT
    BY <1>1
  <2> QED
    BY <1>2, <2>1, PowerNext DEF PAGE_SIZE
<1> HIDE DEF w
<1>6. PAGE_SIZE = w * (2 * m) + 0 /\ PAGE_SIZE \in Nat
  <2>1. 2 * (w * m) = w * (2 * m)
    BY <1>3
  <2> QED
    BY <1>3, <1>4, <1>5, <2>1
<1>7. PAGE_SIZE \div w = 2 * m
  <2>1. 2 * m \in Int /\ 0 \in 0 .. w - 1
    BY <1>3
  <2> QED
    BY <1>3, <1>6, <2>1, ModUnique
<1>8. objsize(t) = w
  BY DEF objsize, w, k
<1> QED
  BY <1>3, <1>6, <1>7, <1>8 DEF obj_per_page

\* An address is on the page that PHY_ADDR_TO_PFN computes, and on no other.
LEMMA OnPage ==
    ASSUME NEW p \in Frames
    PROVE  \A a : a \in PageAddresses(p) <=> a \in Addresses /\ PHY_ADDR_TO_PFN(a) = p
<1> DEFINE F == NrBlocks * 2^MAX_ORDER
<1>1. PICK s \in Nat \ {0} : s = PAGE_SIZE
  BY KmallocBounds
<1>2. PICK l \in Nat : l = LOW_MEMORY
  BY KmallocBounds
<1>3. F \in Nat /\ p \in Nat /\ p <= F - 1
  BY BuddyBounds DEF Frames
<1> HIDE DEF F
<1>4. Addresses = l .. l + s * F - 1
  <2>1. F * s = s * F
    BY <1>3
  <2> QED
    BY <1>1, <1>2, <2>1 DEF Addresses, F
<1>5. PageAddresses(p) = l + s * p .. l + s * p + s - 1
  <2>1. p * s = s * p
    BY <1>3
  <2> QED
    BY <1>1, <1>2, <2>1 DEF PageAddresses, phy_addr
<1>6. s * p \in Int /\ s * F \in Int /\ s * (p + 1) = s * p + s /\ s * 0 = 0
  BY <1>3
<1>7. s * (p + 1) <= s * F /\ s * 0 <= s * p
  BY <1>3, ProductOrder
<1>8. ASSUME NEW a \in PageAddresses(p) PROVE a \in Addresses /\ PHY_ADDR_TO_PFN(a) = p
  <2>1. a \in Int /\ a >= l + s * p /\ a <= l + s * p + s - 1
    BY <1>5, <1>6
  <2>2. a \in Addresses
    BY <1>4, <1>6, <1>7, <2>1
  <2>3. PICK r \in 0 .. s - 1 : r = a - l - s * p
    BY <1>6, <2>1
  <2>4. a - l \in Int /\ a - l = s * p + r
    BY <1>6, <2>1, <2>3
  <2>5. (a - l) \div s = p
    BY <1>3, <2>4, ModUnique
  <2> QED
    BY <1>1, <1>2, <2>2, <2>5 DEF PHY_ADDR_TO_PFN
<1>9. ASSUME NEW a \in Addresses, PHY_ADDR_TO_PFN(a) = p PROVE a \in PageAddresses(p)
  <2>1. a \in Int /\ (a - l) \div s = p /\ a - l \in Int
    BY <1>1, <1>2, <1>4, <1>6, <1>9 DEF PHY_ADDR_TO_PFN
  <2>2. PICK r \in 0 .. s - 1 : a - l = s * p + r
    <3>1. /\ (a - l) % s \in 0 .. s - 1
          /\ a - l = s * ((a - l) \div s) + ((a - l) % s)
      BY <2>1, DivMod
    <3> QED
      BY <2>1, <3>1
  <2>3. PICK x \in Int : x = s * p
    BY <1>6
  <2>4. a \in l + x .. l + x + s - 1
    BY ONLY <2>1, <2>2, <2>3, s \in Nat, l \in Nat
  <2> QED
    BY ONLY <1>5, <2>3, <2>4
<1> QED
  BY <1>8, <1>9

\* Every address is on a page.
LEMMA AddressPage ==
    ASSUME NEW a \in Addresses
    PROVE  PHY_ADDR_TO_PFN(a) \in Frames /\ a \in PageAddresses(PHY_ADDR_TO_PFN(a))
<1> DEFINE F == NrBlocks * 2^MAX_ORDER
           q == PHY_ADDR_TO_PFN(a)
<1>1. PICK s \in Nat \ {0} : s = PAGE_SIZE
  BY KmallocBounds
<1>2. PICK l \in Nat : l = LOW_MEMORY
  BY KmallocBounds
<1>3. F \in Nat /\ Frames = 0 .. F - 1
  BY BuddyBounds DEF Frames
<1> HIDE DEF F
<1>4. Addresses = l .. l + s * F - 1 /\ s * F \in Int
  <2>1. F * s = s * F
    BY <1>3
  <2> QED
    BY <1>1, <1>2, <1>3, <2>1 DEF Addresses, F
<1>5. a \in Int /\ a - l \in 0 .. s * F - 1 /\ a - l \in Int
  BY <1>4
<1>6. q = (a - l) \div s
  BY <1>1, <1>2 DEF PHY_ADDR_TO_PFN
<1>7. PICK r \in 0 .. s - 1 : q \in Int /\ a - l = s * q + r
  <2>1. /\ (a - l) % s \in 0 .. s - 1 /\ (a - l) \div s \in Int
        /\ a - l = s * ((a - l) \div s) + ((a - l) % s)
    BY <1>5, DivMod
  <2> QED
    BY <1>6, <2>1
<1> HIDE DEF q
<1>8. s * q \in Int /\ s * (q + 1) = s * q + s /\ s * 0 = 0
  BY <1>7
<1>9. q >= 0
  <2>1. q <= -1 => s * (q + 1) <= s * 0
    BY <1>7, ProductOrder
  <2> QED
    BY <1>5, <1>7, <1>8, <2>1
<1>10. q < F
  <2>1. F <= q => s * F <= s * q
    BY <1>3, <1>7, ProductOrder
  <2> QED
    BY <1>3, <1>4, <1>5, <1>7, <1>8, <2>1
<1>11. q \in Frames
  BY <1>3, <1>7, <1>9, <1>10
<1> QED
  BY <1>11, OnPage DEF q

\* The first address of a page.
LEMMA FirstAddress ==
    ASSUME NEW p \in Frames
    PROVE  /\ phy_addr(p) \in PageAddresses(p) /\ phy_addr(p) \in Addresses
           /\ PHY_ADDR_TO_PFN(phy_addr(p)) = p
<1>1. PAGE_SIZE \in Nat \ {0} /\ phy_addr(p) \in Int
  BY KmallocBounds, BuddyBounds DEF phy_addr
<1>2. phy_addr(p) \in PageAddresses(p)
  BY <1>1 DEF PageAddresses
<1> QED
  BY <1>2, OnPage

\* An object is on its page, at a multiple of its size.
LEMMA ObjectOnPage ==
    ASSUME NEW t \in Tokens, NEW p \in Frames, NEW a, Object(t, p, a)
    PROVE  /\ a \in PageAddresses(p) /\ a \in Addresses /\ PHY_ADDR_TO_PFN(a) = p
           /\ (a - phy_addr(p)) % objsize(t) = 0
<1>1. PICK z \in Nat \ {0} : z = objsize(t)
  BY ObjectSizes
<1>2. PICK n \in Nat : n = obj_per_page(t) /\ n > 1 /\ PAGE_SIZE = z * n
  BY <1>1, ObjectSizes
<1>3. PICK f \in Int : f = phy_addr(p)
  BY KmallocBounds, BuddyBounds DEF phy_addr
<1>4. PICK i \in 0 .. n - 1 : a = f + i * z
  BY <1>1, <1>2, <1>3 DEF Object
<1>5. i * z = z * i /\ z * i \in Int /\ z * (i + 1) = z * i + z /\ z * 0 = 0 /\ z * n \in Int
  BY <1>4
<1>6. z * (i + 1) <= z * n /\ z * 0 <= z * i
  BY <1>4, ProductOrder
<1>7. a \in f .. f + z * n - 1
  BY <1>4, <1>5, <1>6
<1>8. a \in PageAddresses(p)
  BY <1>2, <1>3, <1>7 DEF PageAddresses
<1>9. (a - f) % z = 0
  <2>1. a - f = z * i + 0 /\ a - f \in Int /\ 0 \in 0 .. z - 1 /\ i \in Int
    BY <1>4, <1>5, <1>7
  <2> QED
    BY <2>1, ModUnique
<1> QED
  BY <1>1, <1>3, <1>8, <1>9, OnPage

\* An object that was never handed out before is an object, if the page has room.
LEMMA BumpObject ==
    ASSUME NEW t \in Tokens, NEW p \in Frames, NEW g, g.obj_used \in Nat,
           g.obj_used < obj_per_page(t)
    PROVE  Object(t, p, Bump(t, p, g))
<1>1. g.obj_used \in 0 .. obj_per_page(t) - 1
  BY ObjectSizes
<1> QED
  BY <1>1 DEF Object, Bump

-----------------------------------------------------------------------------
(***************************************************************************)
(* Counting                                                                *)
(***************************************************************************)
LEMMA UnitsIn ==
    ASSUME NEW f, NEW S, NEW u
    PROVE  u \in Units(f, S) <=> \E x \in S : \E k \in 1 .. f[x] : u = <<x, k>>
  BY DEF Units

\* Units depends only on the values on S.
LEMMA SameUnits ==
    ASSUME NEW f, NEW h, NEW S, \A x \in S : h[x] = f[x]
    PROVE  Units(h, S) = Units(f, S)
<1>1. ASSUME NEW u PROVE u \in Units(h, S) <=> u \in Units(f, S)
  BY UnitsIn
<1> QED
  BY <1>1

\* A set on which everything is zero has no units.
LEMMA NoUnits ==
    ASSUME NEW f, NEW S, \A x \in S : f[x] = 0
    PROVE  Units(f, S) = {}
<1>1. ASSUME NEW u PROVE u \notin Units(f, S)
  <2> SUFFICES ASSUME NEW x \in S, NEW k \in 1 .. f[x] PROVE FALSE
    BY UnitsIn
  <2> QED
    OBVIOUS
<1> QED
  BY <1>1

\* Without units everything is zero.
LEMMA UnitsNone ==
    ASSUME NEW f, NEW S, NEW x \in S, f[x] \in Nat, Units(f, S) = {}
    PROVE  f[x] = 0
<1>1. ASSUME f[x] # 0 PROVE FALSE
  <2>1. 1 \in 1 .. f[x]
    BY <1>1
  <2>2. PICK u : u = <<x, 1>>
    OBVIOUS
  <2>3. \E y \in S : \E k \in 1 .. f[y] : u = <<y, k>>
    BY <2>1, <2>2
  <2>4. u \in Units(f, S)
    BY <2>3, UnitsIn
  <2> QED
    BY <2>4
<1> QED
  BY <1>1

\* Between f on S and h on T there is one unit of x more, and nothing else changes.
OneMore(f, S, h, T, x, n) ==
    /\ T \ {x} = S \ {x} /\ \A y \in S \ {x} : h[y] = f[y]
    /\ x \in T /\ h[x] = n + 1
    /\ IF x \in S THEN f[x] = n ELSE n = 0

\* One unit more is one element more.
LEMMA OneMoreUnit ==
    ASSUME NEW f, NEW S, NEW h, NEW T, NEW x, NEW n \in Nat, OneMore(f, S, h, T, x, n)
    PROVE  /\ Units(h, T) = Units(f, S) \cup {<<x, n + 1>>}
           /\ <<x, n + 1>> \notin Units(f, S)
<1>1. \A k : k \in 1 .. n + 1 <=> k \in 1 .. n \/ k = n + 1
  OBVIOUS
<1>2. ASSUME NEW u PROVE u \in Units(h, T) <=> u \in Units(f, S) \cup {<<x, n + 1>>}
  <2>1. ASSUME u \in Units(h, T) PROVE u \in Units(f, S) \cup {<<x, n + 1>>}
    <3>0. PICK y \in T : \E k \in 1 .. h[y] : u = <<y, k>>
      BY <2>1, UnitsIn
    <3>1. PICK k \in 1 .. h[y] : u = <<y, k>>
      BY <3>0
    <3>2. CASE y # x
      <4>1. y \in S /\ h[y] = f[y]
        BY <3>2 DEF OneMore
      <4> QED
        BY <3>1, <4>1, UnitsIn
    <3>3. CASE y = x /\ k # n + 1
      <4>1. k \in 1 .. n
        BY <1>1, <3>1, <3>3 DEF OneMore
      <4>2. x \in S /\ f[x] = n
        BY <4>1 DEF OneMore
      <4> QED
        BY <3>1, <3>3, <4>1, <4>2, UnitsIn
    <3> QED
      BY <3>1, <3>2, <3>3
  <2>2. ASSUME u \in Units(f, S) PROVE u \in Units(h, T)
    <3>0. PICK y \in S : \E k \in 1 .. f[y] : u = <<y, k>>
      BY <2>2, UnitsIn
    <3>1. PICK k \in 1 .. f[y] : u = <<y, k>>
      BY <3>0
    <3>2. y \in T /\ k \in 1 .. h[y]
      <4>1. CASE y # x
        BY <4>1 DEF OneMore
      <4>2. CASE y = x
        BY <1>1, <4>2 DEF OneMore
      <4> QED
        BY <4>1, <4>2
    <3> QED
      BY <3>1, <3>2, UnitsIn
  <2>3. <<x, n + 1>> \in Units(h, T)
    <3>1. x \in T /\ n + 1 \in 1 .. h[x]
      BY DEF OneMore
    <3> QED
      BY <3>1, UnitsIn
  <2> QED
    BY <2>1, <2>2, <2>3
<1>3. <<x, n + 1>> \notin Units(f, S)
  <2> SUFFICES ASSUME NEW y \in S, NEW k \in 1 .. f[y], <<x, n + 1>> = <<y, k>> PROVE FALSE
    BY UnitsIn
  <2>1. y = x /\ k = n + 1 /\ f[x] = n
    BY DEF OneMore
  <2> QED
    BY <2>1
<1> QED
  BY <1>2, <1>3

\* The count after one unit was added.
LEMMA CountUp ==
    ASSUME NEW f, NEW S, NEW h, NEW T, NEW x, NEW n \in Nat, OneMore(f, S, h, T, x, n),
           IsFiniteSet(Units(f, S))
    PROVE  /\ IsFiniteSet(Units(h, T))
           /\ Cardinality(Units(h, T)) = Cardinality(Units(f, S)) + 1
<1> DEFINE u == <<x, n + 1>>
<1>1. Units(h, T) = Units(f, S) \cup {u} /\ u \notin Units(f, S)
  BY OneMoreUnit
<1> HIDE DEF u
<1> QED
  BY <1>1, FS_AddElement

\* The count before one unit was added.
LEMMA CountDown ==
    ASSUME NEW f, NEW S, NEW h, NEW T, NEW x, NEW n \in Nat, OneMore(f, S, h, T, x, n),
           IsFiniteSet(Units(h, T))
    PROVE  /\ IsFiniteSet(Units(f, S))
           /\ Cardinality(Units(f, S)) = Cardinality(Units(h, T)) - 1
           /\ Cardinality(Units(h, T)) \in Nat /\ Cardinality(Units(h, T)) > 0
<1> DEFINE u == <<x, n + 1>>
<1>1. Units(h, T) = Units(f, S) \cup {u} /\ u \notin Units(f, S)
  BY OneMoreUnit
<1> HIDE DEF u
<1>2. Units(f, S) = Units(h, T) \ {u} /\ u \in Units(h, T)
  BY <1>1
<1>3. /\ IsFiniteSet(Units(f, S))
      /\ Cardinality(Units(f, S)) = Cardinality(Units(h, T)) - 1
  BY <1>2, FS_RemoveElement
<1>4. Cardinality(Units(h, T)) \in Nat /\ Cardinality(Units(f, S)) \in Nat
  BY <1>3, FS_CardinalityType
<1> QED
  BY <1>3, <1>4

\* A set of frames can be counted.
LEMMA FiniteFrames ==
    ASSUME NEW S \in SUBSET Frames
    PROVE  IsFiniteSet(S) /\ Cardinality(S) \in Nat
<1>1. NrBlocks * 2^MAX_ORDER - 1 \in Int
  BY BuddyBounds
<1>2. IsFiniteSet(Frames)
  BY <1>1, FS_Interval DEF Frames
<1> QED
  BY <1>2, FS_Subset, FS_CardinalityType

-----------------------------------------------------------------------------
(***************************************************************************)
(* The lists of an allocator                                               *)
(***************************************************************************)
LEMMA ListsAdded ==
    ASSUME NEW l, NEW S, Lists(l, S), NEW p \in Frames, p \notin S
    PROVE  Lists(Append(l, p), S \cup {p}) /\ Len(Append(l, p)) = Len(l) + 1
  BY ListAdded DEF Lists

\* The first page taken off a list.
LEMMA ListsTail ==
    ASSUME NEW l, NEW S, Lists(l, S), l # <<>>
    PROVE  /\ Head(l) \in S /\ Head(l) \in Frames
           /\ Lists(Tail(l), S \ {Head(l)}) /\ Len(Tail(l)) = Len(l) - 1
  BY ListTail DEF Lists

\* list_del of a page that may be on the list.
LEMMA ListsDeleted ==
    ASSUME NEW l, NEW S, Lists(l, S), NEW p
    PROVE  Lists(RemoveFirst(l, p), S \ {p}) /\ Len(RemoveFirst(l, p)) <= Len(l)
<1>1. l \in Seq(Frames) /\ Once(l) /\ ToSet(l) = S /\ Len(l) \in Nat
  BY DEF Lists
<1>2. CASE p \in S
  <2>1. /\ RemoveFirst(l, p) \in Seq(Frames) /\ Len(RemoveFirst(l, p)) = Len(l) - 1
        /\ ToSet(RemoveFirst(l, p)) = ToSet(l) \ {p} /\ Once(RemoveFirst(l, p))
    BY <1>1, <1>2, ListDeleted
  <2> QED
    BY ONLY <1>1, <2>1 DEF Lists
<1>3. CASE p \notin S
  <2>1. \A i \in 1 .. Len(l) : l[i] # p
    BY <1>1, <1>3 DEF ToSet
  <2>2. RemoveFirst(l, p) = l
    BY <2>1 DEF RemoveFirst
  <2>3. S \ {p} = S
    BY <1>3
  <2>4. Len(RemoveFirst(l, p)) <= Len(l)
    BY <1>1, <2>2
  <2> QED
    BY ONLY <1>1, <2>2, <2>3, <2>4 DEF Lists
<1> QED
  BY <1>2, <1>3

\* The length of a list is the number of the pages on it.
LEMMA ListsCount ==
    ASSUME NEW l, NEW S, Lists(l, S)
    PROVE  Len(l) \in Nat /\ Cardinality(S) = Len(l) /\ S \subseteq Frames /\ (S = {} <=> l = <<>>)
<1>1. l \in Seq(Frames) /\ Once(l) /\ ToSet(l) = S
  BY DEF Lists
<1>2. Len(l) \in Nat /\ Cardinality(S) = Len(l)
  BY <1>1, ListCount
<1>3. S \subseteq Frames
  BY <1>1 DEF ToSet
<1>4. l = <<>> => S = {}
  BY <1>1 DEF ToSet
<1>5. l # <<>> => S # {}
  BY ListsTail
<1> QED
  BY <1>2, <1>3, <1>4, <1>5

-----------------------------------------------------------------------------
(***************************************************************************)
(* What the allocators rely on of the buddy system                         *)
(***************************************************************************)
LEMMA BlockAllocated ==
    ASSUME BuddyInv, NEW o \in Orders, buddy_block_alloc(o), ret' # NULL
    PROVE  /\ ret' \in Frames /\ ret' \notin held /\ held' = held \cup {ret'} /\ order'[ret'] = o
           /\ \A q \in held : order'[q] = order[q]
           /\ BuddyInv'
<1>1. PICK i \in Orders :
        /\ Source(o, i) /\ Take(o, i, Head(freelist[i]))
        /\ held' = held \cup {Head(freelist[i])} /\ ret' = Head(freelist[i])
  BY DEF buddy_block_alloc
<1> DEFINE t == Head(freelist[i])
           H == Halves(t, o, i)
<1>2. /\ t \in Frames /\ t \notin held /\ H \cap Blocks = {} /\ order'[t] = o
      /\ \A p \in Frames : p # t /\ p \notin H => order'[p] = order[p]
  BY <1>1, TakeFacts
<1>3. held \subseteq Blocks /\ held \subseteq Frames
  BY DEF BuddyInv, BuddyTypeOK, Blocks
<1>4. BuddyInv'
  BY <1>1, TakeInv
<1> HIDE DEF t, H
<1>5. held' = held \cup {t} /\ ret' = t
  BY <1>1 DEF t
<1>6. \A q \in held : order'[q] = order[q]
  BY <1>2, <1>3
<1> QED
  BY <1>2, <1>4, <1>5, <1>6

\* No block of order o or above: only ret changes.
LEMMA NoBlockLeft ==
    ASSUME BuddyInv, NEW o \in Orders, buddy_block_alloc(o), ret' = NULL
    PROVE  UNCHANGED <<order, held>> /\ BuddyInv'
<1>1. UNCHANGED <<order, held>>
  <2>1. ASSUME NEW i \in Orders, Source(o, i), Take(o, i, Head(freelist[i])),
               ret' = Head(freelist[i])
        PROVE  FALSE
    BY <2>1, TakeFacts, BuddyBounds
  <2> QED
    BY <2>1 DEF buddy_block_alloc
<1>2. BuddyInv'
  BY NextBuddyInv DEF BuddyNext
<1> QED
  BY <1>1, <1>2

\* buddy_block_free of a held block leaves the other held blocks alone.
LEMMA BlockFreed ==
    ASSUME BuddyInv, NEW p \in held, buddy_block_free(p)
    PROVE  /\ held' = held \ {p} /\ \A q \in held \ {p} : order'[q] = order[q]
           /\ BuddyInv'
<1>1. PICK m \in Orders : Top(p, m) /\ MergedPages(p, m) /\ held' = held \ {p}
  BY DEF buddy_block_free
<1> DEFINE H == Halves(p, order[p], m)
<1>2. /\ \A k \in order[p] .. m - 1 : k \in Orders /\ BuddyAt(p, k) \in FreeOf(k)
      /\ \A q \in Frames : q # p /\ q \notin H => order'[q] = order[q]
  BY <1>1, MergeFacts
<1>3. \A q \in H : used[q] = "Free"
  <2>1. \A q \in H : \E k \in order[p] .. m - 1 : q = BuddyAt(p, k)
    BY DEF Halves
  <2> QED
    BY <1>2, <2>1, FreeOfBlocks
<1> HIDE DEF H
<1>4. ASSUME NEW q \in held \ {p} PROVE order'[q] = order[q]
  <2>1. q \in Frames /\ q \notin H
    BY <1>3 DEF BuddyInv, BuddyTypeOK, HeldTaken
  <2> QED
    BY <1>2, <2>1
<1>5. BuddyInv'
  BY FreeInv
<1> QED
  BY <1>1, <1>4, <1>5

-----------------------------------------------------------------------------
(***************************************************************************)
(* What a step leaves alone                                                *)
(***************************************************************************)
AllocatorFields ==
    [full : Seq(Frames), partial : Seq(Frames), empty : Seq(Frames),
     curr_page : Frames \cup {NULL}, obj_used : Nat, page_used : Nat]

PageFields ==
    [obj_used : Nat, obj_alloc : Tokens \cup {NULL}, free : Addresses \cup {NULL}]

\* The type invariant, with names for the types of the records.
LEMMA TypeParts ==
    TypeOK <=> /\ BuddyTypeOK
               /\ pool \in [Tokens -> AllocatorFields] /\ page \in [Frames -> PageFields]
               /\ live \in [Addresses -> Nat] /\ fault \in BOOLEAN
  BY DEF TypeOK, AllocatorFields, PageFields

\* A page whose fields, objects and block are the same.
LEMMA OtherPage ==
    ASSUME NEW q \in Frames, PageInv(q), page'[q] = page[q],
           \A a \in PageAddresses(q) : live'[a] = live[a],
           q \in held' <=> q \in held, q \in held => order'[q] = order[q]
    PROVE  PageInv(q)'
<1> DEFINE A == PageAddresses(q)
<1>1. Units(live', A) = Units(live, A)
  BY SameUnits
<1>2. CASE q \notin held /\ Unused(q, page[q], live)
  BY <1>2 DEF PageInv, Unused
<1>3. CASE q \in held /\ Block(q, page[q], live)
  BY <1>3 DEF PageInv, Block
<1>4. CASE q \in held /\ order[q] = 0 /\ Slab(q, page[q], live)
  <2>1. Slab(q, page[q], live')
    BY <1>1, <1>4 DEF Slab
  <2> QED
    BY <1>4, <2>1 DEF PageInv
<1> QED
  BY <1>2, <1>3, <1>4 DEF PageInv

\* The count of an allocator depends only on its pages.
LEMMA SameUsed ==
    ASSUME NEW pg, NEW ph, NEW S \in SUBSET Frames, \A q \in S : ph[q].obj_used = pg[q].obj_used
    PROVE  UsedUnits(ph, S) = UsedUnits(pg, S)
  BY SameUnits DEF UsedUnits

\* An allocator whose fields and pages are the same.
LEMMA OtherAllocator ==
    ASSUME NEW u \in Tokens, AllocatorInv(u), pool'[u] = pool[u],
           \A q \in Frames : /\ page'[q].obj_alloc = u <=> page[q].obj_alloc = u
                             /\ page[q].obj_alloc = u => page'[q] = page[q]
    PROVE  AllocatorInv(u)'
<1> DEFINE S == SlabPages(u)
           a == pool[u]
<1>1. SlabPages(u)' = S /\ S \in SUBSET Frames /\ \A q \in S : page'[q] = page[q]
  BY DEF SlabPages
<1> HIDE DEF S, a
<1>2. UsedUnits(page', S) = UsedUnits(page, S)
  BY <1>1, SameUsed
<1>3. Linked(u, a, page, S) /\ Counted(a, page, S) /\ pool'[u] = a
  BY DEF AllocatorInv, S, a
<1>4. Counted(a, page', S)
  BY <1>2, <1>3 DEF Counted
<1>5. Linked(u, a, page', S)
  <2>1. {p \in S : p # a.curr_page /\ page'[p].obj_used = obj_per_page(u)}
          = {p \in S : p # a.curr_page /\ page[p].obj_used = obj_per_page(u)}
    BY <1>1
  <2>2. {p \in S : p # a.curr_page /\ page'[p].obj_used > 0 /\ page'[p].obj_used < obj_per_page(u)}
          = {p \in S : p # a.curr_page /\ page[p].obj_used > 0 /\ page[p].obj_used < obj_per_page(u)}
    BY <1>1
  <2>3. {p \in S : p # a.curr_page /\ page'[p].obj_used = 0}
          = {p \in S : p # a.curr_page /\ page[p].obj_used = 0}
    BY <1>1
  <2> QED
    BY <1>1, <1>3, <2>1, <2>2, <2>3 DEF Linked
<1> QED
  BY <1>1, <1>3, <1>4, <1>5 DEF AllocatorInv

\* A step that is about page p and allocator t keeps the invariant if it keeps it for these.
LEMMA OnePage ==
    ASSUME KmallocInv, NEW t \in Tokens, NEW p \in Frames, TypeOK', BuddyInv',
           page[p].obj_alloc \in {t, NULL}, page'[p].obj_alloc \in {t, NULL},
           \A q \in Frames : q # p => page'[q] = page[q],
           \A u \in Tokens : u # t => pool'[u] = pool[u],
           \A a \in Addresses : PHY_ADDR_TO_PFN(a) # p => live'[a] = live[a],
           held' \ {p} = held \ {p}, \A q \in held \ {p} : order'[q] = order[q],
           PageInv(p)', AllocatorInv(t)'
    PROVE  KmallocInv'
<1>1. ASSUME NEW q \in Frames, q # p PROVE PageInv(q)'
  <2>1. \A a \in PageAddresses(q) : live'[a] = live[a]
    BY <1>1, OnPage
  <2>2. (q \in held' <=> q \in held) /\ (q \in held => order'[q] = order[q])
    BY <1>1
  <2> QED
    BY <1>1, <2>1, <2>2, OtherPage DEF KmallocInv
<1>2. ASSUME NEW u \in Tokens, u # t PROVE AllocatorInv(u)'
  <2>1. page[p].obj_alloc # u /\ page'[p].obj_alloc # u
    BY <1>2, KmallocBounds
  <2> QED
    BY <1>2, <2>1, OtherAllocator DEF KmallocInv
<1>3. (\A q \in Frames : PageInv(q)') /\ \A u \in Tokens : AllocatorInv(u)'
  BY <1>1, <1>2
<1> QED
  BY <1>3 DEF KmallocInv

\* mm_init
LEMMA InitKmallocInv == Init => KmallocInv
<1> SUFFICES ASSUME Init PROVE KmallocInv
  OBVIOUS
<1>1. /\ pool = [t \in Tokens |-> EmptyAllocator] /\ page = [p \in Frames |-> NoObjects]
      /\ live = [a \in Addresses |-> 0] /\ fault = FALSE /\ held = {}
  BY DEF Init, BuddyInit
<1>2. BuddyInv
  BY InitBuddyInv DEF Init
<1>3. EmptyAllocator \in AllocatorFields /\ NoObjects \in PageFields
  <2>1. <<>> \in Seq(Frames)
    OBVIOUS
  <2> QED
    BY <2>1 DEF EmptyAllocator, AllocatorFields, NoObjects, PageFields
<1>4. TypeOK
  BY <1>1, <1>2, <1>3, TypeParts DEF BuddyInv
<1>5. ASSUME NEW p \in Frames PROVE PageInv(p)
  <2>1. \A a \in PageAddresses(p) : live[a] = 0
    BY <1>1, OnPage
  <2> QED
    BY <1>1, <2>1 DEF PageInv, Unused, NoObjects
<1>6. ASSUME NEW t \in Tokens PROVE AllocatorInv(t)
  <2>1. SlabPages(t) = {}
    BY <1>1, KmallocBounds DEF SlabPages, NoObjects
  <2>2. UsedUnits(page, {}) = {}
    BY NoUnits DEF UsedUnits
  <2>3. Counted(EmptyAllocator, page, {})
    BY <2>2, FS_EmptySet DEF Counted, EmptyAllocator
  <2>4. Lists(<<>>, {}) /\ Len(<<>>) = 0
    <3>1. <<>> \in Seq(Frames) /\ Len(<<>>) = 0
      OBVIOUS
    <3>2. Once(<<>>) /\ ToSet(<<>>) = {}
      BY <3>1 DEF Once, ToSet
    <3> QED
      BY <3>1, <3>2 DEF Lists
  <2>5. Linked(t, EmptyAllocator, page, {})
    <3>1. EmptyLimit \in Nat \ {0}
      BY KmallocBounds
    <3>2. /\ EmptyAllocator.full = <<>> /\ EmptyAllocator.partial = <<>>
          /\ EmptyAllocator.empty = <<>> /\ EmptyAllocator.curr_page = NULL
      BY DEF EmptyAllocator
    <3> QED
      BY <2>4, <3>1, <3>2 DEF Linked
  <2> QED
    BY <1>1, <2>1, <2>3, <2>5 DEF AllocatorInv
<1> QED
  BY <1>2, <1>4, <1>5, <1>6 DEF KmallocInv

-----------------------------------------------------------------------------
(***************************************************************************)
(* obj_allocate.  Its first half finds page p, with fields g, for          *)
(* allocator t, which then has fields a; the page is on none of the lists  *)
(* and has room.                                                           *)
(***************************************************************************)
With(p, g) == [page EXCEPT ![p] = g]

Prepared(t, a, p, g) ==
    /\ p \in Frames /\ a \in AllocatorFields /\ g \in PageFields
    /\ page[p].obj_alloc \in {t, NULL} /\ g.obj_alloc = t
    /\ g.obj_used < obj_per_page(t)
    /\ Slab(p, g, live)
    /\ Linked(t, [a EXCEPT !.curr_page = p], With(p, g), SlabPages(t) \cup {p})
    /\ Counted(a, With(p, g), SlabPages(t) \cup {p})

\* The address that is handed out, and the fields after it.
LEMMA HandOutEffect ==
    ASSUME TypeOK, NEW t \in Tokens, NEW a, NEW p, NEW g, Prepared(t, a, p, g), HandOut(t, a, p, g)
    PROVE  \E addr \in PageAddresses(p) :
             LET full == obj_per_page(t) = g.obj_used + 1
                 b == [a EXCEPT !.obj_used = @ + 1,
                                !.curr_page = IF full THEN NULL ELSE p,
                                !.full = IF full THEN Append(@, p) ELSE @]
                 h == [g EXCEPT !.obj_used = @ + 1]
             IN  /\ Object(t, p, addr)
                 /\ pool' = [pool EXCEPT ![t] = b] /\ b \in AllocatorFields
                 /\ page' = [page EXCEPT ![p] = h] /\ h \in PageFields
                 /\ live' = [live EXCEPT ![addr] = @ + 1] /\ fault' = fault
<1> DEFINE addr == IF g.free # NULL THEN g.free ELSE Bump(t, p, g)
           full == obj_per_page(t) = g.obj_used + 1
           h == [g EXCEPT !.obj_used = @ + 1]
           b == [a EXCEPT !.obj_used = @ + 1,
                          !.curr_page = IF full THEN NULL ELSE p,
                          !.full = IF full THEN Append(@, p) ELSE @]
<1>1. p \in Frames /\ a \in AllocatorFields /\ g \in PageFields /\ Slab(p, g, live)
      /\ g.obj_used < obj_per_page(t) /\ g.obj_alloc = t
  BY DEF Prepared
<1>2. g.obj_used \in Nat
  BY <1>1 DEF PageFields
<1>3. Object(t, p, addr)
  BY <1>1, <1>2, BumpObject DEF Slab
<1>4. addr \in PageAddresses(p)
  BY <1>1, <1>3, ObjectOnPage
<1>5. /\ pool' = [pool EXCEPT ![t] = b] /\ page' = [page EXCEPT ![p] = h]
      /\ live' = [live EXCEPT ![addr] = @ + 1] /\ fault' = fault
  BY DEF HandOut, PageFull
<1>6. h \in PageFields
  BY <1>1 DEF PageFields
<1>7. b \in AllocatorFields
  <2>1. /\ a.full \in Seq(Frames) /\ a.partial \in Seq(Frames) /\ a.empty \in Seq(Frames)
        /\ a.obj_used \in Nat /\ a.page_used \in Nat
    BY <1>1 DEF AllocatorFields
  <2> DEFINE c == IF full THEN NULL ELSE p
             l == IF full THEN Append(a.full, p) ELSE a.full
  <2>2. c \in Frames \cup {NULL} /\ l \in Seq(Frames) /\ a.obj_used + 1 \in Nat
    BY <1>1, <2>1
  <2>3. b = [a EXCEPT !.obj_used = @ + 1, !.curr_page = c, !.full = l]
    OBVIOUS
  <2> HIDE DEF c, l, b
  <2> QED
    BY <1>1, <2>2, <2>3 DEF AllocatorFields
<1> HIDE DEF addr
<1> QED
  BY <1>3, <1>4, <1>5, <1>6, <1>7

\* The second half of obj_allocate keeps the invariant.
LEMMA HandOutInv ==
    ASSUME KmallocInv, NEW t \in Tokens, NEW a, NEW p, NEW g,
           Prepared(t, a, p, g), HandOut(t, a, p, g), BuddyInv',
           p \in held', order'[p] = 0, held' \ {p} = held \ {p},
           \A q \in held \ {p} : order'[q] = order[q]
    PROVE  KmallocInv'
<1>0. TypeOK /\ (\A q \in Frames : PageInv(q)) /\ (\A u \in Tokens : AllocatorInv(u))
  BY DEF KmallocInv
<1>1. /\ pool \in [Tokens -> AllocatorFields] /\ page \in [Frames -> PageFields]
      /\ live \in [Addresses -> Nat] /\ fault \in BOOLEAN
  BY <1>0, TypeParts
<1>2. /\ p \in Frames /\ a \in AllocatorFields /\ g \in PageFields
      /\ page[p].obj_alloc \in {t, NULL} /\ g.obj_alloc = t
      /\ g.obj_used < obj_per_page(t) /\ Slab(p, g, live)
  BY DEF Prepared
<1>3. obj_per_page(t) \in Nat /\ obj_per_page(t) > 1 /\ g.obj_used \in Nat
  BY <1>2, ObjectSizes DEF PageFields
<1> DEFINE A == PageAddresses(p)
           S == SlabPages(t) \cup {p}
           pg == With(p, g)
           full == obj_per_page(t) = g.obj_used + 1
           b == [a EXCEPT !.obj_used = @ + 1,
                          !.curr_page = IF full THEN NULL ELSE p,
                          !.full = IF full THEN Append(@, p) ELSE @]
           h == [g EXCEPT !.obj_used = @ + 1]
<1>4. PICK addr \in A :
        /\ Object(t, p, addr)
        /\ pool' = [pool EXCEPT ![t] = b] /\ b \in AllocatorFields
        /\ page' = [page EXCEPT ![p] = h] /\ h \in PageFields
        /\ live' = [live EXCEPT ![addr] = @ + 1] /\ fault' = fault
  BY <1>0, HandOutEffect
<1>5. addr \in Addresses /\ PHY_ADDR_TO_PFN(addr) = p /\ live[addr] \in Nat
  BY <1>1, <1>2, <1>4, ObjectOnPage
<1>6. /\ live' \in [Addresses -> Nat] /\ live'[addr] = live[addr] + 1
      /\ \A x \in Addresses : x # addr => live'[x] = live[x]
  BY <1>1, <1>4, <1>5
<1>7. h.obj_used = g.obj_used + 1 /\ h.obj_alloc = t /\ h.free = g.free
  BY <1>2 DEF PageFields
<1>8. /\ b.curr_page = (IF full THEN NULL ELSE p)
      /\ b.full = (IF full THEN Append(a.full, p) ELSE a.full)
      /\ b.partial = a.partial /\ b.empty = a.empty
      /\ b.obj_used = a.obj_used + 1 /\ b.page_used = a.page_used
  BY <1>2 DEF AllocatorFields
<1> HIDE DEF b, h
<1>9. /\ page' \in [Frames -> PageFields] /\ page'[p] = h
      /\ \A q \in Frames : q # p => page'[q] = page[q]
      /\ pool' \in [Tokens -> AllocatorFields] /\ pool'[t] = b
      /\ \A u \in Tokens : u # t => pool'[u] = pool[u]
  BY <1>1, <1>2, <1>4
<1>10. TypeOK'
  <2>1. BuddyTypeOK'
    BY DEF BuddyInv
  <2> QED
    BY <1>1, <1>4, <1>6, <1>9, <2>1 DEF TypeOK, AllocatorFields, PageFields
<1>11. \A x \in Addresses : PHY_ADDR_TO_PFN(x) # p => live'[x] = live[x]
  BY <1>5, <1>6
<1>12. PageInv(p)'
  <2>1. IsFiniteSet(Units(live, A)) /\ g.obj_used = Cardinality(Units(live, A))
    BY <1>2 DEF Slab
  <2>2. OneMore(live, A, live', A, addr, live[addr])
    <3>1. \A x \in A \ {addr} : live'[x] = live[x]
      BY <1>2, <1>6, OnPage
    <3> QED
      BY <1>4, <1>6, <3>1 DEF OneMore
  <2>3. /\ IsFiniteSet(Units(live', A))
        /\ Cardinality(Units(live', A)) = Cardinality(Units(live, A)) + 1
    BY <1>5, <2>1, <2>2, CountUp
  <2>4. ASSUME NEW x \in A, live'[x] > 0 PROVE Object(t, p, x)
    <3>1. CASE x = addr
      BY <1>4, <3>1
    <3>2. CASE x # addr
      BY <1>2, <1>6, <2>4, <3>2, OnPage DEF Slab
    <3> QED
      BY <3>1, <3>2
  <2>5. h.obj_used <= obj_per_page(t) /\ h.obj_used = Cardinality(Units(live', A))
    BY <1>2, <1>3, <1>7, <2>1, <2>3
  <2>6. h.free # NULL => Object(t, p, h.free)
    BY <1>2, <1>7 DEF Slab
  <2>7. Slab(p, h, live')
    BY <1>7, <2>3, <2>4, <2>5, <2>6 DEF Slab
  <2> QED
    BY <1>9, <2>7 DEF PageInv
<1>13. page'[p].obj_alloc \in {t, NULL}
  BY <1>7, <1>9
<1>14. SlabPages(t)' = S /\ S \in SUBSET Frames
  BY <1>2, <1>7, <1>9 DEF SlabPages
<1>15. /\ pg[p] = g /\ \A q \in S : q # p => pg[q] = page[q] /\ page'[q] = pg[q]
  BY <1>1, <1>2, <1>9, <1>14 DEF With
<1>16. Linked(t, [a EXCEPT !.curr_page = p], pg, S) /\ Counted(a, pg, S)
  BY DEF Prepared
<1> HIDE DEF S, pg, A
<1>17. Counted(b, page', S)
  <2> DEFINE e == [q \in Frames |-> pg[q].obj_used]
             f == [q \in Frames |-> page'[q].obj_used]
  <2>1. p \in S /\ e[p] = g.obj_used /\ f[p] = g.obj_used + 1 /\ \A q \in S \ {p} : f[q] = e[q]
    BY <1>2, <1>7, <1>9, <1>14, <1>15 DEF S
  <2> HIDE DEF e, f
  <2>2. OneMore(e, S, f, S, p, g.obj_used)
    BY <2>1 DEF OneMore
  <2>3. IsFiniteSet(Units(e, S)) /\ a.obj_used = Cardinality(Units(e, S))
        /\ a.page_used = Cardinality(S)
    BY <1>16 DEF Counted, UsedUnits, e
  <2>4. IsFiniteSet(Units(f, S)) /\ Cardinality(Units(f, S)) = Cardinality(Units(e, S)) + 1
    BY <1>3, <2>2, <2>3, CountUp
  <2> QED
    BY <1>8, <2>3, <2>4 DEF Counted, UsedUnits, f
<1>18. Linked(t, b, page', S)
  <2> DEFINE n == obj_per_page(t)
             F == {q \in S : q # p /\ pg[q].obj_used = n}
             P == {q \in S : q # p /\ pg[q].obj_used > 0 /\ pg[q].obj_used < n}
             E == {q \in S : q # p /\ pg[q].obj_used = 0}
  <2>1. Lists(a.full, F) /\ Lists(a.partial, P) /\ Lists(a.empty, E) /\ Len(a.empty) < EmptyLimit
    <3>1. [a EXCEPT !.curr_page = p].full = a.full /\ [a EXCEPT !.curr_page = p].partial = a.partial
          /\ [a EXCEPT !.curr_page = p].empty = a.empty /\ [a EXCEPT !.curr_page = p].curr_page = p
      BY <1>2 DEF AllocatorFields
    <3> QED
      BY <1>16, <3>1 DEF Linked
  <2>2. page'[p].obj_used = g.obj_used + 1 /\ p \in S /\ NULL \notin S
    BY <1>7, <1>9, <1>14, BuddyBounds DEF S
  <2>3. CASE full
    <3>1. b.curr_page = NULL /\ b.full = Append(a.full, p)
      BY <1>8, <2>3
    <3>2. {q \in S : q # NULL /\ page'[q].obj_used = n} = F \cup {p}
      BY <1>15, <2>2, <2>3
    <3>3. {q \in S : q # NULL /\ page'[q].obj_used > 0 /\ page'[q].obj_used < n} = P
      BY <1>3, <1>15, <2>2, <2>3
    <3>4. {q \in S : q # NULL /\ page'[q].obj_used = 0} = E
      BY <1>3, <1>15, <2>2, <2>3
    <3>5. Lists(Append(a.full, p), F \cup {p})
      BY <1>2, <2>1, ListsAdded
    <3> QED
      BY <1>8, <2>1, <3>1, <3>2, <3>3, <3>4, <3>5 DEF Linked
  <2>4. CASE ~full
    <3>1. b.curr_page = p /\ b.full = a.full
      BY <1>8, <2>4
    <3>2. {q \in S : q # p /\ page'[q].obj_used = n} = F
      BY <1>15
    <3>3. {q \in S : q # p /\ page'[q].obj_used > 0 /\ page'[q].obj_used < n} = P
      BY <1>15
    <3>4. {q \in S : q # p /\ page'[q].obj_used = 0} = E
      BY <1>15
    <3>5. page'[p].obj_used < n
      BY <1>2, <1>3, <2>2, <2>4
    <3> QED
      BY <1>8, <2>1, <2>2, <3>1, <3>2, <3>3, <3>4, <3>5 DEF Linked
  <2> QED
    BY <2>3, <2>4
<1>19. AllocatorInv(t)'
  BY <1>9, <1>14, <1>17, <1>18 DEF AllocatorInv
<1> QED
  BY <1>2, <1>9, <1>10, <1>11, <1>12, <1>13, <1>19, OnePage

\* What the invariant says of a page of allocator t.
LEMMA OwnedPage ==
    ASSUME KmallocInv, NEW t \in Tokens, NEW p \in SlabPages(t)
    PROVE  /\ p \in Frames /\ page[p] \in PageFields /\ page[p].obj_alloc = t
           /\ p \in held /\ order[p] = 0 /\ Slab(p, page[p], live)
<1>1. p \in Frames /\ page[p].obj_alloc = t /\ t # NULL
  BY KmallocBounds DEF SlabPages
<1>2. page[p] \in PageFields
  BY <1>1, TypeParts DEF KmallocInv
<1>3. PageInv(p)
  BY <1>1 DEF KmallocInv
<1> QED
  BY <1>1, <1>2, <1>3 DEF PageInv, Unused, Block

\* A page that the allocator already has.
LEMMA PreparedOwned ==
    ASSUME KmallocInv, NEW t \in Tokens, NEW p \in SlabPages(t), NEW a \in AllocatorFields,
           page[p].obj_used < obj_per_page(t),
           a.obj_used = pool[t].obj_used, a.page_used = pool[t].page_used,
           Lists(a.full, {q \in SlabPages(t) : q # p /\ page[q].obj_used = obj_per_page(t)}),
           Lists(a.partial, {q \in SlabPages(t) : /\ q # p
                                                  /\ page[q].obj_used > 0
                                                  /\ page[q].obj_used < obj_per_page(t)}),
           Lists(a.empty, {q \in SlabPages(t) : q # p /\ page[q].obj_used = 0}),
           Len(a.empty) < EmptyLimit
    PROVE  Prepared(t, a, p, page[p])
<1>1. /\ p \in Frames /\ page[p] \in PageFields /\ page[p].obj_alloc = t
      /\ Slab(p, page[p], live)
  BY OwnedPage
<1>2. page \in [Frames -> PageFields]
  BY TypeParts DEF KmallocInv
<1>3. With(p, page[p]) = page /\ SlabPages(t) \cup {p} = SlabPages(t)
  BY <1>1, <1>2 DEF With
<1>4. Counted(a, page, SlabPages(t))
  BY DEF KmallocInv, AllocatorInv, Counted
<1>5. Linked(t, [a EXCEPT !.curr_page = p], page, SlabPages(t))
  <2> DEFINE b == [a EXCEPT !.curr_page = p]
  <2>1. b.full = a.full /\ b.partial = a.partial /\ b.empty = a.empty /\ b.curr_page = p
    BY DEF AllocatorFields
  <2> HIDE DEF b
  <2> QED
    BY <2>1 DEF Linked, b
<1> QED
  BY <1>1, <1>3, <1>4, <1>5 DEF Prepared

\* The lists of an allocator, and the fields that name them.
LEMMA AllocatorParts ==
    ASSUME KmallocInv, NEW t \in Tokens
    PROVE  /\ pool[t] \in AllocatorFields
           /\ Linked(t, pool[t], page, SlabPages(t)) /\ Counted(pool[t], page, SlabPages(t))
           /\ SlabPages(t) \in SUBSET Frames /\ NULL \notin SlabPages(t)
           /\ obj_per_page(t) \in Nat /\ obj_per_page(t) > 1
           /\ \A q \in SlabPages(t) : page[q].obj_used \in Nat
<1>1. pool[t] \in AllocatorFields /\ page \in [Frames -> PageFields]
  BY TypeParts DEF KmallocInv
<1>2. AllocatorInv(t)
  BY DEF KmallocInv
<1>3. SlabPages(t) \in SUBSET Frames /\ NULL \notin SlabPages(t)
  BY BuddyBounds DEF SlabPages
<1>4. \A q \in SlabPages(t) : page[q].obj_used \in Nat
  BY <1>1, <1>3 DEF PageFields
<1> QED
  BY <1>1, <1>2, <1>3, <1>4, ObjectSizes DEF AllocatorInv

\* curr_page
LEMMA PreparedCurrent ==
    ASSUME KmallocInv, NEW t \in Tokens, pool[t].curr_page # NULL
    PROVE  /\ pool[t].curr_page \in SlabPages(t)
           /\ Prepared(t, pool[t], pool[t].curr_page, page[pool[t].curr_page])
<1>1. pool[t] \in AllocatorFields /\ Linked(t, pool[t], page, SlabPages(t))
  BY AllocatorParts
<1> QED
  BY <1>1, PreparedOwned DEF Linked

\* The first page of the partial list.
LEMMA PreparedPartial ==
    ASSUME KmallocInv, NEW t \in Tokens, pool[t].curr_page = NULL, pool[t].partial # <<>>
    PROVE  LET p == Head(pool[t].partial)
           IN  /\ p \in SlabPages(t)
               /\ Prepared(t, [pool[t] EXCEPT !.partial = Tail(@)], p, page[p])
<1> DEFINE x == pool[t]
           S == SlabPages(t)
           n == obj_per_page(t)
           p == Head(x.partial)
           a == [x EXCEPT !.partial = Tail(@)]
           P == {q \in S : q # NULL /\ page[q].obj_used > 0 /\ page[q].obj_used < n}
<1>1. /\ x \in AllocatorFields /\ Linked(t, x, page, S) /\ NULL \notin S
      /\ n \in Nat /\ \A q \in S : page[q].obj_used \in Nat
  BY AllocatorParts
<1>2. /\ Lists(x.partial, P) /\ Len(x.empty) < EmptyLimit
      /\ Lists(x.full, {q \in S : q # NULL /\ page[q].obj_used = n})
      /\ Lists(x.empty, {q \in S : q # NULL /\ page[q].obj_used = 0})
  BY <1>1 DEF Linked
<1>3. p \in P /\ Lists(Tail(x.partial), P \ {p})
  BY <1>2, ListsTail
<1>4. Tail(x.partial) \in Seq(Frames)
  BY <1>3 DEF Lists
<1>5. /\ a \in AllocatorFields /\ a.full = x.full /\ a.partial = Tail(x.partial)
      /\ a.empty = x.empty /\ a.obj_used = x.obj_used /\ a.page_used = x.page_used
  BY <1>1, <1>4 DEF AllocatorFields
<1> HIDE DEF a, p
<1>6. p \in S /\ page[p].obj_used > 0 /\ page[p].obj_used < n
  BY <1>3
<1>7. {q \in S : q # NULL /\ page[q].obj_used = n} = {q \in S : q # p /\ page[q].obj_used = n}
  BY <1>1, <1>6
<1>8. {q \in S : q # NULL /\ page[q].obj_used = 0} = {q \in S : q # p /\ page[q].obj_used = 0}
  BY <1>1, <1>6
<1>9. P \ {p} = {q \in S : q # p /\ page[q].obj_used > 0 /\ page[q].obj_used < n}
  BY <1>1
<1> HIDE DEF P, S, n, x
<1>10. /\ Lists(a.full, {q \in S : q # p /\ page[q].obj_used = n})
       /\ Lists(a.partial, {q \in S : q # p /\ page[q].obj_used > 0 /\ page[q].obj_used < n})
       /\ Lists(a.empty, {q \in S : q # p /\ page[q].obj_used = 0})
       /\ Len(a.empty) < EmptyLimit
  BY <1>2, <1>3, <1>5, <1>7, <1>8, <1>9
<1>11. Prepared(t, a, p, page[p])
  BY <1>5, <1>6, <1>10, PreparedOwned DEF S, n, x
<1> QED
  BY <1>6, <1>11 DEF a, p, x, S

\* The first page of the empty list.
LEMMA PreparedEmpty ==
    ASSUME KmallocInv, NEW t \in Tokens, pool[t].curr_page = NULL, pool[t].empty # <<>>
    PROVE  LET p == Head(pool[t].empty)
           IN  /\ p \in SlabPages(t)
               /\ Prepared(t, [pool[t] EXCEPT !.empty = Tail(@)], p, page[p])
<1> DEFINE x == pool[t]
           S == SlabPages(t)
           n == obj_per_page(t)
           p == Head(x.empty)
           a == [x EXCEPT !.empty = Tail(@)]
           E == {q \in S : q # NULL /\ page[q].obj_used = 0}
<1>1. /\ x \in AllocatorFields /\ Linked(t, x, page, S) /\ NULL \notin S
      /\ n \in Nat /\ n > 1 /\ \A q \in S : page[q].obj_used \in Nat
  BY AllocatorParts
<1>2. /\ Lists(x.empty, E) /\ Len(x.empty) < EmptyLimit
      /\ Lists(x.full, {q \in S : q # NULL /\ page[q].obj_used = n})
      /\ Lists(x.partial, {q \in S : q # NULL /\ page[q].obj_used > 0 /\ page[q].obj_used < n})
  BY <1>1 DEF Linked
<1>3. p \in E /\ Lists(Tail(x.empty), E \ {p}) /\ Len(Tail(x.empty)) = Len(x.empty) - 1
  BY <1>2, ListsTail
<1>4. Tail(x.empty) \in Seq(Frames) /\ Len(x.empty) \in Nat /\ EmptyLimit \in Nat
  BY <1>2, <1>3, ListsCount, KmallocBounds DEF Lists
<1>5. /\ a \in AllocatorFields /\ a.full = x.full /\ a.partial = x.partial
      /\ a.empty = Tail(x.empty) /\ a.obj_used = x.obj_used /\ a.page_used = x.page_used
  BY <1>1, <1>4 DEF AllocatorFields
<1> HIDE DEF a, p
<1>6. p \in S /\ page[p].obj_used = 0
  BY <1>3
<1>7. {q \in S : q # NULL /\ page[q].obj_used = n} = {q \in S : q # p /\ page[q].obj_used = n}
  BY <1>1, <1>6
<1>8. {q \in S : q # NULL /\ page[q].obj_used > 0 /\ page[q].obj_used < n}
        = {q \in S : q # p /\ page[q].obj_used > 0 /\ page[q].obj_used < n}
  BY <1>1, <1>6
<1>9. E \ {p} = {q \in S : q # p /\ page[q].obj_used = 0}
  BY <1>1
<1>10. page[p].obj_used < n /\ Len(Tail(x.empty)) < EmptyLimit
  BY <1>1, <1>2, <1>3, <1>4, <1>6
<1> HIDE DEF E, S, n, x
<1>11. /\ Lists(a.full, {q \in S : q # p /\ page[q].obj_used = n})
       /\ Lists(a.partial, {q \in S : q # p /\ page[q].obj_used > 0 /\ page[q].obj_used < n})
       /\ Lists(a.empty, {q \in S : q # p /\ page[q].obj_used = 0})
       /\ Len(a.empty) < EmptyLimit
  BY <1>2, <1>3, <1>5, <1>7, <1>8, <1>9, <1>10
<1>12. Prepared(t, a, p, page[p])
  BY <1>5, <1>6, <1>10, <1>11, PreparedOwned DEF S, n, x
<1> QED
  BY <1>6, <1>12 DEF a, p, x, S

\* A new page, of which no caller holds anything.
LEMMA PreparedNew ==
    ASSUME KmallocInv, NEW t \in Tokens, NEW p \in Frames, p \notin held,
           pool[t].curr_page = NULL
    PROVE  Prepared(t, [pool[t] EXCEPT !.page_used = @ + 1], p, [NoObjects EXCEPT !.obj_alloc = t])
<1> DEFINE x == pool[t]
           S == SlabPages(t)
           T == S \cup {p}
           n == obj_per_page(t)
           a == [x EXCEPT !.page_used = @ + 1]
           g == [NoObjects EXCEPT !.obj_alloc = t]
           pg == With(p, g)
<1>1. /\ x \in AllocatorFields /\ Linked(t, x, page, S) /\ Counted(x, page, S) /\ NULL \notin S
      /\ S \in SUBSET Frames /\ n \in Nat /\ n > 1
  BY AllocatorParts
<1>2. page \in [Frames -> PageFields] /\ PageInv(p)
  BY TypeParts DEF KmallocInv
<1>3. Unused(p, page[p], live)
  BY <1>2 DEF PageInv
<1>4. g \in PageFields /\ g.obj_alloc = t /\ g.obj_used = 0 /\ g.free = NULL
  BY DEF NoObjects, PageFields
<1>5. /\ a \in AllocatorFields /\ a.full = x.full /\ a.partial = x.partial
      /\ a.empty = x.empty /\ a.obj_used = x.obj_used /\ a.page_used = x.page_used + 1
  <2> HIDE DEF x
  <2>1. x.page_used + 1 \in Nat
    BY <1>1 DEF AllocatorFields
  <2>2. PICK k \in Nat : k = x.page_used + 1
    BY <2>1
  <2>3. a = [x EXCEPT !.page_used = k]
    BY <2>2
  <2> QED
    BY <1>1, <2>2, <2>3 DEF AllocatorFields
<1> HIDE DEF g
<1>6. Slab(p, g, live)
  <2>1. Units(live, PageAddresses(p)) = {}
    BY <1>3, NoUnits DEF Unused
  <2>2. IsFiniteSet({}) /\ Cardinality({}) = 0
    BY FS_EmptySet
  <2>3. \A b \in PageAddresses(p) : ~(live[b] > 0)
    BY <1>3 DEF Unused
  <2> QED
    BY <1>1, <1>4, <2>1, <2>2, <2>3 DEF Slab
<1>7. p \notin S
  BY <1>3, KmallocBounds DEF Unused, SlabPages
<1>8. pg[p] = g /\ \A q \in S : q # p /\ pg[q] = page[q]
  BY <1>1, <1>2, <1>7 DEF With
<1> HIDE DEF S, pg, a, x, n
<1>9. Counted(a, pg, T)
  <2> DEFINE e == [q \in Frames |-> page[q].obj_used]
             f == [q \in Frames |-> pg[q].obj_used]
  <2>1. f[p] = 0 /\ \A q \in S : f[q] = e[q]
    BY <1>1, <1>4, <1>8
  <2> HIDE DEF e, f
  <2>2. ASSUME NEW u PROVE u \in Units(f, T) <=> u \in Units(e, S)
    <3>1. \A k : k \notin 1 .. f[p]
      BY <2>1
    <3> QED
      BY <2>1, <3>1, UnitsIn
  <2>3. Units(f, T) = Units(e, S)
    BY <2>2
  <2>4. IsFiniteSet(Units(e, S)) /\ x.obj_used = Cardinality(Units(e, S))
        /\ x.page_used = Cardinality(S)
    BY <1>1 DEF Counted, UsedUnits, e
  <2>5. Cardinality(T) = Cardinality(S) + 1
    BY <1>1, <1>7, FiniteFrames, FS_AddElement
  <2> QED
    BY <1>5, <2>3, <2>4, <2>5 DEF Counted, UsedUnits, f
<1>10. Linked(t, [a EXCEPT !.curr_page = p], pg, T)
  <2> DEFINE b == [a EXCEPT !.curr_page = p]
  <2>1. b.full = x.full /\ b.partial = x.partial /\ b.empty = x.empty /\ b.curr_page = p
    BY <1>5 DEF AllocatorFields
  <2> HIDE DEF b
  <2>2. {q \in T : q # p /\ pg[q].obj_used = n} = {q \in S : q # NULL /\ page[q].obj_used = n}
    BY <1>1, <1>8
  <2>3. {q \in T : q # p /\ pg[q].obj_used > 0 /\ pg[q].obj_used < n}
          = {q \in S : q # NULL /\ page[q].obj_used > 0 /\ page[q].obj_used < n}
    BY <1>1, <1>8
  <2>4. {q \in T : q # p /\ pg[q].obj_used = 0} = {q \in S : q # NULL /\ page[q].obj_used = 0}
    BY <1>1, <1>8
  <2>5. /\ Lists(x.full, {q \in S : q # NULL /\ page[q].obj_used = n})
        /\ Lists(x.partial, {q \in S : q # NULL /\ page[q].obj_used > 0 /\ page[q].obj_used < n})
        /\ Lists(x.empty, {q \in S : q # NULL /\ page[q].obj_used = 0})
        /\ Len(x.empty) < EmptyLimit
    <3>1. x.curr_page = NULL
      BY DEF x
    <3> QED
      BY <1>1, <3>1 DEF Linked, n
  <2>6. p \in T /\ pg[p].obj_used < n
    BY <1>1, <1>4, <1>8
  <2>7. Linked(t, b, pg, T)
    BY <2>1, <2>2, <2>3, <2>4, <2>5, <2>6 DEF Linked, n
  <2> QED
    BY <2>7 DEF b
<1>11. page[p].obj_alloc \in {t, NULL} /\ g.obj_used < n
  BY <1>1, <1>3, <1>4 DEF Unused
<1>12. Prepared(t, a, p, g)
  BY <1>4, <1>5, <1>6, <1>9, <1>10, <1>11 DEF Prepared, S, pg, n
<1> QED
  BY <1>12 DEF a, g, x

\* Out of memory: nothing but ret and fault changes.
LEMMA FaultInv ==
    ASSUME KmallocInv, NEW o \in Orders, buddy_block_alloc(o), ret' = NULL,
           fault' = TRUE, UNCHANGED <<pool, page, live>>
    PROVE  KmallocInv'
<1>1. BuddyInv /\ live \in [Addresses -> Nat]
  BY TypeParts DEF KmallocInv
<1>2. order' = order /\ held' = held /\ BuddyInv'
  BY <1>1, NoBlockLeft
<1>3. TypeOK'
  BY <1>2 DEF KmallocInv, TypeOK, BuddyInv
<1>4. ASSUME NEW q \in Frames PROVE PageInv(q)'
  BY <1>2, OtherPage DEF KmallocInv
<1>5. ASSUME NEW u \in Tokens PROVE AllocatorInv(u)'
  BY OtherAllocator DEF KmallocInv
<1> QED
  BY <1>2, <1>3, <1>4, <1>5 DEF KmallocInv

\* obj_allocate keeps the invariant.
LEMMA ObjAllocateInv ==
    ASSUME KmallocInv, NEW t \in Tokens, obj_allocate(t)
    PROVE  KmallocInv'
<1>0. BuddyInv /\ TypeOK
  BY DEF KmallocInv
<1>1. ASSUME NEW p \in SlabPages(t), NEW a, Prepared(t, a, p, page[p]),
             HandOut(t, a, p, page[p]), UNCHANGED buddyVars
      PROVE  KmallocInv'
  <2>1. p \in held /\ order[p] = 0
    BY OwnedPage
  <2>2. BuddyInv'
    BY <1>0, <1>1, NextBuddyInv
  <2>3. held' = held /\ order' = order
    BY <1>1 DEF buddyVars
  <2> QED
    BY <1>1, <2>1, <2>2, <2>3, HandOutInv
<1>2. CASE pool[t].curr_page # NULL
  BY <1>1, <1>2, PreparedCurrent DEF obj_allocate
<1>3. CASE pool[t].curr_page = NULL /\ pool[t].partial # <<>>
  BY <1>1, <1>3, PreparedPartial DEF obj_allocate
<1>4. CASE pool[t].curr_page = NULL /\ pool[t].partial = <<>> /\ pool[t].empty # <<>>
  BY <1>1, <1>4, PreparedEmpty DEF obj_allocate
<1>5. CASE pool[t].curr_page = NULL /\ pool[t].partial = <<>> /\ pool[t].empty = <<>>
  <2>1. 0 \in Orders /\ buddy_block_alloc(0)
    BY <1>5, BuddyBounds DEF obj_allocate, Orders
  <2>2. CASE ret' = NULL
    <3>1. fault' = TRUE /\ UNCHANGED <<pool, page, live>>
      BY <1>5, <2>2 DEF obj_allocate
    <3> QED
      BY <2>1, <2>2, <3>1, FaultInv
  <2>3. CASE ret' # NULL
    <3>1. HandOut(t, [pool[t] EXCEPT !.page_used = @ + 1], ret', [NoObjects EXCEPT !.obj_alloc = t])
      BY <1>5, <2>3 DEF obj_allocate
    <3>2. /\ ret' \in Frames /\ ret' \notin held /\ held' = held \cup {ret'} /\ order'[ret'] = 0
          /\ \A q \in held : order'[q] = order[q]
          /\ BuddyInv'
      BY <1>0, <2>1, <2>3, BlockAllocated
    <3>3. PICK p \in Frames : p = ret'
      BY <3>2
    <3>4. Prepared(t, [pool[t] EXCEPT !.page_used = @ + 1], p, [NoObjects EXCEPT !.obj_alloc = t])
      BY <1>5, <3>2, <3>3, PreparedNew
    <3> QED
      BY <3>1, <3>2, <3>3, <3>4, HandOutInv
  <2> QED
    BY <2>2, <2>3
<1> QED
  BY <1>2, <1>3, <1>4, <1>5

-----------------------------------------------------------------------------
(***************************************************************************)
(* obj_free                                                                *)
(***************************************************************************)
\* The fields of the page when an object of it has been given back.
Freed(addr) ==
    [page[PHY_ADDR_TO_PFN(addr)] EXCEPT !.free = addr, !.obj_used = @ - 1]

\* The page: its count goes with the objects, and is not zero before.
LEMMA FreedPage ==
    ASSUME KmallocInv, NEW addr \in Addresses, live[addr] > 0,
           page[PHY_ADDR_TO_PFN(addr)].obj_alloc # NULL,
           live' = [live EXCEPT ![addr] = @ - 1]
    PROVE  LET p == PHY_ADDR_TO_PFN(addr)
               t == page[p].obj_alloc
               g == Freed(addr)
           IN  /\ p \in Frames /\ t \in Tokens /\ p \in SlabPages(t)
               /\ page[p].obj_used \in Nat /\ page[p].obj_used > 0
               /\ page[p].obj_used <= obj_per_page(t)
               /\ g \in PageFields /\ g.obj_alloc = t /\ g.obj_used = page[p].obj_used - 1
               /\ live' \in [Addresses -> Nat]
               /\ \A x \in Addresses : PHY_ADDR_TO_PFN(x) # p => live'[x] = live[x]
               /\ Slab(p, g, live')
               /\ g.obj_used = 0 => \A x \in PageAddresses(p) : live'[x] = 0
<1> DEFINE p == PHY_ADDR_TO_PFN(addr)
           t == page[p].obj_alloc
           g == Freed(addr)
           A == PageAddresses(p)
<1>1. p \in Frames /\ addr \in A
  BY AddressPage
<1>2. page \in [Frames -> PageFields] /\ live \in [Addresses -> Nat]
  BY TypeParts DEF KmallocInv
<1>3. page[p] \in PageFields /\ t \in Tokens /\ p \in SlabPages(t)
  <2>1. page[p] \in PageFields
    BY <1>1, <1>2
  <2>2. t \in Tokens
    BY <2>1 DEF PageFields
  <2> QED
    BY <1>1, <2>1, <2>2 DEF SlabPages
<1>4. Slab(p, page[p], live)
  BY <1>3, OwnedPage
<1>5. Object(t, p, addr)
  BY <1>1, <1>4 DEF Slab
<1>6. PICK n \in Nat : n = page[p].obj_used
  BY <1>3 DEF PageFields
<1>7. PICK m \in Nat : live[addr] = m + 1
  <2>1. live[addr] \in Nat /\ live[addr] > 0
    BY <1>2
  <2>2. live[addr] - 1 \in Nat /\ live[addr] = (live[addr] - 1) + 1
    BY <2>1
  <2> QED
    BY <2>2
<1>8. /\ live' \in [Addresses -> Nat] /\ live'[addr] = m
      /\ \A x \in Addresses : x # addr => live'[x] = live[x]
  BY <1>2, <1>7
<1>9. OneMore(live', A, live, A, addr, m)
  <2>1. \A x \in A \ {addr} : live[x] = live'[x]
    BY <1>1, <1>8, OnPage
  <2> QED
    BY <1>1, <1>7, <1>8, <2>1 DEF OneMore
<1>10. IsFiniteSet(Units(live, A)) /\ n = Cardinality(Units(live, A)) /\ n <= obj_per_page(t)
  BY <1>4, <1>6 DEF Slab
<1>11. IsFiniteSet(Units(live', A)) /\ Cardinality(Units(live', A)) = n - 1 /\ n > 0
  BY <1>9, <1>10, CountDown
<1> HIDE DEF A
<1>12. g \in PageFields /\ g.obj_alloc = t /\ g.obj_used = n - 1 /\ g.free = addr
  <2>1. PICK k \in Nat : k = n - 1
    BY <1>11
  <2>2. g = [page[p] EXCEPT !.free = addr, !.obj_used = k]
    BY <1>6, <2>1 DEF Freed
  <2> HIDE DEF g
  <2> QED
    BY <1>3, <2>1, <2>2 DEF PageFields
<1>13. ASSUME NEW x \in A, live'[x] > 0 PROVE Object(t, p, x)
  <2>1. x = addr => Object(t, p, x)
    BY <1>5
  <2>2. x # addr => live'[x] = live[x]
    BY <1>1, <1>8, OnPage DEF A
  <2> QED
    BY <1>4, <1>13, <2>1, <2>2 DEF Slab, A
<1>14. Slab(p, g, live')
  <2> HIDE DEF g
  <2>1. g.obj_used <= obj_per_page(t) /\ g.obj_used = Cardinality(Units(live', A))
    BY <1>3, <1>10, <1>11, <1>12, ObjectSizes
  <2>2. g.free # NULL => Object(t, p, g.free)
    BY <1>5, <1>12
  <2> QED
    BY <1>3, <1>11, <1>12, <1>13, <2>1, <2>2 DEF Slab, A
<1>15. ASSUME g.obj_used = 0, NEW x \in A PROVE live'[x] = 0
  <2>1. Units(live', A) = {}
    BY <1>11, <1>12, <1>15, FS_EmptySet
  <2>2. live'[x] \in Nat
    BY <1>1, <1>8, OnPage DEF A
  <2> QED
    BY <2>1, <2>2, UnitsNone
<1>16. \A x \in Addresses : PHY_ADDR_TO_PFN(x) # p => live'[x] = live[x]
  BY <1>8
<1> HIDE DEF g, t, p
<1>17. g.obj_used = 0 => \A x \in A : live'[x] = 0
  BY <1>15
<1> QED
  BY <1>1, <1>3, <1>6, <1>8, <1>10, <1>11, <1>12, <1>14, <1>16, <1>17 DEF g, t, p, A

\* The count of the allocator, with the page or, if it was its last object, without it.
LEMMA FreedCount ==
    ASSUME KmallocInv, NEW t \in Tokens, NEW p \in SlabPages(t), NEW pg,
           page[p].obj_used \in Nat, page[p].obj_used > 0,
           \A q \in SlabPages(t) \ {p} : pg[q].obj_used = page[q].obj_used
    PROVE  /\ pool[t].obj_used - 1 \in Nat
           /\ pg[p].obj_used = page[p].obj_used - 1 =>
                /\ IsFiniteSet(UsedUnits(pg, SlabPages(t)))
                /\ Cardinality(UsedUnits(pg, SlabPages(t))) = pool[t].obj_used - 1
           /\ page[p].obj_used = 1 =>
                /\ IsFiniteSet(UsedUnits(pg, SlabPages(t) \ {p}))
                /\ Cardinality(UsedUnits(pg, SlabPages(t) \ {p})) = pool[t].obj_used - 1
<1> DEFINE S == SlabPages(t)
           R == S \ {p}
           f == [q \in Frames |-> page[q].obj_used]
           e == [q \in Frames |-> pg[q].obj_used]
<1>1. Counted(pool[t], page, S) /\ S \in SUBSET Frames
  BY AllocatorParts
<1>2. PICK n \in Nat : page[p].obj_used = n + 1
  <2>1. page[p].obj_used - 1 \in Nat /\ page[p].obj_used = (page[p].obj_used - 1) + 1
    OBVIOUS
  <2> QED
    BY <2>1
<1>3. /\ p \in S /\ f[p] = n + 1 /\ e[p] = pg[p].obj_used /\ \A q \in S \ {p} : f[q] = e[q]
  BY <1>1, <1>2
<1> HIDE DEF S, e, f
<1>4. IsFiniteSet(Units(f, S)) /\ pool[t].obj_used = Cardinality(Units(f, S))
  BY <1>1 DEF Counted, UsedUnits, f
<1>5. pool[t].obj_used \in Nat /\ pool[t].obj_used - 1 \in Nat
  <2> DEFINE d == [q \in S |-> IF q = p THEN n ELSE f[q]]
  <2>1. OneMore(d, S, f, S, p, n)
    BY <1>3 DEF OneMore
  <2> HIDE DEF d
  <2>2. Cardinality(Units(f, S)) \in Nat /\ Cardinality(Units(f, S)) > 0
    BY <1>4, <2>1, CountDown
  <2> QED
    BY <1>4, <2>2
<1>6. ASSUME pg[p].obj_used = page[p].obj_used - 1
      PROVE  IsFiniteSet(Units(e, S)) /\ Cardinality(Units(e, S)) = pool[t].obj_used - 1
  <2>1. e[p] = n
    BY <1>2, <1>3, <1>6
  <2>2. OneMore(e, S, f, S, p, n)
    BY <1>3, <2>1 DEF OneMore
  <2> QED
    BY <1>4, <2>2, CountDown
<1>7. ASSUME page[p].obj_used = 1
      PROVE  IsFiniteSet(Units(e, R)) /\ Cardinality(Units(e, R)) = pool[t].obj_used - 1
  <2>1. n = 0
    BY <1>2, <1>7
  <2>2. OneMore(e, R, f, S, p, n)
    BY <1>3, <2>1 DEF OneMore
  <2> HIDE DEF R
  <2> QED
    BY <1>4, <2>2, CountDown
<1> QED
  BY <1>5, <1>6, <1>7 DEF UsedUnits, e, S

\* The allocator with one object less.
Less(x) == [x EXCEPT !.obj_used = @ - 1]

\* Only obj_used is different.
LEMMA LessFields ==
    ASSUME NEW x \in AllocatorFields, x.obj_used - 1 \in Nat
    PROVE  LET y == Less(x)
           IN  /\ y \in AllocatorFields /\ y.obj_used = x.obj_used - 1
               /\ y.full = x.full /\ y.partial = x.partial /\ y.empty = x.empty
               /\ y.curr_page = x.curr_page /\ y.page_used = x.page_used
<1>1. PICK k \in Nat : k = x.obj_used - 1
  OBVIOUS
<1>2. Less(x) = [x EXCEPT !.obj_used = k]
  BY <1>1 DEF Less
<1> QED
  BY <1>1, <1>2 DEF AllocatorFields

\* list_del
LEMMA UnlinkedFields ==
    ASSUME NEW y \in AllocatorFields, NEW p, NEW F, NEW P, NEW E,
           Lists(y.full, F), Lists(y.partial, P), Lists(y.empty, E)
    PROVE  LET u == Unlinked(y, p)
           IN  /\ u \in AllocatorFields /\ u.obj_used = y.obj_used
               /\ u.curr_page = y.curr_page /\ u.page_used = y.page_used
               /\ Lists(u.full, F \ {p}) /\ Lists(u.partial, P \ {p}) /\ Lists(u.empty, E \ {p})
               /\ Len(u.empty) <= Len(y.empty)
<1> DEFINE u == Unlinked(y, p)
           l1 == RemoveFirst(y.full, p)
           l2 == RemoveFirst(y.partial, p)
           l3 == RemoveFirst(y.empty, p)
<1>1. /\ Lists(l1, F \ {p}) /\ Lists(l2, P \ {p}) /\ Lists(l3, E \ {p})
      /\ Len(l3) <= Len(y.empty)
  BY ListsDeleted
<1>2. l1 \in Seq(Frames) /\ l2 \in Seq(Frames) /\ l3 \in Seq(Frames)
  BY <1>1 DEF Lists
<1>3. u = [y EXCEPT !.full = l1, !.partial = l2, !.empty = l3]
  BY DEF Unlinked
<1> HIDE DEF u, l1, l2, l3
<1>4. /\ u \in AllocatorFields /\ u.obj_used = y.obj_used
      /\ u.curr_page = y.curr_page /\ u.page_used = y.page_used
      /\ u.full = l1 /\ u.partial = l2 /\ u.empty = l3
  BY <1>2, <1>3 DEF AllocatorFields
<1>5. /\ Lists(u.full, F \ {p}) /\ Lists(u.partial, P \ {p}) /\ Lists(u.empty, E \ {p})
      /\ Len(u.empty) <= Len(y.empty)
  BY <1>1, <1>4
<1> QED
  BY <1>4, <1>5 DEF u

\* A page of the allocator from which an object was given back stays with it.
LEMMA KeptInv ==
    ASSUME KmallocInv, NEW addr \in Addresses, live[addr] > 0,
           page[PHY_ADDR_TO_PFN(addr)].obj_alloc # NULL,
           live' = [live EXCEPT ![addr] = @ - 1], UNCHANGED fault, UNCHANGED buddyVars,
           NEW t, t = page[PHY_ADDR_TO_PFN(addr)].obj_alloc,
           NEW p, p = PHY_ADDR_TO_PFN(addr),
           NEW b \in AllocatorFields, pool' = [pool EXCEPT ![t] = b],
           b.obj_used = pool[t].obj_used - 1, b.page_used = pool[t].page_used,
           page' = With(p, Freed(addr)),
           Linked(t, b, page', SlabPages(t))
    PROVE  KmallocInv'
<1> DEFINE g == Freed(addr)
           S == SlabPages(t)
<1>1. /\ p \in Frames /\ t \in Tokens /\ p \in S
      /\ page[p].obj_used \in Nat /\ page[p].obj_used > 0
      /\ g \in PageFields /\ g.obj_alloc = t /\ g.obj_used = page[p].obj_used - 1
      /\ live' \in [Addresses -> Nat]
      /\ \A x \in Addresses : PHY_ADDR_TO_PFN(x) # p => live'[x] = live[x]
      /\ Slab(p, g, live')
  BY FreedPage
<1>2. /\ TypeOK /\ BuddyInv /\ pool \in [Tokens -> AllocatorFields]
      /\ page \in [Frames -> PageFields] /\ fault \in BOOLEAN
  BY TypeParts DEF KmallocInv
<1>3. p \in held /\ order[p] = 0 /\ page[p].obj_alloc = t
  BY <1>1, OwnedPage
<1> HIDE DEF g
<1>4. /\ page' \in [Frames -> PageFields] /\ page'[p] = g
      /\ \A q \in Frames : q # p => page'[q] = page[q]
  BY <1>1, <1>2 DEF With, g
<1>5. /\ pool' \in [Tokens -> AllocatorFields] /\ pool'[t] = b
      /\ \A u \in Tokens : u # t => pool'[u] = pool[u]
  BY <1>1, <1>2
<1>6. BuddyInv' /\ held' = held /\ order' = order
  <2>1. BuddyInv'
    BY <1>2, NextBuddyInv
  <2> QED
    BY <2>1 DEF buddyVars
<1>7. TypeOK'
  BY <1>1, <1>2, <1>4, <1>5, <1>6 DEF TypeOK, AllocatorFields, PageFields, BuddyInv
<1>8. PageInv(p)'
  BY <1>1, <1>3, <1>4, <1>6 DEF PageInv
<1>9. SlabPages(t)' = S /\ S \in SUBSET Frames
  BY <1>1, <1>3, <1>4 DEF SlabPages
<1>10. Counted(b, page', S)
  <2>1. \A q \in S \ {p} : page'[q].obj_used = page[q].obj_used
    BY <1>4, <1>9
  <2>2. page'[p].obj_used = page[p].obj_used - 1
    BY <1>1, <1>4
  <2>3. IsFiniteSet(UsedUnits(page', S)) /\ Cardinality(UsedUnits(page', S)) = pool[t].obj_used - 1
    <3>1. PICK pg : pg = page'
      OBVIOUS
    <3>2. \A q \in SlabPages(t) \ {p} : pg[q].obj_used = page[q].obj_used
      BY <2>1, <3>1
    <3>3. t \in Tokens /\ p \in SlabPages(t) /\ page[p].obj_used \in Nat /\ page[p].obj_used > 0
      BY <1>1
    <3>4. pg[p].obj_used = page[p].obj_used - 1
      BY <2>2, <3>1
    <3>5. /\ IsFiniteSet(UsedUnits(pg, SlabPages(t)))
          /\ Cardinality(UsedUnits(pg, SlabPages(t))) = pool[t].obj_used - 1
      BY ONLY KmallocInv, <3>2, <3>3, <3>4, FreedCount
    <3> QED
      BY <3>1, <3>5
  <2>4. pool[t].page_used = Cardinality(S)
    BY <1>1, AllocatorParts DEF Counted
  <2> QED
    BY <2>3, <2>4 DEF Counted
<1>11. AllocatorInv(t)'
  BY <1>5, <1>9, <1>10 DEF AllocatorInv
<1> QED
  BY <1>1, <1>3, <1>4, <1>5, <1>6, <1>7, <1>8, <1>11, OnePage

\* A page that goes back to the buddy system: nobody holds an object of it.
LEMMA ReturnedInv ==
    ASSUME KmallocInv, NEW addr \in Addresses, live[addr] > 0,
           page[PHY_ADDR_TO_PFN(addr)].obj_alloc # NULL,
           live' = [live EXCEPT ![addr] = @ - 1], UNCHANGED fault,
           NEW t, t = page[PHY_ADDR_TO_PFN(addr)].obj_alloc,
           NEW p, p = PHY_ADDR_TO_PFN(addr), Freed(addr).obj_used = 0,
           NEW b \in AllocatorFields, pool' = [pool EXCEPT ![t] = b],
           b.obj_used = pool[t].obj_used - 1, b.page_used = pool[t].page_used - 1,
           page' = With(p, NoObjects), buddy_block_free(p),
           Linked(t, b, page', SlabPages(t) \ {p})
    PROVE  KmallocInv'
<1> DEFINE g == Freed(addr)
           S == SlabPages(t)
           T == S \ {p}
<1>1. /\ p \in Frames /\ t \in Tokens /\ p \in S
      /\ page[p].obj_used \in Nat /\ page[p].obj_used > 0
      /\ g.obj_used = page[p].obj_used - 1
      /\ live' \in [Addresses -> Nat]
      /\ \A x \in Addresses : PHY_ADDR_TO_PFN(x) # p => live'[x] = live[x]
      /\ \A x \in PageAddresses(p) : live'[x] = 0
  BY FreedPage
<1>2. /\ TypeOK /\ BuddyInv /\ pool \in [Tokens -> AllocatorFields]
      /\ page \in [Frames -> PageFields] /\ fault \in BOOLEAN
  BY TypeParts DEF KmallocInv
<1>3. p \in held /\ page[p].obj_alloc = t
  BY <1>1, OwnedPage
<1>4. NoObjects \in PageFields /\ NoObjects.obj_alloc = NULL
  BY DEF NoObjects, PageFields
<1>5. /\ page' \in [Frames -> PageFields] /\ page'[p] = NoObjects
      /\ \A q \in Frames : q # p => page'[q] = page[q]
  BY <1>1, <1>2, <1>4 DEF With
<1>6. /\ pool' \in [Tokens -> AllocatorFields] /\ pool'[t] = b
      /\ \A u \in Tokens : u # t => pool'[u] = pool[u]
  BY <1>1, <1>2
<1>7. BuddyInv' /\ held' = held \ {p} /\ \A q \in held \ {p} : order'[q] = order[q]
  BY <1>2, <1>3, BlockFreed
<1>8. TypeOK'
  BY <1>1, <1>2, <1>5, <1>6, <1>7 DEF TypeOK, AllocatorFields, PageFields, BuddyInv
<1>9. PageInv(p)'
  BY <1>1, <1>4, <1>5, <1>7 DEF PageInv, Unused
<1>10. SlabPages(t)' = T /\ S \in SUBSET Frames
  BY <1>1, <1>4, <1>5, KmallocBounds DEF SlabPages
<1>11. Counted(b, page', T)
  <2>1. \A q \in S \ {p} : page'[q].obj_used = page[q].obj_used
    BY <1>5, <1>10
  <2>2. page[p].obj_used = 1
    BY <1>1
  <2>3. IsFiniteSet(UsedUnits(page', T)) /\ Cardinality(UsedUnits(page', T)) = pool[t].obj_used - 1
    <3>1. PICK pg : pg = page'
      OBVIOUS
    <3>2. \A q \in SlabPages(t) \ {p} : pg[q].obj_used = page[q].obj_used
      BY <2>1, <3>1
    <3>3. t \in Tokens /\ p \in SlabPages(t) /\ page[p].obj_used \in Nat /\ page[p].obj_used > 0
      BY <1>1
    <3>4. page[p].obj_used = 1
      BY <2>2, <3>1
    <3>5. /\ IsFiniteSet(UsedUnits(pg, SlabPages(t) \ {p}))
          /\ Cardinality(UsedUnits(pg, SlabPages(t) \ {p})) = pool[t].obj_used - 1
      BY ONLY KmallocInv, <3>2, <3>3, <3>4, FreedCount
    <3> QED
      BY <3>1, <3>5
  <2>4. pool[t].page_used = Cardinality(S)
    BY <1>1, AllocatorParts DEF Counted
  <2>5. Cardinality(T) = Cardinality(S) - 1
    BY <1>1, <1>10, FiniteFrames, FS_RemoveElement
  <2> QED
    BY <2>3, <2>4, <2>5 DEF Counted
<1>12. AllocatorInv(t)'
  BY <1>6, <1>10, <1>11 DEF AllocatorInv
<1> QED
  BY <1>1, <1>3, <1>4, <1>5, <1>6, <1>7, <1>8, <1>9, <1>12, OnePage

\* Linked, from the elements of the lists.
LEMMA LinkedBy ==
    ASSUME NEW t, NEW b, NEW pg, NEW S, NEW F, NEW P, NEW E,
           Lists(b.full, F), Lists(b.partial, P), Lists(b.empty, E),
           \A q : q \in F <=> q \in S /\ q # b.curr_page /\ pg[q].obj_used = obj_per_page(t),
           \A q : q \in P <=> /\ q \in S /\ q # b.curr_page
                              /\ pg[q].obj_used > 0 /\ pg[q].obj_used < obj_per_page(t),
           \A q : q \in E <=> q \in S /\ q # b.curr_page /\ pg[q].obj_used = 0,
           Len(b.empty) < EmptyLimit,
           b.curr_page # NULL =>
             b.curr_page \in S /\ pg[b.curr_page].obj_used < obj_per_page(t)
    PROVE  Linked(t, b, pg, S)
<1>1. F = {q \in S : q # b.curr_page /\ pg[q].obj_used = obj_per_page(t)}
  OBVIOUS
<1>2. P = {q \in S : /\ q # b.curr_page
                     /\ pg[q].obj_used > 0
                     /\ pg[q].obj_used < obj_per_page(t)}
  OBVIOUS
<1>3. E = {q \in S : q # b.curr_page /\ pg[q].obj_used = 0}
  BY SMTT(60)
<1> QED
  BY <1>1, <1>2, <1>3 DEF Linked

\* The pages of S on each list of an allocator t with curr_page c.
FullPages(t, c, S) == {q \in S : q # c /\ page[q].obj_used = obj_per_page(t)}
PartialPages(t, c, S) ==
    {q \in S : q # c /\ page[q].obj_used > 0 /\ page[q].obj_used < obj_per_page(t)}
EmptyPages(c, S) == {q \in S : q # c /\ page[q].obj_used = 0}

\* Where obj_free finds the page: the lists of its allocator before the step.
LEMMA FreedLists ==
    ASSUME KmallocInv, NEW addr \in Addresses, live[addr] > 0,
           page[PHY_ADDR_TO_PFN(addr)].obj_alloc # NULL,
           live' = [live EXCEPT ![addr] = @ - 1],
           NEW t, t = page[PHY_ADDR_TO_PFN(addr)].obj_alloc,
           NEW p, p = PHY_ADDR_TO_PFN(addr)
    PROVE  LET x == pool[t]
               y == Less(x)
               S == SlabPages(t)
               n == obj_per_page(t)
           IN  /\ t \in Tokens /\ p \in S /\ S \in SUBSET Frames
               /\ n \in Nat /\ n > 1 /\ page \in [Frames -> PageFields]
               /\ \A q \in S : page[q].obj_used \in Nat
               /\ page[p].obj_used > 0 /\ page[p].obj_used <= n
               /\ Freed(addr) \in PageFields /\ Freed(addr).obj_used = page[p].obj_used - 1
               /\ x \in AllocatorFields /\ y \in AllocatorFields /\ x.page_used = Cardinality(S)
               /\ y.obj_used = x.obj_used - 1 /\ y.page_used = x.page_used
               /\ y.curr_page = x.curr_page
               /\ Lists(y.full, FullPages(t, x.curr_page, S))
               /\ Lists(y.partial, PartialPages(t, x.curr_page, S))
               /\ Lists(y.empty, EmptyPages(x.curr_page, S))
               /\ Len(y.empty) < EmptyLimit
               /\ x.curr_page # NULL =>
                    x.curr_page \in S /\ page[x.curr_page].obj_used < n
<1> DEFINE x == pool[t]
           y == Less(x)
           S == SlabPages(t)
           n == obj_per_page(t)
<1>1. /\ t \in Tokens /\ p \in S /\ page[p].obj_used \in Nat /\ page[p].obj_used > 0
      /\ page[p].obj_used <= n /\ Freed(addr) \in PageFields
      /\ Freed(addr).obj_used = page[p].obj_used - 1
  BY FreedPage
<1>2. page \in [Frames -> PageFields]
  BY TypeParts DEF KmallocInv
<1>3. /\ x \in AllocatorFields /\ Linked(t, x, page, S) /\ Counted(x, page, S)
      /\ S \in SUBSET Frames /\ n \in Nat /\ n > 1
      /\ \A q \in S : page[q].obj_used \in Nat
  BY <1>1, AllocatorParts
<1>4. x.obj_used - 1 \in Nat
  <2>1. \A q \in S \ {p} : With(p, Freed(addr))[q].obj_used = page[q].obj_used
    BY <1>2, <1>3 DEF With
  <2>2. With(p, Freed(addr))[p].obj_used = page[p].obj_used - 1
    BY <1>1, <1>2, <1>3 DEF With
  <2> QED
    BY <1>1, <2>1, <2>2, FreedCount
<1>5. /\ y \in AllocatorFields /\ y.obj_used = x.obj_used - 1
      /\ y.full = x.full /\ y.partial = x.partial /\ y.empty = x.empty
      /\ y.curr_page = x.curr_page /\ y.page_used = x.page_used
  BY <1>3, <1>4, LessFields
<1> HIDE DEF x, y, S, n
<1>6. /\ Lists(y.full, FullPages(t, x.curr_page, S))
      /\ Lists(y.partial, PartialPages(t, x.curr_page, S))
      /\ Lists(y.empty, EmptyPages(x.curr_page, S))
      /\ Len(y.empty) < EmptyLimit
      /\ x.curr_page # NULL => x.curr_page \in S /\ page[x.curr_page].obj_used < n
  <2>1. {q \in S : /\ q # x.curr_page
                   /\ page[q].obj_used > 0
                   /\ page[q].obj_used < obj_per_page(t)}
          = PartialPages(t, x.curr_page, S)
    BY DEF PartialPages
  <2> QED
    BY <1>3, <1>5, <2>1 DEF Linked, n, FullPages, EmptyPages
<1>7. x.page_used = Cardinality(S)
  BY <1>3 DEF Counted
<1> QED
  BY <1>1, <1>2, <1>3, <1>5, <1>6, <1>7 DEF x, y, S, n

\* A page that was full goes to the partial list.
LEMMA FullToPartialLinked ==
    ASSUME KmallocInv, NEW addr \in Addresses, live[addr] > 0,
           page[PHY_ADDR_TO_PFN(addr)].obj_alloc # NULL,
           live' = [live EXCEPT ![addr] = @ - 1],
           NEW t, t = page[PHY_ADDR_TO_PFN(addr)].obj_alloc,
           NEW p, p = PHY_ADDR_TO_PFN(addr), page[p].obj_used = obj_per_page(t)
    PROVE  LET b == [Unlinked(Less(pool[t]), p) EXCEPT !.partial = Append(@, p)] IN
           /\ b \in AllocatorFields /\ b.obj_used = pool[t].obj_used - 1
           /\ b.page_used = pool[t].page_used
           /\ Linked(t, b, With(p, Freed(addr)), SlabPages(t))
<1> DEFINE b == [Unlinked(Less(pool[t]), p) EXCEPT !.partial = Append(@, p)]
           x == pool[t]
           y == Less(x)
           S == SlabPages(t)
           n == obj_per_page(t)
           c == x.curr_page
           F == FullPages(t, c, S)
           P == PartialPages(t, c, S)
           E == EmptyPages(c, S)
           pg == With(p, Freed(addr))
           u == Unlinked(y, p)
<1>1. /\ t \in Tokens /\ p \in S /\ S \in SUBSET Frames
      /\ n \in Nat /\ n > 1 /\ page \in [Frames -> PageFields]
      /\ \A q \in S : page[q].obj_used \in Nat
      /\ Freed(addr) \in PageFields /\ Freed(addr).obj_used = page[p].obj_used - 1
      /\ y \in AllocatorFields
      /\ y.obj_used = x.obj_used - 1 /\ y.page_used = x.page_used
      /\ y.curr_page = c
      /\ Lists(y.full, F) /\ Lists(y.partial, P) /\ Lists(y.empty, E)
      /\ Len(y.empty) < EmptyLimit
      /\ c # NULL => c \in S /\ page[c].obj_used < n
  BY FreedLists, ZenonT(60)
<1>2. /\ pg[p].obj_used = n - 1 /\ \A q \in S \ {p} : pg[q] = page[q]
  BY <1>1 DEF With
<1>3. p # c
  <2>1. c = NULL => p # c
    BY <1>1, BuddyBounds
  <2>2. c # NULL => page[c].obj_used # n
    <3> HIDE DEF F, P, E, S, c, n, y, u, pg
    <3> QED
      BY <1>1
  <2> QED
    BY <2>1, <2>2
<1>4. /\ u \in AllocatorFields /\ u.obj_used = y.obj_used
      /\ u.curr_page = c /\ u.page_used = y.page_used
      /\ Lists(u.full, F \ {p}) /\ Lists(u.partial, P \ {p}) /\ Lists(u.empty, E \ {p})
      /\ Len(u.empty) <= Len(y.empty)
  <2> HIDE DEF F, P, E, y, c
  <2> QED
    BY <1>1, UnlinkedFields
<1>5. b = [u EXCEPT !.partial = Append(u.partial, p)]
  OBVIOUS
<1> HIDE DEF u, y, x, c, b
<1>6. Lists(Append(u.partial, p), P \cup {p})
  <2>1. (P \ {p}) \cup {p} = P \cup {p} /\ p \notin P \ {p} /\ p \in Frames
    BY <1>1
  <2> HIDE DEF P
  <2> QED
    BY <1>4, <2>1, ListsAdded
<1>7. /\ b \in AllocatorFields /\ b.obj_used = u.obj_used /\ b.page_used = u.page_used
      /\ b.full = u.full /\ b.empty = u.empty /\ b.partial = Append(u.partial, p)
      /\ b.curr_page = u.curr_page
  <2>1. PICK l : l = Append(u.partial, p)
    OBVIOUS
  <2>2. l \in Seq(Frames) /\ b = [u EXCEPT !.partial = l]
    BY <1>5, <1>6, <2>1 DEF Lists
  <2> QED
    BY <1>4, <2>1, <2>2 DEF AllocatorFields
<1>8. b.curr_page = c
  BY <1>4, <1>7
<1>9. /\ \A q : q \in F \ {p} <=> q \in S /\ q # b.curr_page /\ pg[q].obj_used = n
      /\ \A q : q \in P \cup {p} <=> /\ q \in S /\ q # b.curr_page
                                     /\ pg[q].obj_used > 0 /\ pg[q].obj_used < n
      /\ \A q : q \in E \ {p} <=> q \in S /\ q # b.curr_page /\ pg[q].obj_used = 0
  <2> HIDE DEF pg, S
  <2> QED
    BY <1>1, <1>2, <1>3, <1>8 DEF FullPages, PartialPages, EmptyPages
<1>10. c # NULL => c \in S /\ pg[c].obj_used < n
  BY <1>1, <1>2, <1>3
<1> HIDE DEF F, P, E, pg, S, n
<1>11. Lists(b.full, F \ {p}) /\ Lists(b.partial, P \cup {p}) /\ Lists(b.empty, E \ {p})
  BY <1>4, <1>6, <1>7
<1>12. Len(b.empty) < EmptyLimit
  <2>1. Len(u.empty) \in Nat /\ Len(y.empty) \in Nat /\ EmptyLimit \in Nat
    BY <1>1, <1>4, KmallocBounds DEF AllocatorFields
  <2> QED
    BY <1>1, <1>4, <1>7, <2>1
<1>13. Linked(t, b, pg, S)
  BY <1>8, <1>9, <1>10, <1>11, <1>12, LinkedBy DEF n
<1> QED
  BY <1>1, <1>4, <1>7, <1>13 DEF pg, S, x, b

\* A page that stays where it is: it is curr_page, or it was partial and still is.
LEMMA StaysLinked ==
    ASSUME KmallocInv, NEW addr \in Addresses, live[addr] > 0,
           page[PHY_ADDR_TO_PFN(addr)].obj_alloc # NULL,
           live' = [live EXCEPT ![addr] = @ - 1],
           NEW t, t = page[PHY_ADDR_TO_PFN(addr)].obj_alloc,
           NEW p, p = PHY_ADDR_TO_PFN(addr), page[p].obj_used # obj_per_page(t),
           p = pool[t].curr_page \/ page[p].obj_used # 1
    PROVE  LET b == Less(pool[t]) IN
           /\ b \in AllocatorFields /\ b.obj_used = pool[t].obj_used - 1
           /\ b.page_used = pool[t].page_used
           /\ Linked(t, b, With(p, Freed(addr)), SlabPages(t))
<1> DEFINE b == Less(pool[t])
           x == pool[t]
           S == SlabPages(t)
           n == obj_per_page(t)
           c == x.curr_page
           F == FullPages(t, c, S)
           P == PartialPages(t, c, S)
           E == EmptyPages(c, S)
           pg == With(p, Freed(addr))
<1>1. /\ t \in Tokens /\ p \in S /\ S \in SUBSET Frames
      /\ n \in Nat /\ n > 1 /\ page \in [Frames -> PageFields]
      /\ \A q \in S : page[q].obj_used \in Nat
      /\ page[p].obj_used > 0 /\ page[p].obj_used <= n
      /\ Freed(addr) \in PageFields /\ Freed(addr).obj_used = page[p].obj_used - 1
      /\ b \in AllocatorFields
      /\ b.obj_used = x.obj_used - 1 /\ b.page_used = x.page_used
      /\ b.curr_page = c
      /\ Lists(b.full, F) /\ Lists(b.partial, P) /\ Lists(b.empty, E)
      /\ Len(b.empty) < EmptyLimit
      /\ c # NULL => c \in S /\ page[c].obj_used < n
  BY FreedLists
<1>2. /\ pg[p].obj_used = page[p].obj_used - 1 /\ \A q \in S \ {p} : pg[q] = page[q]
  BY <1>1 DEF With
<1>3. page[p].obj_used # n /\ (p = c \/ page[p].obj_used # 1)
  OBVIOUS
<1> HIDE DEF pg, S, c, x, b
<1>4. /\ \A q : q \in F <=> q \in S /\ q # b.curr_page /\ pg[q].obj_used = n
      /\ \A q : q \in P <=> /\ q \in S /\ q # b.curr_page
                            /\ pg[q].obj_used > 0 /\ pg[q].obj_used < n
      /\ \A q : q \in E <=> q \in S /\ q # b.curr_page /\ pg[q].obj_used = 0
  BY <1>1, <1>2, <1>3 DEF FullPages, PartialPages, EmptyPages
<1>5. b.curr_page # NULL => b.curr_page \in S /\ pg[b.curr_page].obj_used < n
  <2> HIDE DEF n, F, P, E
  <2>1. CASE c = p
    BY <1>1, <1>2, <2>1
  <2>2. CASE c # p
    BY <1>1, <1>2, <2>2
  <2> QED
    BY <2>1, <2>2
<1> HIDE DEF F, P, E, n
<1>6. Linked(t, b, pg, S)
  BY <1>1, <1>4, <1>5, LinkedBy DEF n
<1> QED
  BY <1>1, <1>6 DEF pg, S, x, b

\* A page whose last object was given back goes to the empty list; there is room,
\* as the allocator has fewer pages than the limit.
LEMMA ToEmptyLinked ==
    ASSUME KmallocInv, NEW addr \in Addresses, live[addr] > 0,
           page[PHY_ADDR_TO_PFN(addr)].obj_alloc # NULL,
           live' = [live EXCEPT ![addr] = @ - 1],
           NEW t, t = page[PHY_ADDR_TO_PFN(addr)].obj_alloc,
           NEW p, p = PHY_ADDR_TO_PFN(addr), page[p].obj_used = 1,
           p # pool[t].curr_page, pool[t].page_used < EmptyLimit
    PROVE  LET b == [Unlinked(Less(pool[t]), p) EXCEPT !.empty = Append(@, p)] IN
           /\ b \in AllocatorFields /\ b.obj_used = pool[t].obj_used - 1
           /\ b.page_used = pool[t].page_used
           /\ Linked(t, b, With(p, Freed(addr)), SlabPages(t))
<1> DEFINE b == [Unlinked(Less(pool[t]), p) EXCEPT !.empty = Append(@, p)]
           x == pool[t]
           y == Less(x)
           S == SlabPages(t)
           n == obj_per_page(t)
           c == x.curr_page
           F == FullPages(t, c, S)
           P == PartialPages(t, c, S)
           E == EmptyPages(c, S)
           pg == With(p, Freed(addr))
           u == Unlinked(y, p)
<1>1. /\ t \in Tokens /\ p \in S /\ S \in SUBSET Frames
      /\ n \in Nat /\ n > 1 /\ page \in [Frames -> PageFields]
      /\ \A q \in S : page[q].obj_used \in Nat
      /\ Freed(addr) \in PageFields /\ Freed(addr).obj_used = page[p].obj_used - 1
      /\ y \in AllocatorFields
      /\ y.obj_used = x.obj_used - 1 /\ y.page_used = x.page_used
      /\ y.curr_page = c /\ x.page_used = Cardinality(S)
      /\ Lists(y.full, F) /\ Lists(y.partial, P) /\ Lists(y.empty, E)
      /\ c # NULL => c \in S /\ page[c].obj_used < n
  BY FreedLists
<1>2. /\ pg[p].obj_used = 0 /\ \A q \in S \ {p} : pg[q] = page[q]
  <2>1. pg[p] = Freed(addr) /\ \A q \in S \ {p} : pg[q] = page[q]
    BY <1>1 DEF With
  <2> HIDE DEF pg, F, P, E, y
  <2>2. Freed(addr).obj_used = 0
    BY <1>1
  <2> QED
    BY <2>1, <2>2
<1>3. p # c /\ page[p].obj_used = 1 /\ x.page_used < EmptyLimit
  OBVIOUS
<1>4. /\ u \in AllocatorFields /\ u.obj_used = y.obj_used
      /\ u.curr_page = c /\ u.page_used = y.page_used
      /\ Lists(u.full, F \ {p}) /\ Lists(u.partial, P \ {p}) /\ Lists(u.empty, E \ {p})
  <2> HIDE DEF F, P, E, y, c
  <2> QED
    BY <1>1, UnlinkedFields
<1>5. b = [u EXCEPT !.empty = Append(u.empty, p)]
  OBVIOUS
<1> HIDE DEF u, y, x, c, b
<1>6. Lists(Append(u.empty, p), E \cup {p})
  <2>1. (E \ {p}) \cup {p} = E \cup {p} /\ p \notin E \ {p} /\ p \in Frames
    BY <1>1
  <2> HIDE DEF E
  <2> QED
    BY <1>4, <2>1, ListsAdded
<1>7. /\ b \in AllocatorFields /\ b.obj_used = u.obj_used /\ b.page_used = u.page_used
      /\ b.full = u.full /\ b.partial = u.partial /\ b.empty = Append(u.empty, p)
      /\ b.curr_page = u.curr_page
  <2>1. PICK l : l = Append(u.empty, p)
    OBVIOUS
  <2>2. l \in Seq(Frames) /\ b = [u EXCEPT !.empty = l]
    BY <1>5, <1>6, <2>1 DEF Lists
  <2> QED
    BY <1>4, <2>1, <2>2 DEF AllocatorFields
<1>8. b.curr_page = c
  BY <1>4, <1>7
<1>9. /\ \A q : q \in F \ {p} <=> q \in S /\ q # b.curr_page /\ pg[q].obj_used = n
      /\ \A q : q \in P \ {p} <=> /\ q \in S /\ q # b.curr_page
                                  /\ pg[q].obj_used > 0 /\ pg[q].obj_used < n
      /\ \A q : q \in E \cup {p} <=> q \in S /\ q # b.curr_page /\ pg[q].obj_used = 0
  <2> HIDE DEF pg, S
  <2> QED
    BY <1>1, <1>2, <1>3, <1>8 DEF FullPages, PartialPages, EmptyPages
<1>10. c # NULL => c \in S /\ pg[c].obj_used < n
  BY <1>1, <1>2, <1>3
<1> HIDE DEF F, P, E, pg, S, n
<1>11. Lists(b.full, F \ {p}) /\ Lists(b.partial, P \ {p}) /\ Lists(b.empty, E \cup {p})
  BY <1>4, <1>6, <1>7
<1>12. Len(b.empty) < EmptyLimit
  <2>1. Len(b.empty) \in Nat /\ Cardinality(E \cup {p}) = Len(b.empty)
    BY <1>11, ListsCount
  <2>2. E \cup {p} \subseteq S
    BY <1>9
  <2>3. IsFiniteSet(S) /\ Cardinality(S) \in Nat /\ Cardinality(E \cup {p}) <= Cardinality(S)
    BY <1>1, <2>2, FiniteFrames, FS_Subset
  <2>4. Cardinality(S) < EmptyLimit /\ EmptyLimit \in Nat
    BY <1>1, <1>3, KmallocBounds
  <2> QED
    BY <2>1, <2>3, <2>4
<1>13. Linked(t, b, pg, S)
  BY <1>8, <1>9, <1>10, <1>11, <1>12, LinkedBy DEF n
<1> QED
  BY <1>1, <1>4, <1>7, <1>13 DEF pg, S, x, b

\* A page that is returned is on no list any more.
LEMMA ReturnedLinked ==
    ASSUME KmallocInv, NEW addr \in Addresses, live[addr] > 0,
           page[PHY_ADDR_TO_PFN(addr)].obj_alloc # NULL,
           live' = [live EXCEPT ![addr] = @ - 1],
           NEW t, t = page[PHY_ADDR_TO_PFN(addr)].obj_alloc,
           NEW p, p = PHY_ADDR_TO_PFN(addr), p # pool[t].curr_page
    PROVE  LET b == [Unlinked(Less(pool[t]), p) EXCEPT !.page_used = @ - 1] IN
           /\ b \in AllocatorFields /\ b.obj_used = pool[t].obj_used - 1
           /\ b.page_used = pool[t].page_used - 1
           /\ Linked(t, b, With(p, NoObjects), SlabPages(t) \ {p})
<1> DEFINE b == [Unlinked(Less(pool[t]), p) EXCEPT !.page_used = @ - 1]
           x == pool[t]
           y == Less(x)
           S == SlabPages(t)
           R == S \ {p}
           n == obj_per_page(t)
           c == x.curr_page
           F == FullPages(t, c, S)
           P == PartialPages(t, c, S)
           E == EmptyPages(c, S)
           pg == With(p, NoObjects)
           u == Unlinked(y, p)
<1>1. /\ t \in Tokens /\ p \in S /\ S \in SUBSET Frames
      /\ n \in Nat /\ n > 1 /\ page \in [Frames -> PageFields]
      /\ \A q \in S : page[q].obj_used \in Nat
      /\ y \in AllocatorFields
      /\ y.obj_used = x.obj_used - 1 /\ y.page_used = x.page_used
      /\ y.curr_page = c /\ x.page_used = Cardinality(S)
      /\ Lists(y.full, F) /\ Lists(y.partial, P) /\ Lists(y.empty, E)
      /\ Len(y.empty) < EmptyLimit
      /\ c # NULL => c \in S /\ page[c].obj_used < n
  BY FreedLists
<1>2. \A q \in R : pg[q] = page[q]
  BY <1>1 DEF With
<1>3. p # c
  OBVIOUS
<1>4. /\ u \in AllocatorFields /\ u.obj_used = y.obj_used
      /\ u.curr_page = c /\ u.page_used = y.page_used
      /\ Lists(u.full, F \ {p}) /\ Lists(u.partial, P \ {p}) /\ Lists(u.empty, E \ {p})
      /\ Len(u.empty) <= Len(y.empty)
  <2> HIDE DEF F, P, E, y, c
  <2> QED
    BY <1>1, UnlinkedFields
<1>5. b = [u EXCEPT !.page_used = u.page_used - 1]
  OBVIOUS
<1> HIDE DEF u, y, x, c, b
<1>6. PICK m \in Nat : m = u.page_used - 1
  <2>1. Cardinality(R) = Cardinality(S) - 1 /\ Cardinality(R) \in Nat
    BY <1>1, FiniteFrames, FS_RemoveElement
  <2> HIDE DEF R, S, F, P, E
  <2> QED
    BY <1>1, <1>4, <2>1
<1>7. /\ b \in AllocatorFields /\ b.obj_used = u.obj_used /\ b.page_used = u.page_used - 1
      /\ b.full = u.full /\ b.partial = u.partial /\ b.empty = u.empty
      /\ b.curr_page = u.curr_page
  <2>1. b = [u EXCEPT !.page_used = m]
    BY <1>5, <1>6
  <2> QED
    BY <1>4, <1>6, <2>1 DEF AllocatorFields
<1>8. b.curr_page = c
  BY <1>4, <1>7
<1>9. /\ \A q : q \in F \ {p} <=> q \in R /\ q # b.curr_page /\ pg[q].obj_used = n
      /\ \A q : q \in P \ {p} <=> /\ q \in R /\ q # b.curr_page
                                  /\ pg[q].obj_used > 0 /\ pg[q].obj_used < n
      /\ \A q : q \in E \ {p} <=> q \in R /\ q # b.curr_page /\ pg[q].obj_used = 0
  <2> HIDE DEF pg, S
  <2> QED
    BY <1>1, <1>2, <1>3, <1>8 DEF FullPages, PartialPages, EmptyPages
<1>10. c # NULL => c \in R /\ pg[c].obj_used < n
  BY <1>1, <1>2, <1>3
<1> HIDE DEF F, P, E, pg, R, S, n
<1>11. Lists(b.full, F \ {p}) /\ Lists(b.partial, P \ {p}) /\ Lists(b.empty, E \ {p})
  BY <1>4, <1>7
<1>12. Len(b.empty) < EmptyLimit
  <2>1. Len(u.empty) \in Nat /\ Len(y.empty) \in Nat /\ EmptyLimit \in Nat
    BY <1>1, <1>4, KmallocBounds DEF AllocatorFields
  <2> QED
    BY <1>1, <1>4, <1>7, <2>1
<1>13. Linked(t, b, pg, R)
  BY <1>8, <1>9, <1>10, <1>11, <1>12, LinkedBy DEF n
<1> QED
  BY <1>1, <1>4, <1>7, <1>13 DEF pg, R, S, x, b

\* obj_free keeps the invariant, on each of its ways.
LEMMA ObjFreeInv ==
    ASSUME KmallocInv, NEW addr \in Addresses, live[addr] > 0,
           page[PHY_ADDR_TO_PFN(addr)].obj_alloc # NULL, obj_free(addr),
           live' = [live EXCEPT ![addr] = @ - 1], UNCHANGED fault
    PROVE  KmallocInv'
<1> DEFINE p == PHY_ADDR_TO_PFN(addr)
           t == page[p].obj_alloc
           g == Freed(addr)
           y == Less(pool[t])
           a == FullToPartial(t, y, p, g)
           n == obj_per_page(t)
<1>1. /\ t \in Tokens /\ p \in SlabPages(t) /\ n \in Nat /\ n > 1
      /\ page[p].obj_used \in Nat /\ page[p].obj_used > 0 /\ page[p].obj_used <= n
      /\ g.obj_used = page[p].obj_used - 1
      /\ y \in AllocatorFields /\ y.page_used = pool[t].page_used
      /\ y.curr_page = pool[t].curr_page
      /\ pool[t].curr_page # NULL => page[pool[t].curr_page].obj_used < n
  BY FreedLists
<1>2. \/ /\ ~Empties(a, p, g)
         /\ pool' = [pool EXCEPT ![t] = a]
         /\ page' = With(p, g)
         /\ UNCHANGED buddyVars
      \/ /\ Empties(a, p, g) /\ Returns(a)
         /\ pool' = [pool EXCEPT ![t] = [Unlinked(a, p) EXCEPT !.page_used = @ - 1]]
         /\ page' = With(p, NoObjects)
         /\ buddy_block_free(p)
      \/ /\ Empties(a, p, g) /\ ~Returns(a)
         /\ pool' = [pool EXCEPT ![t] = [Unlinked(a, p) EXCEPT !.empty = Append(@, p)]]
         /\ page' = With(p, g)
         /\ UNCHANGED buddyVars
  BY DEF obj_free, Freed, Less, With, Cleared
<1>3. CASE page[p].obj_used = n
  <2>1. PICK b : b = [Unlinked(y, p) EXCEPT !.partial = Append(@, p)]
    OBVIOUS
  <2>2. a = b /\ g.obj_used # 0
    BY <1>1, <1>3, <2>1 DEF FullToPartial
  <2> HIDE DEF a, g, y
  <2>3. pool' = [pool EXCEPT ![t] = b] /\ page' = With(p, g) /\ UNCHANGED buddyVars
    BY <1>2, <2>2 DEF Empties
  <2>4. /\ b \in AllocatorFields /\ b.obj_used = pool[t].obj_used - 1
        /\ b.page_used = pool[t].page_used
        /\ Linked(t, b, With(p, Freed(addr)), SlabPages(t))
    BY <1>3, <2>1, FullToPartialLinked DEF y
  <2> QED
    BY <2>3, <2>4, KeptInv DEF g
<1>4. CASE page[p].obj_used # n
  <2>1. a = y
    <3> HIDE DEF g, y, t, p
    <3> QED
      BY <1>1, <1>4 DEF FullToPartial, n, a
  <2> HIDE DEF a, g, y
  <2>2. CASE ~Empties(a, p, g)
    <3>1. p = pool[t].curr_page \/ page[p].obj_used # 1
      BY <1>1, <2>1, <2>2 DEF Empties
    <3>2. PICK b : b = Less(pool[t])
      OBVIOUS
    <3>3. pool' = [pool EXCEPT ![t] = b] /\ page' = With(p, g) /\ UNCHANGED buddyVars
      BY <1>2, <2>1, <2>2, <3>2 DEF y
    <3>4. /\ b \in AllocatorFields /\ b.obj_used = pool[t].obj_used - 1
          /\ b.page_used = pool[t].page_used
          /\ Linked(t, b, With(p, Freed(addr)), SlabPages(t))
      BY <1>4, <3>1, <3>2, StaysLinked
    <3> QED
      BY <3>3, <3>4, KeptInv DEF g
  <2>3. CASE Empties(a, p, g) /\ Returns(a)
    <3>1. p # pool[t].curr_page /\ g.obj_used = 0
      BY <1>1, <2>1, <2>3 DEF Empties
    <3>2. LET b == [Unlinked(Less(pool[t]), p) EXCEPT !.page_used = @ - 1]
          IN  /\ b \in AllocatorFields /\ b.obj_used = pool[t].obj_used - 1
              /\ b.page_used = pool[t].page_used - 1
              /\ Linked(t, b, With(p, NoObjects), SlabPages(t) \ {p})
      BY <3>1, ReturnedLinked
    <3>3. PICK b : /\ b = [Unlinked(Less(pool[t]), p) EXCEPT !.page_used = @ - 1]
                   /\ b \in AllocatorFields /\ b.obj_used = pool[t].obj_used - 1
                   /\ b.page_used = pool[t].page_used - 1
                   /\ Linked(t, b, With(p, NoObjects), SlabPages(t) \ {p})
      BY <3>2
    <3>4. pool' = [pool EXCEPT ![t] = b] /\ page' = With(p, NoObjects) /\ buddy_block_free(p)
      BY <1>2, <2>1, <2>3, <3>3 DEF y
    <3> QED
      BY <3>1, <3>3, <3>4, ReturnedInv DEF g
  <2>4. CASE Empties(a, p, g) /\ ~Returns(a)
    <3>1. p # pool[t].curr_page /\ page[p].obj_used = 1
      BY <1>1, <2>1, <2>4 DEF Empties
    <3>2. pool[t].page_used < EmptyLimit
      <4>1. pool[t].page_used \in Nat /\ EmptyLimit \in Nat
        BY <1>1, AllocatorParts, KmallocBounds DEF AllocatorFields
      <4> QED
        BY <1>1, <2>1, <2>4, <4>1 DEF Returns
    <3>3. PICK b : b = [Unlinked(Less(pool[t]), p) EXCEPT !.empty = Append(@, p)]
      OBVIOUS
    <3>4. pool' = [pool EXCEPT ![t] = b] /\ page' = With(p, g) /\ UNCHANGED buddyVars
      BY <1>2, <2>1, <2>4, <3>3 DEF y
    <3>5. /\ b \in AllocatorFields /\ b.obj_used = pool[t].obj_used - 1
          /\ b.page_used = pool[t].page_used
          /\ Linked(t, b, With(p, Freed(addr)), SlabPages(t))
      BY <3>1, <3>2, <3>3, ToEmptyLinked
    <3> QED
      BY <3>4, <3>5, KeptInv DEF g
  <2> QED
    BY <2>2, <2>3, <2>4
<1> QED
  BY <1>3, <1>4

-----------------------------------------------------------------------------
(***************************************************************************)
(* kmalloc and kfree of whole blocks                                       *)
(***************************************************************************)
\* A step that leaves the pages and the allocators alone, but for a block at p.
LEMMA BlockInv ==
    ASSUME KmallocInv, NEW p \in Frames, UNCHANGED <<pool, page>>, BuddyInv',
           live' \in [Addresses -> Nat], fault' \in BOOLEAN,
           \A x \in Addresses : PHY_ADDR_TO_PFN(x) # p => live'[x] = live[x],
           held' \ {p} = held \ {p}, \A q \in held \ {p} : order'[q] = order[q],
           page[p].obj_alloc = NULL, PageInv(p)'
    PROVE  KmallocInv'
<1>1. pool' = pool /\ page' = page /\ TypeOK
  BY DEF KmallocInv
<1>2. TypeOK'
  BY <1>1 DEF TypeOK, BuddyInv
<1>3. ASSUME NEW q \in Frames, q # p PROVE PageInv(q)'
  <2>1. \A a \in PageAddresses(q) : live'[a] = live[a]
    BY <1>3, OnPage
  <2>2. (q \in held' <=> q \in held) /\ (q \in held => order'[q] = order[q])
    BY <1>3
  <2> QED
    BY <1>1, <1>3, <2>1, <2>2, OtherPage DEF KmallocInv
<1>4. ASSUME NEW u \in Tokens PROVE AllocatorInv(u)'
  BY <1>1, OtherAllocator DEF KmallocInv
<1>5. \A q \in Frames : PageInv(q)'
  BY <1>3
<1> QED
  BY <1>2, <1>4, <1>5 DEF KmallocInv

\* kmalloc of a block: the page was nobody's, and is a block of one caller.
LEMMA KmallocBlockInv ==
    ASSUME KmallocInv, NEW o \in Orders, buddy_block_alloc(o), ret' # NULL,
           live' = [live EXCEPT ![phy_addr(ret')] = @ + 1], UNCHANGED <<fault, pool, page>>
    PROVE  KmallocInv'
<1>1. BuddyInv /\ live \in [Addresses -> Nat] /\ fault \in BOOLEAN
  BY TypeParts DEF KmallocInv
<1>2. PICK p \in Frames : p = ret'
  BY <1>1, BlockAllocated
<1>3. /\ p \notin held /\ held' = held \cup {p}
      /\ \A q \in held : order'[q] = order[q] /\ BuddyInv'
  BY <1>1, <1>2, BlockAllocated
<1>4. BuddyInv'
  BY <1>1, BlockAllocated
<1>5. Unused(p, page[p], live)
  BY <1>3 DEF KmallocInv, PageInv
<1>6. /\ phy_addr(p) \in PageAddresses(p) /\ phy_addr(p) \in Addresses
      /\ PHY_ADDR_TO_PFN(phy_addr(p)) = p
  BY FirstAddress
<1>7. /\ live' \in [Addresses -> Nat] /\ live'[phy_addr(p)] = live[phy_addr(p)] + 1
      /\ \A x \in Addresses : x # phy_addr(p) => live'[x] = live[x]
  BY <1>1, <1>2, <1>6
<1>8. Block(p, page[p], live')
  <2>1. \A x \in PageAddresses(p) : x \in Addresses /\ live[x] = 0
    BY <1>5, OnPage DEF Unused
  <2> QED
    BY <1>5, <1>6, <1>7, <2>1 DEF Block, Unused
<1>9. PageInv(p)'
  BY <1>3, <1>8 DEF PageInv
<1>10. \A x \in Addresses : PHY_ADDR_TO_PFN(x) # p => live'[x] = live[x]
  BY <1>6, <1>7
<1>11. held' \ {p} = held \ {p} /\ page[p].obj_alloc = NULL
  BY <1>3, <1>5 DEF Unused
<1> QED
  BY <1>1, <1>3, <1>4, <1>7, <1>9, <1>10, <1>11, BlockInv

\* kfree of a block: obj_alloc is NULL, so the address is the start of a held block.
LEMMA KfreeBlockInv ==
    ASSUME KmallocInv, NEW addr \in Addresses, live[addr] > 0,
           page[PHY_ADDR_TO_PFN(addr)].obj_alloc = NULL,
           buddy_block_free(PHY_ADDR_TO_PFN(addr)), UNCHANGED <<fault, pool, page>>,
           live' = [live EXCEPT ![addr] = @ - 1]
    PROVE  KmallocInv' /\ PHY_ADDR_TO_PFN(addr) \in held
<1> DEFINE p == PHY_ADDR_TO_PFN(addr)
<1>1. BuddyInv /\ live \in [Addresses -> Nat] /\ fault \in BOOLEAN
  BY TypeParts DEF KmallocInv
<1>2. p \in Frames /\ addr \in PageAddresses(p)
  BY AddressPage
<1>3. p \in held /\ Block(p, page[p], live)
  <2>1. PageInv(p)
    BY <1>2 DEF KmallocInv
  <2> QED
    BY <1>2, <2>1, KmallocBounds DEF PageInv, Unused, Slab
<1>4. addr = phy_addr(p) /\ live[addr] = 1
  BY <1>2, <1>3 DEF Block
<1>5. /\ live' \in [Addresses -> Nat] /\ live'[addr] = 0
      /\ \A x \in Addresses : x # addr => live'[x] = live[x]
  BY <1>1, <1>4
<1>6. held' = held \ {p} /\ (\A q \in held \ {p} : order'[q] = order[q]) /\ BuddyInv'
  BY <1>1, <1>3, BlockFreed
<1> HIDE DEF p
<1>7. Unused(p, page[p], live')
  <2>1. \A x \in PageAddresses(p) : x \in Addresses /\ (x # addr => live[x] = 0)
    BY <1>2, <1>3, <1>4, OnPage DEF Block
  <2> QED
    BY <1>3, <1>5, <2>1 DEF Block, Unused
<1>8. PageInv(p)'
  BY <1>6, <1>7 DEF PageInv
<1>9. \A x \in Addresses : PHY_ADDR_TO_PFN(x) # p => live'[x] = live[x]
  BY <1>5 DEF p
<1>10. held' \ {p} = held \ {p} /\ page[p].obj_alloc = NULL
  BY <1>3, <1>6 DEF Block
<1>11. KmallocInv'
  BY <1>1, <1>2, <1>5, <1>6, <1>8, <1>9, <1>10, BlockInv
<1> QED
  BY <1>3, <1>11 DEF p

-----------------------------------------------------------------------------
(***************************************************************************)
(* Every step                                                              *)
(***************************************************************************)
\* kfree keeps the invariant, and asks the buddy system only for blocks it gave out.
LEMMA KfreeInv ==
    ASSUME KmallocInv, NEW addr \in Addresses, live[addr] > 0, kfree(addr)
    PROVE  KmallocInv' /\ (BuddyNext \/ UNCHANGED buddyVars)
<1> DEFINE p == PHY_ADDR_TO_PFN(addr)
<1>1. live' = [live EXCEPT ![addr] = @ - 1] /\ fault' = fault
  BY DEF kfree
<1>2. CASE page[p].obj_alloc # NULL
  <2>1. obj_free(addr)
    BY <1>2 DEF kfree
  <2>2. KmallocInv'
    BY <1>1, <1>2, <2>1, ObjFreeInv
  <2>3. page[p].obj_alloc \in Tokens /\ p \in SlabPages(page[p].obj_alloc)
    BY <1>1, <1>2, FreedPage
  <2>4. p \in held
    BY <2>3, OwnedPage
  <2>5. buddy_block_free(p) \/ UNCHANGED buddyVars
    BY <2>1 DEF obj_free
  <2> QED
    BY <2>2, <2>4, <2>5 DEF BuddyNext
<1>3. CASE page[p].obj_alloc = NULL
  <2>1. buddy_block_free(p) /\ UNCHANGED <<pool, page>>
    BY <1>3 DEF kfree
  <2>2. KmallocInv' /\ p \in held
    BY <1>1, <1>3, <2>1, KfreeBlockInv
  <2> QED
    BY <2>1, <2>2 DEF BuddyNext
<1> QED
  BY <1>2, <1>3

\* kmalloc keeps the invariant, and asks the buddy system only for orders it has.
LEMMA KmallocStepInv ==
    ASSUME KmallocInv, NEW size \in Sizes, kmalloc(size), ~(UNCHANGED vars)
    PROVE  KmallocInv' /\ (BuddyNext \/ UNCHANGED buddyVars)
<1>1. \/ \E t \in Tokens : obj_allocate(t)
      \/ \E o \in Orders :
           /\ buddy_block_alloc(o)
           /\ IF ret' = NULL
              THEN fault' = TRUE /\ UNCHANGED live
              ELSE live' = [live EXCEPT ![phy_addr(ret')] = @ + 1] /\ UNCHANGED fault
           /\ UNCHANGED <<pool, page>>
  BY DEF kmalloc
<1>2. ASSUME NEW t \in Tokens, obj_allocate(t)
      PROVE  KmallocInv' /\ (BuddyNext \/ UNCHANGED buddyVars)
  <2>1. KmallocInv'
    BY <1>2, ObjAllocateInv
  <2>2. buddy_block_alloc(0) \/ UNCHANGED buddyVars
    BY <1>2 DEF obj_allocate
  <2>3. 0 \in Orders
    BY BuddyBounds DEF Orders
  <2> QED
    BY <2>1, <2>2, <2>3 DEF BuddyNext
<1>3. ASSUME NEW o \in Orders, buddy_block_alloc(o), UNCHANGED <<pool, page>>,
             IF ret' = NULL
             THEN fault' = TRUE /\ UNCHANGED live
             ELSE live' = [live EXCEPT ![phy_addr(ret')] = @ + 1] /\ UNCHANGED fault
      PROVE  KmallocInv' /\ (BuddyNext \/ UNCHANGED buddyVars)
  <2>1. BuddyNext
    BY <1>3 DEF BuddyNext
  <2>2. CASE ret' = NULL
    BY <1>3, <2>1, <2>2, FaultInv
  <2>3. CASE ret' # NULL
    BY <1>3, <2>1, <2>3, KmallocBlockInv
  <2> QED
    BY <2>2, <2>3
<1> QED
  BY <1>1, <1>2, <1>3

\* Steps that change nothing.
LEMMA StutterInv == KmallocInv /\ UNCHANGED vars => KmallocInv'
<1> SUFFICES ASSUME KmallocInv, UNCHANGED vars PROVE KmallocInv'
  OBVIOUS
<1>1. /\ pool' = pool /\ page' = page /\ live' = live /\ fault' = fault
      /\ UNCHANGED buddyVars
  BY DEF vars
<1>2. held' = held /\ order' = order
  BY <1>1 DEF buddyVars
<1>3. BuddyInv'
  BY <1>1, NextBuddyInv DEF KmallocInv
<1>4. TypeOK'
  BY <1>1, <1>3 DEF KmallocInv, TypeOK, BuddyInv
<1>5. ASSUME NEW q \in Frames PROVE PageInv(q)'
  BY <1>1, <1>2, OtherPage DEF KmallocInv
<1>6. ASSUME NEW u \in Tokens PROVE AllocatorInv(u)'
  BY <1>1, OtherAllocator DEF KmallocInv
<1> QED
  BY <1>3, <1>4, <1>5, <1>6 DEF KmallocInv

\* Every step keeps the invariant and uses the buddy system legally.
LEMMA NextKmallocInv ==
    KmallocInv /\ [Next]_vars => KmallocInv' /\ [BuddyNext]_buddyVars
<1> SUFFICES ASSUME KmallocInv, [Next]_vars PROVE KmallocInv' /\ [BuddyNext]_buddyVars
  OBVIOUS
<1>1. CASE UNCHANGED vars
  <2>1. UNCHANGED buddyVars
    BY <1>1 DEF vars
  <2> QED
    BY <1>1, <2>1, StutterInv
<1>2. CASE ~(UNCHANGED vars)
  <2>1. \/ \E size \in Sizes : kmalloc(size)
        \/ \E addr \in Addresses : live[addr] > 0 /\ kfree(addr)
    BY <1>2 DEF Next, Undefined
  <2>2. KmallocInv' /\ (BuddyNext \/ UNCHANGED buddyVars)
    BY <1>2, <2>1, KmallocStepInv, KfreeInv
  <2> QED
    BY <2>2
<1> QED
  BY <1>1, <1>2

\* The inductive invariant holds in every reachable state.
LEMMA KmallocInvHolds == Spec => []KmallocInv
<1>1. KmallocInv /\ [Next]_vars => KmallocInv'
  BY NextKmallocInv
<1> QED
  BY <1>1, InitKmallocInv, PTL DEF Spec

-----------------------------------------------------------------------------
(***************************************************************************)
(* Theorems                                                                *)
(***************************************************************************)
\* The fields of the page structures and of the allocators keep their types: no
\* counter goes below zero, and free and curr_page are null or in the pool.
THEOREM KmallocTypeCorrect == Spec => []TypeOK
<1>1. KmallocInv => TypeOK
  BY DEF KmallocInv
<1> QED
  BY <1>1, KmallocInvHolds, PTL

\* obj_used of a page, obj_used and page_used of an allocator are what the callers
\* hold, the sum over its pages and the number of its pages: whatever was handed out
\* twice, the page obj_free returns to the buddy system is one nobody uses.
THEOREM KmallocCountsExact == Spec => []CountsExact
<1>1. KmallocInv => CountsExact
  <2> SUFFICES ASSUME KmallocInv, NEW t \in Tokens
               PROVE  /\ \A p \in SlabPages(t) : page[p].obj_used = LiveOn(p)
                      /\ pool[t].obj_used = UsedOf(t)
                      /\ pool[t].page_used = Cardinality(SlabPages(t))
    BY DEF CountsExact
  <2>1. Counted(pool[t], page, SlabPages(t))
    BY AllocatorParts
  <2>2. ASSUME NEW p \in SlabPages(t) PROVE page[p].obj_used = LiveOn(p)
    <3>1. Slab(p, page[p], live)
      BY OwnedPage
    <3> QED
      BY <3>1 DEF Slab, LiveOn
  <2> QED
    BY <2>1, <2>2 DEF Counted, UsedUnits, UsedOf
<1> QED
  BY <1>1, KmallocInvHolds, PTL

\* A page is once on list l if it is one of S, and not at all otherwise.
LEMMA OnceOn ==
    ASSUME NEW l, NEW S, Lists(l, S), NEW p
    PROVE  Cardinality({i \in DOMAIN l : l[i] = p}) = IF p \in S THEN 1 ELSE 0
<1> DEFINE I == {i \in DOMAIN l : l[i] = p}
<1>1. l \in Seq(Frames) /\ DOMAIN l = 1 .. Len(l) /\ Once(l) /\ ToSet(l) = S
  BY DEF Lists
<1>2. CASE p \in S
  <2>1. PICK i \in DOMAIN l : l[i] = p
    BY <1>1, <1>2 DEF ToSet
  <2>2. I = {i}
    BY <1>1, <2>1 DEF Once
  <2> HIDE DEF I
  <2> QED
    BY <1>2, <2>2, FS_Singleton DEF I
<1>3. CASE p \notin S
  <2>1. I = {}
    BY <1>1, <1>3 DEF ToSet
  <2> HIDE DEF I
  <2> QED
    BY <1>3, <2>1, FS_EmptySet DEF I
<1> QED
  BY <1>2, <1>3

\* Every page of an allocator is curr_page or on exactly one list, once, and on the
\* one its count of objects calls for: list_del of obj_free unlinks it from there.
\* obj_free never lets an allocator keep as many empty pages as its limit.
THEOREM KmallocListsMatch == Spec => []ListsMatchUse
<1>1. KmallocInv => ListsMatchUse
  <2>0. Frames # {}
    BY BuddyBounds DEF Frames
  <2> SUFFICES ASSUME KmallocInv, NEW t \in Tokens, NEW p \in Frames
               PROVE  LET a == pool[t]
                          n == page[p].obj_used
                          mine == p \in SlabPages(t)
                          idle == mine /\ p # a.curr_page
                          On(l) == Cardinality({i \in DOMAIN l : l[i] = p})
                      IN  /\ Len(a.empty) < EmptyLimit
                          /\ On(a.full) = IF idle /\ n = obj_per_page(t) THEN 1 ELSE 0
                          /\ On(a.partial) =
                               IF idle /\ n > 0 /\ n < obj_per_page(t) THEN 1 ELSE 0
                          /\ On(a.empty) = IF idle /\ n = 0 THEN 1 ELSE 0
                          /\ p = a.curr_page => mine /\ n < obj_per_page(t)
    BY <2>0 DEF ListsMatchUse
  <2> DEFINE a == pool[t]
             c == a.curr_page
             S == SlabPages(t)
             F == FullPages(t, c, S)
             P == PartialPages(t, c, S)
             E == EmptyPages(c, S)
  <2>1. Linked(t, a, page, S) /\ NULL \notin Frames
    BY AllocatorParts, BuddyBounds
  <2>2. Lists(a.full, F) /\ Lists(a.partial, P) /\ Lists(a.empty, E)
    <3>1. {q \in S : /\ q # c
                     /\ page[q].obj_used > 0
                     /\ page[q].obj_used < obj_per_page(t)} = P
      BY DEF PartialPages
    <3> QED
      BY <2>1, <3>1 DEF Linked, FullPages, EmptyPages
  <2>3. /\ Len(a.empty) < EmptyLimit
        /\ p = c => p \in S /\ page[p].obj_used < obj_per_page(t)
    BY <2>1 DEF Linked
  <2>4. /\ p \in F <=> p \in S /\ p # c /\ page[p].obj_used = obj_per_page(t)
        /\ p \in P <=> /\ p \in S /\ p # c
                       /\ page[p].obj_used > 0 /\ page[p].obj_used < obj_per_page(t)
        /\ p \in E <=> p \in S /\ p # c /\ page[p].obj_used = 0
    BY DEF FullPages, PartialPages, EmptyPages
  <2>5. /\ Cardinality({i \in DOMAIN a.full : a.full[i] = p}) = IF p \in F THEN 1 ELSE 0
        /\ Cardinality({i \in DOMAIN a.partial : a.partial[i] = p}) = IF p \in P THEN 1 ELSE 0
        /\ Cardinality({i \in DOMAIN a.empty : a.empty[i] = p}) = IF p \in E THEN 1 ELSE 0
    BY <2>2, OnceOn
  <2> HIDE DEF F, P, E, S
  <2> QED
    BY <2>3, <2>4, <2>5 DEF S
<1> QED
  BY <1>1, KmallocInvHolds, PTL

\* What the callers hold can be given back with kfree, and nothing is lost: an address
\* in use is an object on a page its allocator owns or the start of a block that the
\* buddy system counts as held, and every held block is one of the two.
THEOREM KmallocLiveOwned == Spec => []LiveIsOwned
<1>1. KmallocInv => LiveIsOwned
  <2> SUFFICES ASSUME KmallocInv PROVE LiveIsOwned
    OBVIOUS
  <2>1. ASSUME NEW x \in Addresses, live[x] > 0
        PROVE  LET p == PHY_ADDR_TO_PFN(x)
                   t == page[p].obj_alloc
               IN  /\ p \in held
                   /\ IF t = NULL THEN x = phy_addr(p)
                      ELSE order[p] = 0 /\ (x - phy_addr(p)) % objsize(t) = 0
    <3> DEFINE p == PHY_ADDR_TO_PFN(x)
               t == page[p].obj_alloc
    <3>1. p \in Frames /\ x \in PageAddresses(p)
      BY AddressPage
    <3>2. PageInv(p)
      BY <3>1 DEF KmallocInv
    <3>3. ~Unused(p, page[p], live)
      BY <2>1, <3>1 DEF Unused
    <3>4. CASE p \in held /\ Block(p, page[p], live)
      <4>1. x = phy_addr(p)
        BY <2>1, <3>1, <3>4 DEF Block
      <4> QED
        BY <3>4, <4>1 DEF Block
    <3>5. CASE p \in held /\ order[p] = 0 /\ Slab(p, page[p], live)
      <4>1. t \in Tokens /\ Object(t, p, x)
        BY <2>1, <3>1, <3>5 DEF Slab
      <4>2. (x - phy_addr(p)) % objsize(t) = 0 /\ t # NULL
        BY <3>1, <4>1, ObjectOnPage, KmallocBounds
      <4> QED
        BY <3>5, <4>2
    <3> QED
      BY <3>2, <3>3, <3>4, <3>5 DEF PageInv
  <2>2. ASSUME NEW p \in held, page[p].obj_alloc = NULL PROVE live[phy_addr(p)] = 1
    <3>1. p \in Frames
      BY DEF KmallocInv, BuddyInv, BuddyTypeOK
    <3>2. PageInv(p) /\ phy_addr(p) \in PageAddresses(p)
      BY <3>1, FirstAddress DEF KmallocInv
    <3>3. Block(p, page[p], live)
      BY <2>2, <3>2, KmallocBounds DEF PageInv, Slab
    <3> QED
      BY <3>2, <3>3 DEF Block
  <2> QED
    BY <2>1, <2>2 DEF LiveIsOwned
<1> QED
  BY <1>1, KmallocInvHolds, PTL

\* The buddy system below kmalloc and kfree is used as it must be: every step of the
\* object allocators is a legal call of it or none at all, and no page is given back
\* that is not held.  What is proved of BuddySpec holds below kmalloc.
THEOREM KmallocUsesBuddy == Spec => BuddySpec
<1>1. Init => BuddyInit
  BY DEF Init
<1>2. KmallocInv /\ [Next]_vars => [BuddyNext]_buddyVars
  BY NextKmallocInv
<1> QED
  BY <1>1, <1>2, KmallocInvHolds, PTL DEF Spec, BuddySpec

\* Below kmalloc and kfree the buddy system keeps the promise of mm.h, and every
\* page frame is in exactly one block.
THEOREM KmallocKeepsPromise == Spec => ImplementsPageAlloc /\ []Tiling
  BY KmallocUsesBuddy, BuddyKeepsPromise, BuddyTiling, PTL

-----------------------------------------------------------------------------
(***************************************************************************)
(* No two callers share memory                                             *)
(***************************************************************************)
\* A held block ends in the pool, and before the next one.
LEMMA HeldApart ==
    ASSUME BuddyInv, NEW p \in held
    PROVE  /\ p \in Frames /\ order[p] \in Nat
           /\ p + 2^order[p] - 1 \in Frames
           /\ \A q \in held : p < q => p + 2^order[p] <= q
<1> DEFINE o == order[p]
<1>1. Tiles(Blocks, order) /\ held \subseteq Blocks
  BY DEF BuddyInv, Blocks
<1>2. p \in Frames /\ p \in Nat /\ o \in Orders /\ o \in Nat /\ Aligned(p, o)
  BY <1>1, BuddyBounds DEF Tiles
<1>3. PICK w \in Nat \ {0} : w = 2^o
  BY <1>2, PowerType
<1>4. p + w - 1 \in Frames
  <2>1. p + w - 1 \in Span(p, o)
    BY <1>2, <1>3 DEF Span
  <2>2. p + w - 1 \in Nat /\ Together(p + w - 1, p, o)
    BY <1>2, <2>1, SpanTogether
  <2> QED
    BY <1>2, <2>2, FrameTogether
<1>5. ASSUME NEW q \in held, p < q PROVE p + w <= q
  <2>1. q \in Frames /\ q \in Nat /\ q \in Blocks /\ p \in Blocks
    BY <1>1, BuddyBounds DEF Tiles
  <2>2. SUFFICES ASSUME q < p + w PROVE FALSE
    BY <1>2, <2>1
  <2>3. q \in Span(p, o)
    BY <1>2, <1>3, <1>5, <2>1, <2>2 DEF Span
  <2>4. Together(q, p, o)
    BY <1>2, <2>3, SpanTogether
  <2>5. Together(q, q, order[q])
    BY DEF Together
  <2>6. p = q
    BY <1>1, <2>1, <2>4, <2>5 DEF Tiles
  <2> QED
    BY <1>2, <1>5, <2>6
<1> QED
  BY <1>2, <1>3, <1>4, <1>5

\* Where the address in use is, and how far it reaches.
LEMMA RoomInBlock ==
    ASSUME KmallocInv, NEW a \in Addresses, live[a] > 0
    PROVE  LET p == PHY_ADDR_TO_PFN(a)
           IN  /\ p \in held /\ a \in Int /\ Room(a) \in Nat \ {0}
               /\ a >= phy_addr(p) /\ a < phy_addr(p + 1)
               /\ a + Room(a) <= phy_addr(p + 2^order[p])
               /\ \A b \in Addresses : live[b] > 0 /\ PHY_ADDR_TO_PFN(b) = p /\ a < b
                                         => a + Room(a) <= b
<1> DEFINE p == PHY_ADDR_TO_PFN(a)
           t == page[p].obj_alloc
<1>1. PICK s \in Nat \ {0} : s = PAGE_SIZE
  BY KmallocBounds
<1>2. PICK l \in Nat : l = LOW_MEMORY
  BY KmallocBounds
<1>3. p \in Frames /\ p \in Nat /\ a \in PageAddresses(p)
  BY AddressPage, BuddyBounds
<1>4. PICK x \in Int : x = p * s
  BY <1>3
<1>5. phy_addr(p) = l + x /\ phy_addr(p + 1) = l + x + s /\ (p + 1) * s = x + s
  <2>1. (p + 1) * s = x + s
    BY <1>3, <1>4
  <2> QED
    BY <1>1, <1>2, <1>4, <2>1 DEF phy_addr
<1>6. a \in Int /\ a >= l + x /\ a < l + x + s
  <2>1. a \in l + x .. l + x + s - 1
    BY <1>1, <1>3, <1>5 DEF PageAddresses
  <2> QED
    BY <2>1
<1>7. \A b \in Addresses : PHY_ADDR_TO_PFN(b) = p => b \in PageAddresses(p)
  BY AddressPage
<1>8. PageInv(p) /\ ~Unused(p, page[p], live)
  BY <1>3 DEF KmallocInv, Unused
<1> HIDE DEF p
<1>9. CASE p \in held /\ Block(p, page[p], live)
  <2>1. t = NULL /\ a = l + x
    BY <1>3, <1>5, <1>9 DEF Block
  <2>2. order[p] \in Nat
    BY <1>9, HeldApart DEF KmallocInv
  <2>3. PICK w \in Nat \ {0} : w = 2^order[p]
    BY <2>2, PowerType
  <2>4. Room(a) = w * s
    BY <1>1, <2>1, <2>3 DEF Room, p
  <2>5. (p + w) * s = x + w * s /\ w * s \in Nat \ {0}
    BY <1>3, <1>4
  <2>6. a + Room(a) = phy_addr(p + w)
    BY <1>1, <1>2, <2>1, <2>4, <2>5 DEF phy_addr
  <2>7. phy_addr(p + w) \in Int
    BY <1>1, <1>2, <1>4, <2>5 DEF phy_addr
  <2>8. ASSUME NEW b \in Addresses, live[b] > 0, PHY_ADDR_TO_PFN(b) = p, a < b PROVE FALSE
    <3>1. b \in PageAddresses(p)
      BY <1>7, <2>8
    <3>2. b = l + x
      BY <1>5, <1>9, <2>8, <3>1 DEF Block
    <3> QED
      BY <2>1, <2>8, <3>2
  <2> QED
    BY <1>5, <1>6, <1>9, <2>3, <2>4, <2>5, <2>6, <2>7, <2>8 DEF p
<1>10. CASE p \in held /\ order[p] = 0 /\ Slab(p, page[p], live)
  <2>1. t \in Tokens /\ Object(t, p, a)
    BY <1>3, <1>10 DEF Slab
  <2>2. PICK z \in Nat \ {0} : z = objsize(t)
    BY <2>1, ObjectSizes
  <2>3. PICK n \in Nat : n = obj_per_page(t) /\ s = z * n
    BY <1>1, <2>1, <2>2, ObjectSizes
  <2>4. PICK i \in 0 .. n - 1 : a = l + x + i * z
    BY <1>5, <2>1, <2>2, <2>3 DEF Object
  <2>5. Room(a) = z
    BY <2>1, <2>2, KmallocBounds DEF Room, p
  <2>6. i * z = z * i /\ z * i \in Int /\ z * (i + 1) = z * i + z /\ z * n \in Int
    BY <2>4
  <2>7. z * (i + 1) <= z * n
    BY <2>4, ProductOrder
  <2>8. a + z <= l + x + s
    BY <2>3, <2>4, <2>6, <2>7
  <2>9. p + 2^order[p] = p + 1
    BY <1>10, PowerZero
  <2>10. ASSUME NEW b \in Addresses, live[b] > 0, PHY_ADDR_TO_PFN(b) = p, a < b
         PROVE  a + z <= b
    <3>1. Object(t, p, b)
      BY <1>7, <1>10, <2>10 DEF Slab
    <3>2. PICK j \in 0 .. n - 1 : b = l + x + j * z
      BY <1>5, <2>2, <2>3, <3>1 DEF Object
    <3>3. j * z = z * j /\ z * j \in Int
      BY <3>2
    <3>4. i < j
      <4>1. j <= i => z * j <= z * i
        BY <2>4, <3>2, ProductOrder
      <4> QED
        BY <2>4, <2>6, <2>10, <3>2, <3>3, <4>1
    <3>5. z * (i + 1) <= z * j
      BY <2>4, <3>2, <3>4, ProductOrder
    <3> QED
      BY <2>4, <2>6, <3>2, <3>3, <3>5
  <2> QED
    BY <1>5, <1>6, <1>10, <2>5, <2>8, <2>9, <2>10 DEF p
<1> QED
  BY <1>8, <1>9, <1>10 DEF PageInv

\* Two different addresses in use never share a byte, whatever mixture of objects,
\* pages and blocks they are: the object sizes fit the pages, the pages of the
\* allocators are held blocks, and held blocks do not overlap.
THEOREM KmallocDisjoint == Spec => []MemoryDisjoint
<1>1. KmallocInv => MemoryDisjoint
  <2> SUFFICES ASSUME KmallocInv, NEW a \in Addresses, NEW b \in Addresses,
                      live[a] > 0, live[b] > 0
               PROVE  /\ a < b => a + Room(a) <= b
                      /\ a + Room(a) - 1 \in Addresses
    BY DEF MemoryDisjoint
  <2> DEFINE p == PHY_ADDR_TO_PFN(a)
             q == PHY_ADDR_TO_PFN(b)
  <2>1. /\ p \in held /\ a \in Int /\ Room(a) \in Nat \ {0}
        /\ a >= phy_addr(p) /\ a < phy_addr(p + 1)
        /\ a + Room(a) <= phy_addr(p + 2^order[p])
        /\ q = p /\ a < b => a + Room(a) <= b
    BY RoomInBlock
  <2>2. /\ q \in held /\ b \in Int /\ b >= phy_addr(q) /\ b < phy_addr(q + 1)
    BY RoomInBlock
  <2>3. /\ p \in Nat /\ q \in Nat /\ order[p] \in Nat /\ p + 2^order[p] - 1 \in Frames
        /\ p < q => p + 2^order[p] <= q
    BY <2>1, <2>2, HeldApart, BuddyBounds DEF KmallocInv
  <2>4. PICK w \in Nat \ {0} : w = 2^order[p]
    BY <2>3, PowerType
  <2>5. ASSUME NEW x \in Int, NEW y \in Int, x <= y
        PROVE  phy_addr(x) <= phy_addr(y) /\ phy_addr(x) \in Int /\ phy_addr(y) \in Int
    <3>1. PICK s \in Nat \ {0} : s = PAGE_SIZE
      BY KmallocBounds
    <3>2. PICK l \in Nat : l = LOW_MEMORY
      BY KmallocBounds
    <3>3. s * x <= s * y
      BY <2>5, ProductOrder
    <3>4. x * s = s * x /\ y * s = s * y /\ s * x \in Int /\ s * y \in Int
      OBVIOUS
    <3> QED
      BY <3>1, <3>2, <3>3, <3>4 DEF phy_addr
  <2> HIDE DEF p, q
  <2>6. ASSUME a < b PROVE a + Room(a) <= b
    <3>1. CASE p < q
      <4>1. p + w <= q
        BY <2>3, <2>4, <3>1
      <4>2. phy_addr(p + w) <= phy_addr(q) /\ phy_addr(p + w) \in Int /\ phy_addr(q) \in Int
        BY <2>3, <4>1, <2>5
      <4> QED
        BY <2>1, <2>2, <2>4, <4>2
    <3>2. CASE q < p
      <4>1. phy_addr(q + 1) <= phy_addr(p) /\ phy_addr(q + 1) \in Int /\ phy_addr(p) \in Int
        BY <2>3, <2>5, <3>2
      <4> QED
        BY <2>1, <2>2, <2>6, <4>1
    <3> QED
      BY <2>1, <2>3, <2>6, <3>1, <3>2
  <2>7. a + Room(a) - 1 \in Addresses
    <3>1. PICK n \in Nat : n = NrBlocks * 2^MAX_ORDER
      BY BuddyBounds
    <3>2. p + w <= n
      BY <2>3, <2>4, <3>1 DEF Frames
    <3>3. phy_addr(p + w) <= phy_addr(n) /\ phy_addr(p + w) \in Int /\ phy_addr(n) \in Int
      BY <2>3, <2>5, <3>2
    <3>4. PICK s \in Nat \ {0} : s = PAGE_SIZE
      BY KmallocBounds
    <3>5. a + Room(a) - 1 <= phy_addr(n) - 1 /\ a <= a + Room(a) - 1 /\ a + Room(a) - 1 \in Int
      BY <2>1, <2>4, <3>3
    <3>6. LOW_MEMORY \in Nat /\ a >= LOW_MEMORY
      BY KmallocBounds DEF Addresses
    <3>7. PICK h \in Int : h = phy_addr(n)
      BY <3>3
    <3>8. Addresses = LOW_MEMORY .. h - 1
      <4>1. PICK m \in Int : m = n * s
        BY <3>4
      <4>2. h = LOW_MEMORY + m
        BY <3>4, <3>7, <4>1 DEF phy_addr
      <4>3. Addresses = LOW_MEMORY .. LOW_MEMORY + m - 1
        BY <3>1, <3>4, <4>1 DEF Addresses
      <4> QED
        BY <3>6, <4>2, <4>3
    <3>9. PICK e \in Int : e = a + Room(a) - 1
      BY <3>5
    <3>10. e <= h - 1 /\ e >= LOW_MEMORY
      BY <2>1, <3>5, <3>6, <3>7, <3>9
    <3> QED
      BY <3>6, <3>8, <3>9, <3>10
  <2> QED
    BY <2>6, <2>7
<1> QED
  BY <1>1, KmallocInvHolds, PTL

=============================================================================
