------------------------------- MODULE Kmalloc -------------------------------
(***************************************************************************)
(* The object allocators of src/mm.c and kmalloc/kfree on top of them and  *)
(* of the buddy system.  Addresses are numbers.                            *)
(*                                                                         *)
(* A page that has objects in it is on one of the lists of its allocator,  *)
(* or is the allocator's curr_page.  What a freed object holds in its      *)
(* first 8 bytes (the next free object) is written by obj_free and read by *)
(* obj_allocate into a local variable only, so it is left out.             *)
(***************************************************************************)
EXTENDS Buddy

CONSTANTS
    PAGE_SHIFT,
    LOW_MEMORY,              \* physical address of page frame 0
    MIN_KMALLOC_ORDER,
    MAX_KMALLOC_ORDER,
    EmptyLimit,              \* pages at which obj_free returns empty ones (10)
    Sizes                    \* the sizes kmalloc is called with

ASSUME KmallocAssumption ==
    /\ PAGE_SHIFT \in Nat
    /\ LOW_MEMORY \in Nat
    /\ MIN_KMALLOC_ORDER \in Nat
    /\ MAX_KMALLOC_ORDER \in MIN_KMALLOC_ORDER .. PAGE_SHIFT - 1
    /\ EmptyLimit \in Nat \ {0}
    /\ Sizes \subseteq Int

VARIABLES
    pool,          \* obj_alloc_pool[]
    page,          \* the object fields of bookkeep[]
    live,          \* how many callers hold an address kmalloc returned
    fault          \* a null page was dereferenced

vars == <<pool, page, live, fault, buddyVars>>

Tokens == 0 .. MAX_KMALLOC_ORDER - MIN_KMALLOC_ORDER
PAGE_SIZE == 2^PAGE_SHIFT
Addresses == LOW_MEMORY .. LOW_MEMORY + NrBlocks * 2^MAX_ORDER * PAGE_SIZE - 1

objsize(token) == 2^(token + MIN_KMALLOC_ORDER)
obj_per_page(token) == PAGE_SIZE \div objsize(token)

phy_addr(p) == LOW_MEMORY + p * PAGE_SIZE
PHY_ADDR_TO_PFN(addr) == (addr - LOW_MEMORY) \div PAGE_SIZE

\* __init_obj_alloc
EmptyAllocator ==
    [full |-> <<>>, partial |-> <<>>, empty |-> <<>>, curr_page |-> NULL,
     obj_used |-> 0, page_used |-> 0]

\* __init_obj_page; bookkeep[] is zero before.
NoObjects == [obj_used |-> 0, obj_alloc |-> NULL, free |-> NULL]

\* mm_init
Init ==
    /\ BuddyInit
    /\ pool = [t \in Tokens |-> EmptyAllocator]
    /\ page = [p \in Frames |-> NoObjects]
    /\ live = [a \in Addresses |-> 0]
    /\ fault = FALSE

-----------------------------------------------------------------------------
\* Mutants: the objects are counted from 1; the count is not scaled by the size.
BumpFromOne(t, p, g) == phy_addr(p) + (g.obj_used + 1) * objsize(t)
BumpPacked(t, p, g) == phy_addr(p) + g.obj_used

\* The next object of a page none of whose objects has been freed.
Bump(t, p, g) == phy_addr(p) + g.obj_used * objsize(t)

\* Mutant: a full page stays curr_page.
NeverFull(t, used1) == FALSE

PageFull(t, used1) == obj_per_page(t) = used1

(***************************************************************************)
(* The second half of obj_allocate: allocator t, as a, hands out an object *)
(* of page p, whose object fields are g.  page->free is not advanced: only *)
(* the local obj_freelist is.                                              *)
(***************************************************************************)
HandOut(t, a, p, g) ==
    LET addr == IF g.free # NULL THEN g.free ELSE Bump(t, p, g)
        full == PageFull(t, g.obj_used + 1)
    IN  /\ pool' = [pool EXCEPT ![t] =
                      [a EXCEPT !.obj_used = @ + 1,
                                !.curr_page = IF full THEN NULL ELSE p,
                                !.full = IF full THEN Append(@, p) ELSE @]]
        /\ page' = [page EXCEPT ![p] = [g EXCEPT !.obj_used = @ + 1]]
        /\ live' = [live EXCEPT ![addr] = @ + 1]
        /\ UNCHANGED fault

\* The first half: curr_page, or else a partial page, an empty one, a new one.
obj_allocate(t) ==
    LET a == pool[t] IN
    \/ /\ a.curr_page # NULL
       /\ HandOut(t, a, a.curr_page, page[a.curr_page])
       /\ UNCHANGED buddyVars
    \/ /\ a.curr_page = NULL /\ a.partial # <<>>
       /\ LET p == Head(a.partial) IN
            HandOut(t, [a EXCEPT !.partial = Tail(@)], p, page[p])
       /\ UNCHANGED buddyVars
    \/ /\ a.curr_page = NULL /\ a.partial = <<>> /\ a.empty # <<>>
       /\ LET p == Head(a.empty) IN
            HandOut(t, [a EXCEPT !.empty = Tail(@)], p, page[p])
       /\ UNCHANGED buddyVars
    \/ /\ a.curr_page = NULL /\ a.partial = <<>> /\ a.empty = <<>>
       /\ buddy_block_alloc(0)
       /\ IF ret' = NULL
          THEN fault' = TRUE /\ UNCHANGED <<pool, page, live>>
          ELSE HandOut(t, [a EXCEPT !.page_used = @ + 1], ret',
                       [NoObjects EXCEPT !.obj_alloc = t])

-----------------------------------------------------------------------------
\* list_del: page p is taken off the list of allocator a it is on.
Unlinked(a, p) ==
    [a EXCEPT !.full = RemoveFirst(@, p), !.partial = RemoveFirst(@, p),
              !.empty = RemoveFirst(@, p)]

\* Whether an empty page goes back to the buddy system.
Returns(a) == a.page_used >= EmptyLimit

\* Mutants: the test for curr_page is missing; obj_alloc is not reset.
EmptiesCurrent(a, p, g) == g.obj_used = 0
KeepsAllocator(g) == [NoObjects EXCEPT !.obj_alloc = g.obj_alloc]

\* Whether page p leaves the partial list: it is empty and not in use by a.
Empties(a, p, g) == g.obj_used = 0 /\ a.curr_page # p

\* The object fields of a page that is returned.
Cleared(g) == NoObjects

\* From full to partial.
FullToPartial(t, a, p, g) ==
    IF obj_per_page(t) - 1 = g.obj_used
    THEN [Unlinked(a, p) EXCEPT !.partial = Append(@, p)]
    ELSE a

obj_free(addr) ==
    LET p == PHY_ADDR_TO_PFN(addr)
        t == page[p].obj_alloc
        g == [page[p] EXCEPT !.free = addr, !.obj_used = @ - 1]
        a == FullToPartial(t, [pool[t] EXCEPT !.obj_used = @ - 1], p, g)
    IN  \/ /\ ~Empties(a, p, g)
           /\ pool' = [pool EXCEPT ![t] = a]
           /\ page' = [page EXCEPT ![p] = g]
           /\ UNCHANGED buddyVars
        \/ /\ Empties(a, p, g) /\ Returns(a)
           /\ pool' = [pool EXCEPT ![t] = [Unlinked(a, p) EXCEPT !.page_used = @ - 1]]
           /\ page' = [page EXCEPT ![p] = Cleared(g)]
           /\ buddy_block_free(p)
        \/ /\ Empties(a, p, g) /\ ~Returns(a)
           /\ pool' = [pool EXCEPT ![t] =
                         [Unlinked(a, p) EXCEPT !.empty = Append(@, p)]]
           /\ page' = [page EXCEPT ![p] = g]
           /\ UNCHANGED buddyVars

-----------------------------------------------------------------------------
\* The allocator kmalloc uses for a size: the smallest one that fits.
Class(size, t) ==
    size <= objsize(t) /\ \A u \in Tokens : size <= objsize(u) => t <= u

Small(size) == size <= 2^MAX_KMALLOC_ORDER

\* The order kmalloc asks the buddy system for.
BlockOrder(size, o) ==
    /\ ~Small(size)
    /\ size <= 2^(o + PAGE_SHIFT)
    /\ \A k \in Orders : size <= 2^(k + PAGE_SHIFT) => o <= k

kmalloc(size) ==
    \/ \E t \in Tokens : Class(size, t) /\ obj_allocate(t)
    \/ \E o \in Orders :
         /\ BlockOrder(size, o)
         /\ buddy_block_alloc(o)
         /\ IF ret' = NULL
            THEN fault' = TRUE /\ UNCHANGED live
            ELSE live' = [live EXCEPT ![phy_addr(ret')] = @ + 1] /\ UNCHANGED fault
         /\ UNCHANGED <<pool, page>>
    \/ \* too large: NULL
       /\ ~Small(size) /\ \A o \in Orders : ~BlockOrder(size, o)
       /\ UNCHANGED vars

kfree(addr) ==
    /\ IF page[PHY_ADDR_TO_PFN(addr)].obj_alloc # NULL
       THEN obj_free(addr)
       ELSE buddy_block_free(PHY_ADDR_TO_PFN(addr)) /\ UNCHANGED <<pool, page>>
    /\ live' = [live EXCEPT ![addr] = @ - 1]
    /\ UNCHANGED fault

\* Nothing is said about what happens after a null page was dereferenced.
Undefined == fault /\ UNCHANGED vars

Next ==
    \/ \E size \in Sizes : ~fault /\ kmalloc(size)
    \/ \E addr \in Addresses : ~fault /\ live[addr] > 0 /\ kfree(addr)
    \/ Undefined

Spec == Init /\ [][Next]_vars

-----------------------------------------------------------------------------
(***************************************************************************)
(* Properties                                                              *)
(***************************************************************************)
SlabPages(t) == {p \in Frames : page[p].obj_alloc = t}

\* f[x] different units for each x in S: as many as the sum of f over S.
Units(f, S) == UNION {{x} \X (1 .. f[x]) : x \in S}

PageAddresses(p) == phy_addr(p) .. phy_addr(p) + PAGE_SIZE - 1

\* How many objects of page p the callers hold.
LiveOn(p) == Cardinality(Units(live, PageAddresses(p)))

\* How many objects of its pages allocator t has handed out.
UsedOf(t) ==
    Cardinality(Units([p \in Frames |-> page[p].obj_used], SlabPages(t)))

\* Every variable keeps its type.
TypeOK ==
    /\ BuddyTypeOK
    /\ pool \in [Tokens -> [full : Seq(Frames), partial : Seq(Frames),
                            empty : Seq(Frames), curr_page : Frames \cup {NULL},
                            obj_used : Nat, page_used : Nat]]
    /\ page \in [Frames -> [obj_used : Nat, obj_alloc : Tokens \cup {NULL},
                            free : Addresses \cup {NULL}]]
    /\ live \in [Addresses -> Nat]
    /\ fault \in BOOLEAN

\* A page an allocator owns is either its curr_page, with room in it, or exactly
\* once on the list its number of used objects calls for; so obj_free always
\* finds a page of a full, partial or empty list where it unlinks it.  Fewer
\* pages than the limit of obj_free are kept empty.
ListsMatchUse ==
    \A t \in Tokens :
      LET a == pool[t]
          On(l, p) == Cardinality({i \in DOMAIN l : l[i] = p})
      IN  /\ Len(a.empty) < EmptyLimit
          /\ \A p \in Frames :
               LET n == page[p].obj_used
                   mine == p \in SlabPages(t)
                   idle == mine /\ p # a.curr_page
               IN  /\ On(a.full, p) = IF idle /\ n = obj_per_page(t) THEN 1 ELSE 0
                   /\ On(a.partial, p) =
                        IF idle /\ n > 0 /\ n < obj_per_page(t) THEN 1 ELSE 0
                   /\ On(a.empty, p) = IF idle /\ n = 0 THEN 1 ELSE 0
                   /\ p = a.curr_page => mine /\ n < obj_per_page(t)

\* The counters are exact: obj_used of a page is what the callers hold of it, so
\* that a page given back as empty is not in use; obj_used and page_used of an
\* allocator are the sums over its pages.
CountsExact ==
    \A t \in Tokens :
      /\ \A p \in SlabPages(t) : page[p].obj_used = LiveOn(p)
      /\ pool[t].obj_used = UsedOf(t)
      /\ pool[t].page_used = Cardinality(SlabPages(t))

\* What the callers hold can be given back, and everything that is taken will be:
\* an address in use is an object of a page its allocator still owns, inside
\* that page and at a multiple of its size, or the start of a block of the buddy
\* system, and kfree tells the two apart by obj_alloc of the page; a block that
\* is taken belongs to an allocator or to a caller.
LiveIsOwned ==
    /\ \A a \in Addresses : live[a] > 0 =>
         LET p == PHY_ADDR_TO_PFN(a)
             t == page[p].obj_alloc
         IN  /\ p \in held
             /\ IF t = NULL THEN a = phy_addr(p)
                ELSE /\ order[p] = 0
                     /\ (a - phy_addr(p)) % objsize(t) = 0
    /\ \A p \in held : page[p].obj_alloc = NULL => live[phy_addr(p)] = 1

\* The bytes from address a on that are its caller's: an object, or a block of pages.
Room(a) ==
    LET p == PHY_ADDR_TO_PFN(a)
        t == page[p].obj_alloc
    IN  IF t = NULL THEN 2^order[p] * PAGE_SIZE ELSE objsize(t)

\* Two different addresses in use, whatever mixture of objects, pages and blocks
\* they are, never share a byte, and none of them reaches past the end of the pool.
MemoryDisjoint ==
    \A a, b \in {x \in Addresses : live[x] > 0} :
      /\ a < b => a + Room(a) <= b
      /\ a + Room(a) - 1 \in Addresses

\* kmalloc never returns an address that is already in use (mm.c:258: the free
\* list moves to the "next address of free object" when one is handed out).
ObjectsDistinct == \A a \in Addresses : live[a] <= 1
=============================================================================
