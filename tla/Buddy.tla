-------------------------------- MODULE Buddy --------------------------------
(***************************************************************************)
(* The buddy system of src/mm.c: page_init, free_area_init,                *)
(* buddy_block_alloc and buddy_block_free on bookkeep[] and free_area[].   *)
(* A page frame is its number; bookkeep[i].phy_addr is a function of it.   *)
(***************************************************************************)
EXTENDS Integers, Sequences, FiniteSets, SequencesExt

CONSTANTS
    MAX_ORDER,
    NrBlocks,      \* blocks of order MAX_ORDER in the pool
    NULL           \* the null pointer, no page frame number

ASSUME BuddyAssumption ==
    /\ MAX_ORDER \in Nat
    /\ NrBlocks \in Nat \ {0}
    /\ NULL \notin Int

VARIABLES
    order,         \* bookkeep[].order
    used,          \* bookkeep[].used
    freelist,      \* free_area[].freelist, as sequences of page frames
    nr_free,       \* free_area[].nr_free
    held,          \* the blocks that callers hold (first page frames)
    ret            \* what the last buddy_block_alloc returned

buddyVars == <<order, used, freelist, nr_free, held, ret>>

Orders == 0 .. MAX_ORDER
Frames == 0 .. NrBlocks * 2^MAX_ORDER - 1

MaxBlocks == [i \in 1 .. NrBlocks |-> (i - 1) * 2^MAX_ORDER]

\* page_init and free_area_init
BuddyInit ==
    /\ order = [p \in Frames |-> IF p % 2^MAX_ORDER = 0 THEN MAX_ORDER ELSE -1]
    /\ used = [p \in Frames |-> "Free"]
    /\ freelist = [k \in Orders |-> IF k = MAX_ORDER THEN MaxBlocks ELSE <<>>]
    /\ nr_free = [k \in Orders |-> IF k = MAX_ORDER THEN NrBlocks ELSE 0]
    /\ held = {}
    /\ ret = NULL

-----------------------------------------------------------------------------
\* Bit k of p is flipped.
FIND_BUDDY_PFN(p, k) == IF (p \div 2^k) % 2 = 0 THEN p + 2^k ELSE p - 2^k

\* Where block p starts once it has been merged up to order k: FIND_LBUDDY_PFN
\* has cleared the bits below k.
Merged(p, k) == p - (p % 2^k)

-----------------------------------------------------------------------------
(***************************************************************************)
(* buddy_block_alloc(o) takes the head of the first list, from o up, that  *)
(* has a block, and gives back the upper half of it, of the lower half and *)
(* so on down to order o.                                                  *)
(***************************************************************************)
\* The half that is put back in free_area[k] when block t is cut down.
Split(t, k) == FIND_BUDDY_PFN(t, k)

\* The order of the block that is cut.
Source(o, i) ==
    /\ o <= i
    /\ freelist[i] # <<>>
    /\ \A j \in o .. i - 1 : freelist[j] = <<>>

\* The bookkeeping of a successful allocation: block t of order i is cut to o.
Take(o, i, t) ==
    /\ freelist' = [k \in Orders |->
                      IF k = i THEN Tail(freelist[k])
                      ELSE IF k \in o .. i - 1 THEN Append(freelist[k], Split(t, k))
                      ELSE freelist[k]]
    /\ nr_free' = [k \in Orders |->
                     IF k = i THEN nr_free[k] - 1
                     ELSE IF k \in o .. i - 1 THEN nr_free[k] + 1
                     ELSE nr_free[k]]
    /\ order' = [p \in Frames |->
                   IF p = t THEN o
                   ELSE IF \E k \in o .. i - 1 : p = Split(t, k)
                   THEN CHOOSE k \in o .. i - 1 : p = Split(t, k)
                   ELSE order[p]]
    /\ used' = [p \in Frames |->
                  IF p = t THEN "Taken"
                  ELSE IF \E k \in o .. i - 1 : p = Split(t, k) THEN "Free"
                  ELSE used[p]]

Exhausted(o) == \A k \in o .. MAX_ORDER : freelist[k] = <<>>

buddy_block_alloc(o) ==
    \/ \E i \in Orders :
         /\ Source(o, i)
         /\ LET t == Head(freelist[i]) IN
              Take(o, i, t) /\ held' = held \cup {t} /\ ret' = t
    \/ /\ Exhausted(o)
       /\ ret' = NULL
       /\ UNCHANGED <<order, used, freelist, nr_free, held>>

-----------------------------------------------------------------------------
(***************************************************************************)
(* buddy_block_free(p) merges the block with its buddy as long as that is  *)
(* a free block of the same order.                                         *)
(***************************************************************************)
\* The buddy that is looked at when the block has grown to order k.
BuddyAt(p, k) == FIND_BUDDY_PFN(Merged(p, k), k)

\* Mutants: the buddy's order is not compared; a block of order MAX_ORDER - 1 is
\* not merged.
MergesAnyOrder(p, k) == k < MAX_ORDER /\ used[BuddyAt(p, k)] = "Free"
MergesBelowTop(p, k) ==
    /\ k + 1 < MAX_ORDER
    /\ order[BuddyAt(p, k)] = k
    /\ used[BuddyAt(p, k)] = "Free"

\* The condition of the merge loop, at order k.
Merges(p, k) ==
    /\ k < MAX_ORDER
    /\ order[BuddyAt(p, k)] = k
    /\ used[BuddyAt(p, k)] = "Free"

\* The order at which the loop ends.
Top(p, m) ==
    /\ order[p] <= m
    /\ ~Merges(p, m)
    /\ \A k \in order[p] .. m - 1 : Merges(p, k)

\* Mutant: pop_block_from_free_area does not count.
PopsUncounted(p, k) == nr_free[k]

\* free_area[k].nr_free after the buddy at order k has been popped.
Popped(p, k) == nr_free[k] - 1

\* The page structures when the loop has ended at order m: a popped buddy is taken,
\* and each block it went through keeps the order it had there.
MergedPages(p, m) ==
    /\ order' = [q \in Frames |->
                   IF q = Merged(p, m) THEN m
                   ELSE IF \E k \in order[p] .. m - 1 : q = Merged(p, k)
                   THEN CHOOSE k \in order[p] .. m - 1 :
                          q = Merged(p, k) /\ q # Merged(p, k + 1)
                   ELSE order[q]]
    /\ used' = [q \in Frames |->
                  IF q = Merged(p, m) THEN "Free"
                  ELSE IF \E k \in order[p] .. m - 1 : q = BuddyAt(p, k)
                  THEN "Taken"
                  ELSE used[q]]

buddy_block_free(p) ==
    \E m \in Orders :
      /\ Top(p, m)
      /\ freelist' = [k \in Orders |->
                        IF k = m THEN Append(freelist[k], Merged(p, m))
                        ELSE IF k \in order[p] .. m - 1
                        THEN RemoveFirst(freelist[k], BuddyAt(p, k))
                        ELSE freelist[k]]
      /\ nr_free' = [k \in Orders |->
                       IF k = m THEN nr_free[k] + 1
                       ELSE IF k \in order[p] .. m - 1 THEN Popped(p, k)
                       ELSE nr_free[k]]
      /\ MergedPages(p, m)
      /\ held' = held \ {p}
      /\ UNCHANGED ret

BuddyNext ==
    \/ \E o \in Orders : buddy_block_alloc(o)
    \/ \E p \in held : buddy_block_free(p)

BuddySpec == BuddyInit /\ [][BuddyNext]_buddyVars

-----------------------------------------------------------------------------
Span(p, o) == p .. p + 2^o - 1

HeldFrames == UNION {Span(p, order[p]) : p \in held}

Listed(k) == ToSet(freelist[k])

\* Every variable keeps its type.
BuddyTypeOK ==
    /\ order \in [Frames -> -1 .. MAX_ORDER]
    /\ used \in [Frames -> {"Free", "Taken"}]
    /\ freelist \in [Orders -> Seq(Frames)]
    /\ nr_free \in [Orders -> Int]
    /\ held \subseteq Frames
    /\ ret \in Frames \cup {NULL}

\* The places on the free lists, and those whose block holds frame f.
Places == UNION {{k} \X DOMAIN freelist[k] : k \in Orders}

PlacesOf(f) == {e \in Places : f \in Span(freelist[e[1]][e[2]], e[1])}

\* The held blocks and the blocks on the free lists cut the whole pool into
\* pieces: each page frame is in one held block and on no list, or at one place
\* of one list and in no held block, so that no frame is handed out twice, none
\* is handed out while it is free, and none is lost, whatever was split and
\* merged on the way.
Tiling ==
    \A f \in Frames :
      Cardinality({p \in held : f \in Span(p, order[p])}) + Cardinality(PlacesOf(f)) = 1

\* The merge loop leaves no two free buddies of the same order apart: memory is
\* never fragmented more than the held blocks make it.
Coalesced ==
    \A k \in 0 .. MAX_ORDER - 1 : \A p \in Listed(k) :
        FIND_BUDDY_PFN(p, k) \notin Listed(k)

\* A page frame looks like a free block of order k (which is all the merge loop
\* tests before it pops the buddy) exactly if it is on the free list k, and is
\* there once; stale orders inside a bigger block never pass the test.  nr_free
\* counts the list.
ListsMatchPages ==
    \A k \in Orders :
      /\ \A p \in Frames :
           (used[p] = "Free" /\ order[p] = k) <=> p \in Listed(k)
      /\ nr_free[k] = Len(freelist[k])
      /\ nr_free[k] = Cardinality(Listed(k))

\* buddy_block_alloc implements the page allocator its callers rely on: see
\* PageAlloc.  In particular it returns 0 only if there is no aligned run of
\* 2^order free page frames.
Promise ==
    INSTANCE PageAlloc WITH held <- {<<p, order[p]>> : p \in held}

ImplementsPageAlloc == Promise!Spec
=============================================================================
