------------------------------- MODULE Lists --------------------------------
(***************************************************************************)
(* include/list.h: circular lists linked both ways, and the walk of        *)
(* wake_up (src/wait.c), which takes entries off the list it walks over.   *)
(* The other modules take the lists of the kernel to be sequences or sets; *)
(* here it is shown that they are.                                         *)
(*                                                                         *)
(* The memory is [next, prev], two functions from nodes to nodes; node 0   *)
(* is the head of the list.  A node that is not on the list keeps the      *)
(* links it had.                                                           *)
(***************************************************************************)
EXTENDS Naturals, Sequences, SequencesExt

CONSTANT Nodes      \* the entries

ASSUME ListsAssumption == Nodes \in Nat

ListHead == 0

Node == 0 .. Nodes

INIT_LIST_HEAD(h, list) ==
    [next |-> [h.next EXCEPT ![list] = list], prev |-> [h.prev EXCEPT ![list] = list]]

__list_add(h, new, prev, next) ==
    [next |-> [h.next EXCEPT ![new] = next, ![prev] = new],
     prev |-> [h.prev EXCEPT ![next] = new, ![new] = prev]]

list_add(h, new, head) == __list_add(h, new, head, h.next[head])

list_add_tail(h, new, head) == __list_add(h, new, h.prev[head], head)

__list_del(h, prev, next) ==
    [next |-> [h.next EXCEPT ![prev] = next], prev |-> [h.prev EXCEPT ![next] = prev]]

\* Mutant: the entry is made to point to itself, as list_del_init of Linux does.
DelInit(h, entry) == INIT_LIST_HEAD(__list_del(h, h.prev[entry], h.next[entry]), entry)

list_del(h, entry) == __list_del(h, h.prev[entry], h.next[entry])

list_empty(h, head) == h.next[head] = head

\* A loop over the list begins at the first entry, and goes from each to the next
\* one, which it finds in the memory h that its body has left; it ends at the head.
\* There are as many rounds as there are entries at most.
Begin(h, head) == [heap |-> h, pos |-> h.next[head], seen |-> <<>>]

Round(w, h) ==
    IF w.pos = ListHead THEN w
    ELSE [heap |-> h, pos |-> h.next[w.pos], seen |-> Append(w.seen, w.pos)]

list_for_each(h, head) ==
    LET walk[i \in 0 .. Nodes] ==
          IF i = 0 THEN Begin(h, head) ELSE LET w == walk[i - 1] IN Round(w, w.heap)
    IN  walk[Nodes]

\* The entries of the tasks that are woken are taken off the queue.
wake_up(h, head) ==
    LET walk[i \in 0 .. Nodes] ==
          IF i = 0 THEN Begin(h, head)
          ELSE LET w == walk[i - 1] IN Round(w, list_del(w.heap, w.pos))
    IN  walk[Nodes]

-----------------------------------------------------------------------------
(***************************************************************************)
(* What the lists are for                                                  *)
(***************************************************************************)
Backward(h) == [next |-> h.prev, prev |-> h.next]

\* The list in memory is s, read from either end.
Holds(h, s) ==
    LET forth == list_for_each(h, ListHead)
        back == list_for_each(Backward(h), ListHead)
    IN  /\ forth.seen = s /\ forth.pos = ListHead
        /\ back.seen = Reverse(s) /\ back.pos = ListHead

\* A list made by appending the entries of s, when the others have old links to
\* the node stale.
Built(s, stale) ==
    LET old == [n \in Node |-> stale]
        list[i \in 0 .. Len(s)] ==
          IF i = 0 THEN INIT_LIST_HEAD([next |-> old, prev |-> old], ListHead)
          ELSE list_add_tail(list[i - 1], s[i], ListHead)
    IN  list[Len(s)]

\* The lists of different entries.
DistinctLists == {s \in BoundedSeq(1 .. Nodes, Nodes) : IsInjective(s)}

\* s with n after at, which is the head or an entry.
InsertedAfter(s, at, n) ==
    LET i == IF at = ListHead THEN 0 ELSE CHOOSE j \in DOMAIN s : s[j] = at
    IN  SubSeq(s, 1, i) \o <<n>> \o SubSeq(s, i + 1, Len(s))

\* Every operation on the list h, which holds s, does to it what its name says,
\* whatever old links the other entries have; and the loop of wake_up sees every
\* entry once, in order, and leaves the list empty, although it takes the entry it
\* stands on off the list before it looks for the next one.
ListsRight(h, s, n, at) ==
    /\ Holds(h, s)
    /\ list_empty(h, ListHead) = (s = <<>>)
    /\ n \notin ToSet(s) =>
         /\ Holds(list_add_tail(h, n, ListHead), Append(s, n))
         /\ at \in ToSet(s) \cup {ListHead} =>
              Holds(list_add(h, n, at), InsertedAfter(s, at, n))
    /\ n \in ToSet(s) => Holds(list_del(h, n), RemoveFirst(s, n))
    /\ LET w == wake_up(h, ListHead)
       IN  w.seen = s /\ w.pos = ListHead /\ Holds(w.heap, <<>>)
=============================================================================
