--------------------------- MODULE ConsoleProofs ---------------------------
(***************************************************************************)
(* Theorems about Console, for every size of the buffers, every set of     *)
(* readers and any number of characters typed.                             *)
(***************************************************************************)
EXTENDS Console, NumberFacts, SequenceTheorems

Char == [n : 0 .. MaxTyped, kind : Keys \cup {"regular"}]

-----------------------------------------------------------------------------
(***************************************************************************)
(* The buffers                                                             *)
(***************************************************************************)
\* What is on a stack once its top has been taken, and the top.
LEMMA FrontLast ==
    ASSUME NEW S, NEW s \in Seq(S), s # <<>>
    PROVE  /\ Front(s) \in Seq(S) /\ Len(Front(s)) = Len(s) - 1
           /\ \A i \in 1 .. Len(s) - 1 : Front(s)[i] = s[i]
           /\ Last(s) = s[Len(s)] /\ Last(s) \in S
           /\ Len(s) \in 1 .. Len(s)
<1>1. Len(s) \in Nat \ {0} /\ \A i \in 1 .. Len(s) : s[i] \in S
  BY EmptySeq, ElementOfSeq
<1>2. PICK n \in Nat : n = Len(s) - 1
  BY <1>1
<1>3. /\ SubSeq(s, 1, n) \in Seq(S)
      /\ Len(SubSeq(s, 1, n)) = IF 1 <= n THEN n - 1 + 1 ELSE 0
      /\ \A i \in 1 .. n - 1 + 1 : SubSeq(s, 1, n)[i] = s[1 + i - 1]
  <2>1. \A i \in 1 .. n : s[i] \in S
    BY <1>1, <1>2
  <2> QED
    BY <2>1, SubSeqProperties
<1>4. Len(SubSeq(s, 1, n)) = n /\ \A i \in 1 .. n : SubSeq(s, 1, n)[i] = s[i]
  <2>1. n - 1 + 1 = n /\ \A i \in 1 .. n : 1 + i - 1 = i
    OBVIOUS
  <2> QED
    BY <1>3, <2>1
<1> QED
  BY <1>1, <1>2, <1>3, <1>4 DEF Front, Last

\* What is in a queue once its head has been taken, and the head.
LEMMA HeadTail ==
    ASSUME NEW S, NEW s \in Seq(S), s # <<>>
    PROVE  /\ Tail(s) \in Seq(S) /\ Len(Tail(s)) = Len(s) - 1
           /\ \A i \in 1 .. Len(s) - 1 : Tail(s)[i] = s[i + 1]
           /\ Head(s) = s[1] /\ Head(s) \in S
           /\ 1 \in 1 .. Len(s)
  OBVIOUS

-----------------------------------------------------------------------------
(***************************************************************************)
(* The walk of wake_up: a recursive function, which exists, and whose      *)
(* values follow from one another.                                         *)
(***************************************************************************)
Entry == Readers \cup {WaitQueue}
Link == Readers \cup {WaitQueue, NULL}

Walks == [next : [Entry -> Link], prev : [Entry -> Link], pos : Link,
          woken : SUBSET Readers]

Start == [next |-> next, prev |-> prev, pos |-> next[WaitQueue], woken |-> {}]

IsWalk(f) ==
    f = [i \in 0 .. Cardinality(Readers) |->
           IF i = 0 THEN Start ELSE WakeRound(f[i - 1])]

\* A round of wake_up takes an entry off the list.
LEMMA RoundOn ==
    ASSUME NEW w \in Walks, w.pos \in Live \ {WaitQueue},
           w.next[w.pos] \in Live, w.prev[w.pos] \in Live
    PROVE  WakeRound(w) =
             [next |-> [w.next EXCEPT ![w.prev[w.pos]] = w.next[w.pos]],
              prev |-> [w.prev EXCEPT ![w.next[w.pos]] = w.prev[w.pos]],
              pos |-> w.next[w.pos], woken |-> w.woken \cup {w.pos}]
  BY DEF WakeRound, list_del, Walks

\* A round goes from a walk to a walk.
LEMMA RoundType ==
    ASSUME NEW w \in Walks
    PROVE  WakeRound(w) \in Walks
<1>1. CASE /\ w.pos \in Live \ {WaitQueue}
           /\ w.next[w.pos] \in Live /\ w.prev[w.pos] \in Live
  <2>1. Live \subseteq Entry /\ Live \subseteq Link /\ Live \ {WaitQueue} \subseteq Readers
    BY DEF Live, Entry, Link
  <2>2. /\ [w.next EXCEPT ![w.prev[w.pos]] = w.next[w.pos]] \in [Entry -> Link]
        /\ [w.prev EXCEPT ![w.next[w.pos]] = w.prev[w.pos]] \in [Entry -> Link]
        /\ w.woken \cup {w.pos} \in SUBSET Readers
        /\ w.next[w.pos] \in Link
    BY <1>1, <2>1 DEF Walks
  <2> QED
    BY <1>1, <2>2, RoundOn DEF Walks
<1>2. CASE ~(/\ w.pos \in Live \ {WaitQueue}
             /\ w.next[w.pos] \in Live /\ w.prev[w.pos] \in Live)
  BY <1>2 DEF WakeRound
<1> QED
  BY <1>1, <1>2

\* The links before the walk.
LEMMA StartType ==
    ASSUME TypeOK
    PROVE  Start \in Walks /\ Cardinality(Readers) \in Nat
<1>1. next \in [Entry -> Link] /\ prev \in [Entry -> Link]
  BY DEF TypeOK, Entry, Link
<1>2. next[WaitQueue] \in Link
  BY <1>1 DEF Entry
<1>3. Cardinality(Readers) \in Nat
  BY ConsoleAssumption, FS_CardinalityType
<1> QED
  BY <1>1, <1>2, <1>3 DEF Start, Walks

\* wake_up is the last value of a walk.
LEMMA WakeUpWalk ==
    ASSUME TypeOK
    PROVE  \E f : /\ wake_up = f[Cardinality(Readers)]
                  /\ f[0] = Start
                  /\ \A i \in 1 .. Cardinality(Readers) : f[i] = WakeRound(f[i - 1])
<1> DEFINE n == Cardinality(Readers)
           b == Start
           step == [i \in 1 .. n |-> [w \in Walks |-> WakeRound(w)]]
           g == CHOOSE f : IsWalk(f)
<1>1. b \in Walks /\ n \in Nat
  BY StartType
<1>2. step \in Steps(n, Walks)
  BY RoundType DEF Steps
<1>3. PICK f : Loop(f, n, Walks, b, step)
  <2> HIDE DEF step, b, n
  <2> QED
    BY <1>1, <1>2, Iterates
<1>4. ASSUME NEW i \in 0 .. n
      PROVE  f[i] = IF i = 0 THEN b ELSE WakeRound(f[i - 1])
  <2>1. CASE i = 0
    BY <1>3, <2>1 DEF Loop
  <2>2. CASE i # 0
    <3>1. i \in 1 .. n /\ i - 1 \in 0 .. n
      BY <1>1, <2>2
    <3>2. f[i - 1] \in Walks /\ f[i] = step[i][f[i - 1]]
      BY <1>3, <3>1 DEF Loop
    <3> QED
      BY <2>2, <3>1, <3>2
  <2> QED
    BY <2>1, <2>2
<1> HIDE DEF b
<1>5. f = [i \in 0 .. n |-> IF i = 0 THEN b ELSE WakeRound(f[i - 1])]
  BY <1>3, <1>4 DEF Loop
<1>6. IsWalk(f)
  BY <1>5 DEF IsWalk, b
<1>7. IsWalk(g)
  BY <1>6
<1>8. wake_up = g[n]
  BY DEF wake_up, IsWalk, Start
<1> HIDE DEF g
<1>9. g[0] = Start /\ \A i \in 1 .. n : g[i] = WakeRound(g[i - 1])
  BY <1>1, <1>7 DEF IsWalk
<1> QED
  BY <1>8, <1>9

\* What wake_up leaves has its type.
LEMMA WakeUpType ==
    ASSUME TypeOK
    PROVE  wake_up \in Walks
<1> DEFINE n == Cardinality(Readers)
<1>1. PICK f : /\ wake_up = f[n] /\ f[0] = Start
               /\ \A i \in 1 .. n : f[i] = WakeRound(f[i - 1])
  BY WakeUpWalk
<1>2. Start \in Walks /\ n \in Nat
  BY StartType
<1> HIDE DEF n
<1> DEFINE X == {i \in 0 .. n : f[i] \in Walks}
<1>3. 0 \in X
  BY <1>1, <1>2
<1>4. ASSUME NEW i \in 0 .. n - 1, i \in X PROVE i + 1 \in X
  <2>1. i + 1 \in 1 .. n /\ (i + 1) - 1 = i /\ i + 1 \in 0 .. n
    BY <1>2
  <2>2. f[i + 1] = WakeRound(f[i]) /\ f[i] \in Walks
    BY <1>1, <1>4, <2>1
  <2> QED
    BY <2>1, <2>2, RoundType
<1> HIDE DEF X
<1>5. \A i \in 0 .. n : i \in X
  BY ONLY <1>2, <1>3, <1>4, Reaches
<1> QED
  BY <1>1, <1>2, <1>5 DEF X

-----------------------------------------------------------------------------
(***************************************************************************)
(* Type correctness                                                        *)
(***************************************************************************)
\* The initial state.
LEMMA InitTypeOK == Init => TypeOK
<1> SUFFICES ASSUME Init PROVE TypeOK
  OBVIOUS
<1>1. /\ next \in [Readers \cup {WaitQueue} -> Readers \cup {WaitQueue, NULL}]
      /\ prev \in [Readers \cup {WaitQueue} -> Readers \cup {WaitQueue, NULL}]
  BY DEF Init
<1>2. at \in [Readers -> Readers \cup {WaitQueue, NULL}]
  BY DEF Init
<1>3. /\ state \in [Readers -> {"RUNNING", "WAITING"}]
      /\ rpc \in [Readers -> {"check", "enable", "mark", "queue", "next->prev",
                               "new->next", "new->prev", "prev->next", "sched"}]
  BY DEF Init
<1>4. /\ typed = 0 /\ rx = <<>> /\ readBuf = <<>> /\ ch = NoChar /\ taken = {}
      /\ uart_transmit_idx = 0 /\ counter = 0 /\ cur = Idle /\ thre = TRUE
      /\ ier = {"read"} /\ pc = "poll" /\ fault = "none" /\ torn = FALSE
      /\ kernel_shell_status \in {"ENABLE", "DISABLE"}
  BY DEF Init
<1>5. ch \in [n : 0 .. MaxTyped, kind : Keys \cup {"regular"}]
  BY <1>4, ConsoleAssumption DEF NoChar
<1>6. 0 \in -MaxUnder .. MAX_BUFFER_LEN /\ 0 \in 0 .. MAX_BUFFER_LEN /\ 0 \in 0 .. MaxTyped
  BY ConsoleAssumption
<1>7. \A S : <<>> \in Seq(S)
  OBVIOUS
<1> QED
  BY <1>1, <1>2, <1>3, <1>4, <1>5, <1>6, <1>7, ZenonT(60) DEF TypeOK

\* command_controller keeps the length of the line within the buffer.
LEMMA LineFits ==
    ASSUME NEW n \in 0 .. MAX_BUFFER_LEN, NEW k \in Keys \cup {"regular"}
    PROVE  CommandController(n, k) \in 0 .. MAX_BUFFER_LEN
<1>1. k \in {"regular", "newline", "backspace", "unknown"}
  BY ConsoleAssumption
<1>2. CASE k = "backspace"
  BY <1>2, ConsoleAssumption DEF CommandController
<1>3. CASE k = "newline"
  BY <1>3, ConsoleAssumption DEF CommandController
<1>4. CASE k = "unknown"
  BY <1>4, ConsoleAssumption DEF CommandController
<1>5. CASE k = "regular"
  BY <1>5, ConsoleAssumption DEF CommandController
<1> QED
  BY <1>1, <1>2, <1>3, <1>4, <1>5

\* Every step.
LEMMA NextTypeOK ==
    ASSUME TypeOK, [Next]_vars
    PROVE  TypeOK'
<1> USE ConsoleAssumption DEF TypeOK, uart, shell, waiters, list
<1>1. CASE Type
  BY <1>1 DEF Type
<1>2. CASE Transmitted
  BY <1>2 DEF Transmitted
<1>3. CASE ShellReadIrq
  <2>1. rx' \in Seq(Char) /\ readBuf' \in Seq(Char)
    <3>1. rx \in Seq(Char) /\ rx # <<>> /\ rx' = Tail(rx) /\ readBuf \in Seq(Char)
      BY <1>3 DEF ShellReadIrq, ReadPending, Char
    <3>2. Head(rx) \in Char /\ Tail(rx) \in Seq(Char)
      BY <3>1, HeadTail
    <3>3. readBuf' = readBuf \/ readBuf' = Append(readBuf, Head(rx))
      BY <1>3 DEF ShellReadIrq
    <3>4. Append(readBuf, Head(rx)) \in Seq(Char)
      BY <3>1, <3>2, AppendProperties
    <3> HIDE DEF TypeOK
    <3> QED
      BY <3>1, <3>2, <3>3, <3>4
  <2>2. fault' \in {"none", "read_overflow", "transmit_outside", "stray_link"}
    BY <1>3 DEF ShellReadIrq
  <2> QED
    BY <1>3, <2>1, <2>2 DEF ShellReadIrq, Char
<1>4. CASE ShellTransmitIrq
  <2>1. uart_transmit_idx' \in -MaxUnder .. MAX_BUFFER_LEN
    BY <1>4 DEF ShellTransmitIrq
  <2>2. ier' \subseteq {"read", "transmit"}
    BY <1>4 DEF ShellTransmitIrq, StopWhenDone
  <2>3. thre' \in BOOLEAN
    BY <1>4 DEF ShellTransmitIrq
  <2> QED
    BY <1>4, <2>1, <2>2, <2>3 DEF ShellTransmitIrq
<1>5. CASE TakeChar
  <2>1. Front(readBuf) \in Seq(Char) /\ Last(readBuf) \in Char
    BY <1>5, FrontLast DEF TakeChar, Char
  <2> QED
    BY <1>5, <2>1 DEF TakeChar, Taken, Char
<1>6. CASE PushEcho
  <2>1. uart_transmit_idx' \in -MaxUnder .. MAX_BUFFER_LEN
    BY <1>6 DEF PushEcho
  <2>2. fault' \in {"none", "read_overflow", "transmit_outside", "stray_link"}
    BY <1>6 DEF PushEcho
  <2> QED
    BY <1>6, <2>1, <2>2 DEF PushEcho
<1>7. CASE EnableTransmit
  <2>1. counter' \in 0 .. MAX_BUFFER_LEN
    BY <1>7, LineFits DEF EnableTransmit
  <2> QED
    BY <1>7, <2>1 DEF EnableTransmit
<1>8. CASE Drain
  BY <1>8 DEF Drain
<1>9. ASSUME NEW r \in Readers, ReaderStep(r)
      PROVE  TypeOK'
  <2> USE DEF Step
  <2>1. CASE Read(r)
    BY <2>1 DEF Read
  <2>2. CASE NotReady(r)
    BY <2>2 DEF NotReady
  <2>3. CASE EnableRead(r)
    BY <2>3 DEF EnableRead
  <2>4. CASE Mark(r)
    BY <2>4 DEF Mark
  <2>5. CASE LoadTail(r)
    <3>1. torn' \in BOOLEAN
      BY <2>5 DEF LoadTail
    <3>2. at' \in [Readers -> Readers \cup {WaitQueue, NULL}]
      BY <2>5 DEF LoadTail
    <3> QED
      BY <2>5, <3>1, <3>2 DEF LoadTail
  <2>6. CASE StoreNextPrev(r)
    BY <2>6 DEF StoreNextPrev
  <2>7. CASE StoreNewNext(r)
    BY <2>7 DEF StoreNewNext
  <2>8. CASE StoreNewPrev(r)
    BY <2>8 DEF StoreNewPrev
  <2>9. CASE StorePrevNext(r)
    <3>1. next' \in [Readers \cup {WaitQueue} -> Readers \cup {WaitQueue, NULL}]
      <4>1. CASE at[r] \in Live
        <5>1. next' = [next EXCEPT ![at[r]] = r]
          BY <2>9, <4>1 DEF StorePrevNext
        <5> QED
          BY <5>1
      <4>2. CASE at[r] \notin Live
        BY <2>9, <4>2 DEF StorePrevNext
      <4> QED
        BY <4>1, <4>2
    <3>2. fault' \in {"none", "read_overflow", "transmit_outside", "stray_link"}
      BY <2>9 DEF StorePrevNext
    <3> QED
      BY <2>9, <3>1, <3>2 DEF StorePrevNext
  <2>10. CASE WaitReturns(r)
    BY <2>10 DEF WaitReturns
  <2> QED
    BY <1>9, <2>1, <2>2, <2>3, <2>4, <2>5, <2>6, <2>7, <2>8, <2>9, <2>10
       DEF ReaderStep, Enqueue
<1>10. ASSUME NEW t \in Readers \cup {Idle}, SwitchTo(t)
       PROVE  TypeOK'
  BY <1>10 DEF SwitchTo
<1>11. CASE WakeUpIrq
  <2>1. /\ wake_up.next \in [Readers \cup {WaitQueue} -> Readers \cup {WaitQueue, NULL}]
        /\ wake_up.prev \in [Readers \cup {WaitQueue} -> Readers \cup {WaitQueue, NULL}]
    BY WakeUpType DEF Walks, Entry, Link
  <2>2. /\ next' \in [Readers \cup {WaitQueue} -> Readers \cup {WaitQueue, NULL}]
        /\ prev' \in [Readers \cup {WaitQueue} -> Readers \cup {WaitQueue, NULL}]
    BY <1>11, <2>1 DEF WakeUpIrq, list
  <2>3. state' \in [Readers -> {"RUNNING", "WAITING"}] /\ ier' \subseteq {"read", "transmit"}
    <3>1. CASE wake_up.pos = WaitQueue
      <4>1. /\ state' = [r \in Readers |->
                            IF r \in wake_up.woken THEN "RUNNING" ELSE state[r]]
            /\ ier' = ier \ {"read"}
        BY <1>11, <3>1 DEF WakeUpIrq
      <4> QED
        BY <4>1
    <3>2. CASE wake_up.pos # WaitQueue
      <4>1. UNCHANGED <<state, ier>>
        BY <1>11, <3>2 DEF WakeUpIrq
      <4> QED
        BY <4>1
    <3> QED
      BY <3>1, <3>2
  <2>4. fault' \in {"none", "read_overflow", "transmit_outside", "stray_link"}
    BY <1>11 DEF WakeUpIrq
  <2>5. torn' \in BOOLEAN
    BY <1>11 DEF WakeUpIrq
  <2>6. UNCHANGED <<kernel_shell_status, typed, rx, thre, readBuf, uart_transmit_idx, pc, ch,
                   counter, taken, cur, rpc, at>>
    BY <1>11 DEF WakeUpIrq
  <2> QED
    BY <2>2, <2>3, <2>4, <2>5, <2>6
<1>12. CASE UNCHANGED vars
  BY <1>12 DEF vars
<1> QED
  BY <1>1, <1>2, <1>3, <1>4, <1>5, <1>6, <1>7, <1>8, <1>9, <1>10, <1>11, <1>12
     DEF Next, ShellStep, IdleLoop, Undefined

\* The counter of the command line never leaves its buffer, and every variable
\* keeps its type.
THEOREM TypeCorrect == Spec => []TypeOK
<1>1. TypeOK /\ [Next]_vars => TypeOK'
  BY NextTypeOK
<1> QED
  BY <1>1, InitTypeOK, PTL DEF Spec

-----------------------------------------------------------------------------
(***************************************************************************)
(* The wait queue.  The list that starts at its head is a sequence q of    *)
(* sleeping tasks, linked both ways, in every state.  A task that was      *)
(* preempted inside __list_add, or whose entry has been lost, is not in q, *)
(* and sleeps for ever; head->prev may be its entry.  The task on the CPU, *)
(* when it is inside __list_add, follows the end of q, or an entry that is *)
(* not in q and still has its frame: then what it stores disturbs q as     *)
(* little as its entry will be found.  Until the queue is torn q is all    *)
(* that sleep.                                                             *)
(***************************************************************************)
\* The nodes of the circle: place 0 and the place behind the last are the head.
Place(q, k) == IF k \in 1 .. Len(q) THEN q[k] ELSE WaitQueue

InQueue(q, x) == \E i \in 1 .. Len(q) : q[i] = x

Sleepers(q) ==
    /\ q \in Seq(Readers)
    /\ \A i, j \in 1 .. Len(q) : q[i] = q[j] => i = j
    /\ \A i \in 1 .. Len(q) : Parked(q[i])

Linked(q) ==
    /\ \A k \in 0 .. Len(q) : next[Place(q, k)] = Place(q, k + 1)
    /\ \A k \in 1 .. Len(q) : prev[Place(q, k)] = Place(q, k - 1)

Lost(q, x) == x \in Readers /\ ~InQueue(q, x) /\ (Adding(x) \/ Parked(x))

TailKnown(q) == prev[WaitQueue] = Place(q, Len(q)) \/ Lost(q, prev[WaitQueue])

\* Reader r adds its entry behind one that is not in q, or at the end of q.
AddsAside(q, r) == at[r] \in Readers /\ ~InQueue(q, at[r]) /\ InWait(at[r])

AddsToEnd(q, r) ==
    /\ at[r] = Place(q, Len(q))
    /\ rpc[r] # "next->prev" => prev[WaitQueue] = r
    /\ rpc[r] \in {"new->prev", "prev->next"} => next[r] = WaitQueue
    /\ rpc[r] = "prev->next" => prev[r] = at[r]

AdderKnown(q) ==
    \A r \in Readers : cur = r /\ Adding(r) => AddsAside(q, r) \/ AddsToEnd(q, r)

Whole(q) ==
    ~torn => /\ \A r \in Readers : Parked(r) => InQueue(q, r)
             /\ \A r \in Readers : cur = r /\ Adding(r) => at[r] = Place(q, Len(q))

QueueIs(q) ==
    /\ Sleepers(q) /\ Linked(q) /\ TailKnown(q) /\ AdderKnown(q) /\ Whole(q)

\* A task that has marked itself WAITING is not woken before it is on the queue.
MarkedUntilQueued ==
    \A r \in Readers : rpc[r] = "queue" \/ Adding(r) => state[r] = "WAITING"

WaitInv ==
    TypeOK /\ fault # "stray_link" /\ MarkedUntilQueued /\ \E q : QueueIs(q)

\* The types of the variables of the readers.
LEMMA WaitTypes ==
    ASSUME TypeOK
    PROVE  /\ state \in [Readers -> {"RUNNING", "WAITING"}]
           /\ rpc \in [Readers -> {"check", "enable", "mark", "queue", "next->prev",
                               "new->next", "new->prev", "prev->next", "sched"}]
           /\ next \in [Entry -> Link] /\ prev \in [Entry -> Link]
           /\ at \in [Readers -> Link]
           /\ WaitQueue \notin Readers /\ NULL \notin Readers /\ NULL # WaitQueue
           /\ Idle \notin Readers
  BY ConsoleAssumption DEF TypeOK, Entry, Link

\* The places of a queue.
LEMMA PlaceFacts ==
    ASSUME NEW q, q \in Seq(Readers)
    PROVE  /\ Len(q) \in Nat /\ Place(q, 0) = WaitQueue /\ Place(q, Len(q) + 1) = WaitQueue
           /\ \A i \in 1 .. Len(q) : Place(q, i) = q[i] /\ q[i] \in Readers
           /\ \A k \in Int : Place(q, k) \in Entry
  BY DEF Place, Entry

\* A step that changes no link and no sleeper, and puts nobody on the CPU who is
\* inside __list_add.
LEMMA KeepsQueue ==
    ASSUME NEW q, QueueIs(q), UNCHANGED <<next, prev, at, torn>>,
           \A x \in Readers : /\ Parked(x)' <=> Parked(x)
                              /\ Adding(x)' <=> Adding(x)
                              /\ InWait(x)' <=> InWait(x)
                              /\ Adding(x) => rpc'[x] = rpc[x],
           \A x \in Readers : cur' = x /\ Adding(x) => cur = x
    PROVE  QueueIs(q)'
<1>1. Sleepers(q)' /\ Linked(q)'
  <2>1. q \in Seq(Readers) /\ \A i \in 1 .. Len(q) : q[i] \in Readers
    BY DEF QueueIs, Sleepers
  <2> QED
    BY <2>1 DEF QueueIs, Sleepers, Linked
<1>2. TailKnown(q)'
  BY DEF QueueIs, TailKnown, Lost
<1>3. AdderKnown(q)'
  <2> SUFFICES ASSUME NEW r \in Readers, cur' = r, Adding(r)'
               PROVE  AddsAside(q, r)' \/ AddsToEnd(q, r)'
    BY DEF AdderKnown
  <2>1. cur = r /\ Adding(r) /\ rpc'[r] = rpc[r]
    OBVIOUS
  <2>2. AddsAside(q, r) \/ AddsToEnd(q, r)
    BY <2>1 DEF QueueIs, AdderKnown
  <2> QED
    BY <2>1, <2>2 DEF AddsAside, AddsToEnd
<1>4. Whole(q)'
  BY DEF QueueIs, Whole
<1> QED
  BY <1>1, <1>2, <1>3, <1>4 DEF QueueIs

\* What the stages of a reader mean.
LEMMA Stages ==
    ASSUME TypeOK, TypeOK', NEW r \in Readers, NEW s, NEW p, Step(r, p, s)
    PROVE  /\ rpc[r] = p /\ rpc'[r] = s /\ cur = r
           /\ fault = "none"
           /\ \A x \in Readers \ {r} : rpc'[x] = rpc[x]
  BY WaitTypes DEF Step, Waiting

\* wake_up on q: after k rounds the first k entries are off the list, and the walk
\* stands on the next one; their links, but for the neighbours', are what they were.
After(q, k) ==
    [next |-> [next EXCEPT ![WaitQueue] = Place(q, k + 1)],
     prev |-> [e \in Entry |->
                 IF \E j \in 2 .. k + 1 : e = Place(q, j) THEN WaitQueue ELSE prev[e]],
     pos |-> Place(q, k + 1),
     woken |-> {q[j] : j \in 1 .. k}]

\* A round of it.
LEMMA RoundOnQueue ==
    ASSUME TypeOK, NEW q, Sleepers(q), Linked(q), NEW k \in 0 .. Len(q) - 1
    PROVE  WakeRound(After(q, k)) = After(q, k + 1)
<1> DEFINE w == After(q, k)
           x == q[k + 1]
           y == Place(q, k + 2)
<1>1. /\ q \in Seq(Readers) /\ Len(q) \in Nat
      /\ k \in Nat /\ k + 1 \in 1 .. Len(q) /\ k + 1 \in 0 .. Len(q)
      /\ (k + 1) + 1 = k + 2 /\ k + 2 \in Int /\ (k + 1) - 1 = k
  BY DEF Sleepers
<1>2. /\ Place(q, k + 1) = x /\ x \in Readers /\ x # WaitQueue /\ y \in Entry
      /\ \A i \in 1 .. Len(q) : Place(q, i) = q[i] /\ q[i] \in Readers
      /\ Place(q, 0) = WaitQueue
  BY <1>1, PlaceFacts, WaitTypes
<1>3. next[x] = y
  BY <1>1, <1>2 DEF Linked
<1>4. w.pos = x /\ w.next = [next EXCEPT ![WaitQueue] = x]
  BY <1>2 DEF After
<1>5. w.next[x] = y
  BY <1>2, <1>3, <1>4, WaitTypes DEF Entry
<1>6. w.prev[x] = WaitQueue
  <2>1. w.prev[x] = IF \E j \in 2 .. k + 1 : x = Place(q, j) THEN WaitQueue ELSE prev[x]
    BY <1>2 DEF After, Entry
  <2>2. CASE k = 0
    BY <1>1, <1>2, <2>1, <2>2 DEF Linked
  <2>3. CASE k # 0
    <3>1. k + 1 \in 2 .. k + 1
      BY <1>1, <2>3
    <3> QED
      BY <1>2, <2>1, <3>1
  <2> QED
    BY <2>2, <2>3
<1>7. x \in Live /\ y \in Live /\ WaitQueue \in Live
  <2>1. \A i \in 1 .. Len(q) : q[i] \in Live
    BY <1>2 DEF Sleepers, Parked, InWait, Live
  <2>2. y = WaitQueue \/ \E i \in 1 .. Len(q) : y = q[i]
    BY DEF Place
  <2> QED
    BY <1>1, <2>1, <2>2 DEF Live
<1>8. w \in Walks
  <2>1. w.next \in [Entry -> Link]
    BY <1>2, <1>4, WaitTypes DEF Entry, Link
  <2>2. [e \in Entry |->
                 IF \E j \in 2 .. k + 1 : e = Place(q, j) THEN WaitQueue ELSE prev[e]]
          \in [Entry -> Link]
    BY WaitTypes DEF Link
  <2>3. {q[j] : j \in 1 .. k} \in SUBSET Readers
    BY <1>1, <1>2
  <2>4. x \in Link
    BY <1>2 DEF Link
  <2> QED
    BY <1>4, <2>1, <2>2, <2>3, <2>4 DEF After, Walks
<1>9. /\ w.prev = [e \in Entry |->
                     IF \E j \in 2 .. k + 1 : e = Place(q, j) THEN WaitQueue ELSE prev[e]]
      /\ w.woken = {q[j] : j \in 1 .. k}
  BY DEF After
<1> HIDE DEF w
<1>10. WakeRound(w) =
         [next |-> [w.next EXCEPT ![WaitQueue] = y],
          prev |-> [w.prev EXCEPT ![y] = WaitQueue],
          pos |-> y, woken |-> w.woken \cup {x}]
  BY <1>2, <1>4, <1>5, <1>6, <1>7, <1>8, RoundOn
<1>11. [w.next EXCEPT ![WaitQueue] = y] = [next EXCEPT ![WaitQueue] = y]
  BY <1>4, WaitTypes
<1>12. [w.prev EXCEPT ![y] = WaitQueue] =
         [e \in Entry |->
            IF \E j \in 2 .. k + 2 : e = Place(q, j) THEN WaitQueue ELSE prev[e]]
  <2>1. \A j \in Int : j \in 2 .. k + 2 <=> j \in 2 .. k + 1 \/ j = k + 2
    BY <1>1
  <2>2. \A e : (\E j \in 2 .. k + 2 : e = Place(q, j))
                 <=> (\E j \in 2 .. k + 1 : e = Place(q, j)) \/ e = y
    BY <1>1, <2>1
  <2> DEFINE p == w.prev
             old(e) == \E j \in 2 .. k + 1 : e = Place(q, j)
             new(e) == \E j \in 2 .. k + 2 : e = Place(q, j)
  <2>3. p = [e \in Entry |-> IF old(e) THEN WaitQueue ELSE prev[e]]
    BY <1>9
  <2>4. \A e : new(e) <=> old(e) \/ e = y
    BY <2>2
  <2> HIDE DEF y, p, old, new
  <2>5. [p EXCEPT ![y] = WaitQueue] = [e \in Entry |-> IF new(e) THEN WaitQueue ELSE prev[e]]
    BY <1>2, <2>3, <2>4
  <2> QED
    BY <2>5 DEF p, new
<1>13. w.woken \cup {x} = {q[j] : j \in 1 .. k + 1}
  <2>1. \A j \in Int : j \in 1 .. k + 1 <=> j \in 1 .. k \/ j = k + 1
    BY <1>1
  <2> QED
    BY <1>1, <1>9, <2>1
<1> QED
  <2>1. After(q, k + 1) =
          [next |-> [next EXCEPT ![WaitQueue] = y],
           prev |-> [e \in Entry |->
              IF \E j \in 2 .. k + 2 : e = Place(q, j) THEN WaitQueue ELSE prev[e]],
           pos |-> y, woken |-> {q[j] : j \in 1 .. k + 1}]
    BY <1>1 DEF After
  <2> QED
    BY <1>10, <1>11, <1>12, <1>13, <2>1 DEF w

\* A queue has no more entries than there are readers.
LEMMA QueueShort ==
    ASSUME NEW q, Sleepers(q)
    PROVE  Len(q) \in Nat /\ Cardinality(Readers) \in Nat /\ Len(q) <= Cardinality(Readers)
<1> DEFINE n == Len(q)
           S == {q[j] : j \in 1 .. n}
<1>1. q \in Seq(Readers) /\ n \in Nat /\ \A i \in 1 .. n : q[i] \in Readers
  BY DEF Sleepers
<1>2. IsFiniteSet(1 .. n) /\ Cardinality(1 .. n) = n
  <2> HIDE DEF n
  <2>1. 1 \in Int /\ n \in Int /\ (IF 1 > n THEN 0 ELSE n - 1 + 1) = n
    BY ONLY <1>1
  <2>2. IsFiniteSet(1 .. n) /\ Cardinality(1 .. n) = IF 1 > n THEN 0 ELSE n - 1 + 1
    BY ONLY <2>1, FS_Interval, Zenon
  <2> QED
    BY ONLY <2>1, <2>2
<1>3. IsFiniteSet(Readers) /\ Cardinality(Readers) \in Nat
  BY ConsoleAssumption, FS_CardinalityType
<1>4. S \subseteq Readers
  BY <1>1
<1>5. IsFiniteSet(S) /\ Cardinality(S) <= Cardinality(Readers)
  BY <1>3, <1>4, FS_Subset
<1>6. [j \in 1 .. n |-> q[j]] \in Bijection(1 .. n, S)
  <2>1. \A i, j \in 1 .. n : q[i] = q[j] => i = j
    BY DEF Sleepers
  <2> QED
    BY <2>1 DEF Bijection, Injection, Surjection, IsInjective
<1>7. Cardinality(S) = n
  <2> HIDE DEF S
  <2>1. ExistsBijection(1 .. n, S)
    BY <1>6 DEF ExistsBijection
  <2> QED
    BY <1>2, <1>5, <2>1, FS_Bijection
<1> QED
  BY <1>1, <1>3, <1>5, <1>7

\* wake_up on q.
LEMMA WakeUpQueue ==
    ASSUME TypeOK, NEW q, Sleepers(q), Linked(q)
    PROVE  wake_up = After(q, Len(q))
<1> DEFINE n == Len(q)
           m == Cardinality(Readers)
<1>1. n \in Nat /\ m \in Nat /\ n <= m
  BY QueueShort
<1>2. PICK f : /\ wake_up = f[m] /\ f[0] = Start
               /\ \A i \in 1 .. m : f[i] = WakeRound(f[i - 1])
  BY WakeUpWalk
<1> DEFINE X == {i \in 0 .. n : f[i] = After(q, i)}
           Y == {i \in 0 .. m - n : f[n + i] = After(q, n)}
<1>3. 0 \in X
  <2>1. 0 + 1 = 1 /\ 0 \in 0 .. n /\ {q[j] : j \in 1 .. 0} = {} /\ ~\E j : j \in 2 .. 1
    BY <1>1
  <2>2. next[WaitQueue] = Place(q, 1)
    <3>1. Place(q, 0) = WaitQueue
      BY DEF Place
    <3> QED
      BY <2>1, <3>1 DEF Linked
  <2>3. [next EXCEPT ![WaitQueue] = Place(q, 1)] = next
    BY <2>2, WaitTypes
  <2>4. [e \in Entry |-> IF \E j \in 2 .. 1 : e = Place(q, j) THEN WaitQueue ELSE prev[e]]
          = prev
    BY <2>1, WaitTypes
  <2>5. After(q, 0) = Start
    BY <2>1, <2>2, <2>3, <2>4 DEF After, Start
  <2> QED
    BY <1>2, <2>1, <2>5
<1>4. ASSUME NEW i \in 0 .. n - 1, i \in X PROVE i + 1 \in X
  <2>1. i + 1 \in 1 .. m /\ (i + 1) - 1 = i /\ i + 1 \in 0 .. n
    BY <1>1
  <2>2. f[i + 1] = WakeRound(f[i]) /\ f[i] = After(q, i)
    BY <1>2, <1>4, <2>1
  <2>3. WakeRound(After(q, i)) = After(q, i + 1)
    BY RoundOnQueue
  <2> QED
    BY <2>1, <2>2, <2>3
<1>5. \A i \in 0 .. n : i \in X
  <2> HIDE DEF X, n
  <2> QED
    BY ONLY <1>1, <1>3, <1>4, Reaches
<1>6. f[n] = After(q, n)
  BY <1>1, <1>5
<1>7. WakeRound(After(q, n)) = After(q, n)
  <2>1. Place(q, n + 1) = WaitQueue
    BY <1>1 DEF Place
  <2>2. After(q, n).pos = WaitQueue
    BY <2>1 DEF After
  <2> QED
    BY <2>2 DEF WakeRound
<1>8. 0 \in Y
  BY <1>1, <1>6
<1>9. ASSUME NEW i \in 0 .. (m - n) - 1, i \in Y PROVE i + 1 \in Y
  <2>1. n + (i + 1) \in 1 .. m /\ (n + (i + 1)) - 1 = n + i /\ i + 1 \in 0 .. m - n
    BY <1>1
  <2>2. f[n + (i + 1)] = WakeRound(f[n + i]) /\ f[n + i] = After(q, n)
    BY <1>2, <1>9, <2>1
  <2> QED
    BY <1>7, <2>1, <2>2
<1>10. m - n \in Nat /\ n + (m - n) = m
  BY <1>1
<1>11. \A i \in 0 .. m - n : i \in Y
  <2> DEFINE d == m - n
  <2> HIDE DEF Y, d, n, m
  <2>1. d \in Nat /\ 0 \in Y /\ \A i \in 0 .. d - 1 : i \in Y => i + 1 \in Y
    BY <1>8, <1>9, <1>10 DEF d
  <2>2. \A i \in 0 .. d : i \in Y
    BY ONLY <2>1, Reaches
  <2> QED
    BY <2>2 DEF d
<1>12. m - n \in Y
  BY <1>10, <1>11
<1> QED
  BY <1>2, <1>10, <1>12

\* The steps of a reader outside __list_add.
LEMMA OutsideAdd ==
    ASSUME WaitInv, TypeOK', NEW r \in Readers,
           Read(r) \/ NotReady(r) \/ EnableRead(r) \/ Mark(r)
    PROVE  WaitInv'
<1> USE WaitTypes DEF WaitInv
<1>1. PICK p \in {"check", "enable", "mark"}, s \in {"check", "enable", "mark", "queue"} :
        Step(r, p, s)
  BY DEF Read, NotReady, EnableRead, Mark
<1>2. /\ rpc[r] = p /\ rpc'[r] = s /\ cur = r
      /\ \A x \in Readers \ {r} : rpc'[x] = rpc[x]
  BY <1>1, Stages
<1>3. /\ UNCHANGED <<next, prev, at, torn, cur, fault>>
      /\ \A x \in Readers \ {r} : state'[x] = state[x]
      /\ rpc'[r] = "queue" => state'[r] = "WAITING"
  <2>1. CASE Read(r)
    BY <1>2, <2>1 DEF Read, Step, list, shell
  <2>2. CASE NotReady(r)
    BY <1>2, <2>2 DEF NotReady, Step, list, shell
  <2>3. CASE EnableRead(r)
    BY <1>2, <2>3 DEF EnableRead, Step, list, shell
  <2>4. CASE Mark(r)
    <3>1. state' = [state EXCEPT ![r] = "WAITING"]
          /\ UNCHANGED <<next, prev, at, torn, cur, fault>>
      BY <2>4 DEF Mark, list, shell
    <3> QED
      BY <3>1
  <2> QED
    BY <2>1, <2>2, <2>3, <2>4
<1>4. \A x \in Readers : /\ Parked(x)' <=> Parked(x)
                         /\ Adding(x)' <=> Adding(x)
                         /\ InWait(x)' <=> InWait(x)
                         /\ Adding(x) => rpc'[x] = rpc[x]
  <2>1. ASSUME NEW x \in Readers \ {r}
        PROVE  /\ Parked(x)' <=> Parked(x)
               /\ Adding(x)' <=> Adding(x)
               /\ InWait(x)' <=> InWait(x)
    BY <1>2, <1>3 DEF Parked, Adding, InWait
  <2>2. ~Parked(r) /\ ~Parked(r)' /\ ~Adding(r) /\ ~Adding(r)' /\ ~InWait(r) /\ ~InWait(r)'
    BY <1>2 DEF Parked, Adding, InWait
  <2> QED
    BY <1>2, <2>1, <2>2
<1>5. MarkedUntilQueued'
  <2> SUFFICES ASSUME NEW x \in Readers, rpc'[x] = "queue" \/ Adding(x)'
               PROVE  state'[x] = "WAITING"
    BY DEF MarkedUntilQueued
  <2>1. CASE x = r
    BY <1>2, <1>3, <1>4, <2>1 DEF Adding
  <2>2. CASE x # r
    BY <1>2, <1>3, <1>4, <2>2 DEF MarkedUntilQueued
  <2> QED
    BY <2>1, <2>2
<1>6. PICK q : QueueIs(q)
  OBVIOUS
<1>7. QueueIs(q)'
  BY <1>3, <1>4, <1>6, KeepsQueue
<1> QED
  BY <1>3, <1>5, <1>7

\* The stages of __list_add are the same for everybody but r.
LEMMA InsideAdd ==
    ASSUME WaitInv, TypeOK', NEW r \in Readers, NEW p, NEW s, Step(r, p, s),
           UNCHANGED <<cur, state>>, p = "queue" \/ Adding(r),
           s \in {"next->prev", "new->next", "new->prev", "prev->next", "sched"}
    PROVE  /\ rpc[r] = p /\ rpc'[r] = s /\ cur = r /\ cur' = r
           /\ ~Parked(r) /\ state[r] = "WAITING"
           /\ InWait(r)'
           /\ \A x \in Readers : InWait(x) => InWait(x)'
           /\ \A x \in Readers \ {r} : /\ rpc'[x] = rpc[x]
                                       /\ Parked(x)' <=> Parked(x)
                                       /\ Adding(x)' <=> Adding(x)
           /\ MarkedUntilQueued'
<1> USE WaitTypes DEF WaitInv
<1>1. /\ rpc[r] = p /\ rpc'[r] = s /\ cur = r
      /\ \A x \in Readers \ {r} : rpc'[x] = rpc[x]
  BY Stages
<1>2. ~Parked(r) /\ state[r] = "WAITING"
  BY <1>1 DEF Parked, Adding, MarkedUntilQueued
<1>3. InWait(r)'
  BY <1>1 DEF InWait, Adding
<1>4. \A x \in Readers \ {r} : /\ Parked(x)' <=> Parked(x)
                               /\ Adding(x)' <=> Adding(x)
                               /\ InWait(x)' <=> InWait(x)
  BY <1>1 DEF Parked, Adding, InWait
<1>5. MarkedUntilQueued'
  BY <1>1, <1>2, <1>4 DEF MarkedUntilQueued
<1> QED
  BY <1>1, <1>2, <1>3, <1>4, <1>5

\* list_add_tail reads head->prev.
LEMMA LoadInv ==
    ASSUME WaitInv, TypeOK', NEW r \in Readers, LoadTail(r)
    PROVE  WaitInv'
<1> USE WaitTypes DEF WaitInv
<1>1. /\ Step(r, "queue", "next->prev")
      /\ at' = [at EXCEPT ![r] = prev[WaitQueue]]
      /\ torn' = (torn \/ prev[WaitQueue] \in {x \in Readers : Adding(x)})
      /\ UNCHANGED <<cur, state, next, prev, fault>>
  BY DEF LoadTail, list, shell
<1>2. /\ rpc[r] = "queue" /\ rpc'[r] = "next->prev" /\ cur = r /\ cur' = r
      /\ ~Parked(r) /\ InWait(r)'
      /\ \A x \in Readers : InWait(x) => InWait(x)'
      /\ \A x \in Readers \ {r} : /\ rpc'[x] = rpc[x]
                                  /\ Parked(x)' <=> Parked(x)
                                  /\ Adding(x)' <=> Adding(x)
      /\ MarkedUntilQueued'
  BY <1>1, InsideAdd
<1>3. ~Parked(r)' /\ Adding(r)' /\ ~Adding(r) /\ at'[r] = prev[WaitQueue]
  BY <1>1, <1>2 DEF Parked, Adding
<1>4. PICK q : QueueIs(q)
  OBVIOUS
<1>5. \A x \in Readers : Parked(x)' <=> Parked(x)
  BY <1>2, <1>3
<1>6. Sleepers(q)' /\ Linked(q)'
  <2>1. \A i \in 1 .. Len(q) : q[i] \in Readers
    BY <1>4 DEF QueueIs, Sleepers
  <2> QED
    BY <1>1, <1>4, <1>5, <2>1 DEF QueueIs, Sleepers, Linked
<1>7. TailKnown(q)'
  <2>1. \A x : Lost(q, x) => Lost(q, x)'
    BY <1>2, <1>3, <1>5 DEF Lost
  <2> QED
    BY <1>1, <1>4, <2>1 DEF QueueIs, TailKnown
<1>8. AddsAside(q, r)' \/ AddsToEnd(q, r)'
  <2>1. CASE prev[WaitQueue] = Place(q, Len(q))
    BY <1>2, <1>3, <2>1 DEF AddsToEnd
  <2>2. CASE Lost(q, prev[WaitQueue])
    BY <1>2, <1>3, <2>2 DEF AddsAside, Lost, Parked, InWait
  <2> QED
    BY <1>4, <2>1, <2>2 DEF QueueIs, TailKnown
<1>9. AdderKnown(q)'
  BY <1>2, <1>8 DEF AdderKnown
<1>10. Whole(q)'
  <2> SUFFICES ASSUME ~torn'
               PROVE  /\ \A x \in Readers : Parked(x) => InQueue(q, x)
                      /\ at'[r] = Place(q, Len(q))
    BY <1>2, <1>5 DEF Whole
  <2>1. ~torn /\ prev[WaitQueue] \notin {x \in Readers : Adding(x)}
    BY <1>1
  <2>2. \A x \in Readers : Parked(x) => InQueue(q, x)
    BY <1>4, <2>1 DEF QueueIs, Whole
  <2>3. ~Lost(q, prev[WaitQueue])
    BY <2>1, <2>2 DEF Lost
  <2> QED
    BY <1>3, <1>4, <2>2, <2>3 DEF QueueIs, TailKnown
<1> QED
  BY <1>1, <1>2, <1>6, <1>7, <1>9, <1>10 DEF QueueIs

\* The three stores before the last, of which one makes the entry that of head->prev
\* and the others write to the entry.
LEMMA StoreInv ==
    ASSUME WaitInv, TypeOK', NEW r \in Readers,
           StoreNextPrev(r) \/ StoreNewNext(r) \/ StoreNewPrev(r)
    PROVE  WaitInv'
<1> USE WaitTypes DEF WaitInv
<1> DEFINE First == StoreNextPrev(r)
           Second == StoreNewNext(r)
           Third == StoreNewPrev(r)
<1>1. PICK p, s : /\ Step(r, p, s) /\ <<p, s>> \in {<<"next->prev", "new->next">>,
                       <<"new->next", "new->prev">>, <<"new->prev", "prev->next">>}
  BY DEF StoreNextPrev, StoreNewNext, StoreNewPrev
<1>2. UNCHANGED <<cur, state, at, torn, fault>>
  BY DEF StoreNextPrev, StoreNewNext, StoreNewPrev, shell
<1>3. rpc[r] = p /\ Adding(r)
  BY <1>1, Stages DEF Adding
<1>4. /\ rpc'[r] = s /\ cur = r /\ cur' = r
      /\ ~Parked(r) /\ InWait(r)'
      /\ \A x \in Readers : InWait(x) => InWait(x)'
      /\ \A x \in Readers \ {r} : /\ rpc'[x] = rpc[x]
                                  /\ Parked(x)' <=> Parked(x)
                                  /\ Adding(x)' <=> Adding(x)
      /\ MarkedUntilQueued'
  BY <1>1, <1>2, <1>3, InsideAdd
<1>5. Adding(r)' /\ ~Parked(r)'
  BY <1>1, <1>4 DEF Adding, Parked
<1>6. \A x \in Readers : (Parked(x)' <=> Parked(x)) /\ (Adding(x)' <=> Adding(x))
  BY <1>3, <1>4, <1>5
<1>7. PICK q : QueueIs(q)
  OBVIOUS
<1>8. q \in Seq(Readers) /\ \A i \in 1 .. Len(q) : q[i] \in Readers /\ q[i] # r
  BY <1>4, <1>7 DEF QueueIs, Sleepers
<1>9. ~InQueue(q, r)
  BY <1>8 DEF InQueue
<1>10. /\ prev' = IF rpc[r] = "next->prev" THEN [prev EXCEPT ![WaitQueue] = r]
                  ELSE IF rpc[r] = "new->prev" THEN [prev EXCEPT ![r] = at[r]] ELSE prev
       /\ next' = IF rpc[r] = "new->next" THEN [next EXCEPT ![r] = WaitQueue] ELSE next
  <2>1. CASE First
    BY <2>1 DEF StoreNextPrev, Step
  <2>2. CASE Second
    BY <2>2 DEF StoreNewNext, Step
  <2>3. CASE Third
    BY <2>3 DEF StoreNewPrev, Step
  <2> QED
    BY <2>1, <2>2, <2>3
<1>11. /\ \A e \in Entry : e # r => next'[e] = next[e]
       /\ \A e \in Entry : e # r /\ e # WaitQueue => prev'[e] = prev[e]
       /\ prev'[WaitQueue] = prev[WaitQueue] \/ prev'[WaitQueue] = r
       /\ rpc[r] = "next->prev" => prev'[WaitQueue] = r
       /\ rpc[r] # "next->prev" => prev'[WaitQueue] = prev[WaitQueue]
       /\ rpc[r] = "new->next" => next'[r] = WaitQueue
       /\ rpc[r] # "new->next" => next'[r] = next[r]
       /\ rpc[r] = "new->prev" => prev'[r] = at[r]
  BY <1>10 DEF Entry
<1>12. Linked(q)'
  <2>1. \A k \in 0 .. Len(q) : Place(q, k) \in Entry /\ Place(q, k) # r
    BY <1>8 DEF Place, Entry
  <2>2. \A k \in 1 .. Len(q) : Place(q, k) \in Entry /\ Place(q, k) # r
                               /\ Place(q, k) # WaitQueue
    BY <1>8 DEF Place, Entry
  <2> QED
    BY <1>7, <1>11, <2>1, <2>2 DEF QueueIs, Linked
<1>13. Sleepers(q)'
  BY <1>6, <1>7, <1>8 DEF QueueIs, Sleepers
<1>14. TailKnown(q)'
  <2>1. \A x : Lost(q, x) => Lost(q, x)'
    BY <1>6 DEF Lost
  <2>2. Lost(q, r)'
    BY <1>5, <1>9 DEF Lost
  <2> QED
    BY <1>7, <1>11, <2>1, <2>2 DEF QueueIs, TailKnown
<1>15. AddsAside(q, r)' \/ AddsToEnd(q, r)'
  <2>1. CASE AddsAside(q, r)
    BY <1>2, <1>4, <2>1 DEF AddsAside
  <2>2. CASE AddsToEnd(q, r)
    <3>1. prev'[WaitQueue] = r
      BY <1>11, <2>2 DEF AddsToEnd
    <3>2. rpc'[r] \in {"new->prev", "prev->next"} => next'[r] = WaitQueue
      BY <1>1, <1>3, <1>4, <1>11, <2>2 DEF AddsToEnd
    <3>3. rpc'[r] = "prev->next" => prev'[r] = at'[r]
      BY <1>1, <1>2, <1>3, <1>4, <1>11
    <3> QED
      BY <1>2, <2>2, <3>1, <3>2, <3>3 DEF AddsToEnd
  <2> QED
    BY <1>3, <1>4, <1>7, <2>1, <2>2 DEF QueueIs, AdderKnown
<1>16. AdderKnown(q)'
  BY <1>4, <1>15 DEF AdderKnown
<1>17. Whole(q)'
  BY <1>2, <1>4, <1>6, <1>7 DEF QueueIs, Whole
<1> QED
  BY <1>2, <1>4, <1>12, <1>13, <1>14, <1>16, <1>17 DEF QueueIs

\* The last store: the entry is at the end of the queue, or lost.
LEMMA LastStoreInv ==
    ASSUME WaitInv, TypeOK', NEW r \in Readers, StorePrevNext(r)
    PROVE  WaitInv'
<1> USE WaitTypes DEF WaitInv
<1>1. Step(r, "prev->next", "sched") /\ UNCHANGED <<cur, state, prev, torn>>
  BY DEF StorePrevNext
<1>2. rpc[r] = "prev->next" /\ Adding(r)
  BY <1>1, Stages DEF Adding
<1>3. /\ rpc'[r] = "sched" /\ cur = r /\ cur' = r
      /\ ~Parked(r) /\ state[r] = "WAITING" /\ InWait(r)'
      /\ \A x \in Readers : InWait(x) => InWait(x)'
      /\ \A x \in Readers \ {r} : /\ rpc'[x] = rpc[x]
                                  /\ Parked(x)' <=> Parked(x)
                                  /\ Adding(x)' <=> Adding(x)
      /\ MarkedUntilQueued'
  BY <1>1, <1>2, InsideAdd
<1>4. ~Adding(r)' /\ Parked(r)'
  BY <1>1, <1>3 DEF Adding, Parked
<1>5. PICK q : QueueIs(q)
  OBVIOUS
<1>6. /\ q \in Seq(Readers) /\ Len(q) \in Nat
      /\ \A i \in 1 .. Len(q) : q[i] \in Readers /\ q[i] # r /\ Parked(q[i])
      /\ \A i, j \in 1 .. Len(q) : q[i] = q[j] => i = j
  BY <1>3, <1>5 DEF QueueIs, Sleepers
<1>7. ~InQueue(q, r)
  BY <1>6 DEF InQueue
<1>8. at[r] \in Live
  <2>1. CASE AddsAside(q, r)
    BY <2>1 DEF AddsAside, Live
  <2>2. CASE AddsToEnd(q, r)
    BY <1>6, <2>2 DEF AddsToEnd, Place, Live, Parked, InWait
  <2> QED
    BY <1>2, <1>3, <1>5, <2>1, <2>2 DEF QueueIs, AdderKnown
<1>9. next' = [next EXCEPT ![at[r]] = r] /\ fault' = fault
  BY <1>8 DEF StorePrevNext
<1>10. CASE AddsAside(q, r)
  <2>1. /\ at[r] \in Readers /\ at[r] # WaitQueue
        /\ \A i \in 1 .. Len(q) : q[i] # at[r]
    BY <1>10 DEF AddsAside, InQueue
  <2>2. \A k \in 0 .. Len(q) : Place(q, k) \in Entry /\ Place(q, k) # at[r]
    BY <1>6, <2>1 DEF Place, Entry
  <2>3. \A k \in 0 .. Len(q) : next'[Place(q, k)] = next[Place(q, k)]
    BY <1>9, <2>2
  <2>4. Linked(q)'
    BY <1>1, <1>5, <2>3 DEF QueueIs, Linked
  <2>5. Sleepers(q)'
    BY <1>3, <1>6 DEF Sleepers
  <2>6. TailKnown(q)'
    <3>1. \A x : Lost(q, x) => Lost(q, x)'
      BY <1>3, <1>4 DEF Lost
    <3> QED
      BY <1>1, <1>5, <3>1 DEF QueueIs, TailKnown
  <2>7. AdderKnown(q)'
    BY <1>3, <1>4 DEF AdderKnown
  <2>8. torn
    <3>1. at[r] # Place(q, Len(q))
      BY <1>6, <2>2
    <3> QED
      BY <1>2, <1>3, <1>5, <3>1 DEF QueueIs, Whole
  <2>9. Whole(q)'
    BY <1>1, <2>8 DEF Whole
  <2> QED
    BY <1>3, <1>9, <2>4, <2>5, <2>6, <2>7, <2>9 DEF QueueIs
<1>11. CASE AddsToEnd(q, r)
  <2> DEFINE t == Append(q, r)
             n == Len(q)
  <2>1. /\ t \in Seq(Readers) /\ Len(t) = n + 1 /\ t[n + 1] = r
        /\ \A i \in 1 .. n : t[i] = q[i]
    BY <1>6
  <2>2. /\ at[r] = Place(q, n) /\ prev[WaitQueue] = r
        /\ next[r] = WaitQueue /\ prev[r] = Place(q, n)
    BY <1>1, <1>2, <1>11 DEF AddsToEnd
  <2> HIDE DEF t
  <2>3. /\ \A k \in 0 .. n : Place(t, k) = Place(q, k)
        /\ Place(t, n + 1) = r /\ Place(t, n + 2) = WaitQueue
    BY <1>6, <2>1 DEF Place
  <2>4. /\ \A k \in 0 .. n : Place(q, k) \in Entry /\ Place(q, k) # r
        /\ \A k \in 0 .. n - 1 : Place(q, k) # Place(q, n)
    <3>1. ASSUME NEW k \in 0 .. n - 1 PROVE Place(q, k) # Place(q, n)
      <4>1. n \in 1 .. n /\ Place(q, n) = q[n] /\ k # n /\ q[n] \in Readers
        BY <1>6 DEF Place
      <4>2. CASE k \in 1 .. n
        <5>1. Place(q, k) = q[k]
          BY <4>2 DEF Place
        <5> QED
          BY <1>6, <4>1, <4>2, <5>1
      <4>3. CASE k \notin 1 .. n
        <5>1. Place(q, k) = WaitQueue
          BY <4>3 DEF Place
        <5> QED
          BY <4>1, <5>1
      <4> QED
        BY <4>2, <4>3
    <3> QED
      BY <1>6, <3>1 DEF Place, Entry
  <2>5. /\ next'[Place(q, n)] = r /\ next'[r] = WaitQueue
        /\ \A k \in 0 .. n - 1 : next'[Place(q, k)] = next[Place(q, k)]
    <3>1. n \in 0 .. n /\ \A k \in 0 .. n - 1 : k \in 0 .. n
      BY <1>6
    <3>2. \A e \in Entry : next'[e] = IF e = Place(q, n) THEN r ELSE next[e]
      BY <1>9, <2>2
    <3> QED
      BY <2>2, <2>4, <3>1, <3>2 DEF Entry
  <2>6. \A k \in 0 .. Len(t) : next'[Place(t, k)] = Place(t, k + 1)
    <3> SUFFICES ASSUME NEW k \in 0 .. n + 1 PROVE next'[Place(t, k)] = Place(t, k + 1)
      BY <2>1
    <3>1. CASE k = n + 1
      BY <1>6, <2>3, <2>5, <3>1
    <3>2. CASE k = n
      BY <1>6, <2>3, <2>5, <3>2
    <3>3. CASE k \in 0 .. n - 1
      <4>1. k \in 0 .. n /\ k + 1 \in 0 .. n
        BY <1>6, <3>3
      <4>2. next[Place(q, k)] = Place(q, k + 1)
        BY <1>5, <4>1 DEF QueueIs, Linked
      <4> QED
        BY <2>3, <2>5, <3>3, <4>1, <4>2
    <3> QED
      BY <1>6, <3>1, <3>2, <3>3
  <2>7. \A k \in 1 .. Len(t) : prev'[Place(t, k)] = Place(t, k - 1)
    <3> SUFFICES ASSUME NEW k \in 1 .. n + 1 PROVE prev'[Place(t, k)] = Place(t, k - 1)
      BY <2>1
    <3>1. CASE k = n + 1
      <4>1. k - 1 = n /\ n \in 0 .. n
        BY <1>6, <3>1
      <4> QED
        BY <1>1, <2>2, <2>3, <3>1, <4>1
    <3>2. CASE k \in 1 .. n
      <4>1. k \in 0 .. n /\ k - 1 \in 0 .. n
        BY <1>6, <3>2
      <4>2. prev[Place(q, k)] = Place(q, k - 1)
        BY <1>5, <3>2 DEF QueueIs, Linked
      <4> QED
        BY <1>1, <2>3, <4>1, <4>2
    <3> QED
      BY <1>6, <3>1, <3>2
  <2>8. Linked(t)'
    BY <2>6, <2>7 DEF Linked
  <2>9. Sleepers(t)'
    <3>1. \A i \in 1 .. n + 1 : i \in 1 .. n \/ i = n + 1
      BY <1>6
    <3>2. \A i \in 1 .. n : Parked(q[i])'
      BY <1>3, <1>6
    <3>3. \A i \in 1 .. n + 1 : Parked(t[i])'
      BY <1>4, <2>1, <3>1, <3>2
    <3>4. \A i, j \in 1 .. n + 1 : t[i] = t[j] => i = j
      BY <1>6, <2>1, <3>1
    <3> QED
      BY <2>1, <3>3, <3>4 DEF Sleepers
  <2>10. TailKnown(t)'
    BY <1>1, <2>1, <2>2, <2>3 DEF TailKnown
  <2>11. AdderKnown(t)'
    BY <1>3, <1>4 DEF AdderKnown
  <2>12. Whole(t)'
    <3> SUFFICES ASSUME ~torn, NEW x \in Readers, Parked(x)' PROVE InQueue(t, x)
      BY <1>1, <1>3, <1>4 DEF Whole
    <3>1. CASE x = r
      <4>1. n + 1 \in 1 .. Len(t)
        BY <1>6, <2>1
      <4> QED
        BY <2>1, <3>1, <4>1 DEF InQueue
    <3>2. CASE x # r
      <4>1. PICK i \in 1 .. n : q[i] = x
        BY <1>3, <1>5, <3>2 DEF QueueIs, Whole, InQueue
      <4>2. i \in 1 .. Len(t)
        BY <1>6, <2>1
      <4> QED
        BY <2>1, <4>1, <4>2 DEF InQueue
    <3> QED
      BY <3>1, <3>2
  <2> QED
    BY <1>3, <1>9, <2>8, <2>9, <2>10, <2>11, <2>12 DEF QueueIs
<1> QED
  BY <1>2, <1>3, <1>5, <1>10, <1>11 DEF QueueIs, AdderKnown

\* A task leaves wait(): it is not on the queue, and head->prev is not its entry.
LEMMA ReturnInv ==
    ASSUME WaitInv, TypeOK', NEW r \in Readers, WaitReturns(r)
    PROVE  WaitInv'
<1> USE WaitTypes DEF WaitInv
<1>1. /\ state[r] = "RUNNING" /\ Step(r, "sched", "check")
      /\ next' = [next EXCEPT ![r] = NULL] /\ prev' = [prev EXCEPT ![r] = NULL]
      /\ UNCHANGED <<cur, state, at, torn, fault>>
  BY DEF WaitReturns, shell
<1>2. /\ rpc[r] = "sched" /\ rpc'[r] = "check" /\ cur = r
      /\ \A x \in Readers \ {r} : rpc'[x] = rpc[x]
  BY <1>1, Stages
<1>3. ~Parked(r) /\ ~Parked(r)' /\ ~Adding(r) /\ ~Adding(r)'
  BY <1>1, <1>2 DEF Parked, Adding
<1>4. \A x \in Readers : (Parked(x)' <=> Parked(x)) /\ (Adding(x)' <=> Adding(x))
  <2>1. \A x \in Readers \ {r} : (Parked(x)' <=> Parked(x)) /\ (Adding(x)' <=> Adding(x))
    BY <1>1, <1>2 DEF Parked, Adding
  <2> QED
    BY <1>3, <2>1
<1>5. PICK q : QueueIs(q)
  OBVIOUS
<1>6. q \in Seq(Readers) /\ \A i \in 1 .. Len(q) : q[i] \in Readers /\ q[i] # r
  BY <1>3, <1>5 DEF QueueIs, Sleepers
<1>7. \A k \in Int : Place(q, k) \in Entry /\ Place(q, k) # r
  BY <1>6 DEF Place, Entry
<1>8. Linked(q)'
  <2>1. \A e \in Entry : e # r => next'[e] = next[e] /\ prev'[e] = prev[e]
    BY <1>1
  <2> QED
    BY <1>5, <1>7, <2>1 DEF QueueIs, Linked
<1>9. Sleepers(q)'
  BY <1>4, <1>5, <1>6 DEF QueueIs, Sleepers
<1>10. TailKnown(q)'
  <2>1. \A x : Lost(q, x) => Lost(q, x)'
    BY <1>4 DEF Lost
  <2>2. prev'[WaitQueue] = prev[WaitQueue]
    BY <1>1 DEF Entry
  <2> QED
    BY <1>5, <2>1, <2>2 DEF QueueIs, TailKnown
<1>11. AdderKnown(q)'
  BY <1>1, <1>2, <1>3 DEF AdderKnown
<1>12. Whole(q)'
  BY <1>1, <1>4, <1>5 DEF QueueIs, Whole
<1>13. MarkedUntilQueued'
  <2> SUFFICES ASSUME NEW x \in Readers, rpc'[x] = "queue" \/ Adding(x)'
               PROVE  state'[x] = "WAITING"
    BY DEF MarkedUntilQueued
  <2>1. x # r
    BY <1>2, <1>3
  <2> QED
    BY <1>1, <1>2, <1>4, <2>1 DEF MarkedUntilQueued
<1> QED
  BY <1>1, <1>8, <1>9, <1>10, <1>11, <1>12, <1>13 DEF QueueIs

\* wake_up empties the queue, wakes those that were on it, and adds nobody to those
\* that are lost, but for the task that it interrupts in the middle of __list_add.
LEMMA WakeInv ==
    ASSUME WaitInv, TypeOK', WakeUpIrq
    PROVE  WaitInv'
<1> USE WaitTypes DEF WaitInv
<1>1. PICK q : QueueIs(q)
  OBVIOUS
<1> DEFINE n == Len(q)
           w == After(q, n)
           t == <<>>
<1>2. /\ q \in Seq(Readers) /\ n \in Nat
      /\ \A i \in 1 .. n : q[i] \in Readers /\ Parked(q[i])
  BY <1>1 DEF QueueIs, Sleepers
<1>3. wake_up = w
  BY <1>1, WakeUpQueue DEF QueueIs
<1>4. Place(q, n + 1) = WaitQueue /\ w.pos = WaitQueue
  BY <1>2 DEF Place, After
<1>5. /\ next' = w.next /\ prev' = w.prev
      /\ state' = [r \in Readers |-> IF r \in w.woken THEN "RUNNING" ELSE state[r]]
      /\ UNCHANGED fault
  <2>1. wake_up.pos = WaitQueue
    BY <1>3, <1>4
  <2>2. /\ next' = wake_up.next /\ prev' = wake_up.prev
        /\ state' = [r \in Readers |-> IF r \in wake_up.woken THEN "RUNNING" ELSE state[r]]
        /\ UNCHANGED fault
    BY <2>1 DEF WakeUpIrq
  <2> HIDE DEF w
  <2> QED
    BY <1>3, <2>2
<1>6. /\ torn' = (torn \/ (next[WaitQueue] # WaitQueue
                             /\ cur \in {x \in Readers : Adding(x)}))
      /\ UNCHANGED <<cur, rpc, at>>
  BY DEF WakeUpIrq
<1>7. \A x : x \in w.woken <=> InQueue(q, x)
  BY DEF After, InQueue
<1>8. next'[WaitQueue] = WaitQueue
  BY <1>4, <1>5 DEF After, Entry
<1>9. prev'[WaitQueue] = IF n = 0 THEN prev[WaitQueue] ELSE WaitQueue
  <2>1. prev'[WaitQueue] =
          IF \E j \in 2 .. n + 1 : WaitQueue = Place(q, j) THEN WaitQueue ELSE prev[WaitQueue]
    BY <1>5 DEF After, Entry
  <2>2. CASE n = 0
    <3>1. ~\E j : j \in 2 .. n + 1
      BY <2>2
    <3> QED
      BY <2>1, <2>2, <3>1
  <2>3. CASE n # 0
    <3>1. n + 1 \in 2 .. n + 1
      BY <1>2, <2>3
    <3> QED
      BY <1>4, <2>1, <2>3, <3>1
  <2> QED
    BY <2>2, <2>3
<1> HIDE DEF w
<1>10. n = 0 <=> next[WaitQueue] = WaitQueue
  <2>1. 0 \in 0 .. n /\ Place(q, 0) = WaitQueue /\ 0 + 1 = 1
    BY <1>2 DEF Place
  <2>2. next[WaitQueue] = Place(q, 1)
    BY <1>1, <2>1 DEF QueueIs, Linked
  <2>3. Place(q, 1) = IF n = 0 THEN WaitQueue ELSE q[1]
    BY <1>2 DEF Place
  <2>4. n # 0 => q[1] # WaitQueue
    BY <1>2
  <2> QED
    BY <2>2, <2>3, <2>4
<1>11. \A x \in Readers : /\ Parked(x)' <=> Parked(x) /\ ~InQueue(q, x)
                          /\ Adding(x)' <=> Adding(x)
                          /\ InWait(x)' <=> InWait(x)
  BY <1>5, <1>6, <1>7 DEF Parked, Adding, InWait
<1>12. t \in Seq(Readers) /\ Len(t) = 0 /\ \A k \in Int : Place(t, k) = WaitQueue
       /\ \A x : ~InQueue(t, x)
  BY DEF Place, InQueue
<1> HIDE DEF t
<1>13. Sleepers(t)' /\ Linked(t)'
  BY <1>8, <1>12 DEF Sleepers, Linked
<1>14. \A x : Lost(q, x) => Lost(t, x)'
  BY <1>11, <1>12 DEF Lost
<1>15. TailKnown(t)'
  <2>1. n = 0 => Place(q, n) = WaitQueue
    BY DEF Place
  <2> QED
    BY <1>1, <1>9, <1>12, <1>14, <2>1 DEF QueueIs, TailKnown
<1>16. AdderKnown(t)'
  <2> SUFFICES ASSUME NEW r \in Readers, cur = r, Adding(r)
               PROVE  AddsAside(t, r)' \/ AddsToEnd(t, r)'
    BY <1>6, <1>11 DEF AdderKnown
  <2>1. CASE AddsAside(q, r)
    BY <1>6, <1>11, <1>12, <2>1 DEF AddsAside
  <2>2. CASE AddsToEnd(q, r) /\ n # 0
    <3>1. n \in 1 .. n /\ at[r] = q[n]
      BY <1>2, <2>2 DEF AddsToEnd, Place
    <3>2. at[r] \in Readers /\ InWait(at[r])
      BY <1>2, <3>1 DEF Parked, InWait
    <3> QED
      BY <1>6, <1>11, <1>12, <3>2 DEF AddsAside
  <2>3. CASE AddsToEnd(q, r) /\ n = 0
    <3>1. at[r] = WaitQueue
      BY <2>3 DEF AddsToEnd, Place
    <3>2. ~InQueue(q, r)
      BY <2>3 DEF InQueue
    <3>3. next'[r] = next[r] /\ prev'[r] = prev[r] /\ prev'[WaitQueue] = prev[WaitQueue]
      <4>1. r \in Entry /\ r # WaitQueue /\ WaitQueue \in Entry
        BY DEF Entry
      <4>2. ~\E j : j \in 2 .. n + 1
        BY <2>3
      <4> QED
        BY <1>5, <1>9, <2>3, <4>1, <4>2 DEF After, w
    <3> QED
      BY <1>6, <1>12, <2>3, <3>1, <3>3 DEF AddsToEnd
  <2> QED
    BY <1>1, <2>1, <2>2, <2>3 DEF QueueIs, AdderKnown
<1>17. Whole(t)'
  <2> SUFFICES ASSUME ~torn'
               PROVE  /\ \A r \in Readers : ~Parked(r)'
                      /\ \A r \in Readers : cur = r /\ Adding(r) => at[r] = WaitQueue
    BY <1>6, <1>11, <1>12 DEF Whole
  <2>1. ~torn /\ (n = 0 \/ cur \notin {x \in Readers : Adding(x)})
    BY <1>6, <1>10
  <2>2. n = 0 => Place(q, n) = WaitQueue
    BY DEF Place
  <2> QED
    BY <1>1, <1>11, <2>1, <2>2 DEF QueueIs, Whole
<1>18. MarkedUntilQueued'
  <2> SUFFICES ASSUME NEW x \in Readers, rpc[x] = "queue" \/ Adding(x)
               PROVE  state'[x] = "WAITING"
    BY <1>6, <1>11 DEF MarkedUntilQueued
  <2>1. state[x] = "WAITING" /\ ~Parked(x)
    BY DEF MarkedUntilQueued, Adding, Parked
  <2>2. ~InQueue(q, x)
    BY <1>2, <2>1 DEF InQueue
  <2> QED
    BY <1>5, <1>7, <2>1, <2>2
<1> QED
  BY <1>5, <1>13, <1>15, <1>16, <1>17, <1>18 DEF QueueIs

\* The CPU goes to a task that does not sleep.
LEMMA SwitchInv ==
    ASSUME WaitInv, TypeOK', NEW t \in Readers \cup {Idle}, SwitchTo(t)
    PROVE  WaitInv'
<1> USE WaitTypes DEF WaitInv
<1>1. /\ t = Idle \/ (t \in Readers /\ state[t] = "RUNNING")
      /\ cur' = t /\ UNCHANGED <<state, rpc, next, prev, at, torn, fault>>
  BY DEF SwitchTo, list, shell
<1>2. \A x \in Readers : cur' = x /\ Adding(x) => cur = x
  BY <1>1 DEF MarkedUntilQueued
<1>3. PICK q : QueueIs(q)
  OBVIOUS
<1>4. QueueIs(q)'
  BY <1>1, <1>2, <1>3, KeepsQueue DEF Parked, Adding, InWait
<1> QED
  BY <1>1, <1>4 DEF MarkedUntilQueued, Adding

\* The invariant is inductive.
LEMMA WaitInvariant == Spec => []WaitInv
<1>1. Init => WaitInv
  <2> SUFFICES ASSUME Init PROVE WaitInv
    OBVIOUS
  <2> DEFINE q == <<>>
  <2>1. TypeOK /\ fault # "stray_link" /\ ~torn
    BY InitTypeOK DEF Init
  <2>2. /\ \A r \in Readers : rpc[r] = "check"
        /\ next[WaitQueue] = WaitQueue /\ prev[WaitQueue] = WaitQueue
    BY DEF Init
  <2>3. \A r \in Readers : ~Adding(r) /\ ~Parked(r) /\ rpc[r] # "queue"
    BY <2>2 DEF Adding, Parked
  <2>4. q \in Seq(Readers) /\ Len(q) = 0 /\ \A k \in Int : Place(q, k) = WaitQueue
    BY DEF Place
  <2> HIDE DEF q
  <2>5. QueueIs(q)
    BY <2>2, <2>3, <2>4
       DEF QueueIs, Sleepers, Linked, TailKnown, AdderKnown, Whole
  <2> QED
    BY <2>1, <2>3, <2>5 DEF WaitInv, MarkedUntilQueued
<1>2. WaitInv /\ [Next]_vars => WaitInv'
  <2> SUFFICES ASSUME WaitInv, [Next]_vars PROVE WaitInv'
    OBVIOUS
  <2>1. TypeOK'
    BY NextTypeOK DEF WaitInv
  <2>2. CASE UNCHANGED waiters /\ (fault' = fault \/ fault' # "stray_link")
    <3>1. UNCHANGED <<cur, state, rpc, next, prev, at, torn>>
      BY <2>2 DEF waiters, list
    <3>2. PICK q : QueueIs(q)
      BY DEF WaitInv
    <3>3. QueueIs(q)'
      BY <3>1, <3>2, KeepsQueue DEF Parked, Adding, InWait
    <3> QED
      BY <2>1, <2>2, <3>1, <3>3 DEF WaitInv, MarkedUntilQueued, Adding
  <2>3. ASSUME NEW r \in Readers, ReaderStep(r) PROVE WaitInv'
    BY <2>1, <2>3, OutsideAdd, LoadInv, StoreInv, LastStoreInv, ReturnInv
       DEF ReaderStep, Enqueue
  <2>4. CASE WakeUpIrq
    BY <2>1, <2>4, WakeInv
  <2>5. ASSUME NEW t \in Readers \cup {Idle}, SwitchTo(t) PROVE WaitInv'
    BY <2>1, <2>5, SwitchInv
  <2>6. CASE Type \/ Transmitted \/ ShellReadIrq \/ ShellTransmitIrq \/ ShellStep
             \/ IdleLoop \/ Undefined \/ UNCHANGED vars
    <3>1. UNCHANGED waiters /\ (fault' = fault \/ fault' # "stray_link")
      BY <2>6 DEF Type, Transmitted, ShellReadIrq, ShellTransmitIrq, ShellStep, TakeChar,
                  PushEcho, EnableTransmit, Drain, IdleLoop, Undefined, vars, shell
    <3> QED
      BY <2>2, <3>1
  <2> QED
    BY <2>3, <2>4, <2>5, <2>6 DEF Next
<1> QED
  BY <1>1, <1>2, PTL DEF Spec

\* An entry of uart_read_waitQueue is on the kernel stack of a task that is still
\* inside wait(), however the stores of list_add_tail, the scheduler and the receive
\* interrupt are interleaved: wake_up ends, never follows an entry whose stack frame
\* is gone, and wakes tasks that sleep; all of them, as long as no wake-up has taken
\* away the entry that a task on the CPU is adding its own to, and no entry has been
\* added behind that of a task preempted in the middle.
THEOREM WaitQueueLive == Spec => []WaitEntriesLive
<1>1. WaitInv => WaitEntriesLive
  <2> SUFFICES ASSUME WaitInv PROVE WaitEntriesLive
    OBVIOUS
  <2>1. PICK q : QueueIs(q)
    BY DEF WaitInv
  <2>2. wake_up = After(q, Len(q))
    BY <2>1, WakeUpQueue DEF WaitInv, QueueIs
  <2>3. q \in Seq(Readers) /\ \A i \in 1 .. Len(q) : q[i] \in Readers /\ Parked(q[i])
    BY <2>1 DEF QueueIs, Sleepers
  <2>4. Place(q, Len(q) + 1) = WaitQueue
    BY <2>3 DEF Place
  <2>5. wake_up.pos = WaitQueue /\ \A x : x \in wake_up.woken <=> InQueue(q, x)
    BY <2>2, <2>4 DEF After, InQueue
  <2>6. \A x : InQueue(q, x) => x \in Readers /\ Parked(x)
    BY <2>3 DEF InQueue
  <2>7. ~torn => \A r \in Readers : Parked(r) => InQueue(q, r)
    BY <2>1 DEF QueueIs, Whole
  <2> QED
    BY <2>5, <2>6, <2>7 DEF WaitEntriesLive, WaitInv
<1> QED
  BY <1>1, WaitInvariant, PTL

-----------------------------------------------------------------------------
(***************************************************************************)
(* The shell's input.  A character has a number of its own, and it is in   *)
(* the receiver, in the read buffer or taken, and in one place only: so    *)
(* taking it adds one to what is taken.                                    *)
(***************************************************************************)
Received(n) == \E i \in 1 .. Len(rx) : rx[i].n = n
Buffered(n) == \E i \in 1 .. Len(readBuf) : readBuf[i].n = n
IsTaken(n) == \E c \in taken : c.n = n

\* The numbers on s are different.
Distinct(s) == \A i, j \in 1 .. Len(s) : s[i].n = s[j].n => i = j

Placed ==
    \A n \in Int : n \in 1 .. typed <=> Received(n) \/ Buffered(n) \/ IsTaken(n)

OnePlace ==
    /\ \A n \in Int : Received(n) => ~Buffered(n) /\ ~IsTaken(n)
    /\ \A n \in Int : Buffered(n) => ~IsTaken(n)
    /\ Distinct(rx) /\ Distinct(readBuf)

Counted ==
    /\ IsFiniteSet(taken)
    /\ Len(rx) + Len(readBuf) + Cardinality(taken) = typed

InputInv == TypeOK /\ (Shell => Placed /\ OnePlace /\ Counted)

\* The types of the variables of the shell's input.
LEMMA InputTypes ==
    ASSUME TypeOK
    PROVE  /\ typed \in Nat
           /\ rx \in Seq(Char) /\ Len(rx) \in Nat
           /\ readBuf \in Seq(Char) /\ Len(readBuf) \in Nat
           /\ taken \subseteq Char
           /\ \A c \in Char : c.n \in Int
           /\ \A i \in 1 .. Len(rx) : rx[i] \in Char
           /\ \A i \in 1 .. Len(readBuf) : readBuf[i] \in Char
<1>1. /\ typed \in Nat /\ taken \subseteq Char /\ \A c \in Char : c.n \in Int
      /\ rx \in Seq(Char) /\ readBuf \in Seq(Char)
  BY ConsoleAssumption DEF TypeOK, Char
<1> QED
  BY <1>1

\* A step that leaves the receiver, the buffer and what is taken alone.
LEMMA InputUnchanged ==
    ASSUME InputInv, TypeOK', Shell' => Shell, UNCHANGED <<typed, rx, readBuf, taken>>
    PROVE  InputInv'
  BY DEF InputInv, Placed, OnePlace, Counted, Received, Buffered, IsTaken, Distinct

\* A character arrives.
LEMMA TypeInput ==
    ASSUME InputInv, TypeOK', Shell, Type
    PROVE  Placed' /\ OnePlace' /\ Counted'
<1> USE InputTypes DEF InputInv
<1>1. PICK c \in Char : /\ rx' = Append(rx, c) /\ c.n = typed + 1
                        /\ UNCHANGED <<readBuf, taken>>
                        /\ typed' = typed + 1
  <2>1. PICK k \in Keys : rx' = Append(rx, [n |-> typed + 1, kind |-> k])
    BY DEF Type
  <2>2. [n |-> typed + 1, kind |-> k] \in Char
    BY ConsoleAssumption DEF Type, Char, TypeOK
  <2> QED
    BY <2>1, <2>2 DEF Type, shell
<1>2. /\ Len(rx') = Len(rx) + 1 /\ rx'[Len(rx) + 1] = c
      /\ \A i \in 1 .. Len(rx) : rx'[i] = rx[i]
  BY <1>1
<1>3. \A n \in Int : /\ Received(n)' <=> Received(n) \/ n = typed + 1
                     /\ Buffered(n)' <=> Buffered(n)
                     /\ IsTaken(n)' <=> IsTaken(n)
  <2>1. \A n \in Int : Received(n)' <=> Received(n) \/ n = typed + 1
    <3>1. 1 .. Len(rx') = (1 .. Len(rx)) \cup {Len(rx) + 1}
      BY <1>2
    <3>2. ASSUME NEW n \in Int, Received(n)' PROVE Received(n) \/ n = typed + 1
      BY <1>1, <1>2, <3>1, <3>2 DEF Received
    <3>3. ASSUME NEW n \in Int, Received(n) PROVE Received(n)'
      BY <1>2, <3>1, <3>3 DEF Received
    <3>4. ASSUME NEW n \in Int, n = typed + 1 PROVE Received(n)'
      BY <1>1, <1>2, <3>1, <3>4 DEF Received
    <3> QED
      BY <3>2, <3>3, <3>4
  <2>2. \A n \in Int : (Buffered(n)' <=> Buffered(n)) /\ (IsTaken(n)' <=> IsTaken(n))
    BY <1>1 DEF Buffered, IsTaken
  <2> QED
    BY <2>1, <2>2
<1>4. ~Received(typed + 1) /\ ~Buffered(typed + 1) /\ ~IsTaken(typed + 1)
  BY DEF Placed
<1>5. Placed'
  <2>1. \A n \in Int : n \in 1 .. typed' <=> n \in 1 .. typed \/ n = typed + 1
    BY <1>1
  <2> QED
    BY <1>3, <2>1 DEF Placed
<1>6. OnePlace'
  <2>1. Distinct(rx)' /\ Distinct(readBuf)'
    BY <1>1, <1>2, <1>4 DEF OnePlace, Distinct, Received
  <2> QED
    BY <1>3, <1>4, <2>1 DEF OnePlace
<1>7. Counted'
  <2>1. Cardinality(taken) \in Nat
    BY FS_CardinalityType DEF Counted
  <2> QED
    BY <1>1, <1>2, <2>1 DEF Counted
<1> QED
  BY <1>5, <1>6, <1>7

\* The receive interrupt moves a character to a buffer that has room.
LEMMA ReadIrqInput ==
    ASSUME InputInv, TypeOK', ShellReadIrq, Shell'
    PROVE  Placed' /\ OnePlace' /\ Counted'
<1> USE InputTypes DEF InputInv
<1>1. /\ Shell /\ rx # <<>> /\ rx' = Tail(rx) /\ readBuf' = Append(readBuf, Head(rx))
      /\ UNCHANGED <<typed, taken>>
  BY DEF ShellReadIrq, ReadPending, Shell
<1>2. /\ Len(rx') = Len(rx) - 1 /\ Head(rx) = rx[1] /\ rx[1] \in Char
      /\ 1 \in 1 .. Len(rx)
      /\ \A i \in 1 .. Len(rx) - 1 : rx'[i] = rx[i + 1]
  BY <1>1, HeadTail
<1>3. /\ Len(readBuf') = Len(readBuf) + 1 /\ readBuf'[Len(readBuf) + 1] = rx[1]
      /\ \A i \in 1 .. Len(readBuf) : readBuf'[i] = readBuf[i]
  BY <1>1, <1>2
<1>4. \A n \in Int : /\ Received(n)' <=> Received(n) /\ n # rx[1].n
                     /\ Buffered(n)' <=> Buffered(n) \/ n = rx[1].n
                     /\ IsTaken(n)' <=> IsTaken(n)
  <2> SUFFICES ASSUME NEW n \in Int
               PROVE  /\ Received(n)' <=> Received(n) /\ n # rx[1].n
                      /\ Buffered(n)' <=> Buffered(n) \/ n = rx[1].n
                      /\ IsTaken(n)' <=> IsTaken(n)
    OBVIOUS
  <2>1. Distinct(rx)
    BY <1>1 DEF OnePlace
  <2>2. Received(n)' => Received(n) /\ n # rx[1].n
    BY <1>2, <2>1 DEF Received, Distinct
  <2>3. ASSUME Received(n), n # rx[1].n PROVE Received(n)'
    <3>1. PICK i \in 1 .. Len(rx) : rx[i].n = n
      BY <2>3 DEF Received
    <3>2. i - 1 \in 1 .. Len(rx') /\ rx'[i - 1] = rx[i]
      BY <1>2, <2>3, <3>1
    <3> QED
      BY <3>1, <3>2 DEF Received
  <2>4. Buffered(n)' <=> Buffered(n) \/ n = rx[1].n
    <3> DEFINE k == Len(readBuf)
    <3>1. k \in Nat /\ Len(readBuf') = k + 1 /\ readBuf'[k + 1] = rx[1]
          /\ \A i \in 1 .. k : readBuf'[i] = readBuf[i]
      BY <1>3
    <3>2. /\ Buffered(n) <=> \E i \in 1 .. k : readBuf[i].n = n
          /\ Buffered(n)' <=> \E i \in 1 .. k + 1 : readBuf'[i].n = n
      BY <3>1 DEF Buffered
    <3> HIDE DEF k
    <3>3. /\ \A i \in 1 .. k : i \in 1 .. k + 1
          /\ \A i \in 1 .. k + 1 : i \in 1 .. k \/ i = k + 1
          /\ k + 1 \in 1 .. k + 1
      BY ONLY <3>1
    <3> QED
      BY <3>1, <3>2, <3>3
  <2>5. IsTaken(n)' <=> IsTaken(n)
    BY <1>1 DEF IsTaken
  <2> QED
    BY <2>2, <2>3, <2>4, <2>5
<1>5. rx[1].n \in Int /\ Received(rx[1].n)
  BY <1>2 DEF Received
<1>6. Placed'
  BY <1>1, <1>4, <1>5 DEF Placed
<1>7. OnePlace'
  <2>1. Distinct(rx)'
    BY <1>1, <1>2 DEF OnePlace, Distinct
  <2>2. ~Buffered(rx[1].n)
    BY <1>1, <1>5 DEF OnePlace
  <2>3. Distinct(readBuf)'
    BY <1>1, <1>3, <2>2 DEF OnePlace, Distinct, Buffered
  <2> QED
    BY <1>1, <1>4, <1>5, <2>1, <2>3 DEF OnePlace
<1>8. Counted'
  <2>1. Cardinality(taken) \in Nat
    BY <1>1, FS_CardinalityType DEF Counted
  <2> QED
    BY <1>1, <1>2, <1>3, <2>1 DEF Counted
<1> QED
  BY <1>6, <1>7, <1>8

\* The shell takes a character.
LEMMA TakeInput ==
    ASSUME InputInv, TypeOK', TakeChar
    PROVE  Placed' /\ OnePlace' /\ Counted'
<1> USE InputTypes DEF InputInv
<1> DEFINE m == Len(readBuf)
           c == readBuf[m]
<1>1. /\ Shell /\ readBuf # <<>> /\ readBuf' = Front(readBuf)
      /\ taken' = taken \cup {Last(readBuf)}
      /\ UNCHANGED <<typed, rx>>
  BY DEF TakeChar, Taken, uart
<1>2. /\ Len(readBuf') = m - 1 /\ c \in Char /\ m \in 1 .. m /\ m \in Nat
      /\ Last(readBuf) = c
      /\ \A i \in 1 .. m - 1 : readBuf'[i] = readBuf[i]
  BY <1>1, FrontLast
<1>3. Buffered(c.n) /\ c.n \in Int
  BY <1>2 DEF Buffered
<1>4. ~Received(c.n) /\ ~IsTaken(c.n)
  BY <1>1, <1>3 DEF OnePlace
<1>5. \A n \in Int : /\ Received(n)' <=> Received(n)
                     /\ Buffered(n)' <=> Buffered(n) /\ n # c.n
                     /\ IsTaken(n)' <=> IsTaken(n) \/ n = c.n
  <2> SUFFICES ASSUME NEW n \in Int
               PROVE  /\ Received(n)' <=> Received(n)
                      /\ Buffered(n)' <=> Buffered(n) /\ n # c.n
                      /\ IsTaken(n)' <=> IsTaken(n) \/ n = c.n
    OBVIOUS
  <2>1. Distinct(readBuf)
    BY <1>1 DEF OnePlace
  <2>2. Received(n)' <=> Received(n)
    BY <1>1 DEF Received
  <2>3. Buffered(n)' => Buffered(n) /\ n # c.n
    <3> SUFFICES ASSUME NEW i \in 1 .. m - 1, readBuf'[i].n = n
                 PROVE  Buffered(n) /\ n # c.n
      BY <1>2 DEF Buffered
    <3>1. i \in 1 .. m /\ i # m /\ readBuf[i].n = n
      BY <1>2
    <3> QED
      BY <1>2, <2>1, <3>1 DEF Buffered, Distinct
  <2>4. ASSUME Buffered(n), n # c.n PROVE Buffered(n)'
    <3>1. PICK i \in 1 .. m : readBuf[i].n = n
      BY <2>4 DEF Buffered
    <3>2. i \in 1 .. Len(readBuf') /\ readBuf'[i] = readBuf[i]
      BY <1>2, <2>4, <3>1
    <3> QED
      BY <3>1, <3>2 DEF Buffered
  <2>5. IsTaken(n)' <=> IsTaken(n) \/ n = c.n
    BY <1>1, <1>2 DEF IsTaken
  <2> QED
    BY <2>2, <2>3, <2>4, <2>5
<1>6. c \notin taken
  BY <1>4 DEF IsTaken
<1> HIDE DEF c
<1>7. Placed'
  BY <1>1, <1>3, <1>5 DEF Placed
<1>8. OnePlace'
  <2>1. Distinct(rx)' /\ Distinct(readBuf)'
    <3>1. Distinct(rx) /\ Distinct(readBuf)
      BY <1>1 DEF OnePlace
    <3>2. Distinct(rx)'
      BY <1>1, <3>1 DEF Distinct
    <3>3. \A i \in 1 .. Len(readBuf') : i \in 1 .. m /\ readBuf'[i] = readBuf[i]
      BY <1>2
    <3>4. Distinct(readBuf)'
      BY <3>1, <3>3 DEF Distinct
    <3> QED
      BY <3>2, <3>4
  <2> QED
    BY <1>1, <1>3, <1>4, <1>5, <2>1 DEF OnePlace
<1>9. Counted'
  <2>1. /\ Cardinality(taken) \in Nat
        /\ IsFiniteSet(taken')
        /\ Cardinality(taken') = Cardinality(taken) + 1
    BY <1>1, <1>2, <1>6, FS_CardinalityType, FS_AddElement DEF Counted
  <2> QED
    BY <1>1, <1>2, <2>1 DEF Counted
<1> QED
  BY <1>7, <1>8, <1>9

\* The invariant is inductive.
LEMMA InputInvariant == Spec => []InputInv
<1>1. Init => InputInv
  <2> SUFFICES ASSUME Init PROVE InputInv
    OBVIOUS
  <2>1. /\ typed = 0 /\ rx = <<>> /\ readBuf = <<>> /\ taken = {}
        /\ Len(rx) = 0 /\ Len(readBuf) = 0
    BY DEF Init
  <2>2. IsFiniteSet(taken) /\ Cardinality(taken) = 0
    BY <2>1, FS_EmptySet
  <2> QED
    BY <2>1, <2>2, InitTypeOK
       DEF InputInv, Placed, OnePlace, Counted, Received, Buffered, IsTaken, Distinct
<1>2. InputInv /\ [Next]_vars => InputInv'
  <2> SUFFICES ASSUME InputInv, [Next]_vars PROVE InputInv'
    OBVIOUS
  <2>1. TypeOK'
    BY NextTypeOK DEF InputInv
  <2>2. CASE Type
    BY <2>1, <2>2, TypeInput DEF InputInv, Type, Shell, shell
  <2>3. CASE ShellReadIrq
    BY <2>1, <2>3, ReadIrqInput DEF InputInv
  <2>4. CASE TakeChar
    BY <2>1, <2>4, TakeInput DEF InputInv
  <2>5. CASE \E r \in Readers : ReaderStep(r)
    <3>1. ~Shell'
      BY <2>5 DEF ReaderStep, Read, NotReady, EnableRead, Mark, Enqueue, LoadTail,
                  StoreNextPrev, StoreNewNext, StoreNewPrev, StorePrevNext, WaitReturns,
                  Step, Waiting, Shell
    <3> QED
      BY <2>1, <3>1 DEF InputInv
  <2>6. CASE Transmitted \/ ShellTransmitIrq \/ PushEcho \/ EnableTransmit \/ Drain
             \/ IdleLoop \/ WakeUpIrq \/ Undefined
             \/ \E t \in Readers \cup {Idle} : SwitchTo(t)
    <3>1. (Shell' => Shell) /\ UNCHANGED <<typed, rx, readBuf, taken>>
      BY <2>6 DEF Transmitted, ShellTransmitIrq, PushEcho, EnableTransmit, Drain,
                  IdleLoop, WakeUpIrq, Undefined, SwitchTo, Shell, uart, shell, vars
    <3> QED
      BY <2>1, <3>1, InputUnchanged
  <2>7. CASE UNCHANGED vars
    BY <2>1, <2>7, InputUnchanged DEF vars, uart, shell, Shell
  <2> QED
    BY <2>2, <2>3, <2>4, <2>5, <2>6, <2>7 DEF Next, ShellStep
<1> QED
  BY <1>1, <1>2, PTL DEF Spec

\* The shell gets every character that was typed, and each once, although the
\* receive interrupt and the shell work on the same stack and the interrupt may
\* come between the shell's test of uart_read_idx and its critical section.
THEOREM NoInputLost == Spec => []NoCharLost
<1>1. InputInv => NoCharLost
  <2> SUFFICES ASSUME InputInv, Shell
               PROVE  /\ {c.n : c \in ToSet(rx) \cup ToSet(readBuf) \cup taken}
                           = 1 .. typed
                      /\ Len(rx) + Len(readBuf) + Cardinality(taken) = typed
    BY DEF NoCharLost
  <2> DEFINE N == {c.n : c \in ToSet(rx) \cup ToSet(readBuf) \cup taken}
  <2> USE InputTypes DEF InputInv
  <2>1. \A n \in Int : n \in 1 .. typed <=> Received(n) \/ Buffered(n) \/ IsTaken(n)
    BY DEF Placed
  <2>2. /\ ToSet(rx) = {rx[i] : i \in 1 .. Len(rx)}
        /\ ToSet(readBuf) = {readBuf[i] : i \in 1 .. Len(readBuf)}
    BY DEF ToSet
  <2>3. N \subseteq Int
    BY <2>2
  <2>4. \A n \in Int : n \in N <=> Received(n) \/ Buffered(n) \/ IsTaken(n)
    BY <2>2 DEF Received, Buffered, IsTaken
  <2>5. N = 1 .. typed
    BY <2>1, <2>3, <2>4
  <2> QED
    BY <2>5 DEF Counted
<1> QED
  BY <1>1, InputInvariant, PTL
=============================================================================
