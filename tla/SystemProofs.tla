---------------------------- MODULE SystemProofs ----------------------------
(***************************************************************************)
(* Proofs about the machine and the parts that System calls:               *)
(*   - the mailbox: a call returns with the answer to its own request;     *)
(*   - the lists of list.h: as long as the nodes linked from a head are    *)
(*     the nodes of a sequence, each operation does to the links what its  *)
(*     name says of the sequence, for lists of every length;               *)
(*   - the cpio archive: its headers are read as they were written, so     *)
(*     that the walk over them finds the first file of a name and all of   *)
(*     its bytes, and `cat' prints them;                                   *)
(*   - the command line of the shell: it runs the command that it shows;   *)
(*   - exec(): the program, its arguments and the strings that are spared; *)
(*   - printf: the digits that ui2a divides off, how a directive is taken  *)
(*     apart, and the output of a whole format;                            *)
(*   - the composition: every step of the machine is a step of the         *)
(*     bootloader, of a task or of the mailbox, or leaves it alone, so     *)
(*     that what is proved of each part holds in the machine.              *)
(* What holds of the strings and of the bootloader is in BootloaderProofs. *)
(***************************************************************************)
EXTENDS System, BootloaderProofs

-----------------------------------------------------------------------------
(***************************************************************************)
(* The mailbox                                                             *)
(***************************************************************************)

Polling == {"empty", "read"}

\* The positions of a queue hold different tasks.
Once(q) == \A i, j \in 1 .. Len(q) : q[i] = q[j] => i = j

RequestsPending ==
    \A i \in 1 .. Len(requests) :
      mpc[requests[i]] \in Polling /\ mbox[requests[i]] = "REQUEST"

AnswersPending ==
    \A i \in 1 .. Len(answers) :
      mpc[answers[i]] \in Polling /\ mbox[answers[i]] \in Verdicts

\* A buffer is not answered before its request is written.
RequestUnanswered ==
    \A t \in Callers : mpc[t] \in {"full", "write"} => mbox[t] = "REQUEST"

\* The device repeats the answer to an earlier call of t only while there is
\* something else to read.
LatchNotStale ==
    \A t \in Callers :
      mpc[t] = "read" /\ latch = t /\ mbox[t] = "REQUEST" => answers # <<>>

MboxInv ==
    /\ MboxTypeOK
    /\ Once(requests) /\ Once(answers)
    /\ RequestsPending /\ AnswersPending
    /\ RequestUnanswered /\ LatchNotStale
    /\ MboxAnswered

-----------------------------------------------------------------------------
(***************************************************************************)
(* The two ends of a queue                                                 *)
(***************************************************************************)
\* A task that is not in a queue can be put at its end.
LEMMA OnceAppend ==
    ASSUME NEW S, NEW q \in Seq(S), NEW t \in S, Once(q),
           \A i \in 1 .. Len(q) : q[i] # t
    PROVE  /\ Append(q, t) \in Seq(S) /\ Len(Append(q, t)) = Len(q) + 1
           /\ Once(Append(q, t))
           /\ \A i \in 1 .. Len(Append(q, t)) :
                Append(q, t)[i] = t \/ \E j \in 1 .. Len(q) : Append(q, t)[i] = q[j]
  BY DEF Once

\* What is left of a queue is what it was without its head.
LEMMA OnceTail ==
    ASSUME NEW S, NEW q \in Seq(S), q # <<>>, Once(q)
    PROVE  /\ Head(q) = q[1] /\ 1 \in 1 .. Len(q) /\ Head(q) \in S
           /\ Tail(q) \in Seq(S) /\ Len(Tail(q)) = Len(q) - 1
           /\ Once(Tail(q))
           /\ \A i \in 1 .. Len(Tail(q)) :
                Tail(q)[i] # Head(q) /\ \E j \in 1 .. Len(q) : Tail(q)[i] = q[j]
<1>1. /\ Head(q) = q[1] /\ 1 \in 1 .. Len(q) /\ Head(q) \in S
      /\ Tail(q) \in Seq(S) /\ Len(Tail(q)) = Len(q) - 1 /\ Len(q) \in Nat
  OBVIOUS
<1>2. \A i \in 1 .. Len(Tail(q)) : Tail(q)[i] = q[i + 1] /\ i + 1 \in 1 .. Len(q)
  BY <1>1
<1> QED
  BY <1>1, <1>2 DEF Once

-----------------------------------------------------------------------------
\* The device and every task at rest.
LEMMA MboxInitInv == MboxInit => MboxInv
  BY MailboxAssumption
     DEF MboxInit, MboxInv, MboxTypeOK, Once, RequestsPending, AnswersPending,
         RequestUnanswered, LatchNotStale, MboxAnswered

\* A call that begins: nothing of the task's is in the device.
LEMMA CallInv ==
    ASSUME MboxInv, NEW t \in Callers, mailbox_call(t)
    PROVE  MboxInv'
<1> USE DEF MboxInv, mailbox_call, Goes
<1>1. MboxTypeOK'
  BY MailboxAssumption DEF MboxTypeOK
<1>2. Once(requests)' /\ Once(answers)'
  BY DEF Once
<1>3. RequestsPending' /\ AnswersPending'
  BY DEF MboxTypeOK, RequestsPending, AnswersPending, Polling
<1>4. RequestUnanswered' /\ LatchNotStale' /\ MboxAnswered'
  BY DEF MboxTypeOK, RequestUnanswered, LatchNotStale, MboxAnswered
<1> QED
  BY <1>1, <1>2, <1>3, <1>4

\* The steps of a task that leave the device alone.
LEMMA LocalInv ==
    ASSUME MboxInv, NEW t \in Callers,
           NotFull(t) \/ NotEmpty(t) \/ MboxReturn(t) \/ MboxPoll(t)
    PROVE  MboxInv'
<1> USE DEF MboxInv, NotFull, NotEmpty, MboxReturn, MboxPoll, Goes, mvars
<1>1. MboxTypeOK'
  BY DEF MboxTypeOK
<1>2. Once(requests)' /\ Once(answers)'
  BY DEF Once
<1>3. RequestsPending' /\ AnswersPending'
  BY SMTT(60) DEF MboxTypeOK, RequestsPending, AnswersPending, Polling
<1>4. RequestUnanswered' /\ LatchNotStale' /\ MboxAnswered'
  BY DEF MboxTypeOK, RequestUnanswered, LatchNotStale, MboxAnswered
<1> QED
  BY <1>1, <1>2, <1>3, <1>4

\* The request is written, or dropped by a full device.
LEMMA WriteInv ==
    ASSUME MboxInv, NEW t \in Callers, MboxWrite(t)
    PROVE  MboxInv'
<1> USE DEF MboxInv, MboxWrite, Goes
<1>1. /\ mpc[t] = "write" /\ mpc' = [mpc EXCEPT ![t] = "empty"]
      /\ UNCHANGED <<mbox, answers, latch, mcalls>>
  OBVIOUS
<1>2. /\ \A i \in 1 .. Len(requests) : requests[i] # t
      /\ \A i \in 1 .. Len(answers) : answers[i] # t
  BY <1>1 DEF RequestsPending, AnswersPending, Polling
<1>3. AnswersPending' /\ Once(answers)'
  BY <1>1, <1>2 DEF MboxTypeOK, AnswersPending, Once
<1>4. RequestUnanswered' /\ LatchNotStale' /\ MboxAnswered'
  BY <1>1 DEF MboxTypeOK, RequestUnanswered, LatchNotStale, MboxAnswered
<1>5. CASE Len(requests) < QueueLen
  <2>1. requests' = Append(requests, t)
    BY <1>5
  <2>2. /\ requests' \in Seq(Callers) /\ Len(requests') = Len(requests) + 1
        /\ Once(requests)'
        /\ \A i \in 1 .. Len(requests') :
             requests'[i] = t \/ \E j \in 1 .. Len(requests) : requests'[i] = requests[j]
    <3>1. requests \in Seq(Callers) /\ Once(requests) /\ t \in Callers
      BY DEF MboxTypeOK
    <3>2. \A i \in 1 .. Len(requests) : requests[i] # t
      BY <1>2
    <3>3. /\ Append(requests, t) \in Seq(Callers)
          /\ Len(Append(requests, t)) = Len(requests) + 1
          /\ Once(Append(requests, t))
          /\ \A i \in 1 .. Len(Append(requests, t)) :
               \/ Append(requests, t)[i] = t
               \/ \E j \in 1 .. Len(requests) : Append(requests, t)[i] = requests[j]
      BY ONLY <3>1, <3>2, OnceAppend
    <3>4. Once(requests)' <=> Once(Append(requests, t))
      BY ONLY <2>1 DEF Once
    <3> QED
      BY ONLY <2>1, <3>3, <3>4
  <2>3. MboxTypeOK'
    BY <1>1, <1>5, <2>2, MailboxAssumption DEF MboxTypeOK
  <2>4. RequestsPending'
    BY <1>1, <2>2 DEF MboxTypeOK, RequestsPending, RequestUnanswered, Polling
  <2> QED
    BY <1>3, <1>4, <2>2, <2>3, <2>4
<1>6. CASE ~(Len(requests) < QueueLen)
  BY <1>1, <1>2, <1>3, <1>4, <1>6 DEF MboxTypeOK, Once, RequestsPending
<1> QED
  BY <1>5, <1>6

\* The firmware answers the request at the head: its task is in the loop.
LEMMA AnswerInv ==
    ASSUME MboxInv, Answer
    PROVE  MboxInv'
<1> DEFINE t == Head(requests)
<1> USE DEF MboxInv
<1>1. PICK verdict \in Verdicts :
      /\ requests # <<>> /\ Len(answers) < QueueLen
      /\ mbox' = [mbox EXCEPT ![t] = verdict]
      /\ answers' = Append(answers, t) /\ requests' = Tail(requests)
      /\ UNCHANGED <<mpc, latch, mcalls>>
  BY DEF Answer
<1>2. /\ t = requests[1] /\ 1 \in 1 .. Len(requests) /\ t \in Callers
      /\ requests' \in Seq(Callers) /\ Len(requests') = Len(requests) - 1
      /\ Once(requests)'
      /\ \A i \in 1 .. Len(requests') :
           requests'[i] # t /\ \E j \in 1 .. Len(requests) : requests'[i] = requests[j]
  BY <1>1, OnceTail DEF MboxTypeOK, Once
<1>3. mpc[t] \in Polling /\ mbox[t] = "REQUEST"
  BY <1>2 DEF RequestsPending
<1> HIDE DEF t
<1>4. \A i \in 1 .. Len(answers) : answers[i] # t
  BY <1>3 DEF AnswersPending, Verdicts
<1>5. /\ answers' \in Seq(Callers) /\ Len(answers') = Len(answers) + 1
      /\ Once(answers)' /\ answers' # <<>>
      /\ \A i \in 1 .. Len(answers') :
           answers'[i] = t \/ \E j \in 1 .. Len(answers) : answers'[i] = answers[j]
  <2>1. answers \in Seq(Callers) /\ Once(answers)
    BY DEF MboxTypeOK
  <2>2. /\ Append(answers, t) \in Seq(Callers)
        /\ Len(Append(answers, t)) = Len(answers) + 1
        /\ Once(Append(answers, t))
        /\ \A i \in 1 .. Len(Append(answers, t)) :
             Append(answers, t)[i] = t
             \/ \E j \in 1 .. Len(answers) : Append(answers, t)[i] = answers[j]
    BY <1>2, <1>4, <2>1, OnceAppend, SMTT(60)
  <2>3. Append(answers, t) # <<>>
    <3>1. Len(answers) \in Nat /\ Len(<<>>) = 0
      BY <2>1
    <3>2. Len(Append(answers, t)) # 0
      BY <2>2, <3>1
    <3> QED
      BY <3>1, <3>2
  <2>4. answers' = Append(answers, t)
    BY <1>1
  <2> HIDE DEF Once
  <2>5. Once(answers')
    BY <2>2, <2>4
  <2>6. Once(answers)'
    BY <2>5 DEF Once
  <2> QED
    BY <2>2, <2>3, <2>4, <2>6
<1>6. MboxTypeOK'
  BY <1>1, <1>2, <1>5, MailboxAssumption DEF MboxTypeOK
<1>7. RequestsPending'
  BY <1>1, <1>2 DEF MboxTypeOK, RequestsPending
<1>8. AnswersPending'
  BY <1>1, <1>2, <1>3, <1>5 DEF MboxTypeOK, AnswersPending
<1>9. RequestUnanswered' /\ LatchNotStale' /\ MboxAnswered'
  BY <1>1, <1>2, <1>3, <1>5
     DEF MboxTypeOK, RequestUnanswered, LatchNotStale, MboxAnswered, Polling
<1> QED
  BY <1>2, <1>5, <1>6, <1>7, <1>8, <1>9

\* An answer is read: the task's own, another's, or what the device repeats.
LEMMA ReadInv ==
    ASSUME MboxInv, NEW t \in Callers, MboxRead(t)
    PROVE  MboxInv'
<1> DEFINE a == IF answers = <<>> THEN latch ELSE Head(answers)
           q == IF a = t THEN "done" ELSE "empty"
<1> USE DEF MboxInv
<1>1. /\ mpc[t] = "read" /\ mpc' = [mpc EXCEPT ![t] = q]
      /\ answers' = IF answers = <<>> THEN <<>> ELSE Tail(answers)
      /\ latch' = a
      /\ UNCHANGED <<mbox, requests, mcalls>>
  BY DEF MboxRead, Goes, IsMine
<1>2. CASE answers = <<>>
  <2>1. a = latch /\ answers' = <<>>
    BY <1>1, <1>2
  <2>2. latch = t => mbox[t] \in Verdicts
    BY <1>1, <1>2 DEF LatchNotStale, MboxTypeOK
  <2>3. q = "done" => mbox[t] \in Verdicts
    BY <2>1, <2>2
  <2>4. q \in {"done", "empty"}
    OBVIOUS
  <2> HIDE DEF a, q
  <2>5. MboxTypeOK' /\ Once(requests)' /\ Once(answers)' /\ AnswersPending'
    BY <1>1, <1>2, <2>1, <2>4 DEF MboxTypeOK, Once, AnswersPending
  <2>6. RequestsPending'
    BY <1>1, <2>3, <2>4 DEF MboxTypeOK, RequestsPending, Polling, Verdicts
  <2>7. RequestUnanswered' /\ LatchNotStale' /\ MboxAnswered'
    BY <1>1, <1>2, <2>1, <2>3, <2>4
       DEF MboxTypeOK, RequestUnanswered, LatchNotStale, MboxAnswered
  <2> QED
    BY <2>5, <2>6, <2>7
<1>3. CASE answers # <<>>
  <2>1. a = Head(answers) /\ answers' = Tail(answers)
    BY <1>1, <1>3
  <2>2. /\ a = answers[1] /\ 1 \in 1 .. Len(answers) /\ a \in Callers
        /\ answers' \in Seq(Callers) /\ Len(answers') = Len(answers) - 1
        /\ Once(answers)'
        /\ \A i \in 1 .. Len(answers') :
             answers'[i] # a /\ \E j \in 1 .. Len(answers) : answers'[i] = answers[j]
    BY <1>3, <2>1, OnceTail DEF MboxTypeOK, Once
  <2>3. mpc[a] \in Polling /\ mbox[a] \in Verdicts
    BY <2>2 DEF AnswersPending
  <2>4. q \in {"done", "empty"} /\ (q = "done" <=> a = t)
    OBVIOUS
  <2> HIDE DEF a, q
  <2>5. MboxTypeOK' /\ Once(requests)'
    <3>1. Once(requests)'
      BY <1>1 DEF Once
    <3>2. Len(answers) <= QueueLen => Len(answers') <= QueueLen
      BY <2>2, MailboxAssumption DEF MboxTypeOK
    <3>3. mpc' \in [Callers -> {"user", "full", "write", "empty", "read", "done"}]
      BY <1>1, <2>4 DEF MboxTypeOK
    <3> QED
      BY <1>1, <2>2, <3>1, <3>2, <3>3 DEF MboxTypeOK
  <2>6. RequestsPending'
    <3> SUFFICES ASSUME NEW i \in 1 .. Len(requests)
                 PROVE  mpc'[requests[i]] \in Polling /\ mbox[requests[i]] = "REQUEST"
      BY <1>1 DEF RequestsPending
    <3>1. /\ requests[i] \in Callers /\ mpc[requests[i]] \in Polling
          /\ mbox[requests[i]] = "REQUEST"
      BY DEF MboxTypeOK, RequestsPending
    <3>2. requests[i] = t => q = "empty"
      BY <2>3, <2>4, <3>1 DEF Verdicts
    <3> QED
      BY <1>1, <3>1, <3>2 DEF MboxTypeOK, Polling
  <2>7. AnswersPending'
    <3> SUFFICES ASSUME NEW i \in 1 .. Len(answers')
                 PROVE  mpc'[answers'[i]] \in Polling /\ mbox[answers'[i]] \in Verdicts
      BY <1>1 DEF AnswersPending
    <3>1. PICK j \in 1 .. Len(answers) : answers'[i] = answers[j] /\ answers[j] # a
      <4>1. answers'[i] # a
        BY <2>2
      <4>2. PICK j \in 1 .. Len(answers) : answers'[i] = answers[j]
        BY <2>2
      <4> QED
        BY <4>1, <4>2
    <3>2. /\ answers[j] \in Callers /\ mpc[answers[j]] \in Polling
          /\ mbox[answers[j]] \in Verdicts
      BY DEF MboxTypeOK, AnswersPending
    <3>3. answers[j] = t => q = "empty"
      BY <2>4, <3>1
    <3> QED
      BY <1>1, <3>1, <3>2, <3>3 DEF MboxTypeOK, Polling
  <2>8. RequestUnanswered' /\ LatchNotStale' /\ MboxAnswered'
    <3>1. mpc' = [mpc EXCEPT ![t] = q] /\ mpc[t] = "read" /\ UNCHANGED mbox
      BY <1>1
    <3>2. mpc \in [Callers -> {"user", "full", "write", "empty", "read", "done"}]
      BY DEF MboxTypeOK
    <3>3. mbox[t] \in Verdicts => mbox[t] # "REQUEST"
      BY DEF Verdicts
    <3>4. RequestUnanswered'
      BY <2>4, <3>1, <3>2 DEF RequestUnanswered
    <3>5. q = "done" => mbox[t] \in Verdicts
      BY <2>3, <2>4
    <3>6. MboxAnswered'
      BY <2>4, <3>1, <3>2, <3>5 DEF MboxAnswered
    <3>7. LatchNotStale'
      <4> SUFFICES ASSUME NEW u \in Callers, mpc'[u] = "read", latch' = u, mbox[u] = "REQUEST"
                   PROVE  FALSE
        BY <3>1 DEF LatchNotStale
      <4>1. u = a
        BY <1>1
      <4>2. mbox[u] \in Verdicts
        BY <2>3, <4>1
      <4> QED
        BY <4>2 DEF Verdicts
    <3> QED
      BY <3>4, <3>6, <3>7
  <2> QED
    BY <2>2, <2>5, <2>6, <2>7, <2>8
<1> QED
  BY <1>2, <1>3

\* The invariant is inductive.
LEMMA MboxInvariant == MboxSpec => []MboxInv
<1>1. MboxInv /\ [MboxNext]_mvars => MboxInv'
  <2> SUFFICES ASSUME MboxInv, [MboxNext]_mvars PROVE MboxInv'
    OBVIOUS
  <2>1. CASE UNCHANGED mvars
    BY <2>1 DEF mvars, MboxInv, MboxTypeOK, Once, RequestsPending, AnswersPending,
                RequestUnanswered, LatchNotStale, MboxAnswered
  <2>2. CASE MboxNext
    BY <2>2, CallInv, LocalInv, WriteInv, AnswerInv, ReadInv DEF MboxNext
  <2> QED
    BY <2>1, <2>2
<1> QED
  BY <1>1, MboxInitInv, PTL DEF MboxSpec

-----------------------------------------------------------------------------
\* The queues of the device hold tasks and stay within its limits, although tasks
\* write after a test of MBOX_FULL that may be out of date.
THEOREM MboxTypeCorrect == MboxSpec => []MboxTypeOK
<1>1. MboxInv => MboxTypeOK
  BY DEF MboxInv
<1> QED
  BY <1>1, MboxInvariant, PTL

\* mailbox_call returns only when the firmware has answered this very request, for
\* any number of tasks that call it at once, without a lock, and preempt one
\* another between any two accesses to the device.
THEOREM MboxCallAnswered == MboxSpec => []MboxAnswered
<1>1. MboxInv => MboxAnswered
  BY DEF MboxInv
<1> QED
  BY <1>1, MboxInvariant, PTL
-----------------------------------------------------------------------------
(***************************************************************************)
(* list.h, for lists of every length.  The links of a list go round        *)
(* (Circle), and every operation keeps them so; a loop of n rounds goes    *)
(* along them (Iterates), and by induction on the rounds it has seen the   *)
(* list up to there.  The head is node 0.                                  *)
(***************************************************************************)
\* The node at place i of the list s; the head is before the first one and after
\* the last.
Place(s, i) == IF i \in 1 .. Len(s) THEN s[i] ELSE ListHead

\* The links go from every node to the next one and back.
Circle(h, s) ==
    \A i \in 0 .. Len(s) :
      h.next[Place(s, i)] = Place(s, i + 1) /\ h.prev[Place(s, i + 1)] = Place(s, i)

Entries == 1 .. Nodes

Heap == [next : [Node -> Node], prev : [Node -> Node]]

\* Memory h holds the list s, each entry once.
ListIn(h, s) == h \in Heap /\ s \in Seq(Entries) /\ Once(s) /\ Circle(h, s)

\* s with new at place k + 1.
Inserted(s, k, new) == SubSeq(s, 1, k) \o <<new>> \o SubSeq(s, k + 1, Len(s))

\* The places of a list hold different nodes: the head is at place 0, and again
\* at the end.
LEMMA PlaceFacts ==
    ASSUME NEW s \in Seq(Entries), Once(s)
    PROVE  /\ Len(s) \in Nat
           /\ \A i \in 1 .. Len(s) : Place(s, i) = s[i] /\ s[i] \in Entries
           /\ Place(s, 0) = ListHead /\ Place(s, Len(s) + 1) = ListHead
           /\ \A i \in 0 .. Len(s) + 1 : Place(s, i) \in Node
           /\ \A i, j \in 0 .. Len(s) : Place(s, i) = Place(s, j) => i = j
           /\ \A i, j \in 1 .. Len(s) + 1 : Place(s, i) = Place(s, j) => i = j
<1>1. Len(s) \in Nat /\ \A i \in 1 .. Len(s) : s[i] \in Entries
  OBVIOUS
<1>2. \A i \in 1 .. Len(s) : Place(s, i) = s[i] /\ s[i] # ListHead
  BY <1>1, ListsAssumption DEF Place, Entries, ListHead
<1>3. Place(s, 0) = ListHead /\ Place(s, Len(s) + 1) = ListHead
  BY <1>1 DEF Place
<1>4. \A i \in 0 .. Len(s) + 1 : Place(s, i) \in Node
  BY <1>1, ListsAssumption DEF Place, Entries, ListHead, Node
<1>5. \A i, j \in 0 .. Len(s) : Place(s, i) = Place(s, j) => i = j
  BY <1>1, <1>2, <1>3 DEF Once
<1>6. \A i, j \in 1 .. Len(s) + 1 : Place(s, i) = Place(s, j) => i = j
  BY <1>1, <1>2, <1>3 DEF Once
<1> QED
  BY <1>1, <1>2, <1>3, <1>4, <1>5, <1>6

\* A list with an entry more: the places up to k stay, the others move up by one.
LEMMA InsertedPlaces ==
    ASSUME NEW s \in Seq(Entries), Once(s), NEW k \in 0 .. Len(s),
           NEW new \in Entries, \A i \in 1 .. Len(s) : s[i] # new
    PROVE  LET t == Inserted(s, k, new)
           IN  /\ t \in Seq(Entries) /\ Len(t) = Len(s) + 1 /\ Once(t)
               /\ \A i \in 0 .. k : Place(t, i) = Place(s, i)
               /\ Place(t, k + 1) = new
               /\ \A i \in k + 2 .. Len(s) + 2 : Place(t, i) = Place(s, i - 1)
<1> DEFINE x == SubSeq(s, 1, k)
           y == SubSeq(s, k + 1, Len(s))
           z == x \o <<new>>
           t == z \o y
<1>1. /\ x \in Seq(Entries) /\ Len(x) = k /\ \A i \in 1 .. k : x[i] = s[i]
      /\ y \in Seq(Entries) /\ Len(y) = Len(s) - k /\ \A i \in 1 .. Len(s) - k : y[i] = s[k + i]
  BY Parts
<1> HIDE DEF x, y
<1>2. /\ z \in Seq(Entries) /\ Len(z) = k + 1 /\ z[k + 1] = new
      /\ \A i \in 1 .. k : z[i] = s[i]
  <2> DEFINE one == <<new>>
  <2>1. one \in Seq(Entries) /\ Len(one) = 1 /\ one[1] = new
    OBVIOUS
  <2> HIDE DEF one
  <2>2. /\ x \o one \in Seq(Entries) /\ Len(x \o one) = k + 1
        /\ \A i \in 1 .. k + 1 : (x \o one)[i] = IF i <= k THEN x[i] ELSE one[i - k]
    <3>1. /\ x \o one \in Seq(Entries) /\ Len(x \o one) = Len(x) + Len(one)
          /\ \A i \in 1 .. Len(x) + Len(one) :
               (x \o one)[i] = IF i <= Len(x) THEN x[i] ELSE one[i - Len(x)]
      BY ONLY <1>1, <2>1, Concatenated
    <3>2. Len(x) = k /\ Len(one) = 1
      BY <1>1, <2>1
    <3> QED
      BY <3>1, <3>2
  <2>3. \A i \in 1 .. k : i \in 1 .. k + 1 /\ i <= k
    OBVIOUS
  <2>4. \A i \in 1 .. k : (x \o one)[i] = s[i]
    BY <1>1, <2>2, <2>3
  <2>5. k + 1 \in 1 .. k + 1 /\ ~(k + 1 <= k) /\ (k + 1) - k = 1
    OBVIOUS
  <2>6. (x \o one)[k + 1] = new
    BY <2>1, <2>2, <2>5
  <2> QED
    BY <2>2, <2>4, <2>6 DEF one
<1> HIDE DEF z
<1>3. /\ t \in Seq(Entries) /\ Len(t) = Len(s) + 1
      /\ \A i \in 1 .. Len(s) + 1 : t[i] = IF i <= k + 1 THEN z[i] ELSE y[i - (k + 1)]
  <2>1. /\ z \o y \in Seq(Entries) /\ Len(z \o y) = Len(z) + Len(y)
        /\ \A i \in 1 .. Len(z) + Len(y) :
             (z \o y)[i] = IF i <= Len(z) THEN z[i] ELSE y[i - Len(z)]
    BY ONLY <1>1, <1>2, Concatenated, ZenonT(60)
  <2>2. Len(z) = k + 1 /\ Len(z) + Len(y) = Len(s) + 1
    BY <1>1, <1>2
  <2> QED
    BY <2>1, <2>2
<1>4. t = Inserted(s, k, new)
  BY DEF Inserted, x, y, z
<1> HIDE DEF t
<1>5. Len(s) \in Nat /\ Len(t) = Len(s) + 1
  BY <1>3
<1>6. /\ \A i \in 1 .. k : t[i] = s[i]
      /\ t[k + 1] = new
      /\ \A i \in k + 2 .. Len(s) + 1 : t[i] = s[i - 1]
  <2>1. \A i \in 1 .. k : t[i] = s[i]
    BY <1>2, <1>3, <1>5
  <2>2. t[k + 1] = new
    BY <1>2, <1>3, <1>5
  <2>3. ASSUME NEW i \in k + 2 .. Len(s) + 1 PROVE t[i] = s[i - 1]
    <3>0. i \in 1 .. Len(s) + 1 /\ ~(i <= k + 1) /\ i - (k + 1) \in 1 .. Len(s) - k
      BY <1>5
    <3>1. t[i] = y[i - (k + 1)] /\ i - (k + 1) \in 1 .. Len(s) - k
      BY <1>3, <3>0
    <3>2. PICK j \in 1 .. Len(s) - k : j = i - (k + 1)
      BY <3>1
    <3>3. y[j] = s[k + j] /\ k + j = i - 1
      BY <1>1, <1>5, <3>2
    <3> QED
      BY <3>1, <3>2, <3>3
  <2> QED
    BY <2>1, <2>2, <2>3
<1>7. Once(t)
  <2> DEFINE from(i) == IF i <= k THEN i ELSE i - 1
  <2>1. ASSUME NEW i \in 1 .. Len(s) + 1, i # k + 1
        PROVE  from(i) \in 1 .. Len(s) /\ t[i] = s[from(i)]
    <3>1. CASE i <= k
      BY <1>5, <1>6, <3>1
    <3>2. CASE ~(i <= k)
      <4>1. i \in k + 2 .. Len(s) + 1 /\ i - 1 \in 1 .. Len(s)
        BY <1>5, <2>1, <3>2
      <4> QED
        BY <1>6, <3>2, <4>1
    <3> QED
      BY <3>1, <3>2
  <2>2. ASSUME NEW i \in 1 .. Len(s) + 1, NEW j \in 1 .. Len(s) + 1, t[i] = t[j] PROVE i = j
    <3>1. CASE i = k + 1 \/ j = k + 1
      BY <1>6, <2>1, <2>2, <3>1
    <3>2. CASE i # k + 1 /\ j # k + 1
      <4>1. s[from(i)] = s[from(j)] /\ from(i) \in 1 .. Len(s) /\ from(j) \in 1 .. Len(s)
        BY <2>1, <2>2, <3>2
      <4>2. from(i) = from(j)
        BY <4>1 DEF Once
      <4> QED
        BY <3>2, <4>2
    <3> QED
      BY <3>1, <3>2
  <2> QED
    BY <1>5, <2>2 DEF Once
<1>8. /\ \A i \in 0 .. k : Place(t, i) = Place(s, i)
      /\ Place(t, k + 1) = new
      /\ \A i \in k + 2 .. Len(s) + 2 : Place(t, i) = Place(s, i - 1)
  <2>1. \A i \in 0 .. k : Place(t, i) = Place(s, i)
    BY <1>5, <1>6 DEF Place
  <2>2. Place(t, k + 1) = new
    BY <1>5, <1>6 DEF Place
  <2>3. \A i \in k + 2 .. Len(s) + 2 : Place(t, i) = Place(s, i - 1)
    BY <1>5, <1>6 DEF Place
  <2> QED
    BY <2>1, <2>2, <2>3
<1> QED
  BY <1>3, <1>4, <1>5, <1>7, <1>8

\* __list_add between two neighbours.
LEMMA AddBetween ==
    ASSUME NEW h, NEW s, ListIn(h, s), NEW k \in 0 .. Len(s),
           NEW new \in Entries, \A i \in 1 .. Len(s) : s[i] # new
    PROVE  ListIn(__list_add(h, new, Place(s, k), Place(s, k + 1)), Inserted(s, k, new))
<1> DEFINE g == __list_add(h, new, Place(s, k), Place(s, k + 1))
           t == Inserted(s, k, new)
           n == Len(s)
<1>1. h \in Heap /\ s \in Seq(Entries) /\ Once(s) /\ Circle(h, s)
  BY DEF ListIn
<1>2. /\ n \in Nat /\ \A i \in 0 .. n + 1 : Place(s, i) \in Node
      /\ \A i, j \in 0 .. n : Place(s, i) = Place(s, j) => i = j
      /\ \A i, j \in 1 .. n + 1 : Place(s, i) = Place(s, j) => i = j
  BY <1>1, PlaceFacts
<1>3. new \in Node /\ \A i \in 0 .. n + 1 : Place(s, i) # new
  BY <1>2, ListsAssumption DEF Entries, Node, Place, ListHead
<1>4. /\ t \in Seq(Entries) /\ Len(t) = n + 1 /\ Once(t)
      /\ \A i \in 0 .. k : Place(t, i) = Place(s, i)
      /\ Place(t, k + 1) = new
      /\ \A i \in k + 2 .. n + 2 : Place(t, i) = Place(s, i - 1)
  BY <1>1, InsertedPlaces
<1>5. /\ h.next \in [Node -> Node] /\ h.prev \in [Node -> Node]
      /\ \A i \in 0 .. n : h.next[Place(s, i)] = Place(s, i + 1)
      /\ \A i \in 0 .. n : h.prev[Place(s, i + 1)] = Place(s, i)
  BY <1>1 DEF Heap, Circle
<1>6. /\ g.next = [h.next EXCEPT ![new] = Place(s, k + 1), ![Place(s, k)] = new]
      /\ g.prev = [h.prev EXCEPT ![Place(s, k + 1)] = new, ![new] = Place(s, k)]
      /\ g = [next |-> g.next, prev |-> g.prev]
  BY DEF __list_add
<1> HIDE DEF g, t, n
<1>7. /\ Place(s, k) \in Node /\ Place(s, k + 1) \in Node
      /\ Place(s, k) # new /\ Place(s, k + 1) # new
  BY <1>2, <1>3 DEF n
<1>8. /\ g.next \in [Node -> Node] /\ g.prev \in [Node -> Node]
      /\ g.next[new] = Place(s, k + 1) /\ g.next[Place(s, k)] = new
      /\ \A x \in Node \ {new, Place(s, k)} : g.next[x] = h.next[x]
      /\ g.prev[new] = Place(s, k) /\ g.prev[Place(s, k + 1)] = new
      /\ \A x \in Node \ {new, Place(s, k + 1)} : g.prev[x] = h.prev[x]
  BY <1>3, <1>5, <1>6, <1>7, SMTT(60)
<1>9. g \in Heap
  BY <1>6, <1>8 DEF Heap
<1>10. k \in 0 .. n
  BY DEF n
<1>11. ASSUME NEW i \in 0 .. n + 1
       PROVE  g.next[Place(t, i)] = Place(t, i + 1) /\ g.prev[Place(t, i + 1)] = Place(t, i)
  <2>1. CASE i < k
    <3>1. /\ i \in 0 .. k /\ i + 1 \in 0 .. k /\ i \in 0 .. n /\ i + 1 \in 0 .. n + 1
          /\ i + 1 \in 1 .. n + 1 /\ k + 1 \in 1 .. n + 1 /\ i # k /\ i + 1 # k + 1
      BY <1>2, <1>10, <2>1
    <3>2. Place(s, i) \in Node \ {new, Place(s, k)}
      BY <1>2, <1>3, <1>10, <3>1
    <3>3. Place(s, i + 1) \in Node \ {new, Place(s, k + 1)}
      BY <1>2, <1>3, <3>1
    <3> QED
      BY <1>4, <1>5, <1>8, <3>1, <3>2, <3>3
  <2>2. CASE i = k
    BY <1>4, <1>8, <1>10, <2>2
  <2>3. CASE i = k + 1
    <3>1. i + 1 \in k + 2 .. n + 2 /\ (i + 1) - 1 = k + 1
      BY <1>2, <1>10, <2>3
    <3>2. Place(t, i + 1) = Place(s, k + 1)
      BY <1>4, <3>1
    <3> QED
      BY <1>4, <1>8, <2>3, <3>2
  <2>4. CASE i > k + 1
    <3>1. PICK j \in k + 1 .. n : i = j + 1
      BY <1>2, <1>10, <2>4
    <3>2. /\ i \in k + 2 .. n + 2 /\ i + 1 \in k + 2 .. n + 2 /\ i - 1 = j /\ (i + 1) - 1 = j + 1
          /\ j \in 0 .. n /\ j + 1 \in 0 .. n + 1
          /\ j + 1 \in 1 .. n + 1 /\ k + 1 \in 1 .. n + 1 /\ j # k /\ j + 1 # k + 1
      BY <1>2, <1>10, <3>1
    <3>3. Place(t, i) = Place(s, j) /\ Place(t, i + 1) = Place(s, j + 1)
      BY <1>4, <3>2
    <3>4. Place(s, j) \in Node \ {new, Place(s, k)}
      BY <1>2, <1>3, <1>10, <3>2
    <3>5. Place(s, j + 1) \in Node \ {new, Place(s, k + 1)}
      BY <1>2, <1>3, <3>2
    <3> QED
      BY <1>5, <1>8, <3>2, <3>3, <3>4, <3>5
  <2> QED
    BY <1>2, <1>10, <2>1, <2>2, <2>3, <2>4
<1>12. Circle(g, t)
  BY <1>4, <1>11 DEF Circle
<1> QED
  BY <1>4, <1>9, <1>12 DEF ListIn, g, t

\* list_add after a node of the list or the head, and list_add_tail.
LEMMA ListAdds ==
    ASSUME NEW h, NEW s, ListIn(h, s),
           NEW new \in Entries, new \notin ToSet(s)
    PROVE  /\ ListIn(list_add_tail(h, new, ListHead), Append(s, new))
           /\ \A at \in ToSet(s) \cup {ListHead} :
                ListIn(list_add(h, new, at), InsertedAfter(s, at, new))
<1> DEFINE n == Len(s)
<1>1. h \in Heap /\ s \in Seq(Entries) /\ Once(s) /\ Circle(h, s)
  BY DEF ListIn
<1>2. /\ n \in Nat /\ Place(s, 0) = ListHead /\ Place(s, n + 1) = ListHead
      /\ \A i \in 1 .. n : Place(s, i) = s[i] /\ s[i] \in Entries
  BY <1>1, PlaceFacts
<1>3. \A i \in 1 .. n : s[i] # new
  BY <1>1 DEF ToSet
<1>4. \A k \in 0 .. n :
        ListIn(__list_add(h, new, Place(s, k), Place(s, k + 1)), Inserted(s, k, new))
  BY <1>3, AddBetween
<1>5. \A k \in 0 .. n :
        h.next[Place(s, k)] = Place(s, k + 1) /\ h.prev[Place(s, k + 1)] = Place(s, k)
  BY <1>1 DEF Circle
<1>6. ListIn(list_add_tail(h, new, ListHead), Append(s, new))
  <2>1. n \in 0 .. n
    BY <1>2
  <2>2. list_add_tail(h, new, ListHead) = __list_add(h, new, Place(s, n), Place(s, n + 1))
    BY <1>2, <1>5, <2>1 DEF list_add_tail
  <2>3. Inserted(s, n, new) = Append(s, new)
    <3>1. SubSeq(s, 1, n) = s /\ SubSeq(s, n + 1, n) = <<>>
      <4>1. SubSeq(s, 1, n) = s
        BY <1>1, SubSeqFull
      <4>2. n + 1 \in Int /\ n \in Int /\ n < n + 1
        BY <1>2
      <4> QED
        BY <4>1, <4>2, SubSeqEmpty
    <3>2. s \o <<new>> = Append(s, new) /\ Append(s, new) \in Seq(Entries)
      BY <1>1, AppendIsConcat
    <3>3. Append(s, new) \o <<>> = Append(s, new)
      BY <3>2, ConcatEmptySeq
    <3> QED
      BY <3>1, <3>2, <3>3 DEF Inserted
  <2> QED
    BY <1>4, <2>1, <2>2, <2>3
<1>7. ASSUME NEW at \in ToSet(s) \cup {ListHead}
      PROVE  ListIn(list_add(h, new, at), InsertedAfter(s, at, new))
  <2> DEFINE k == IF at = ListHead THEN 0 ELSE CHOOSE j \in DOMAIN s : s[j] = at
  <2>1. k \in 0 .. n /\ Place(s, k) = at
    <3>1. CASE at = ListHead
      BY <1>2, <3>1
    <3>2. CASE at # ListHead
      <4>1. \E j \in DOMAIN s : s[j] = at
        BY <3>2 DEF ToSet
      <4>2. k \in DOMAIN s /\ s[k] = at
        BY <3>2, <4>1
      <4> HIDE DEF k
      <4>3. k \in 1 .. n
        BY <1>1, <4>2
      <4> QED
        BY <1>2, <4>2, <4>3
    <3> QED
      BY <3>1, <3>2
  <2>2. InsertedAfter(s, at, new) = Inserted(s, k, new)
    BY DEF InsertedAfter, Inserted
  <2> HIDE DEF k
  <2>3. list_add(h, new, at) = __list_add(h, new, Place(s, k), Place(s, k + 1))
    BY <1>5, <2>1 DEF list_add
  <2> QED
    BY <1>4, <2>1, <2>2, <2>3
<1> QED
  BY <1>6, <1>7

\* A list with an entry less: the places before k stay, the others move down.
LEMMA RemovedPlaces ==
    ASSUME NEW s \in Seq(Entries), Once(s), NEW k \in 1 .. Len(s)
    PROVE  LET t == RemoveFirst(s, s[k])
           IN  /\ t \in Seq(Entries) /\ Len(t) = Len(s) - 1 /\ Once(t)
               /\ \A i \in 0 .. k - 1 : Place(t, i) = Place(s, i)
               /\ \A i \in k .. Len(s) : Place(t, i) = Place(s, i + 1)
<1> DEFINE x == SubSeq(s, 1, k - 1)
           y == SubSeq(s, k + 1, Len(s))
           t == x \o y
           I == {i \in 1 .. Len(s) : s[i] = s[k]}
<1>1. /\ x \in Seq(Entries) /\ Len(x) = k - 1 /\ \A i \in 1 .. k - 1 : x[i] = s[i]
      /\ y \in Seq(Entries) /\ Len(y) = Len(s) - k /\ \A i \in 1 .. Len(s) - k : y[i] = s[k + i]
  <2>1. k - 1 \in 0 .. Len(s) /\ k \in 0 .. Len(s)
    OBVIOUS
  <2> QED
    BY <2>1, Parts, SMTT(60)
<1>2. t = RemoveFirst(s, s[k])
  <2>1. I = {k}
    BY DEF Once
  <2>2. Min(I) = k
    BY <2>1 DEF Min
  <2>3. SelectInSeq(s, LAMBDA v : v = s[k]) = k
    BY <2>1, <2>2 DEF SelectInSeq
  <2>4. RemoveFirst(s, s[k]) = RemoveAt(s, SelectInSeq(s, LAMBDA v : v = s[k]))
    BY DEF RemoveFirst
  <2> QED
    BY <2>3, <2>4 DEF RemoveAt
<1> HIDE DEF x, y
<1>3. /\ t \in Seq(Entries) /\ Len(t) = Len(s) - 1
      /\ \A i \in 1 .. Len(s) - 1 : t[i] = IF i <= k - 1 THEN x[i] ELSE y[i - (k - 1)]
  <2>1. /\ x \o y \in Seq(Entries) /\ Len(x \o y) = Len(x) + Len(y)
        /\ \A i \in 1 .. Len(x) + Len(y) :
             (x \o y)[i] = IF i <= Len(x) THEN x[i] ELSE y[i - Len(x)]
    BY ONLY <1>1, Concatenated
  <2>2. Len(x) = k - 1 /\ Len(x) + Len(y) = Len(s) - 1
    BY <1>1
  <2> QED
    BY <2>1, <2>2
<1> HIDE DEF t
<1>4. Len(s) \in Nat /\ Len(t) = Len(s) - 1
  BY <1>3
<1>5. ASSUME NEW i \in 1 .. k - 1 PROVE t[i] = s[i]
  <2>1. i \in 1 .. Len(s) - 1 /\ i <= k - 1
    BY <1>4
  <2> QED
    BY <1>1, <1>3, <2>1
<1>6. ASSUME NEW i \in k .. Len(s) - 1 PROVE t[i] = s[i + 1]
  <2>1. i \in 1 .. Len(s) - 1 /\ ~(i <= k - 1)
    BY <1>4
  <2>2. PICK j \in 1 .. Len(s) - k : j = i - (k - 1)
    BY <1>4
  <2>3. y[j] = s[k + j] /\ k + j = i + 1
    BY <1>1, <1>4, <2>2
  <2> QED
    BY <1>3, <2>1, <2>2, <2>3
<1>7. Once(t)
  <2> DEFINE from(i) == IF i <= k - 1 THEN i ELSE i + 1
  <2>1. ASSUME NEW i \in 1 .. Len(s) - 1
        PROVE  from(i) \in 1 .. Len(s) /\ t[i] = s[from(i)]
    <3>1. CASE i <= k - 1
      BY <1>4, <1>5, <3>1
    <3>2. CASE ~(i <= k - 1)
      BY <1>4, <1>6, <3>2
    <3> QED
      BY <3>1, <3>2
  <2>2. ASSUME NEW i \in 1 .. Len(s) - 1, NEW j \in 1 .. Len(s) - 1, t[i] = t[j] PROVE i = j
    <3>1. s[from(i)] = s[from(j)] /\ from(i) \in 1 .. Len(s) /\ from(j) \in 1 .. Len(s)
      BY <2>1, <2>2
    <3>2. from(i) = from(j)
      BY <3>1 DEF Once
    <3> QED
      BY <3>2
  <2> QED
    BY <1>4, <2>2 DEF Once
<1>8. \A i \in 0 .. k - 1 : Place(t, i) = Place(s, i)
  BY <1>4, <1>5 DEF Place
<1>9. \A i \in k .. Len(s) : Place(t, i) = Place(s, i + 1)
  BY <1>4, <1>6 DEF Place
<1> QED
  BY <1>2, <1>3, <1>4, <1>7, <1>8, <1>9

\* list_del: the entry itself keeps its links.
LEMMA ListDel ==
    ASSUME NEW h, NEW s, ListIn(h, s), NEW k \in 1 .. Len(s)
    PROVE  /\ ListIn(list_del(h, s[k]), RemoveFirst(s, s[k]))
           /\ list_del(h, s[k]).next[s[k]] = Place(s, k + 1)
<1> DEFINE g == list_del(h, s[k])
           t == RemoveFirst(s, s[k])
           n == Len(s)
<1>1. h \in Heap /\ s \in Seq(Entries) /\ Once(s) /\ Circle(h, s)
  BY DEF ListIn
<1>2. /\ n \in Nat /\ \A i \in 0 .. n + 1 : Place(s, i) \in Node
      /\ \A i \in 1 .. n : Place(s, i) = s[i]
      /\ \A i, j \in 0 .. n : Place(s, i) = Place(s, j) => i = j
      /\ \A i, j \in 1 .. n + 1 : Place(s, i) = Place(s, j) => i = j
  BY <1>1, PlaceFacts
<1>3. /\ t \in Seq(Entries) /\ Len(t) = n - 1 /\ Once(t)
      /\ \A i \in 0 .. k - 1 : Place(t, i) = Place(s, i)
      /\ \A i \in k .. n : Place(t, i) = Place(s, i + 1)
  BY <1>1, RemovedPlaces
<1>4. /\ h.next \in [Node -> Node] /\ h.prev \in [Node -> Node]
      /\ \A i \in 0 .. n : h.next[Place(s, i)] = Place(s, i + 1)
      /\ \A i \in 0 .. n : h.prev[Place(s, i + 1)] = Place(s, i)
  BY <1>1 DEF Heap, Circle
<1>5. h.prev[s[k]] = Place(s, k - 1) /\ h.next[s[k]] = Place(s, k + 1)
  <2>1. k - 1 \in 0 .. n /\ (k - 1) + 1 = k /\ k \in 0 .. n /\ Place(s, k) = s[k]
    BY <1>2
  <2> QED
    BY <1>4, <2>1
<1>6. /\ g.next = [h.next EXCEPT ![Place(s, k - 1)] = Place(s, k + 1)]
      /\ g.prev = [h.prev EXCEPT ![Place(s, k + 1)] = Place(s, k - 1)]
      /\ g = [next |-> g.next, prev |-> g.prev]
  BY <1>5 DEF list_del, __list_del
<1>7. k \in 1 .. n
  OBVIOUS
<1> HIDE DEF g, t, n
<1>8. /\ k - 1 \in 0 .. n /\ k \in 0 .. n /\ k + 1 \in 1 .. n + 1 /\ k + 1 \in 0 .. n + 1
      /\ Place(s, k - 1) \in Node /\ Place(s, k + 1) \in Node /\ Place(s, k - 1) # Place(s, k)
  BY <1>2, <1>7
<1>9. /\ g.next \in [Node -> Node] /\ g.prev \in [Node -> Node]
      /\ g.next[Place(s, k - 1)] = Place(s, k + 1)
      /\ \A x \in Node \ {Place(s, k - 1)} : g.next[x] = h.next[x]
      /\ g.prev[Place(s, k + 1)] = Place(s, k - 1)
      /\ \A x \in Node \ {Place(s, k + 1)} : g.prev[x] = h.prev[x]
  BY <1>4, <1>6, <1>8
<1>10. g \in Heap
  BY <1>6, <1>9 DEF Heap
<1>11. ASSUME NEW i \in 0 .. n - 1
       PROVE  g.next[Place(t, i)] = Place(t, i + 1) /\ g.prev[Place(t, i + 1)] = Place(t, i)
  <2>1. CASE i < k - 1
    <3>1. /\ i \in 0 .. k - 1 /\ i + 1 \in 0 .. k - 1 /\ i \in 0 .. n /\ i + 1 \in 0 .. n + 1
          /\ i + 1 \in 1 .. n + 1 /\ i # k - 1 /\ i + 1 # k + 1
      BY <1>2, <1>7, <2>1
    <3>2. Place(s, i) \in Node \ {Place(s, k - 1)}
      BY <1>2, <1>8, <3>1
    <3>3. Place(s, i + 1) \in Node \ {Place(s, k + 1)}
      BY <1>2, <1>8, <3>1
    <3> QED
      BY <1>3, <1>4, <1>9, <3>1, <3>2, <3>3
  <2>2. CASE i = k - 1
    <3>1. i \in 0 .. k - 1 /\ i + 1 = k /\ k \in k .. n
      BY <1>7, <2>2
    <3>2. Place(t, i) = Place(s, k - 1) /\ Place(t, i + 1) = Place(s, k + 1)
      BY <1>3, <2>2, <3>1
    <3> QED
      BY <1>9, <3>2
  <2>3. CASE i > k - 1
    <3>1. PICK j \in k + 1 .. n : j = i + 1
      BY <1>2, <1>7, <2>3
    <3>2. /\ i \in k .. n /\ i + 1 \in k .. n /\ i + 1 = j /\ (i + 1) + 1 = j + 1
          /\ j \in 0 .. n /\ j + 1 \in 1 .. n + 1 /\ j \in 0 .. n + 1 /\ j + 1 \in 0 .. n + 1
          /\ j # k - 1 /\ j + 1 # k + 1
      BY <1>2, <1>7, <3>1
    <3>3. Place(t, i) = Place(s, j) /\ Place(t, i + 1) = Place(s, j + 1)
      BY <1>3, <3>2
    <3>4. Place(s, j) \in Node \ {Place(s, k - 1)}
      BY <1>2, <1>8, <3>2
    <3>5. Place(s, j + 1) \in Node \ {Place(s, k + 1)}
      BY <1>2, <1>8, <3>2
    <3> QED
      BY <1>4, <1>9, <3>2, <3>3, <3>4, <3>5
  <2> QED
    BY <1>2, <1>7, <2>1, <2>2, <2>3
<1>12. Circle(g, t)
  BY <1>2, <1>3, <1>11 DEF Circle
<1>13. g.next[s[k]] = Place(s, k + 1)
  <2>1. s[k] = Place(s, k) /\ Place(s, k) \in Node \ {Place(s, k - 1)}
    BY <1>2, <1>7, <1>8
  <2> QED
    BY <1>5, <1>9, <2>1
<1> QED
  BY <1>3, <1>10, <1>12, <1>13 DEF ListIn, g, t

-----------------------------------------------------------------------------
(***************************************************************************)
(* The loops over a list                                                   *)
(***************************************************************************)
Walks == [heap : Heap, pos : Node, seen : Seq(Node)]

\* The walks of list_for_each and of wake_up.
Looks(walk, h) ==
    walk = [i \in 0 .. Nodes |->
              IF i = 0 THEN Begin(h, ListHead)
              ELSE LET w == walk[i - 1] IN Round(w, w.heap)]

Wakes(walk, h) ==
    walk = [i \in 0 .. Nodes |->
              IF i = 0 THEN Begin(h, ListHead)
              ELSE LET w == walk[i - 1] IN Round(w, list_del(w.heap, w.pos))]

\* A round starts and ends in a walk.
LEMMA RoundType ==
    ASSUME NEW w \in Walks, NEW h \in Heap
    PROVE  Round(w, h) \in Walks
<1>1. /\ w.pos \in Node /\ w.seen \in Seq(Node) /\ h.next[w.pos] \in Node
  BY DEF Walks, Heap
<1>2. Append(w.seen, w.pos) \in Seq(Node)
  BY <1>1
<1> QED
  BY <1>1, <1>2 DEF Round, Walks

\* The loop begins in a walk.
LEMMA BeginType ==
    ASSUME NEW h \in Heap
    PROVE  Begin(h, ListHead) \in Walks
<1>1. ListHead \in Node
  BY ListsAssumption DEF ListHead, Node
<1>2. h.next[ListHead] \in Node
  BY <1>1 DEF Heap
<1> QED
  BY <1>2 DEF Begin, Walks

\* list_del is an operation on memory.
LEMMA DelType ==
    ASSUME NEW h \in Heap, NEW n \in Node
    PROVE  list_del(h, n) \in Heap
  BY DEF list_del, __list_del, Heap

\* There are the walks that the two loops are.
LEMMA WalksExist ==
    ASSUME NEW h \in Heap
    PROVE  (\E walk : Looks(walk, h)) /\ (\E walk : Wakes(walk, h))
<1> DEFINE b == Begin(h, ListHead)
<1>1. b \in Walks /\ Nodes \in Nat
  BY BeginType, ListsAssumption
<1>2. \E walk : Looks(walk, h)
  <2> DEFINE step == [i \in 1 .. Nodes |-> [w \in Walks |-> Round(w, w.heap)]]
  <2>1. \A w \in Walks : Round(w, w.heap) \in Walks
    BY RoundType DEF Walks
  <2>2. step \in Steps(Nodes, Walks)
    BY <2>1 DEF Steps
  <2>3. PICK f : Loop(f, Nodes, Walks, b, step)
    <3> HIDE DEF step, b
    <3> QED
      BY <1>1, <2>2, Iterates
  <2>4. ASSUME NEW i \in 0 .. Nodes
        PROVE  f[i] = IF i = 0 THEN b ELSE LET w == f[i - 1] IN Round(w, w.heap)
    <3>1. CASE i = 0
      BY <2>3, <3>1 DEF Loop
    <3>2. CASE i # 0
      <4>1. i \in 1 .. Nodes /\ i - 1 \in 0 .. Nodes
        BY <1>1, <3>2
      <4>2. f[i - 1] \in Walks /\ f[i] = step[i][f[i - 1]]
        BY <2>3, <4>1 DEF Loop
      <4> QED
        BY <3>2, <4>1, <4>2
    <3> QED
      BY <3>1, <3>2
  <2> HIDE DEF b
  <2>5. f = [i \in 0 .. Nodes |-> IF i = 0 THEN b ELSE LET w == f[i - 1] IN Round(w, w.heap)]
    BY <2>3, <2>4 DEF Loop
  <2> QED
    BY <2>5 DEF Looks, b
<1>3. \E walk : Wakes(walk, h)
  <2> DEFINE step == [i \in 1 .. Nodes |-> [w \in Walks |-> Round(w, list_del(w.heap, w.pos))]]
  <2>1. \A w \in Walks : Round(w, list_del(w.heap, w.pos)) \in Walks
    BY RoundType, DelType DEF Walks
  <2>2. step \in Steps(Nodes, Walks)
    BY <2>1 DEF Steps
  <2>3. PICK f : Loop(f, Nodes, Walks, b, step)
    <3> HIDE DEF step, b
    <3> QED
      BY <1>1, <2>2, Iterates
  <2>4. ASSUME NEW i \in 0 .. Nodes
        PROVE  f[i] = IF i = 0 THEN b
                      ELSE LET w == f[i - 1] IN Round(w, list_del(w.heap, w.pos))
    <3>1. CASE i = 0
      BY <2>3, <3>1 DEF Loop
    <3>2. CASE i # 0
      <4>1. i \in 1 .. Nodes /\ i - 1 \in 0 .. Nodes
        BY <1>1, <3>2
      <4>2. f[i - 1] \in Walks /\ f[i] = step[i][f[i - 1]]
        BY <2>3, <4>1 DEF Loop
      <4> QED
        BY <3>2, <4>1, <4>2
    <3> QED
      BY <3>1, <3>2
  <2> HIDE DEF b
  <2>5. f = [i \in 0 .. Nodes |-> IF i = 0 THEN b
                                  ELSE LET w == f[i - 1] IN Round(w, list_del(w.heap, w.pos))]
    BY <2>3, <2>4 DEF Loop
  <2> QED
    BY <2>5 DEF Wakes, b
<1> QED
  BY <1>2, <1>3

\* A list has no more entries than there are.
LEMMA ListShort ==
    ASSUME NEW s \in Seq(Entries), Once(s)
    PROVE  Len(s) <= Nodes
<1>1. Len(s) \in Nat /\ Nodes \in Nat /\ DOMAIN s = 1 .. Len(s)
  BY ListsAssumption
<1>2. s \in Injection(1 .. Len(s), Entries)
  BY <1>1 DEF Injection, IsInjective, Once
<1>3. IsFiniteSet(Entries) /\ Cardinality(Entries) = Nodes
  BY <1>1, FS_Interval DEF Entries
<1>4. Cardinality(1 .. Len(s)) = Len(s)
  BY <1>1, FS_Interval, SMTT(60)
<1>5. Cardinality(1 .. Len(s)) <= Cardinality(Entries)
  BY <1>2, <1>3, FS_Injection
<1> QED
  BY <1>3, <1>4, <1>5

\* The list up to a place, and one place further.
LEMMA UpToNext ==
    ASSUME NEW s \in Seq(Entries), NEW i \in 0 .. Len(s) - 1
    PROVE  SubSeq(s, 1, i + 1) = Append(SubSeq(s, 1, i), s[i + 1])
<1>1. /\ SubSeq(s, 1, i + 1) = SubSeq(s, 1, (i + 1) - 1) \o <<s[i + 1]>>
  BY SubSeqRecursiveSecond
<1>2. SubSeq(s, 1, i) \in Seq(Entries) /\ s[i + 1] \in Entries /\ (i + 1) - 1 = i
  BY Parts
<1>3. SubSeq(s, 1, i) \o <<s[i + 1]>> = Append(SubSeq(s, 1, i), s[i + 1])
  BY <1>2, AppendIsConcat
<1> QED
  BY <1>1, <1>2, <1>3

\* The part of a list behind a place.
LEMMA Behind ==
    ASSUME NEW s \in Seq(Entries), Once(s), NEW i \in 0 .. Len(s)
    PROVE  LET r == SubSeq(s, i + 1, Len(s))
           IN  /\ r \in Seq(Entries) /\ Len(r) = Len(s) - i /\ Once(r)
               /\ \A j \in 1 .. Len(s) - i : r[j] = s[i + j]
               /\ Place(r, 1) = Place(s, i + 1)
<1> DEFINE r == SubSeq(s, i + 1, Len(s))
<1>1. /\ r \in Seq(Entries) /\ Len(r) = Len(s) - i
      /\ \A j \in 1 .. Len(s) - i : r[j] = s[i + j]
  BY Parts
<1> HIDE DEF r
<1>2. Once(r)
  <2> SUFFICES ASSUME NEW j \in 1 .. Len(r), NEW k \in 1 .. Len(r), r[j] = r[k] PROVE j = k
    BY DEF Once
  <2>1. /\ s[i + j] = s[i + k] /\ i + j \in 1 .. Len(s) /\ i + k \in 1 .. Len(s)
    BY <1>1
  <2>2. i + j = i + k
    BY <2>1 DEF Once
  <2> QED
    BY <1>1, <2>2
<1>3. Place(r, 1) = Place(s, i + 1)
  <2>1. Len(s) \in Nat
    OBVIOUS
  <2>2. CASE i = Len(s)
    BY <1>1, <2>1, <2>2 DEF Place
  <2>3. CASE i # Len(s)
    <3>1. 1 \in 1 .. Len(r) /\ i + 1 \in 1 .. Len(s) /\ r[1] = s[i + 1]
      BY <1>1, <2>1, <2>3
    <3> QED
      BY <3>1 DEF Place
  <2> QED
    BY <2>2, <2>3
<1> QED
  BY <1>1, <1>2, <1>3 DEF r

\* A loop that has come to the head stays there: if it is at w after m of Nodes
\* rounds, and a round leaves w, it ends at w.
LEMMA StaysAtEnd ==
    ASSUME NEW walk, NEW w, NEW m \in 0 .. Nodes, walk[m] = w,
           \A i \in m + 1 .. Nodes : walk[i - 1] = w => walk[i] = w
    PROVE  walk[Nodes] = w
<1> DEFINE X == {j \in 0 .. Nodes - m : walk[m + j] = w}
<1>1. Nodes \in Nat /\ Nodes - m \in Nat /\ m + 0 = m
  BY ListsAssumption
<1>2. 0 \in X
  BY <1>1
<1>3. ASSUME NEW j \in 0 .. (Nodes - m) - 1, j \in X PROVE j + 1 \in X
  <2>1. /\ (m + (j + 1)) - 1 = m + j /\ m + (j + 1) \in m + 1 .. Nodes
        /\ j + 1 \in 0 .. Nodes - m
    BY <1>1
  <2>2. PICK i \in m + 1 .. Nodes : i = m + (j + 1)
    BY <2>1
  <2>3. walk[i - 1] = w
    BY <1>3, <2>1, <2>2
  <2>4. walk[i] = w
    BY <2>3
  <2> QED
    BY <2>1, <2>2, <2>4
<1>4. \A j \in 0 .. Nodes - m : j \in X
  <2> HIDE DEF X
  <2> QED
    BY <1>1, <1>2, <1>3, Reaches
<1>5. Nodes - m \in X /\ m + (Nodes - m) = Nodes
  BY <1>1, <1>4
<1> QED
  BY <1>5

\* list_for_each sees the list in its order, and ends at the head.
LEMMA ForEach ==
    ASSUME NEW h, NEW s, ListIn(h, s)
    PROVE  list_for_each(h, ListHead) = [heap |-> h, pos |-> ListHead, seen |-> s]
<1> DEFINE n == Len(s)
           Seen(i) == [heap |-> h, pos |-> Place(s, i + 1), seen |-> SubSeq(s, 1, i)]
           walk == CHOOSE f : Looks(f, h)
           X == {i \in 0 .. n : walk[i] = Seen(i)}
<1>1. h \in Heap /\ s \in Seq(Entries) /\ Once(s) /\ Circle(h, s)
  BY DEF ListIn
<1>2. /\ n \in Nat /\ Place(s, 0) = ListHead /\ Place(s, n + 1) = ListHead
      /\ \A i \in 1 .. n : Place(s, i) = s[i] /\ s[i] \in Entries
  BY <1>1, PlaceFacts
<1>3. n <= Nodes /\ Nodes \in Nat
  BY <1>1, ListShort, ListsAssumption
<1>4. list_for_each(h, ListHead) = walk[Nodes]
  BY DEF list_for_each, Looks
<1>5. Looks(walk, h)
  BY <1>1, WalksExist
<1> HIDE DEF walk
<1>6. /\ walk[0] = Begin(h, ListHead)
      /\ \A i \in 1 .. Nodes : walk[i] = Round(walk[i - 1], walk[i - 1].heap)
  BY <1>3, <1>5 DEF Looks
<1>7. \A i \in 0 .. n : h.next[Place(s, i)] = Place(s, i + 1)
  BY <1>1 DEF Circle
<1>8. 0 \in X
  <2>1. h.next[ListHead] = Place(s, 1)
    BY <1>2, <1>7
  <2>2. SubSeq(s, 1, 0) = <<>>
    BY SubSeqEmpty
  <2> QED
    BY <1>2, <1>6, <2>1, <2>2 DEF Begin
<1>9. ASSUME NEW i \in 0 .. n - 1, i \in X PROVE i + 1 \in X
  <2>1. /\ i + 1 \in 1 .. Nodes /\ (i + 1) - 1 = i /\ i + 1 \in 1 .. n /\ i + 1 \in 0 .. n
    BY <1>2, <1>3
  <2>2. walk[i] = Seen(i) /\ walk[i + 1] = Round(walk[i], walk[i].heap)
    BY <1>6, <1>9, <2>1
  <2>3. Place(s, i + 1) = s[i + 1] /\ s[i + 1] # ListHead
    BY <1>2, <2>1, ListsAssumption DEF Entries, ListHead
  <2>4. h.next[Place(s, i + 1)] = Place(s, (i + 1) + 1)
    BY <1>7, <2>1
  <2>5. SubSeq(s, 1, i + 1) = Append(SubSeq(s, 1, i), s[i + 1])
    BY <1>1, UpToNext
  <2>6. Round(Seen(i), h) = Seen(i + 1)
    BY <2>3, <2>4, <2>5 DEF Round
  <2> QED
    BY <2>1, <2>2, <2>6
<1>10. \A i \in 0 .. n : i \in X
  <2> HIDE DEF X, n
  <2> QED
    BY <1>2, <1>8, <1>9, Reaches
<1>11. walk[n] = Seen(n) /\ SubSeq(s, 1, n) = s
  BY <1>1, <1>2, <1>10, SubSeqFull
<1>12. walk[Nodes] = walk[n]
  <2>1. ASSUME NEW i \in n + 1 .. Nodes, walk[i - 1] = walk[n] PROVE walk[i] = walk[n]
    <3>1. i \in 1 .. Nodes
      BY <1>2, <1>3
    <3>2. walk[i] = Round(walk[n], walk[n].heap)
      BY <1>6, <2>1, <3>1
    <3> QED
      BY <1>2, <1>11, <3>2 DEF Round
  <2>2. n \in 0 .. Nodes
    BY <1>2, <1>3
  <2> HIDE DEF n
  <2> QED
    BY <2>1, <2>2, StaysAtEnd
<1> QED
  BY <1>2, <1>4, <1>11, <1>12

\* A list that is read backwards.
LEMMA BackwardList ==
    ASSUME NEW h, NEW s, ListIn(h, s)
    PROVE  ListIn(Backward(h), Reverse(s))
<1> DEFINE n == Len(s)
           t == Reverse(s)
           g == Backward(h)
<1>1. h \in Heap /\ s \in Seq(Entries) /\ Once(s) /\ Circle(h, s)
  BY DEF ListIn
<1>2. n \in Nat /\ \A i \in 1 .. n : s[i] \in Entries
  BY <1>1
<1>3. t \in Seq(Entries) /\ Len(t) = n /\ \A i \in 1 .. n : t[i] = s[(n - i) + 1]
  <2>1. \A i \in 1 .. n : (n - i) + 1 \in 1 .. n
    BY <1>2
  <2>2. t = [i \in 1 .. n |-> s[(n - i) + 1]]
    BY DEF Reverse
  <2> QED
    BY <1>2, <2>1, <2>2
<1>4. g \in Heap /\ g.next = h.prev /\ g.prev = h.next
  BY <1>1 DEF Backward, Heap
<1> HIDE DEF t, g
<1>5. Once(t)
  <2> SUFFICES ASSUME NEW i \in 1 .. n, NEW j \in 1 .. n, t[i] = t[j] PROVE i = j
    BY <1>3 DEF Once
  <2>1. /\ s[(n - i) + 1] = s[(n - j) + 1]
        /\ (n - i) + 1 \in 1 .. n /\ (n - j) + 1 \in 1 .. n
    BY <1>2, <1>3
  <2>2. (n - i) + 1 = (n - j) + 1
    BY <1>1, <2>1 DEF Once
  <2> QED
    BY <1>2, <2>2
<1>6. ASSUME NEW i \in 0 .. n + 1 PROVE Place(t, i) = Place(s, (n - i) + 1)
  <2>1. CASE i \in 1 .. n
    <3>1. (n - i) + 1 \in 1 .. n
      BY <1>2, <2>1
    <3> QED
      BY <1>3, <2>1, <3>1 DEF Place
  <2>2. CASE i \notin 1 .. n
    <3>1. (n - i) + 1 \notin 1 .. n
      BY <1>2, <2>2
    <3> QED
      BY <1>3, <2>2, <3>1 DEF Place
  <2> QED
    BY <2>1, <2>2
<1>7. ASSUME NEW i \in 0 .. n
      PROVE  g.next[Place(t, i)] = Place(t, i + 1) /\ g.prev[Place(t, i + 1)] = Place(t, i)
  <2>0. n - i \in 0 .. n
    BY <1>2
  <2>1. PICK k \in 0 .. n : k = n - i
    BY ONLY <2>0
  <2>2. /\ i \in 0 .. n + 1 /\ i + 1 \in 0 .. n + 1
        /\ (n - i) + 1 = k + 1 /\ (n - (i + 1)) + 1 = k
    BY <1>2, <2>1
  <2>3. Place(t, i) = Place(s, k + 1) /\ Place(t, i + 1) = Place(s, k)
    BY <1>6, <2>2
  <2>4. h.next[Place(s, k)] = Place(s, k + 1) /\ h.prev[Place(s, k + 1)] = Place(s, k)
    BY <1>1 DEF Circle
  <2> QED
    BY <1>4, <2>3, <2>4
<1>8. Circle(g, t)
  BY <1>3, <1>7 DEF Circle
<1> QED
  BY <1>3, <1>4, <1>5, <1>8 DEF ListIn, t, g

\* A list in memory is read from either end.
LEMMA ListHolds ==
    ASSUME NEW h, NEW s, ListIn(h, s)
    PROVE  Holds(h, s)
<1>1. list_for_each(h, ListHead) = [heap |-> h, pos |-> ListHead, seen |-> s]
  BY ForEach
<1>2. list_for_each(Backward(h), ListHead)
        = [heap |-> Backward(h), pos |-> ListHead, seen |-> Reverse(s)]
  BY BackwardList, ForEach
<1> QED
  BY <1>1, <1>2 DEF Holds

\* wake_up sees every entry once, in order, and leaves nothing: after i rounds the
\* entries behind place i are on the list, and the walk stands on the next one.
LEMMA WakeUp ==
    ASSUME NEW h, NEW s, ListIn(h, s)
    PROVE  LET w == wake_up(h, ListHead)
           IN  w.seen = s /\ w.pos = ListHead /\ ListIn(w.heap, <<>>)
<1> DEFINE n == Len(s)
           R(i) == SubSeq(s, i + 1, n)
           Woken(w, i) ==
             /\ ListIn(w.heap, R(i)) /\ w.pos = Place(s, i + 1) /\ w.seen = SubSeq(s, 1, i)
           walk == CHOOSE f : Wakes(f, h)
           X == {i \in 0 .. n : Woken(walk[i], i)}
<1>1. h \in Heap /\ s \in Seq(Entries) /\ Once(s) /\ Circle(h, s)
  BY DEF ListIn
<1>2. /\ n \in Nat /\ Place(s, 0) = ListHead /\ Place(s, n + 1) = ListHead
      /\ \A i \in 1 .. n : Place(s, i) = s[i] /\ s[i] \in Entries
  BY <1>1, PlaceFacts
<1>3. n <= Nodes /\ Nodes \in Nat
  BY <1>1, ListShort, ListsAssumption
<1>4. wake_up(h, ListHead) = walk[Nodes]
  BY DEF wake_up, Wakes
<1>5. Wakes(walk, h)
  BY <1>1, WalksExist
<1> HIDE DEF walk
<1>6. /\ walk[0] = Begin(h, ListHead)
      /\ \A i \in 1 .. Nodes :
           walk[i] = Round(walk[i - 1], list_del(walk[i - 1].heap, walk[i - 1].pos))
  BY <1>3, <1>5 DEF Wakes
<1>7. \A i \in 0 .. n :
        /\ R(i) \in Seq(Entries) /\ Len(R(i)) = n - i /\ Once(R(i))
        /\ \A j \in 1 .. n - i : R(i)[j] = s[i + j]
        /\ Place(R(i), 1) = Place(s, i + 1)
  BY <1>1, Behind
<1> HIDE DEF R
<1>8. Woken(walk[0], 0)
  <2>1. 0 \in 0 .. n /\ h.next[ListHead] = Place(s, 1)
    BY <1>1, <1>2 DEF Circle
  <2>2. SubSeq(s, 1, 0) = <<>>
    BY SubSeqEmpty
  <2>3. R(0) = s
    BY <1>1, SubSeqFull DEF R
  <2>4. walk[0] = [heap |-> h, pos |-> Place(s, 1), seen |-> <<>>]
    BY <1>6, <2>1 DEF Begin
  <2> QED
    BY <2>2, <2>3, <2>4
<1>9. ASSUME NEW i \in 0 .. n - 1, i \in X PROVE Woken(walk[i + 1], i + 1)
  <2> DEFINE w == walk[i]
             r == R(i)
             g == list_del(w.heap, w.pos)
  <2>1. /\ i + 1 \in 1 .. Nodes /\ (i + 1) - 1 = i /\ i + 1 \in 1 .. n
        /\ i \in 0 .. n /\ i + 1 \in 0 .. n
    BY <1>2, <1>3
  <2>2. Woken(w, i) /\ walk[i + 1] = Round(w, g)
    BY <1>6, <1>9, <2>1
  <2>3. /\ r \in Seq(Entries) /\ Len(r) = n - i /\ Once(r) /\ 1 \in 1 .. Len(r)
        /\ \A j \in 1 .. n - i : r[j] = s[i + j]
    BY <1>2, <1>7, <2>1
  <2>4. r[1] = s[i + 1] /\ w.pos = r[1] /\ w.pos # ListHead
    BY <1>2, <2>1, <2>2, <2>3, ListsAssumption DEF Entries, ListHead
  <2> HIDE DEF r
  <2>5. ListIn(g, RemoveFirst(r, r[1])) /\ g.next[r[1]] = Place(r, 2)
    <3>1. ListIn(w.heap, r)
      BY <2>2 DEF r
    <3>2. PICK k \in 1 .. Len(r) : k = 1
      BY <2>3
    <3> HIDE DEF w
    <3>3. /\ ListIn(list_del(w.heap, r[k]), RemoveFirst(r, r[k]))
          /\ list_del(w.heap, r[k]).next[r[k]] = Place(r, k + 1)
      BY <3>1, ListDel
    <3>4. k + 1 = 2
      BY <3>2
    <3> QED
      BY <2>4, <3>2, <3>3, <3>4
  <2>6. RemoveFirst(r, r[1]) = R(i + 1)
    <3> DEFINE t == RemoveFirst(r, r[1])
               u == R(i + 1)
    <3>1. /\ t \in Seq(Entries) /\ Len(t) = Len(r) - 1
          /\ \A j \in 1 .. Len(r) : Place(t, j) = Place(r, j + 1)
      BY <2>3, RemovedPlaces
    <3>2. /\ u \in Seq(Entries) /\ Len(u) = n - (i + 1)
          /\ \A j \in 1 .. n - (i + 1) : u[j] = s[(i + 1) + j]
      BY <1>7, <2>1
    <3> HIDE DEF t, u
    <3>3. Len(t) = Len(u) /\ Len(t) \in Nat
      BY <1>2, <2>3, <3>1, <3>2
    <3>4. ASSUME NEW j \in 1 .. Len(t) PROVE t[j] = u[j]
      <4>1. /\ j \in 1 .. Len(r) /\ j + 1 \in 1 .. Len(r) /\ j + 1 \in 1 .. n - i
            /\ j \in 1 .. n - (i + 1) /\ i + (j + 1) = (i + 1) + j
        BY <1>2, <2>3, <3>1, <3>2, <3>3
      <4>2. t[j] = Place(t, j) /\ Place(r, j + 1) = r[j + 1]
        BY <4>1 DEF Place
      <4>3. t[j] = r[j + 1]
        BY <3>1, <4>1, <4>2
      <4>4. r[j + 1] = s[i + (j + 1)]
        BY <2>3, <4>1
      <4> QED
        BY <3>2, <4>1, <4>3, <4>4
    <3>5. t = u
      BY <3>1, <3>2, <3>3, <3>4, SameCharacters
    <3> QED
      BY <3>5 DEF t, u
  <2>7. Place(r, 2) = Place(s, (i + 1) + 1)
    <3>1. CASE i + 1 = n
      BY <1>2, <2>3, <3>1 DEF Place
    <3>2. CASE i + 1 # n
      <4>1. 2 \in 1 .. Len(r) /\ 2 \in 1 .. n - i /\ (i + 1) + 1 \in 1 .. n /\ i + 2 = (i + 1) + 1
        BY <1>2, <2>1, <2>3, <3>2
      <4>2. r[2] = s[i + 2]
        BY <2>3, <4>1
      <4> QED
        BY <4>1, <4>2 DEF Place
    <3> QED
      BY <3>1, <3>2
  <2>8. SubSeq(s, 1, i + 1) = Append(SubSeq(s, 1, i), s[i + 1])
    BY <1>1, UpToNext
  <2>9. w.seen = SubSeq(s, 1, i)
    BY <2>2
  <2> HIDE DEF w, g, Woken
  <2>10. walk[i + 1] = [heap |-> g, pos |-> g.next[w.pos], seen |-> Append(w.seen, w.pos)]
    BY <2>2, <2>4 DEF Round
  <2>11. /\ walk[i + 1].heap = g /\ walk[i + 1].pos = Place(s, (i + 1) + 1)
         /\ walk[i + 1].seen = SubSeq(s, 1, i + 1)
    BY <2>4, <2>5, <2>7, <2>8, <2>9, <2>10
  <2>12. ListIn(walk[i + 1].heap, R(i + 1))
    BY <2>5, <2>6, <2>11
  <2> QED
    BY <2>11, <2>12 DEF Woken
<1>10. \A i \in 0 .. n : i \in X
  <2>1. 0 \in X
    BY <1>2, <1>8
  <2>2. ASSUME NEW i \in 0 .. n - 1, i \in X PROVE i + 1 \in X
    BY <1>2, <1>9, <2>2
  <2> HIDE DEF X, n
  <2> QED
    BY <1>2, <2>1, <2>2, Reaches
<1>11. /\ ListIn(walk[n].heap, <<>>) /\ walk[n].pos = ListHead /\ walk[n].seen = s
  <2>1. Woken(walk[n], n)
    BY <1>2, <1>10
  <2>2. R(n) = <<>>
    <3>1. n + 1 \in Int /\ n \in Int /\ n < n + 1
      BY <1>2
    <3> QED
      BY <3>1, SubSeqEmpty DEF R
  <2>3. SubSeq(s, 1, n) = s
    BY <1>1, SubSeqFull
  <2> QED
    BY <1>2, <2>1, <2>2, <2>3
<1>12. walk[Nodes] = walk[n]
  <2>1. ASSUME NEW i \in n + 1 .. Nodes, walk[i - 1] = walk[n] PROVE walk[i] = walk[n]
    <3>1. i \in 1 .. Nodes
      BY <1>2, <1>3
    <3>2. walk[i] = Round(walk[n], list_del(walk[n].heap, walk[n].pos))
      BY <1>6, <2>1, <3>1
    <3> QED
      BY <1>11, <3>2 DEF Round
  <2>2. n \in 0 .. Nodes
    BY <1>2, <1>3
  <2> HIDE DEF n
  <2> QED
    BY <2>1, <2>2, StaysAtEnd
<1> QED
  BY <1>4, <1>11, <1>12

\* The lists of which CallLists makes one.
LEMMA DistinctFacts ==
    ASSUME NEW s \in DistinctLists
    PROVE  s \in Seq(Entries) /\ Once(s)
<1>1. PICK m \in 0 .. Nodes : s \in [1 .. m -> Entries]
  BY DEF DistinctLists, BoundedSeq, SeqOf, Entries
<1>2. s \in Seq(Entries) /\ Len(s) = m /\ DOMAIN s = 1 .. m
  BY <1>1, ListsAssumption
<1>3. \A i, j \in DOMAIN s : s[i] = s[j] => i = j
  BY DEF DistinctLists, IsInjective
<1> QED
  BY <1>2, <1>3 DEF Once

\* The loop that appends the entries of s to an empty list.
Builds(list, s, h) ==
    list = [i \in 0 .. Len(s) |->
              IF i = 0 THEN INIT_LIST_HEAD(h, ListHead)
              ELSE list_add_tail(list[i - 1], s[i], ListHead)]

LEMMA BuildExists ==
    ASSUME NEW h \in Heap, NEW s \in Seq(Entries)
    PROVE  \E list : Builds(list, s, h)
<1> DEFINE n == Len(s)
           b == INIT_LIST_HEAD(h, ListHead)
           step == [i \in 1 .. n |-> [g \in Heap |-> list_add_tail(g, s[i], ListHead)]]
<1>1. n \in Nat /\ ListHead \in Node /\ \A i \in 1 .. n : s[i] \in Node
  BY ListsAssumption DEF ListHead, Node, Entries
<1>2. b \in Heap
  BY <1>1 DEF INIT_LIST_HEAD, Heap
<1>3. \A g \in Heap, x \in Node : list_add_tail(g, x, ListHead) \in Heap
  BY <1>1 DEF list_add_tail, __list_add, Heap
<1>4. step \in Steps(n, Heap)
  BY <1>1, <1>3 DEF Steps
<1>5. PICK f : Loop(f, n, Heap, b, step)
  <2> HIDE DEF step, b, n
  <2> QED
    BY <1>1, <1>2, <1>4, Iterates
<1> HIDE DEF b, n
<1>6. ASSUME NEW i \in 0 .. n
      PROVE  f[i] = IF i = 0 THEN b ELSE list_add_tail(f[i - 1], s[i], ListHead)
  <2>1. CASE i = 0
    BY <1>5, <2>1 DEF Loop
  <2>2. CASE i # 0
    <3>1. i \in 1 .. n /\ i - 1 \in 0 .. n
      BY <1>1, <2>2
    <3>2. f[i - 1] \in Heap /\ f[i] = step[i][f[i - 1]]
      BY <1>5, <3>1 DEF Loop
    <3> QED
      BY <2>2, <3>1, <3>2
  <2> QED
    BY <2>1, <2>2
<1>7. f = [i \in 0 .. n |-> IF i = 0 THEN b ELSE list_add_tail(f[i - 1], s[i], ListHead)]
  BY <1>5, <1>6 DEF Loop
<1> QED
  BY <1>7 DEF Builds, b, n

\* The list that is built is in memory, whatever links the entries had.
LEMMA BuiltList ==
    ASSUME NEW s \in Seq(Entries), Once(s), NEW stale \in Node
    PROVE  ListIn(Built(s, stale), s)
<1> DEFINE n == Len(s)
           old == [x \in Node |-> stale]
           h == [next |-> old, prev |-> old]
           list == CHOOSE f : Builds(f, s, h)
           X == {i \in 0 .. n : ListIn(list[i], SubSeq(s, 1, i))}
<1>1. h \in Heap /\ n \in Nat /\ ListHead \in Node
  BY ListsAssumption DEF Heap, Node, ListHead
<1>2. Built(s, stale) = list[n]
  BY DEF Built, Builds
<1>3. Builds(list, s, h)
  <2> HIDE DEF h
  <2> QED
    BY <1>1, BuildExists
<1> HIDE DEF list
<1>4. /\ list[0] = INIT_LIST_HEAD(h, ListHead)
      /\ \A i \in 1 .. n : list[i] = list_add_tail(list[i - 1], s[i], ListHead)
  BY <1>1, <1>3 DEF Builds
<1>5. 0 \in X
  <2>1. SubSeq(s, 1, 0) = <<>>
    BY SubSeqEmpty
  <2> DEFINE g == INIT_LIST_HEAD(h, ListHead)
  <2>2. g \in Heap /\ g.next[ListHead] = ListHead /\ g.prev[ListHead] = ListHead
    BY <1>1 DEF INIT_LIST_HEAD, Heap
  <2> HIDE DEF g
  <2>3. <<>> \in Seq(Entries) /\ Len(<<>>) = 0 /\ Once(<<>>)
    BY DEF Once
  <2>4. Circle(g, <<>>)
    <3>1. \A i \in 0 .. 1 : Place(<<>>, i) = ListHead
      BY <2>3 DEF Place
    <3>2. Place(<<>>, 0) = ListHead /\ Place(<<>>, 0 + 1) = ListHead
      BY <3>1
    <3>3. \A i \in 0 .. 0 : i = 0
      OBVIOUS
    <3> QED
      BY <2>2, <2>3, <3>2, <3>3 DEF Circle
  <2>5. ListIn(g, <<>>)
    BY <2>2, <2>3, <2>4 DEF ListIn
  <2>6. list[0] = g
    BY <1>4 DEF g
  <2>7. ListIn(list[0], SubSeq(s, 1, 0))
    BY ONLY <2>1, <2>5, <2>6, Zenon
  <2>8. 0 \in 0 .. n
    BY <1>1
  <2> QED
    BY <2>7, <2>8
<1>6. ASSUME NEW i \in 0 .. n - 1, i \in X PROVE i + 1 \in X
  <2> DEFINE r == SubSeq(s, 1, i)
  <2>1. /\ i + 1 \in 1 .. n /\ (i + 1) - 1 = i /\ i \in 0 .. n /\ i + 1 \in 0 .. n
    BY <1>1
  <2>2. ListIn(list[i], r) /\ list[i + 1] = list_add_tail(list[i], s[i + 1], ListHead)
    BY <1>4, <1>6, <2>1
  <2>3. r \in Seq(Entries) /\ Len(r) = i /\ \A j \in 1 .. i : r[j] = s[j]
    BY <2>1, Parts
  <2> HIDE DEF r
  <2>4. s[i + 1] \in Entries /\ s[i + 1] \notin ToSet(r)
    <3>1. \A j \in 1 .. i : j \in 1 .. n /\ s[j] # s[i + 1]
      BY <1>1, <2>1 DEF Once
    <3> QED
      BY <2>1, <2>3, <3>1, SMTT(60) DEF ToSet
  <2>5. ListIn(list[i + 1], Append(r, s[i + 1]))
    BY <2>2, <2>4, ListAdds
  <2>6. SubSeq(s, 1, i + 1) = Append(r, s[i + 1])
    BY <2>1, UpToNext DEF r
  <2> QED
    BY <2>1, <2>5, <2>6
<1>7. \A i \in 0 .. n : i \in X
  <2> HIDE DEF X, n
  <2> QED
    BY <1>1, <1>5, <1>6, Reaches
<1>8. n \in X /\ SubSeq(s, 1, n) = s
  BY <1>1, <1>7, SubSeqFull
<1> QED
  BY <1>2, <1>8

\* Every operation of list.h does to a list of any length what its name says.
LEMMA ListOperations ==
    ASSUME NEW h, NEW s, ListIn(h, s), NEW n \in Entries, NEW at
    PROVE  ListsRight(h, s, n, at)
<1>1. h \in Heap /\ s \in Seq(Entries) /\ Once(s) /\ Circle(h, s)
  BY DEF ListIn
<1>2. Holds(h, s)
  BY ListHolds
<1>3. list_empty(h, ListHead) = (s = <<>>)
  <2>1. /\ Len(s) \in Nat /\ Place(s, 0) = ListHead /\ Place(s, Len(s) + 1) = ListHead
        /\ \A i \in 1 .. Len(s) : Place(s, i) = s[i] /\ s[i] \in Entries
    BY <1>1, PlaceFacts
  <2>2. h.next[ListHead] = Place(s, 1)
    BY <1>1, <2>1 DEF Circle
  <2>3. CASE s = <<>>
    <3>1. Place(s, 1) = ListHead
      BY <2>1, <2>3
    <3> QED
      BY <2>2, <2>3, <3>1 DEF list_empty
  <2>4. CASE s # <<>>
    <3>1. 1 \in 1 .. Len(s)
      BY <1>1, <2>4
    <3>2. Place(s, 1) # ListHead
      BY <2>1, <3>1, ListsAssumption DEF Entries, ListHead
    <3> QED
      BY <2>2, <2>4, <3>2 DEF list_empty
  <2> QED
    BY <2>3, <2>4
<1>4. ASSUME n \notin ToSet(s)
      PROVE  /\ Holds(list_add_tail(h, n, ListHead), Append(s, n))
             /\ at \in ToSet(s) \cup {ListHead} =>
                  Holds(list_add(h, n, at), InsertedAfter(s, at, n))
  <2>1. ListIn(list_add_tail(h, n, ListHead), Append(s, n))
    BY <1>4, ListAdds
  <2>2. ASSUME at \in ToSet(s) \cup {ListHead}
        PROVE  ListIn(list_add(h, n, at), InsertedAfter(s, at, n))
    BY <1>4, <2>2, ListAdds
  <2> QED
    BY <2>1, <2>2, ListHolds
<1>5. ASSUME n \in ToSet(s) PROVE Holds(list_del(h, n), RemoveFirst(s, n))
  <2>1. PICK k \in 1 .. Len(s) : n = s[k]
    BY <1>1, <1>5 DEF ToSet
  <2>2. ListIn(list_del(h, s[k]), RemoveFirst(s, s[k]))
    BY ListDel
  <2> QED
    BY <2>1, <2>2, ListHolds
<1>6. LET w == wake_up(h, ListHead)
      IN  w.seen = s /\ w.pos = ListHead /\ Holds(w.heap, <<>>)
  BY WakeUp, ListHolds
<1> QED
  BY <1>2, <1>3, <1>4, <1>5, <1>6 DEF ListsRight

-----------------------------------------------------------------------------
(***************************************************************************)
(* setTimeout                                                              *)
(***************************************************************************)
\* The loop that reads the seconds t.
DurationLoop(duration, t) ==
    duration = [k \in 0 .. Len(t) |->
                  IF k = 0 THEN 0 ELSE (duration[k - 1] * 10 + t[k] - Zero) % LONGWORD]

LEMMA DurationLoopExists ==
    ASSUME NEW t \in Seq(Digits)
    PROVE  \E duration : DurationLoop(duration, t)
<1> DEFINE n == Len(t)
           step == [i \in 1 .. n |-> [w \in Int |-> (w * 10 + t[i] - Zero) % LONGWORD]]
<1>1. n \in Nat /\ 0 \in Int
  OBVIOUS
<1>2. \A i \in 1 .. n, w \in Int : (w * 10 + t[i] - Zero) % LONGWORD \in Int
  <2>1. \A i \in 1 .. n : t[i] \in Int /\ Zero \in Int
    BY DEF Digits, Zero
  <2> HIDE DEF n
  <2>2. ASSUME NEW i \in 1 .. n, NEW w \in Int PROVE (w * 10 + t[i] - Zero) % LONGWORD \in Int
    <3>1. PICK z \in Int : z = w * 10 + t[i] - Zero
      BY <2>1
    <3>2. z % LONGWORD \in Int
      BY CommandsAssumption, DivMod
    <3> QED
      BY <3>1, <3>2
  <2> QED
    BY <2>2
<1> HIDE DEF n
<1>3. step \in Steps(n, Int)
  BY <1>2 DEF Steps
<1>4. PICK f : Loop(f, n, Int, 0, step)
  <2> HIDE DEF step
  <2> QED
    BY <1>1, <1>3, Iterates
<1>5. ASSUME NEW i \in 0 .. n
      PROVE  f[i] = IF i = 0 THEN 0 ELSE (f[i - 1] * 10 + t[i] - Zero) % LONGWORD
  <2>1. CASE i = 0
    BY <1>4, <2>1 DEF Loop
  <2>2. CASE i # 0
    <3>1. i \in 1 .. n /\ i - 1 \in 0 .. n
      BY <1>1, <2>2
    <3>2. f[i - 1] \in Int /\ f[i] = step[i][f[i - 1]]
      BY <1>4, <3>1 DEF Loop
    <3> QED
      BY <2>2, <3>1, <3>2
  <2> QED
    BY <2>1, <2>2
<1>6. f = [i \in 0 .. n |-> IF i = 0 THEN 0 ELSE (f[i - 1] * 10 + t[i] - Zero) % LONGWORD]
  BY <1>4, <1>5 DEF Loop
<1> QED
  BY <1>6 DEF DurationLoop, n

\* One digit, modulo the word.
LEMMA DigitRead ==
    ASSUME NEW a \in Int, NEW c \in Int, NEW w \in Nat \ {0}
    PROVE  ((a % w) * 10 + c) % w = (a * 10 + c) % w
<1>1. a % w \in Int /\ a \div w \in Int /\ a = w * (a \div w) + (a % w)
  BY DivMod
<1>2. PICK r \in Int, k \in Int : r = a % w /\ k = a \div w /\ a = w * k + r
  BY <1>1
<1>3. a * 10 + c = (r * 10 + c) + w * (k * 10)
  BY <1>2
<1>4. PICK z \in Int, m \in Int : z = r * 10 + c /\ m = k * 10
  OBVIOUS
<1>5. (z + w * m) % w = z % w
  BY ModShift
<1> QED
  BY <1>2, <1>3, <1>4, <1>5

\* The loop reads the number whose digits it is given, modulo the word.
LEMMA DurationReads ==
    ASSUME NEW y \in Nat, NEW l, Denotes(l, y), NEW duration, DurationLoop(duration, Reverse(l))
    PROVE  duration[Len(l)] = y % LONGWORD
<1> DEFINE n == Len(l)
           s == Reverse(l)
<1>1. l \in Seq(Digits) /\ n \in Nat
  BY DEF Denotes
<1>2. s \in Seq(Digits) /\ Len(s) = n /\ \A i \in 1 .. n : s[i] = l[n - i + 1]
  BY <1>1, ReversedDigits
<1>3. PICK q : /\ q \in [0 .. n -> Nat] /\ q[0] = y /\ q[n] = 0
               /\ \A k \in 1 .. n : q[k] = q[k - 1] \div 10 /\ l[k] = Zero + (q[k - 1] % 10)
  BY DEF Denotes, Quotients
<1> DEFINE X == {i \in 0 .. n : duration[i] = q[n - i] % LONGWORD}
<1> HIDE DEF n, s
<1>4. \A i \in 0 .. n :
        duration[i] = IF i = 0 THEN 0 ELSE (duration[i - 1] * 10 + s[i] - Zero) % LONGWORD
  BY <1>2 DEF DurationLoop, s
<1>5. 0 \in X
  <2>1. 0 \in 0 .. n /\ n - 0 = n
    BY <1>1
  <2>2. duration[0] = 0
    BY <1>4, <2>1
  <2>3. 0 % LONGWORD = 0
    <3>1. 0 \in Int /\ 0 = LONGWORD * 0 + 0 /\ 0 \in 0 .. LONGWORD - 1 /\ LONGWORD \in Nat \ {0}
      BY CommandsAssumption
    <3> QED
      BY ONLY <3>1, ModUnique
  <2> QED
    BY <1>3, <2>1, <2>2, <2>3
<1>6. ASSUME NEW i \in 0 .. n - 1, i \in X PROVE i + 1 \in X
  <2>1. PICK k \in 1 .. n : k = n - i
    BY <1>1
  <2>2. /\ i + 1 \in 0 .. n /\ i + 1 \in 1 .. n /\ i + 1 # 0 /\ (i + 1) - 1 = i
        /\ n - (i + 1) + 1 = k /\ n - (i + 1) = k - 1 /\ k - 1 \in 0 .. n
    BY <1>1, <2>1
  <2>3. PICK a \in Nat, b \in Nat : a = q[k - 1] /\ b = q[k] /\ b = a \div 10
    BY <1>3, <2>2
  <2>4. duration[i] = b % LONGWORD
    BY <1>6, <2>1, <2>3
  <2>5. s[i + 1] = Zero + (a % 10)
    <3>1. s[i + 1] = l[k]
      <4>1. s[i + 1] = l[n - (i + 1) + 1]
        BY ONLY <1>2, <2>2
      <4> QED
        BY ONLY <2>2, <4>1
    <3>2. l[k] = Zero + (q[k - 1] % 10)
      BY ONLY k \in 1 .. n, <1>3
    <3> QED
      BY <2>3, <3>1, <3>2
  <2>6. PICK c \in Int : c = a % 10 /\ a = b * 10 + c
    <3>1. a \in Int /\ 10 \in Nat \ {0}
      OBVIOUS
    <3>2. a % 10 \in 0 .. 10 - 1 /\ a \div 10 \in Int /\ a = 10 * (a \div 10) + (a % 10)
      BY ONLY <3>1, DivMod
    <3> QED
      BY <2>3, <3>2
  <2>7. duration[i + 1] = (duration[i] * 10 + s[i + 1] - Zero) % LONGWORD
    BY <1>4, <2>2
  <2>8. b % LONGWORD \in Int /\ b \in Int /\ LONGWORD \in Nat \ {0}
    BY CommandsAssumption, DivMod
  <2>9. duration[i] * 10 + s[i + 1] - Zero = (b % LONGWORD) * 10 + c
    BY <2>4, <2>5, <2>6, <2>8 DEF Zero
  <2>10. ((b % LONGWORD) * 10 + c) % LONGWORD = (b * 10 + c) % LONGWORD
    BY <2>8, DigitRead
  <2>11. duration[i + 1] = q[n - (i + 1)] % LONGWORD
    BY <2>2, <2>3, <2>6, <2>7, <2>9, <2>10
  <2> QED
    BY <2>2, <2>11
<1>7. n \in X
  <2> HIDE DEF X
  <2>1. \A i \in 0 .. n : i \in X
    BY <1>1, <1>5, <1>6, Reaches
  <2> QED
    BY <1>1, <2>1
<1>8. n - n = 0
  BY <1>1
<1> QED
  BY <1>3, <1>7, <1>8 DEF n

\* A message without a space, a space and the seconds are split at the space.
LEMMA Splits ==
    ASSUME NEW msg \in Seq(Code \ {Space}), NEW seconds \in Nat
    PROVE  SplitsRight(msg, seconds)
<1> DEFINE a == Len(msg)
           one == <<Space>>
           t == itoa(seconds, 1)
           head == msg \o one
           buf == head \o t
<1>1. PICK l : Denotes(l, seconds) /\ t = Reverse(l)
  BY ItoaWrites
<1> DEFINE n == Len(l)
<1>2. l \in Seq(Digits) /\ n \in Nat
  BY <1>1 DEF Denotes
<1>3. t \in Seq(Digits) /\ Len(t) = n
  BY <1>1, <1>2, ReversedDigits
<1> HIDE DEF t, n
<1>4. /\ msg \in Seq(Code) /\ a \in Nat /\ \A i \in 1 .. a : msg[i] # Space /\ msg[i] \in Code
  <2>1. msg \in [1 .. Len(msg) -> Code \ {Space}] /\ Len(msg) \in Nat
    OBVIOUS
  <2>2. msg \in [1 .. Len(msg) -> Code]
    BY <2>1
  <2> QED
    BY <2>1, <2>2
<1>5. t \in Seq(Code)
  <2>1. \A c \in Digits : c \in Code
    BY DEF Digits, Code, Zero
  <2>2. t \in [1 .. Len(t) -> Digits] /\ Len(t) \in Nat
    BY <1>3
  <2>3. t \in [1 .. Len(t) -> Code]
    BY <2>1, <2>2
  <2> QED
    BY <2>2, <2>3
<1>6. one \in Seq(Code) /\ Len(one) = 1 /\ one[1] = Space
  BY DEF Code, Space
<1> HIDE DEF a, one
<1>7. /\ head \in Seq(Code) /\ Len(head) = a + 1 /\ head[a + 1] = Space
      /\ \A i \in 1 .. a : head[i] = msg[i]
  <2>1. /\ head \in Seq(Code) /\ Len(head) = Len(msg) + Len(one)
        /\ \A i \in 1 .. Len(msg) + Len(one) :
             head[i] = IF i <= Len(msg) THEN msg[i] ELSE one[i - Len(msg)]
    BY <1>4, <1>6, Concatenated
  <2> HIDE DEF head
  <2> QED
    BY <1>4, <1>6, <2>1 DEF a
<1> HIDE DEF head
<1>8. /\ buf \in Seq(Code) /\ Len(buf) = a + 1 + n
      /\ \A i \in 1 .. a + 1 : buf[i] = head[i]
      /\ \A i \in 1 .. n : buf[a + 1 + i] = t[i]
  <2>1. /\ buf \in Seq(Code) /\ Len(buf) = Len(head) + Len(t)
        /\ \A i \in 1 .. Len(head) + Len(t) :
             buf[i] = IF i <= Len(head) THEN head[i] ELSE t[i - Len(head)]
    BY <1>5, <1>7, Concatenated
  <2> HIDE DEF buf
  <2>2. PICK b \in Nat : b = Len(head) /\ b = a + 1 /\ n \in Nat
    BY <1>2, <1>4, <1>7
  <2>3. Len(buf) = b + n /\ \A i \in 1 .. b + n : buf[i] = IF i <= b THEN head[i] ELSE t[i - b]
    BY <1>3, <2>1, <2>2
  <2>4. ASSUME NEW i \in 1 .. b PROVE buf[i] = head[i]
    <3>1. i \in 1 .. b + n /\ i <= b
      BY <2>2
    <3> QED
      BY <2>3, <3>1
  <2>5. ASSUME NEW i \in 1 .. n PROVE buf[b + i] = t[i]
    <3>1. b + i \in 1 .. b + n /\ ~(b + i <= b) /\ (b + i) - b = i
      BY <2>2
    <3> QED
      BY <2>3, <3>1
  <2> QED
    BY <2>1, <2>2, <2>3, <2>4, <2>5
<1> HIDE DEF buf
<1> DEFINE m == Len(buf)
<1>9. CString(buf) = buf
  <2>1. strlen(buf) = m /\ m \in Nat
    BY <1>8, StringLength
  <2>2. /\ SubSeq(buf, 1, m) \in Seq(Code) /\ Len(SubSeq(buf, 1, m)) = m
        /\ \A i \in 1 .. m : SubSeq(buf, 1, m)[i] = buf[i]
    <3>1. m \in 0 .. Len(buf)
      BY <2>1
    <3> QED
      BY ONLY <1>8, <3>1, Parts
  <2>3. SubSeq(buf, 1, m) = buf
    BY ONLY <1>8, <2>2, SameCharacters
  <2> QED
    BY <2>1, <2>3 DEF CString
<1> DEFINE Stops(i) == (i = m \/ At(buf, i) = Space) /\ \A j \in 0 .. i - 1 : ~(At(buf, j) = Space)
<1>10. m \in Nat /\ a \in 0 .. m /\ a # m /\ \A i \in 0 .. a : At(buf, i) = buf[i + 1]
  <2>1. m = a + 1 + n /\ m \in Nat
    BY <1>2, <1>4, <1>8
  <2>2. \A i \in 0 .. a : i < Len(buf)
    BY <1>2, <1>4, <2>1
  <2> QED
    BY <1>2, <1>4, <2>1, <2>2 DEF At
<1>11. Stops(a)
  <2>1. At(buf, a) = Space
    <3>1. a \in 0 .. a /\ a + 1 \in 1 .. a + 1
      BY <1>4
    <3> QED
      BY <1>7, <1>8, <1>10, <3>1
  <2>2. ASSUME NEW j \in 0 .. a - 1 PROVE At(buf, j) # Space
    <3>1. j \in 0 .. a /\ j + 1 \in 1 .. a /\ j + 1 \in 1 .. a + 1
      BY <1>4
    <3>2. At(buf, j) = msg[j + 1]
      BY <1>7, <1>8, <1>10, <3>1
    <3> QED
      BY <1>4, <3>1, <3>2
  <2> QED
    BY <2>1, <2>2
<1>12. ASSUME NEW i \in 0 .. m, Stops(i) PROVE i = a
  <2>1. ~(i < a)
    <3> SUFFICES ASSUME i < a PROVE FALSE
      OBVIOUS
    <3>1. i \in 0 .. a - 1 /\ i # m
      BY <1>10
    <3> QED
      BY <1>11, <1>12, <3>1
  <2>2. ~(a < i)
    <3> SUFFICES ASSUME a < i PROVE FALSE
      OBVIOUS
    <3>1. a \in 0 .. i - 1
      BY <1>10
    <3> QED
      BY <1>10, <1>11, <1>12, <3>1
  <2> QED
    BY <1>10, <2>1, <2>2
<1>13. (CHOOSE i \in 0 .. m : Stops(i)) = a
  <2> HIDE DEF Stops
  <2> QED
    BY <1>10, <1>11, <1>12
<1>14. Start(buf, a) = msg
  <2>1. Start(buf, a) = SubSeq(buf, 1, a)
    BY <1>10 DEF Start
  <2>2. /\ SubSeq(buf, 1, a) \in Seq(Code) /\ Len(SubSeq(buf, 1, a)) = a
        /\ \A i \in 1 .. a : SubSeq(buf, 1, a)[i] = buf[i]
    BY ONLY <1>8, <1>10, Parts
  <2>3. \A i \in 1 .. a : SubSeq(buf, 1, a)[i] = msg[i]
    BY <1>4, <1>7, <1>8, <2>2
  <2>4. PICK w : w = SubSeq(buf, 1, a)
    OBVIOUS
  <2>5. w \in Seq(Code) /\ Len(w) = Len(msg) /\ \A i \in 1 .. Len(w) : w[i] = msg[i]
    BY <2>2, <2>3, <2>4 DEF a
  <2>6. w = msg
    BY ONLY <1>4, <2>5, SameCharacters
  <2> QED
    BY <2>1, <2>4, <2>6
<1>15. From(buf, a + 1) = t
  <2>1. PICK b \in Nat : b = a + 1
    BY <1>4
  <2>2. b \in 0 .. m /\ m - b = n
    BY <1>2, <1>4, <1>8, <2>1
  <2>3. PICK w : w = SubSeq(buf, b + 1, m)
    OBVIOUS
  <2>4. w \in Seq(Code) /\ Len(w) = m - b /\ \A i \in 1 .. m - b : w[i] = buf[b + i]
    BY ONLY <1>8, <2>2, <2>3, Parts
  <2>5. Len(w) = Len(t) /\ \A i \in 1 .. Len(w) : w[i] = t[i]
    BY <1>3, <1>8, <2>1, <2>2, <2>4
  <2>6. w = t
    BY ONLY <1>5, <2>4, <2>5, SameCharacters
  <2> QED
    BY <2>1, <2>3, <2>6 DEF From
<1> DEFINE duration == CHOOSE f : DurationLoop(f, t)
<1>16. DurationLoop(duration, t)
  BY <1>3, DurationLoopExists
<1>17. coomand_setTimeout(buf) =
         LET i == CHOOSE i \in 0 .. m : Stops(i)
             text == From(buf, i + 1)
             d == CHOOSE f : DurationLoop(f, text)
         IN  [msg |-> Start(buf, i), duration |-> IF i = m THEN 0 ELSE d[Len(text)]]
  BY <1>9 DEF coomand_setTimeout, FirstUpTo, DurationLoop
<1> HIDE DEF Stops, m
<1>18. coomand_setTimeout(buf) = [msg |-> msg, duration |-> duration[n]]
  BY <1>3, <1>10, <1>13, <1>14, <1>15, <1>17
<1> HIDE DEF duration
<1>19. duration[n] = seconds % LONGWORD
  BY <1>1, <1>16, DurationReads DEF n
<1> QED
  BY <1>18, <1>19 DEF SplitsRight, buf, head, one, t

-----------------------------------------------------------------------------
(***************************************************************************)
(* The parts in the machine.  A step of the machine is a step of the       *)
(* bootloader or leaves it alone, and so for the mailbox: what was shown   *)
(* of the two by themselves holds in the machine.                          *)
(***************************************************************************)
LEMMA BootParts ==
    [Next]_vars => [BootNext]_bvars
<1> SUFFICES ASSUME [Next]_vars PROVE [BootNext]_bvars
  OBVIOUS
<1>1. CASE Booting
  BY <1>1 DEF Booting, Boot, BootNext
<1>2. CASE ~Booting
  <2>1. UNCHANGED bvars
    BY <1>2 DEF Next, vars, KernelStarts, Library, CallStrings, CallNumbers, CallPrintf,
                CallTimeout, CallCpio, CallShell, CallLists, Calls, UserStarts, User,
                MailboxStarts, UseMailbox, Rest
  <2> QED
    BY <2>1
<1> QED
  BY <1>1, <1>2

LEMMA MboxParts ==
    [Next]_vars => [MboxNext]_mvars
<1> SUFFICES ASSUME [Next]_vars PROVE [MboxNext]_mvars
  OBVIOUS
<1>1. CASE UseMailbox
  BY <1>1 DEF UseMailbox
<1>2. CASE ~UseMailbox
  <2>1. UNCHANGED mvars
    BY <1>2 DEF Next, vars, Booting, Boot, KernelStarts, Library, CallStrings, CallNumbers,
                CallPrintf, CallTimeout, CallCpio, CallShell, CallLists, Calls, UserStarts, User,
                MailboxStarts, Rest
  <2> QED
    BY <2>1
<1> QED
  BY <1>1, <1>2

\* The machine contains the bootloader and the mailbox as they are described by
\* themselves: it adds no step to them.
THEOREM MachineContainsParts == Spec => BootSpec /\ MboxSpec
<1>1. Init => BootInit /\ MboxInit
  BY DEF Init
<1> QED
  BY <1>1, BootParts, MboxParts, PTL DEF Spec, BootSpec, MboxSpec

\* From power-on, whatever the kernel does later: the command that runs is the one
\* on the screen, unless more was typed than the line holds; a kernel that is entered
\* is complete, unless a digit of its size was lost; and a call of the mailbox comes
\* back with the answer to its own request, be it SUCCEED or FAILED.
THEOREM MachineKeepsPromises ==
    ASSUME NUL \notin Keys
    PROVE  Spec => [](LineShown /\ KernelComplete /\ MboxAnswered)
  BY MachineContainsParts, CommandShown, EntersCompleteKernel, MboxCallAnswered, PTL

-----------------------------------------------------------------------------
(***************************************************************************)
(* What the library functions are called with                              *)
(***************************************************************************)
GivenTexts ==
    \E a, b \in Texts, n \in 0 .. 4 : input = [kind |-> "texts", a |-> a, b |-> b, n |-> n]

GivenNumber == \E x \in Numbers, d \in 0 .. 4 : input = [kind |-> "number", x |-> x, d |-> d]

GivenFormat ==
    \/ \E ds \in Formats : input = [kind |-> "format", ds |-> ds, sep |-> <<>>]
    \/ \E ds \in TextFormats : input = [kind |-> "format", ds |-> ds, sep |-> <<97>>]

GivenTimeout ==
    \E msg \in Texts, s \in Numbers : input = [kind |-> "timeout", msg |-> msg, s |-> s]

GivenFile == \E a \in Archives, name \in Names : input = [kind |-> "file", a |-> a, name |-> name]

GivenLine == \E keys \in Lines : input = [kind |-> "line", keys |-> keys]

GivenList ==
    \E s \in DistinctLists, n \in 1 .. Nodes, at, stale \in Node :
      input = [kind |-> "list", s |-> s, n |-> n, at |-> at, h |-> Built(s, stale)]

InputInv ==
    /\ input.kind = "texts" => GivenTexts
    /\ input.kind = "number" => GivenNumber
    /\ input.kind = "format" => GivenFormat
    /\ input.kind = "timeout" => GivenTimeout
    /\ input.kind = "file" => GivenFile
    /\ input.kind = "line" => GivenLine
    /\ input.kind = "list" => GivenList

LEMMA InputInvariant == Spec => []InputInv
<1>1. Init => InputInv
  BY DEF Init, InputInv
<1>2. InputInv /\ [Next]_vars => InputInv'
  <2> SUFFICES ASSUME InputInv, [Next]_vars PROVE InputInv'
    OBVIOUS
  <2>1. CASE UNCHANGED input
    BY <2>1 DEF InputInv, GivenTexts, GivenNumber, GivenFormat, GivenTimeout, GivenFile, GivenLine,
                GivenList
  <2>2. CASE Library
    <3>1. CASE CallStrings
      <4>1. input'.kind = "texts" /\ GivenTexts'
        BY <3>1 DEF CallStrings, Calls, GivenTexts
      <4> QED
        BY <4>1 DEF InputInv
    <3>2. CASE CallNumbers
      <4>1. input'.kind = "number" /\ GivenNumber'
        BY <3>2 DEF CallNumbers, Calls, GivenNumber
      <4> QED
        BY <4>1 DEF InputInv
    <3>3. CASE CallTimeout
      <4>1. input'.kind = "timeout" /\ GivenTimeout'
        BY <3>3 DEF CallTimeout, Calls, GivenTimeout
      <4> QED
        BY <4>1 DEF InputInv
    <3>4. CASE CallCpio
      <4>1. input'.kind = "file" /\ GivenFile'
        BY <3>4 DEF CallCpio, Calls, GivenFile
      <4> QED
        BY <4>1 DEF InputInv
    <3>5. CASE CallShell
      <4>1. input'.kind = "line" /\ GivenLine'
        BY <3>5 DEF CallShell, Calls, GivenLine
      <4> QED
        BY <4>1 DEF InputInv
    <3>6. CASE CallLists
      <4>1. input'.kind = "list" /\ GivenList'
        BY <3>6 DEF CallLists, Calls, GivenList
      <4> QED
        BY <4>1 DEF InputInv
    <3>7. CASE CallPrintf
      <4>1. input'.kind = "format" /\ GivenFormat'
        BY <3>7 DEF CallPrintf, Calls, GivenFormat
      <4> QED
        BY <4>1 DEF InputInv
    <3> QED
      BY <2>2, <3>1, <3>2, <3>3, <3>4, <3>5, <3>6, <3>7 DEF Library
  <2>3. CASE ~Library
    <3>1. UNCHANGED input
      BY <2>3 DEF Next, vars, Booting, Boot, KernelStarts, UserStarts, User, MailboxStarts,
                  UseMailbox, Rest
    <3> QED
      BY <2>1, <3>1
  <2> QED
    BY <2>2, <2>3
<1> QED
  BY <1>1, <1>2, PTL DEF Spec

\* The lists of list.h are sequences, and its operations those of sequences, for
\* lists of every length and whatever links the other entries have; and wake_up
\* sees every entry of the queue that it takes apart.
THEOREM LinksAlwaysRight == Spec => []LinksRight
<1>1. InputInv => LinksRight
  <2> SUFFICES ASSUME InputInv, input.kind = "list"
               PROVE  ListsRight(input.h, input.s, input.n, input.at)
    BY DEF LinksRight
  <2>1. PICK s \in DistinctLists, n \in 1 .. Nodes, at \in Node, stale \in Node :
          input = [kind |-> "list", s |-> s, n |-> n, at |-> at, h |-> Built(s, stale)]
    <3>1. GivenList
      BY DEF InputInv
    <3> QED
      BY <3>1 DEF GivenList
  <2>2. s \in Seq(Entries) /\ Once(s)
    BY DistinctFacts
  <2>3. ListIn(Built(s, stale), s)
    BY <2>2, BuiltList
  <2>4. ListsRight(Built(s, stale), s, n, at)
    BY <2>3, ListOperations DEF Entries
  <2>5. input.h = Built(s, stale) /\ input.s = s /\ input.n = n /\ input.at = at
    BY <2>1
  <2> QED
    BY <2>4, <2>5
<1> QED
  BY <1>1, InputInvariant, PTL

\* string.c and math.c, for all strings and numbers: comparisons are those of a
\* dictionary, copies are copies, conversions to decimal and back are the identity,
\* and setTimeout splits its argument at the space.
THEOREM StringsAlwaysRight == Spec => []StringsRight
<1>0. (\A a \in Texts : a \in Seq(Code \ {Space})) /\ Numbers \subseteq Nat
  BY SystemAssumption DEF Code
<1>1. \A a \in Texts : a \in Seq(Code)
  <2> SUFFICES ASSUME NEW a \in Texts PROVE a \in Seq(Code)
    OBVIOUS
  <2>1. a \in [1 .. Len(a) -> Code \ {Space}] /\ Len(a) \in Nat
    BY <1>0
  <2>2. a \in [1 .. Len(a) -> Code]
    BY <2>1
  <2> QED
    BY <2>1, <2>2
<1>2. InputInv => StringsRight
  <2> SUFFICES ASSUME InputInv PROVE StringsRight
    OBVIOUS
  <2>1. ASSUME input.kind = "texts" PROVE ComparesRight(input.a, input.b, input.n)
    <3>1. PICK a \in Texts, b \in Texts, n \in 0 .. 4 :
            input = [kind |-> "texts", a |-> a, b |-> b, n |-> n]
      <4>1. GivenTexts
        BY <2>1 DEF InputInv
      <4> QED
        BY <4>1 DEF GivenTexts
    <3>2. a \in Seq(Code) /\ b \in Seq(Code) /\ n \in Nat
      BY <1>1
    <3>3. ComparesRight(a, b, n)
      BY <3>2, Comparisons
    <3> QED
      BY <3>1, <3>3
  <2>2. ASSUME input.kind = "number" PROVE ConvertsRight(input.x, input.d)
    <3>1. PICK x \in Numbers, d \in 0 .. 4 : input = [kind |-> "number", x |-> x, d |-> d]
      <4>1. GivenNumber
        BY <2>2 DEF InputInv
      <4> QED
        BY <4>1 DEF GivenNumber
    <3>2. x \in Nat /\ d \in Nat
      BY <1>0
    <3>3. ConvertsRight(x, d)
      BY <3>2, Conversions
    <3> QED
      BY <3>1, <3>3
  <2>3. ASSUME input.kind = "timeout" PROVE SplitsRight(input.msg, input.s)
    <3>1. PICK msg \in Texts, s \in Numbers : input = [kind |-> "timeout", msg |-> msg, s |-> s]
      <4>1. GivenTimeout
        BY <2>3 DEF InputInv
      <4> QED
        BY <4>1 DEF GivenTimeout
    <3>2. msg \in Seq(Code \ {Space}) /\ s \in Nat
      BY <1>0
    <3>3. SplitsRight(msg, s)
      BY <3>2, Splits
    <3> QED
      BY <3>1, <3>3
  <2> QED
    BY <2>1, <2>2, <2>3 DEF StringsRight
<1> QED
  BY <1>2, InputInvariant, PTL
-----------------------------------------------------------------------------
(***************************************************************************)
(* The cpio archive.  The numbers of a header are read as they were        *)
(* written, so that the reader finds one header after the other.           *)
(***************************************************************************)
\* align_up() is the padding of the archive.
LEMMA Alignment ==
    ASSUME NEW n \in Nat
    PROVE  align_up(n, CPIO_ALIGNMENT) = Padded(n) /\ Padded(n) \in Nat /\ Padded(n) >= n
  BY DEF align_up, Padded, CPIO_ALIGNMENT

\* pow(), one power after the other.
LEMMA PowNext ==
    ASSUME NEW base \in Nat, NEW n \in Nat
    PROVE  /\ pow(base, 0) = 1
           /\ pow(base, n) \in Nat
           /\ pow(base, n + 1) = pow(base, n) * base
<1> DEFINE P(m) == CHOOSE f : PowLoop(f, base, m)
<1>1. ASSUME NEW m \in Nat
      PROVE  /\ pow(base, m) = P(m)[m]
             /\ \A i \in 0 .. m : P(m)[i] = IF i = 0 THEN 1 ELSE P(m)[i - 1] * base
  <2>1. pow(base, m) = P(m)[m]
    BY DEF pow, PowLoop
  <2>2. PowLoop(P(m), base, m)
    BY PowLoopExists
  <2> HIDE DEF P
  <2> QED
    BY <2>1, <2>2 DEF PowLoop
<1> HIDE DEF P
<1> DEFINE X == {i \in 0 .. n : P(n)[i] = P(n + 1)[i] /\ P(n)[i] \in Nat}
<1>2. /\ n + 1 \in Nat /\ 0 \in 0 .. n /\ 0 \in 0 .. n + 1 /\ n \in 0 .. n
      /\ n + 1 \in 0 .. n + 1 /\ n + 1 # 0 /\ (n + 1) - 1 = n /\ 0 \in Nat /\ 0 \in 0 .. 0
  OBVIOUS
<1>3. 0 \in X
  BY <1>1, <1>2
<1>4. ASSUME NEW i \in 0 .. n - 1, i \in X PROVE i + 1 \in X
  <2>1. i + 1 \in 0 .. n /\ i + 1 \in 0 .. n + 1 /\ i + 1 # 0 /\ (i + 1) - 1 = i
    OBVIOUS
  <2>2. P(n)[i + 1] = P(n)[i] * base /\ P(n + 1)[i + 1] = P(n + 1)[i] * base
    BY <1>1, <1>2, <2>1
  <2>3. P(n)[i] = P(n + 1)[i] /\ P(n)[i] \in Nat
    BY <1>4
  <2>4. P(n)[i] * base \in Nat
    BY <2>3
  <2> QED
    BY <2>1, <2>2, <2>3, <2>4
<1>5. n \in X
  <2> HIDE DEF X
  <2> QED
    BY <1>2, <1>3, <1>4, Reaches
<1>6. P(n + 1)[n + 1] = P(n + 1)[n] * base
  BY <1>1, <1>2
<1>7. P(0)[0] = 1
  BY <1>1, <1>2
<1> QED
  BY <1>1, <1>2, <1>5, <1>6, <1>7

\* Dividing twice.
LEMMA DivTwice ==
    ASSUME NEW n \in Nat, NEW p \in Nat \ {0}
    PROVE  (n \div p) \div 16 = n \div (p * 16) /\ n \div p \in Nat
<1> DEFINE q == n \div p
           r == n % p
           h == q \div 16
           d == q % 16
<1>0. 16 \in Nat \ {0} /\ p * 16 \in Nat \ {0} /\ n \in Int
  OBVIOUS
<1>1. r \in 0 .. p - 1 /\ q \in Int /\ n = p * q + r
  BY <1>0, DivMod
<1>2. d \in 0 .. 15 /\ h \in Int /\ q = 16 * h + d
  <2> HIDE DEF q
  <2> QED
    BY <1>0, <1>1, DivMod
<1>3. q >= 0
  <2> HIDE DEF q, r
  <2>1. q < 0 => p * q <= -p
    <3>1. -q \in Int /\ (q < 0 => -q >= 1)
      BY <1>1
    <3>2. -q >= 1 => p * (-q) >= p
      BY <3>1, ProductGrows
    <3>3. p * (-q) = -(p * q)
      BY <1>1
    <3> QED
      BY <1>1, <3>1, <3>2, <3>3
  <2> QED
    BY <1>1, <2>1
<1>4. n = (p * 16) * h + (p * d + r) /\ p * d + r \in 0 .. p * 16 - 1
  <2> HIDE DEF q, r, h, d
  <2>1. n = (p * 16) * h + (p * d + r)
    BY <1>1, <1>2
  <2>2. p * d <= p * 15 /\ p * d >= 0 /\ p * d \in Int
    BY <1>2, ProductOrder
  <2> QED
    BY <1>1, <2>1, <2>2
<1>5. n \div (p * 16) = h
  <2> HIDE DEF q, r, h, d
  <2>1. p * d + r \in 0 .. (p * 16) - 1
    BY <1>4
  <2> QED
    BY <1>0, <1>2, <1>4, <2>1, ModUnique
<1> QED
  BY <1>1, <1>3, <1>5

LEMMA PowPositive ==
    ASSUME NEW base \in Nat \ {0}, NEW n \in Nat
    PROVE  pow(base, n) \in Nat \ {0}
<1> DEFINE X == {i \in 0 .. n : pow(base, i) > 0}
<1>1. \A i \in Nat : pow(base, i) \in Nat /\ pow(base, i + 1) = pow(base, i) * base
  BY PowNext
<1>2. 0 \in X
  BY PowNext
<1>3. ASSUME NEW i \in 0 .. n - 1, i \in X PROVE i + 1 \in X
  <2>1. PICK w \in Nat : w = pow(base, i) /\ w > 0 /\ pow(base, i + 1) = w * base
    BY <1>1, <1>3
  <2>2. w * base > 0
    BY <2>1
  <2>3. i + 1 \in 0 .. n
    OBVIOUS
  <2> QED
    BY <2>1, <2>2, <2>3
<1>4. n \in X
  <2> HIDE DEF X
  <2> QED
    BY <1>2, <1>3, Reaches
<1> QED
  BY <1>1, <1>4

\* a2d() of a digit.
LEMMA HexDigit ==
    ASSUME NEW d \in 0 .. 15
    PROVE  a2d(DigitChar(d, TRUE)) = d
  BY DEF a2d, DigitChar, Digits, Zero

\* The loop of parse_hex_str() over n characters.
HexLoop(r, s, n) == r = [i \in 0 .. n |-> IF i = 0 THEN 0 ELSE r[i - 1] * 16 + a2d(At(s, i - 1))]

\* The eight digits of a number are read as that number.
LEMMA HexRead ==
    ASSUME NEW n \in Nat, n \div pow(16, 7) < 16
    PROVE  parse_hex_str(Hex(n), FieldSize) = n
<1> DEFINE s == Hex(n)
           q == [i \in 0 .. 8 |-> n \div pow(16, 8 - i)]
           X == {i \in 0 .. 8 : a2d(At(s, i)) < 0}
           r == CHOOSE f : HexLoop(f, s, 8)
<1>1. 16 \in Nat \ {0}
  OBVIOUS
<1>2. \A i \in 0 .. 8 : q[i] \in Nat
  <2>1. \A i \in 0 .. 8 : pow(16, 8 - i) \in Nat \ {0}
    BY <1>1, PowPositive
  <2> QED
    BY <2>1, DivTwice
<1>3. ASSUME NEW i \in 1 .. 8 PROVE q[i - 1] = q[i] \div 16
  <2>1. 8 - i \in Nat /\ 8 - (i - 1) = (8 - i) + 1 /\ i \in 0 .. 8 /\ i - 1 \in 0 .. 8
    OBVIOUS
  <2>2. pow(16, 8 - i) \in Nat \ {0}
    BY <1>1, <2>1, PowPositive
  <2>3. pow(16, 8 - (i - 1)) = pow(16, 8 - i) * 16
    BY <1>1, <2>1, PowNext
  <2> QED
    BY <2>1, <2>2, <2>3, DivTwice
<1>4. q[8] = n
  <2>1. 8 - 8 = 0 /\ 8 \in 0 .. 8
    OBVIOUS
  <2>2. pow(16, 0) = 1
    BY <1>1, PowNext
  <2>3. q[8] = n \div 1
    BY <2>1, <2>2
  <2> QED
    BY <2>3
<1>5. q[0] = 0
  <2>1. 8 - 1 = 7 /\ 1 \in 1 .. 8 /\ 1 - 1 = 0 /\ 1 \in 0 .. 8
    OBVIOUS
  <2>2. q[1] \in Nat /\ q[1] < 16
    BY <1>2, <2>1
  <2>3. q[0] = q[1] \div 16
    BY <1>3, <2>1
  <2> HIDE DEF q
  <2> QED
    BY <2>2, <2>3
<1>6. ASSUME NEW i \in 1 .. 8
      PROVE  q[i] = q[i - 1] * 16 + a2d(At(s, i - 1)) /\ a2d(At(s, i - 1)) >= 0
  <2>1. q[i] \in Int /\ i \in 0 .. 8
    BY <1>2
  <2>2. q[i] % 16 \in 0 .. 16 - 1 /\ q[i] \div 16 \in Int /\ q[i] = 16 * (q[i] \div 16) + (q[i] % 16)
    <3> HIDE DEF q
    <3> QED
      BY <1>1, <2>1, DivMod
  <2>3. At(s, i - 1) = DigitChar(q[i] % 16, TRUE)
    <3>1. Len(s) = 8 /\ s[i] = DigitChar((n \div pow(16, 8 - i)) % 16, TRUE)
      <4> DEFINE D(j) == DigitChar((n \div pow(16, 8 - j)) % 16, TRUE)
      <4>1. s = [j \in 1 .. 8 |-> D(j)]
        BY DEF Hex
      <4> HIDE DEF s, D
      <4>2. Len(s) = 8 /\ s[i] = D(i)
        BY <4>1
      <4> QED
        BY <4>2 DEF D
    <3>2. i - 1 < Len(s) /\ (i - 1) + 1 = i
      BY <3>1
    <3>3. At(s, i - 1) = s[i]
      <4> HIDE DEF s
      <4> QED
        BY <3>2 DEF At
    <3> QED
      BY <2>1, <3>1, <3>3
  <2> HIDE DEF q, s
  <2>4. a2d(At(s, i - 1)) = q[i] % 16
    <3>1. q[i] % 16 \in 0 .. 15
      BY <2>2
    <3> QED
      BY <2>3, <3>1, HexDigit
  <2> QED
    BY <1>3, <2>2, <2>4
<1>7. HexLoop(q, s, 8)
  <2>1. ASSUME NEW i \in 0 .. 8
        PROVE  q[i] = IF i = 0 THEN 0 ELSE q[i - 1] * 16 + a2d(At(s, i - 1))
    BY <1>5, <1>6
  <2>2. q = [i \in 0 .. 8 |-> q[i]]
    OBVIOUS
  <2> HIDE DEF q, s
  <2> QED
    BY <2>1, <2>2 DEF HexLoop
<1>8. HexLoop(r, s, 8)
  <2> HIDE DEF q, s
  <2> QED
    BY <1>7
<1>9. FirstUpTo(8, LAMBDA i : a2d(At(s, i)) < 0) = 8
  <2> DEFINE Stops(k) == (k = 8 \/ a2d(At(s, k)) < 0) /\ \A j \in 0 .. k - 1 : ~(a2d(At(s, j)) < 0)
  <2>1. ASSUME NEW j \in 0 .. 7 PROVE ~(a2d(At(s, j)) < 0)
    <3>1. j + 1 \in 1 .. 8 /\ (j + 1) - 1 = j
      OBVIOUS
    <3>2. a2d(At(s, j)) >= 0
      BY <1>6, <3>1
    <3>3. a2d(At(s, j)) \in Int
      BY DEF a2d, Digits, Zero
    <3> QED
      BY <3>2, <3>3
  <2> HIDE DEF s
  <2>2. Stops(8)
    BY <2>1
  <2>3. ASSUME NEW k \in 0 .. 8, Stops(k) PROVE k = 8
    BY <2>1, <2>3
  <2>4. (CHOOSE k \in 0 .. 8 : Stops(k)) = 8
    <3> HIDE DEF Stops
    <3> QED
      BY <2>2, <2>3
  <2> QED
    BY <2>4 DEF FirstUpTo
<1>10. parse_hex_str(s, FieldSize) = r[8]
  <2> HIDE DEF s
  <2> QED
    BY <1>9 DEF parse_hex_str, HexLoop, FieldSize
<1> HIDE DEF r, q, s
<1> DEFINE Y == {i \in 0 .. 8 : r[i] = q[i]}
<1>11. \A i \in 0 .. 8 : r[i] = IF i = 0 THEN 0 ELSE r[i - 1] * 16 + a2d(At(s, i - 1))
  BY <1>8 DEF HexLoop
<1>12. 0 \in Y
  BY <1>5, <1>11
<1>13. ASSUME NEW i \in 0 .. 8 - 1, i \in Y PROVE i + 1 \in Y
  <2>1. i + 1 \in 0 .. 8 /\ i + 1 \in 1 .. 8 /\ i + 1 # 0 /\ (i + 1) - 1 = i
    OBVIOUS
  <2> QED
    BY <1>6, <1>11, <1>13, <2>1
<1>14. 8 \in Y
  <2> HIDE DEF Y
  <2>1. 8 \in Nat /\ 8 \in 0 .. 8
    OBVIOUS
  <2> QED
    BY <1>12, <1>13, <2>1, Reaches
<1> QED
  BY <1>4, <1>10, <1>14 DEF s

\* What may be in an archive.
File == [name : Seq(Code) \ {CPIO_FOOTER_MAGIC}, data : Seq(Byte)]

Fit(files) ==
    /\ files \in Seq(File)
    /\ \A i \in 1 .. Len(files) :
         /\ (Len(files[i].name) + 1) \div pow(16, 7) < 16
         /\ Len(files[i].data) \div pow(16, 7) < 16

HeaderLoop(at, files) ==
    at = [j \in 0 .. Len(files) |->
            IF j = 0 THEN INITRAMFS_ADDR
            ELSE Padded(DataAt(at[j - 1], files[j]) + Len(files[j].data))]

\* Where the data of the file after a header are.
LEMMA DataPlace ==
    ASSUME NEW at \in Nat, NEW f \in File
    PROVE  /\ DataAt(at, f) \in Nat /\ DataAt(at, f) > at
           /\ Len(f.data) \in Nat
           /\ Padded(DataAt(at, f) + Len(f.data)) \in Nat
           /\ Padded(DataAt(at, f) + Len(f.data)) >= DataAt(at, f) + Len(f.data)
<1>1. Len(f.name) \in Nat /\ Len(f.data) \in Nat
  BY DEF File
<1>2. PICK l \in Nat, m \in Nat : l = Len(f.name) /\ m = Len(f.data)
  BY <1>1
<1>3. PICK x \in Nat : x = at + 110 + l + 1 /\ x > at
  OBVIOUS
<1>4. PICK d \in Nat : d = DataAt(at, f) /\ d >= x
  BY <1>2, <1>3, Alignment DEF DataAt
<1>5. PICK y \in Nat : y = d + m
  OBVIOUS
<1>6. Padded(y) \in Nat /\ Padded(y) >= y
  BY Alignment
<1>7. d > at
  BY <1>3, <1>4
<1>8. DataAt(at, f) + Len(f.data) = y
  BY <1>2, <1>4, <1>5
<1> QED
  BY <1>2, <1>4, <1>6, <1>7, <1>8

LEMMA HeadersExist ==
    ASSUME NEW files \in Seq(File)
    PROVE  \E at : HeaderLoop(at, files) /\ \A j \in 0 .. Len(files) : at[j] \in Nat
<1> DEFINE n == Len(files)
           After(w, f) == Padded(DataAt(w, f) + Len(f.data))
           step == [i \in 1 .. n |-> [w \in Nat |-> After(w, files[i])]]
<1>1. n \in Nat /\ INITRAMFS_ADDR \in Nat /\ \A i \in 1 .. n : files[i] \in File
  BY DEF INITRAMFS_ADDR
<1>2. \A i \in 1 .. n, w \in Nat : After(w, files[i]) \in Nat
  BY <1>1, DataPlace
<1> HIDE DEF n, After
<1>3. step \in Steps(n, Nat)
  BY <1>2 DEF Steps
<1>4. PICK f : Loop(f, n, Nat, INITRAMFS_ADDR, step)
  <2> HIDE DEF step
  <2> QED
    BY <1>1, <1>3, Iterates
<1>5. ASSUME NEW i \in 0 .. n
      PROVE  f[i] \in Nat /\ f[i] = IF i = 0 THEN INITRAMFS_ADDR ELSE After(f[i - 1], files[i])
  <2>1. CASE i = 0
    BY <1>1, <1>4, <2>1 DEF Loop
  <2>2. CASE i # 0
    <3>1. i \in 1 .. n /\ i - 1 \in 0 .. n
      BY <1>1, <2>2
    <3>2. f[i - 1] \in Nat /\ f[i] \in Nat /\ f[i] = step[i][f[i - 1]]
      BY <1>4, <3>1 DEF Loop
    <3> QED
      BY <2>2, <3>1, <3>2
  <2> QED
    BY <2>1, <2>2
<1>6. f = [i \in 0 .. n |-> IF i = 0 THEN INITRAMFS_ADDR ELSE After(f[i - 1], files[i])]
  BY <1>4, <1>5 DEF Loop
<1> QED
  BY <1>5, <1>6 DEF HeaderLoop, After, n

\* One header after the other.
LEMMA HeaderNext ==
    ASSUME NEW files \in Seq(File)
    PROVE  /\ HeaderAfter(files, 0) = INITRAMFS_ADDR
           /\ \A k \in 0 .. Len(files) : HeaderAfter(files, k) \in Nat
           /\ \A k \in 1 .. Len(files) :
                HeaderAfter(files, k)
                  = Padded(DataAt(HeaderAfter(files, k - 1), files[k]) + Len(files[k].data))
<1> DEFINE n == Len(files)
           at == CHOOSE f : HeaderLoop(f, files)
           X == {i \in 0 .. n : at[i] \in Nat}
           After(w, f) == Padded(DataAt(w, f) + Len(f.data))
<1>1. n \in Nat /\ INITRAMFS_ADDR \in Nat /\ \A i \in 1 .. n : files[i] \in File
  BY DEF INITRAMFS_ADDR
<1>2. \A k : HeaderAfter(files, k) = at[k]
  BY DEF HeaderAfter, HeaderLoop
<1>3. HeaderLoop(at, files)
  BY HeadersExist
<1> HIDE DEF at
<1>4. \A i \in 0 .. n : at[i] = IF i = 0 THEN INITRAMFS_ADDR ELSE After(at[i - 1], files[i])
  BY <1>3 DEF HeaderLoop
<1> HIDE DEF After, n
<1>5. 0 \in X
  BY <1>1, <1>4
<1>6. ASSUME NEW i \in 0 .. n - 1, i \in X PROVE i + 1 \in X
  <2>1. i + 1 \in 0 .. n /\ i + 1 \in 1 .. n /\ i + 1 # 0 /\ (i + 1) - 1 = i
    BY <1>1
  <2>2. at[i + 1] = After(at[i], files[i + 1]) /\ at[i] \in Nat
    BY <1>4, <1>6, <2>1
  <2>3. After(at[i], files[i + 1]) \in Nat
    BY <1>1, <2>1, <2>2, DataPlace DEF After
  <2> QED
    BY <2>1, <2>2, <2>3
<1>7. \A i \in 0 .. n : at[i] \in Nat
  <2>1. \A i \in 0 .. n : i \in X
    <3> HIDE DEF X
    <3> QED
      BY <1>1, <1>5, <1>6, Reaches
  <2> QED
    BY <2>1
<1>8. ASSUME NEW k \in 1 .. n PROVE at[k] = After(at[k - 1], files[k])
  BY <1>1, <1>4
<1>9. 0 \in 0 .. n
  BY <1>1
<1> QED
  BY <1>2, <1>4, <1>7, <1>8, <1>9 DEF After, n

\* Headers and data follow one another without overlap.
LEMMA HeadersApart ==
    ASSUME NEW files \in Seq(File), NEW j \in 0 .. Len(files), NEW k \in 0 .. Len(files), j < k
    PROVE  HeaderAfter(files, j) < HeaderAfter(files, k)
<1> DEFINE n == Len(files)
           H(i) == HeaderAfter(files, i)
           gap == k - j - 1
           X == {i \in 0 .. gap : H(j) < H(j + 1 + i)}
<1>1. n \in Nat /\ gap \in Nat /\ \A i \in 1 .. n : files[i] \in File
  OBVIOUS
<1>2. ASSUME NEW i \in 1 .. n PROVE H(i - 1) \in Nat /\ H(i) \in Nat /\ H(i - 1) < H(i)
  <2>1. i - 1 \in 0 .. n /\ i \in 0 .. n
    BY <1>1
  <2>2. H(i - 1) \in Nat /\ H(i) \in Nat
    BY <2>1, HeaderNext
  <2>3. H(i) = Padded(DataAt(H(i - 1), files[i]) + Len(files[i].data))
    BY HeaderNext
  <2>4. PICK w \in Nat, d \in Nat, m \in Nat :
          /\ w = H(i - 1) /\ d = DataAt(w, files[i]) /\ m = Len(files[i].data)
          /\ d > w /\ Padded(d + m) >= d + m
    <3> HIDE DEF H
    <3> QED
      BY <1>1, <2>2, DataPlace, ZenonT(60)
  <2>5. H(i) >= d + m
    BY <2>3, <2>4
  <2> HIDE DEF H
  <2> QED
    BY <2>2, <2>4, <2>5
<1> HIDE DEF H
<1>3. 0 \in X
  <2>1. j + 1 \in 1 .. n /\ (j + 1) - 1 = j /\ j + 1 + 0 = j + 1 /\ 0 \in 0 .. gap
    BY <1>1
  <2> QED
    BY <1>2, <2>1
<1>4. ASSUME NEW i \in 0 .. gap - 1, i \in X PROVE i + 1 \in X
  <2>1. /\ j + 1 + (i + 1) \in 1 .. n /\ (j + 1 + (i + 1)) - 1 = j + 1 + i
        /\ i + 1 \in 0 .. gap /\ j + 1 \in 1 .. n /\ (j + 1) - 1 = j
    BY <1>1
  <2>2. H(j + 1 + i) \in Nat /\ H(j + 1 + (i + 1)) \in Nat /\ H(j + 1 + i) < H(j + 1 + (i + 1))
    BY <1>2, <2>1
  <2>3. H(j) \in Nat /\ H(j) < H(j + 1 + i)
    BY <1>2, <1>4, <2>1
  <2>4. H(j) < H(j + 1 + (i + 1))
    BY <2>2, <2>3
  <2> QED
    BY <2>1, <2>4
<1>5. gap \in X
  <2> HIDE DEF X, gap
  <2>1. \A i \in 0 .. gap : i \in X
    BY <1>1, <1>3, <1>4, Reaches
  <2> QED
    BY <1>1, <2>1
<1>6. j + 1 + gap = k
  OBVIOUS
<1> QED
  BY <1>5, <1>6 DEF H

\* The headers of an archive.
LEMMA ArchiveHeaders ==
    ASSUME NEW files \in Seq(File), NEW magic
    PROVE  LET h == Archive(files, magic).header IN
           /\ Archive(files, magic).files = files
           /\ \A at \in DOMAIN h : \E i \in 0 .. Len(files) : at = HeaderAfter(files, i)
           /\ \A i \in 0 .. Len(files) :
                /\ HeaderAfter(files, i) \in DOMAIN h
                /\ h[HeaderAfter(files, i)] =
                     IF i = Len(files) THEN Header(magic, Trailer)
                     ELSE Header(CPIO_HEADER_MAGIC, files[i + 1])
<1> DEFINE n == Len(files)
           H(i) == HeaderAfter(files, i)
           place == [i \in 1 .. n + 1 |-> H(i - 1)]
           pick(at) == CHOOSE j \in 1 .. n + 1 : place[j] = at
           head(i) == IF i > n THEN Header(magic, Trailer) ELSE Header(CPIO_HEADER_MAGIC, files[i])
           h == Archive(files, magic).header
<1>0. n \in Nat
  OBVIOUS
<1>1. h = [at \in Range(place) |-> head(pick(at))] /\ Archive(files, magic).files = files
  BY DEF Archive
<1>2. \A j, k \in 1 .. n + 1 : j < k => H(j - 1) \in Nat /\ H(k - 1) \in Nat /\ H(j - 1) < H(k - 1)
  <2> SUFFICES ASSUME NEW j \in 1 .. n + 1, NEW k \in 1 .. n + 1, j < k
               PROVE  H(j - 1) \in Nat /\ H(k - 1) \in Nat /\ H(j - 1) < H(k - 1)
    OBVIOUS
  <2>1. j - 1 \in 0 .. n /\ k - 1 \in 0 .. n /\ j - 1 < k - 1
    BY <1>0
  <2> QED
    BY <2>1, HeaderNext, HeadersApart
<1> HIDE DEF n, H, head, h
<1>3. \A j, k \in 1 .. n + 1 : H(j - 1) = H(k - 1) => j = k
  BY <1>0, <1>2
<1>4. \A at \in DOMAIN h : \E i \in 0 .. n : at = H(i)
  <2> SUFFICES ASSUME NEW at \in DOMAIN h PROVE \E i \in 0 .. n : at = H(i)
    OBVIOUS
  <2>1. PICK j \in 1 .. n + 1 : at = H(j - 1)
    BY <1>1 DEF Range
  <2>2. j - 1 \in 0 .. n
    BY <1>0
  <2> QED
    BY <2>1, <2>2
<1>5. ASSUME NEW i \in 0 .. n
      PROVE  /\ H(i) \in DOMAIN h
             /\ h[H(i)] = IF i = n THEN Header(magic, Trailer)
                          ELSE Header(CPIO_HEADER_MAGIC, files[i + 1])
  <2>1. i + 1 \in 1 .. n + 1 /\ (i + 1) - 1 = i /\ (i + 1 > n <=> i = n)
    BY <1>0
  <2>2. place[i + 1] = H(i) /\ i + 1 \in DOMAIN place
    BY <2>1
  <2>3. H(i) \in Range(place)
    BY <2>2 DEF Range
  <2>4. \A j \in 1 .. n + 1 : place[j] = H(i) => j = i + 1
    BY <1>3, <2>1
  <2>5. pick(H(i)) = i + 1
    <3> HIDE DEF place
    <3> QED
      BY <2>1, <2>2, <2>4
  <2> HIDE DEF place, pick
  <2>6. h[H(i)] = head(i + 1) /\ H(i) \in DOMAIN h
    BY <1>1, <2>3, <2>5
  <2> QED
    BY <2>1, <2>6 DEF head
<1> QED
  BY <1>1, <1>4, <1>5 DEF h, H, n

\* The bytes of its files.
LEMMA ArchiveBytes ==
    ASSUME NEW files \in Seq(File), NEW magic
    PROVE  LET b == Archive(files, magic).byte IN
           /\ \A at \in DOMAIN b : b[at] \in Byte
           /\ \A i \in 1 .. Len(files) : \A k \in 1 .. Len(files[i].data) :
                LET at == DataAt(HeaderAfter(files, i - 1), files[i]) + k - 1
                IN  at \in DOMAIN b /\ b[at] = files[i].data[k]
<1> DEFINE n == Len(files)
           H(i) == HeaderAfter(files, i)
           place == [i \in 1 .. n + 1 |-> H(i - 1)]
           data == [i \in 1 .. n |-> DataAt(place[i], files[i])]
           D(i) == DataAt(H(i - 1), files[i])
           L(i) == Len(files[i].data)
           span(i) == D(i) .. D(i) + L(i) - 1
           pick(at) == CHOOSE j \in 1 .. n : at \in span(j)
           all == UNION {span(i) : i \in 1 .. n}
           b == Archive(files, magic).byte
<1>0. n \in Nat /\ \A i \in 1 .. n : files[i] \in File
  OBVIOUS
<1>1. ASSUME NEW i \in 1 .. n
      PROVE  /\ i - 1 \in 0 .. n /\ i \in 0 .. n /\ H(i - 1) \in Nat /\ H(i) \in Nat
             /\ D(i) \in Nat /\ L(i) \in Nat /\ H(i - 1) < D(i) /\ D(i) + L(i) <= H(i)
  <2>1. i - 1 \in 0 .. n /\ i \in 0 .. n
    BY <1>0
  <2>2. H(i - 1) \in Nat /\ H(i) \in Nat
    BY <2>1, HeaderNext
  <2>3. H(i) = Padded(D(i) + L(i))
    BY HeaderNext
  <2>4. D(i) \in Nat /\ L(i) \in Nat /\ D(i) > H(i - 1) /\ Padded(D(i) + L(i)) >= D(i) + L(i)
    <3> HIDE DEF H
    <3> QED
      BY <1>0, <2>2, DataPlace
  <2> HIDE DEF H, D, L
  <2> QED
    BY <2>1, <2>2, <2>3, <2>4
<1>2. b = [at \in all |-> files[pick(at)].data[at - D(pick(at)) + 1]]
  <2>1. \A i \in 1 .. n : data[i] = D(i)
    <3>1. \A i \in 1 .. n : place[i] = H(i - 1)
      BY <1>0, SMTT(60)
    <3> QED
      BY <3>1
  <2> DEFINE spot(at) == CHOOSE j \in 1 .. n : at \in data[j] .. data[j] + L(j) - 1
             whole == UNION {data[i] .. data[i] + L(i) - 1 : i \in 1 .. n}
  <2>2. b = [at \in whole |-> files[spot(at)].data[at - data[spot(at)] + 1]]
    BY DEF Archive
  <2> HIDE DEF b, data, D, L, n
  <2>3. \A i \in 1 .. n : data[i] .. data[i] + L(i) - 1 = span(i)
    BY <2>1
  <2>4. whole = all
    BY <2>3
  <2>5. ASSUME NEW at \in all PROVE spot(at) = pick(at) /\ spot(at) \in 1 .. n
    <3>1. PICK j \in 1 .. n : at \in span(j)
      OBVIOUS
    <3>2. \A i \in 1 .. n : at \in data[i] .. data[i] + L(i) - 1 <=> at \in span(i)
      BY <2>3
    <3> HIDE DEF span
    <3>3. spot(at) = pick(at)
      BY <3>2
    <3>4. spot(at) \in 1 .. n
      BY <3>1, <3>2
    <3> QED
      BY <3>3, <3>4
  <2> HIDE DEF spot, pick, whole, all
  <2>6. \A at \in all : data[spot(at)] = D(pick(at))
    BY <2>1, <2>5
  <2> QED
    BY <2>2, <2>4, <2>5, <2>6
<1> HIDE DEF b, D, L, n, H
<1>3. \A i, j \in 1 .. n : i < j => D(i) + L(i) < D(j)
  <2> SUFFICES ASSUME NEW i \in 1 .. n, NEW j \in 1 .. n, i < j PROVE D(i) + L(i) < D(j)
    OBVIOUS
  <2>1. i \in 0 .. n /\ j - 1 \in 0 .. n /\ H(i) \in Nat /\ H(j - 1) \in Nat
    BY <1>1
  <2>2. H(i) <= H(j - 1)
    <3>1. CASE i = j - 1
      BY <2>1, <3>1
    <3>2. CASE i # j - 1
      <4>1. i < j - 1
        BY <1>0, <3>2
      <4>2. H(i) < H(j - 1)
        BY <2>1, <4>1, HeadersApart DEF H, n
      <4> QED
        BY <2>1, <4>2
    <3> QED
      BY <3>1, <3>2
  <2>3. D(i) + L(i) <= H(i) /\ H(j - 1) < D(j) /\ D(i) \in Nat /\ L(i) \in Nat /\ D(j) \in Nat
    BY <1>1
  <2> QED
    BY <2>1, <2>2, <2>3
<1>4. \A i, j \in 1 .. n : \A at : at \in span(i) /\ at \in span(j) => i = j
  <2> SUFFICES ASSUME NEW i \in 1 .. n, NEW j \in 1 .. n, NEW at, at \in span(i), at \in span(j)
               PROVE  i = j
    OBVIOUS
  <2>1. /\ D(i) \in Nat /\ L(i) \in Nat /\ D(j) \in Nat /\ L(j) \in Nat
        /\ i < j => D(i) + L(i) < D(j)
        /\ j < i => D(j) + L(j) < D(i)
    BY <1>1, <1>3
  <2>2. ~(i < j) /\ ~(j < i)
    BY <2>1
  <2> QED
    BY <1>0, <2>2
<1>5. ASSUME NEW i \in 1 .. n, NEW k \in 1 .. L(i)
      PROVE  D(i) + k - 1 \in DOMAIN b /\ b[D(i) + k - 1] = files[i].data[k]
  <2>1. D(i) \in Nat /\ L(i) \in Nat
    BY <1>1
  <2>2. D(i) + k - 1 \in span(i) /\ (D(i) + k - 1) - D(i) + 1 = k
    BY <2>1
  <2> DEFINE at == D(i) + k - 1
  <2> HIDE DEF at, span
  <2>3. at \in span(i) /\ at - D(i) + 1 = k
    BY <2>2 DEF at
  <2>4. pick(at) = i
    BY <1>4, <2>3
  <2>5. at \in all
    BY <2>3
  <2> HIDE DEF pick, all
  <2>6. at \in DOMAIN b /\ b[at] = files[i].data[k]
    BY <1>2, <2>3, <2>4, <2>5
  <2> QED
    BY <2>6 DEF at
<1>6. ASSUME NEW at \in DOMAIN b PROVE b[at] \in Byte
  <2>1. PICK i \in 1 .. n : at \in span(i)
    BY <1>2
  <2>2. D(i) \in Nat /\ L(i) \in Nat
    BY <1>1
  <2>3. PICK k \in 1 .. L(i) : at = D(i) + k - 1
    <3>1. at \in Int /\ at - D(i) + 1 \in 1 .. L(i) /\ at = D(i) + (at - D(i) + 1) - 1
      BY <2>1, <2>2
    <3> QED
      BY <3>1
  <2>4. b[at] = files[i].data[k]
    BY <1>5, <2>3
  <2>5. files[i].data \in Seq(Byte)
    BY <1>0 DEF File
  <2> QED
    BY <2>3, <2>4, <2>5 DEF L
<1> QED
  BY <1>5, <1>6 DEF b, D, L, H, n

\* cpio_strncmp() with the length of the name and its NUL compares whole strings.
LEMMA WholeString ==
    ASSUME NEW a \in Seq(Code), NEW b \in Seq(Code)
    PROVE  cpio_strncmp(a, b, Len(b) + 1) = 0 <=> a = b
<1> DEFINE m == Len(b) + 1
<1>1. Len(a) \in Nat /\ Len(b) \in Nat /\ m \in Nat /\ Len(b) < m
  OBVIOUS
<1>2. cpio_strncmp(a, b, m) = 0 <=> Start(a, m) = Start(b, m)
  <2> HIDE DEF m
  <2> QED
    BY <1>1, Comparisons DEF ComparesRight, cpio_strncmp
<1> HIDE DEF m
<1>3. \A s \in Seq(Code) : Len(s) <= m => Start(s, m) = s
  <2> SUFFICES ASSUME NEW s \in Seq(Code), Len(s) <= m PROVE Start(s, m) = s
    OBVIOUS
  <2>1. Len(s) \in Nat
    OBVIOUS
  <2>2. Start(s, m) = SubSeq(s, 1, Len(s))
    BY <1>1, <2>1 DEF Start
  <2>3. SubSeq(s, 1, Len(s)) = s
    BY <2>1
  <2> QED
    BY <2>2, <2>3
<1>4. Len(Start(a, m)) = (IF m < Len(a) THEN m ELSE Len(a)) /\ Start(b, m) = b
  BY <1>1, <1>3, StartFacts
<1>5. Start(a, m) = Start(b, m) <=> a = b
  <2>1. CASE Len(a) <= m
    BY <1>3, <1>4, <2>1
  <2>2. CASE ~(Len(a) <= m)
    <3>1. Len(Start(a, m)) # Len(b) /\ Len(a) # Len(b)
      BY <1>1, <1>4, <2>2
    <3> QED
      BY <1>4, <3>1
  <2> QED
    BY <2>1, <2>2
<1> QED
  BY <1>2, <1>5 DEF m

LEMMA MagicStrings ==
    /\ CPIO_HEADER_MAGIC \in Seq(Code) /\ CPIO_FOOTER_MAGIC \in Seq(Code)
    /\ cpio_strncmp(CPIO_HEADER_MAGIC, CPIO_HEADER_MAGIC, Len(CPIO_HEADER_MAGIC)) = 0
    /\ cpio_strncmp(CPIO_FOOTER_MAGIC, CPIO_FOOTER_MAGIC, Len(CPIO_FOOTER_MAGIC) + 1) = 0
<1>1. CPIO_HEADER_MAGIC \in Seq(Code)
  BY DEF CPIO_HEADER_MAGIC, Code
<1>2. CPIO_FOOTER_MAGIC \in Seq(Code)
  BY DEF CPIO_FOOTER_MAGIC, Code
<1>3. Len(CPIO_HEADER_MAGIC) \in Nat
  BY <1>1
<1>4. cpio_strncmp(CPIO_HEADER_MAGIC, CPIO_HEADER_MAGIC, Len(CPIO_HEADER_MAGIC)) = 0
  BY <1>1, <1>3, Comparisons DEF ComparesRight, cpio_strncmp
<1> QED
  BY <1>1, <1>2, <1>4, WholeString

\* What the header of a file says: where the file is, and where the next one.
LEMMA HeaderSays ==
    ASSUME NEW files, Fit(files), NEW magic, NEW i \in 1 .. Len(files)
    PROVE  LET p == cpio_parse_header(Archive(files, magic), HeaderAfter(files, i - 1)) IN
           /\ p.error = 0 /\ p.filename = files[i].name /\ p.filesize = Len(files[i].data)
           /\ p.data = DataAt(HeaderAfter(files, i - 1), files[i])
           /\ p.next = HeaderAfter(files, i)
<1> DEFINE f == files[i]
           at == HeaderAfter(files, i - 1)
           h == Header(CPIO_HEADER_MAGIC, f)
           a == Archive(files, magic)
<1>1. /\ files \in Seq(File) /\ f \in File /\ Len(files) \in Nat
      /\ (Len(f.name) + 1) \div pow(16, 7) < 16 /\ Len(f.data) \div pow(16, 7) < 16
  BY DEF Fit
<1>2. i - 1 \in 0 .. Len(files) /\ i - 1 # Len(files) /\ (i - 1) + 1 = i
  BY <1>1
<1>3. at \in DOMAIN a.header /\ a.header[at] = h
  <2>1. PICK k \in 0 .. Len(files) : k = i - 1 /\ k # Len(files) /\ k + 1 = i
    BY <1>2
  <2>2. /\ HeaderAfter(files, k) \in DOMAIN a.header
        /\ a.header[HeaderAfter(files, k)] = Header(CPIO_HEADER_MAGIC, files[k + 1])
    BY <1>1, <2>1, ArchiveHeaders
  <2> QED
    BY <2>1, <2>2
<1>4. at \in Nat /\ HeaderAfter(files, i) = Padded(DataAt(at, f) + Len(f.data))
  BY <1>1, <1>2, HeaderNext
<1>5. h.magic = CPIO_HEADER_MAGIC /\ h.name = f.name
  BY DEF Header
<1>6. f.name \in Seq(Code) /\ f.name # CPIO_FOOTER_MAGIC /\ Len(f.name) + 1 \in Nat /\ Len(f.data) \in Nat
  <2> HIDE DEF f
  <2>1. f.name \in Seq(Code) \ {CPIO_FOOTER_MAGIC} /\ f.data \in Seq(Byte)
    BY <1>1 DEF File
  <2> QED
    BY <2>1
<1>7. cpio_strncmp(f.name, CPIO_FOOTER_MAGIC, Len(CPIO_FOOTER_MAGIC) + 1) # 0
  BY <1>6, MagicStrings, WholeString
<1>8. /\ parse_hex_str(h.namesize, FieldSize) = Len(f.name) + 1
      /\ parse_hex_str(h.filesize, FieldSize) = Len(f.data)
  <2>1. h.namesize = Hex(Len(f.name) + 1) /\ h.filesize = Hex(Len(f.data))
    BY DEF Header
  <2> HIDE DEF h, f
  <2> QED
    BY <1>1, <1>6, <2>1, HexRead
<1> HIDE DEF a, h, at, f
<1>9. cpio_parse_header(a, at) = Entry(at, h)
  BY <1>3, <1>5, <1>7, MagicStrings DEF cpio_parse_header
<1>10. PICK l \in Nat, m \in Nat : l = Len(f.name) + 1 /\ m = Len(f.data)
  BY <1>6
<1>11. PICK d \in Nat : d = DataAt(at, f) /\ d = align_up(at + HeaderSize + l, CPIO_ALIGNMENT)
  <2>1. PICK k \in Nat : k = Len(f.name)
    BY <1>6
  <2>2. at + 110 + k + 1 = at + HeaderSize + l /\ at + HeaderSize + l \in Nat
    <3>1. at \in Nat /\ l = k + 1 /\ HeaderSize = 110
      BY <1>4, <1>10, <2>1 DEF HeaderSize
    <3> QED
      BY <3>1
  <2> QED
    BY <2>1, <2>2, Alignment DEF DataAt
<1>12. align_up(d + m, CPIO_ALIGNMENT) = Padded(d + m)
  BY Alignment
<1>13. Entry(at, h) = [error |-> 0, filename |-> f.name, filesize |-> m, data |-> d,
                       next |-> Padded(d + m)]
  BY <1>5, <1>8, <1>10, <1>11, <1>12 DEF Entry
<1>14. HeaderAfter(files, i) = Padded(d + m)
  BY <1>4, <1>10, <1>11
<1> QED
  BY <1>9, <1>10, <1>11, <1>13, <1>14 DEF a, at, f

\* Everything else ends the walk.
IsEnd(p) == p.error = -1 \/ (p.error = 1 /\ p.filename = CPIO_FOOTER_MAGIC)

LEMMA WalkEnds ==
    ASSUME NEW files, Fit(files), NEW magic, NEW at,
           at = HeaderAfter(files, Len(files)) \/ \A i \in 0 .. Len(files) : at # HeaderAfter(files, i)
    PROVE  IsEnd(cpio_parse_header(Archive(files, magic), at))
<1> DEFINE a == Archive(files, magic)
<1>1. files \in Seq(File) /\ Len(files) \in 0 .. Len(files)
  <2>1. files \in Seq(File)
    BY DEF Fit
  <2> QED
    BY <2>1
<1>2. CASE at = HeaderAfter(files, Len(files))
  <2>1. at \in DOMAIN a.header /\ a.header[at] = Header(magic, Trailer)
    BY <1>1, <1>2, ArchiveHeaders
  <2>2. a.header[at].name = CPIO_FOOTER_MAGIC
    BY <2>1 DEF Header, Trailer
  <2> HIDE DEF a
  <2> DEFINE known == cpio_strncmp(a.header[at].magic, CPIO_HEADER_MAGIC, Len(CPIO_HEADER_MAGIC)) = 0
  <2>3. cpio_parse_header(a, at)
          = IF known THEN [error |-> 1, filename |-> CPIO_FOOTER_MAGIC] ELSE [error |-> -1]
    BY <2>1, <2>2, MagicStrings DEF cpio_parse_header
  <2>4. IsEnd([error |-> 1, filename |-> CPIO_FOOTER_MAGIC])
    BY DEF IsEnd
  <2>5. IsEnd([error |-> -1])
    BY DEF IsEnd
  <2> HIDE DEF known
  <2>6. IsEnd(cpio_parse_header(a, at))
    BY <2>3, <2>4, <2>5
  <2> QED
    BY <2>6 DEF a
<1>3. CASE \A i \in 0 .. Len(files) : at # HeaderAfter(files, i)
  <2>1. at \notin DOMAIN a.header
    BY <1>1, <1>3, ArchiveHeaders
  <2> HIDE DEF a
  <2>2. cpio_parse_header(a, at) = [error |-> -1]
    BY <2>1 DEF cpio_parse_header
  <2>3. IsEnd(cpio_parse_header(a, at))
    BY <2>2 DEF IsEnd
  <2> QED
    BY <2>3 DEF a
<1> QED
  BY <1>2, <1>3

\* What the loop of cpio_get_file does with the header at an address.
WalkStep(W, a, name, at, sz) ==
    LET p == cpio_parse_header(a, at)
    IN  IF p.error # 0 THEN [result |-> NULL, size |-> sz]
        ELSE IF cpio_strncmp(p.filename, name, Len(name) + 1) = 0
        THEN [result |-> p.data, size |-> p.filesize]
        ELSE W[p.next][p.filesize]

IsWalk(W, a, name) == W = [at \in Nat |-> [sz \in Nat |-> WalkStep(W, a, name, at, sz)]]

\* What it finds from file i on, if the last size it has read is sz.
Spot(files, i) ==
    [result |-> DataAt(HeaderAfter(files, i - 1), files[i]), size |-> Len(files[i].data)]

Hits(files, name, i) == {j \in i .. Len(files) : files[j].name = name}

Found(files, name, i, sz) ==
    IF Hits(files, name, i) # {} THEN Spot(files, Min(Hits(files, name, i)))
    ELSE [result |-> NULL, size |-> IF i > Len(files) THEN sz ELSE Len(files[Len(files)].data)]

\* The least of a set of numbers.
LEMMA MinFacts ==
    ASSUME NEW T \in SUBSET Nat, T # {}
    PROVE  Min(T) \in T /\ \A y \in T : Min(T) <= y
<1>1. \E x \in T : \A y \in T : x <= y
  BY LeastNumber
<1> QED
  BY <1>1 DEF Min

LEMMA HitsNext ==
    ASSUME NEW files \in Seq(File), NEW name, NEW i \in 1 .. Len(files)
    PROVE  /\ files[i].name = name =>
                Hits(files, name, i) # {} /\ Min(Hits(files, name, i)) = i
           /\ files[i].name # name => Hits(files, name, i) = Hits(files, name, i + 1)
<1> DEFINE n == Len(files)
           S == Hits(files, name, i)
<1>1. n \in Nat /\ i \in Nat
  OBVIOUS
<1>2. S \in SUBSET Nat /\ \A j \in S : j >= i
  BY <1>1 DEF Hits
<1>3. ASSUME files[i].name = name PROVE S # {} /\ Min(S) = i
  <2>1. i \in S
    BY <1>1, <1>3 DEF Hits
  <2> HIDE DEF S
  <2>2. Min(S) \in S /\ Min(S) <= i
    BY <1>2, <2>1, MinFacts
  <2>3. Min(S) >= i /\ Min(S) \in Nat
    BY <1>2, <2>2
  <2> QED
    BY <1>1, <2>1, <2>2, <2>3
<1>4. ASSUME files[i].name # name PROVE S = Hits(files, name, i + 1)
  <2>1. \A j : j \in i .. n <=> j = i \/ j \in i + 1 .. n
    BY <1>1
  <2> QED
    BY <1>4, <2>1 DEF Hits
<1> QED
  BY <1>3, <1>4

LEMMA FoundNext ==
    ASSUME NEW files \in Seq(File), NEW name, NEW i \in 1 .. Len(files), NEW sz
    PROVE  Found(files, name, i, sz)
             = IF files[i].name = name THEN Spot(files, i)
               ELSE Found(files, name, i + 1, Len(files[i].data))
<1> DEFINE n == Len(files)
           S == Hits(files, name, i)
           T == Hits(files, name, i + 1)
<1>1. /\ files[i].name = name => S # {} /\ Min(S) = i
      /\ files[i].name # name => S = T
  BY HitsNext
<1>2. ~(i > n) /\ (i + 1 > n <=> i = n)
  OBVIOUS
<1> HIDE DEF S, T, n
<1> QED
  BY <1>1, <1>2 DEF Found, S, T, n

LEMMA FoundEnd ==
    ASSUME NEW files \in Seq(File), NEW name, NEW sz
    PROVE  Found(files, name, Len(files) + 1, sz) = [result |-> NULL, size |-> sz]
<1>1. Len(files) \in Nat
  OBVIOUS
<1>2. Hits(files, name, Len(files) + 1) = {} /\ Len(files) + 1 > Len(files)
  BY <1>1 DEF Hits
<1> QED
  BY <1>2 DEF Found

\* What is done with file i.
WalkOn(W, files, name, i) ==
    IF files[i].name = name THEN Spot(files, i) ELSE W[HeaderAfter(files, i)][Len(files[i].data)]

\* A round of the loop, at the header of a file and at the end.
LEMMA WalkRound ==
    ASSUME NEW files, Fit(files), NEW magic, NEW name \in Seq(Code), NEW W,
           NEW i \in 1 .. Len(files), NEW sz
    PROVE  WalkStep(W, Archive(files, magic), name, HeaderAfter(files, i - 1), sz)
             = WalkOn(W, files, name, i)
<1> DEFINE a == Archive(files, magic)
           p == cpio_parse_header(a, HeaderAfter(files, i - 1))
<1>1. /\ p.error = 0 /\ p.filename = files[i].name /\ p.filesize = Len(files[i].data)
      /\ p.data = DataAt(HeaderAfter(files, i - 1), files[i])
      /\ p.next = HeaderAfter(files, i)
  BY HeaderSays
<1>2. files[i].name \in Seq(Code)
  <2>1. files[i] \in File
    BY DEF Fit
  <2> QED
    BY <2>1 DEF File
<1>3. cpio_strncmp(p.filename, name, Len(name) + 1) = 0 <=> files[i].name = name
  <2> HIDE DEF p
  <2> QED
    BY <1>1, <1>2, WholeString
<1>4. WalkStep(W, a, name, HeaderAfter(files, i - 1), sz)
        = IF p.error # 0 THEN [result |-> NULL, size |-> sz]
          ELSE IF cpio_strncmp(p.filename, name, Len(name) + 1) = 0
          THEN [result |-> p.data, size |-> p.filesize]
          ELSE W[p.next][p.filesize]
  BY DEF WalkStep
<1> HIDE DEF p
<1> QED
  BY <1>1, <1>3, <1>4 DEF Spot, WalkOn

LEMMA WalkStops ==
    ASSUME NEW files, Fit(files), NEW magic, NEW name, NEW W, NEW sz, NEW at,
           at = HeaderAfter(files, Len(files)) \/ \A i \in 0 .. Len(files) : at # HeaderAfter(files, i)
    PROVE  WalkStep(W, Archive(files, magic), name, at, sz) = [result |-> NULL, size |-> sz]
<1>1. cpio_parse_header(Archive(files, magic), at).error # 0
  BY WalkEnds DEF IsEnd
<1> QED
  BY <1>1 DEF WalkStep

\* The loop ends, whatever the name is.
LEMMA WalkExists ==
    ASSUME NEW files, Fit(files), NEW magic, NEW name \in Seq(Code)
    PROVE  \E W : IsWalk(W, Archive(files, magic), name)
<1> DEFINE n == Len(files)
           a == Archive(files, magic)
           H(i) == HeaderAfter(files, i)
           pick(at) == CHOOSE i \in 0 .. n : at = H(i)
           V(at, sz) == IF \E i \in 0 .. n : at = H(i) THEN Found(files, name, pick(at) + 1, sz)
                        ELSE [result |-> NULL, size |-> sz]
           W == [at \in Nat |-> [sz \in Nat |-> V(at, sz)]]
<1>1. files \in Seq(File) /\ n \in Nat /\ \A i \in 1 .. n : files[i] \in File
  BY DEF Fit
<1>2. \A i \in 0 .. n : pick(H(i)) = i
  <2>1. \A i, j \in 0 .. n : i < j => H(i) < H(j) /\ H(i) \in Nat /\ H(j) \in Nat
    BY <1>1, HeadersApart, HeaderNext
  <2> HIDE DEF H, n
  <2>2. \A i, j \in 0 .. n : H(i) = H(j) => i = j
    BY <1>1, <2>1
  <2> QED
    BY <2>2
<1>3. \A i \in 0 .. n, sz \in Nat : V(H(i), sz) = Found(files, name, i + 1, sz)
  <2> HIDE DEF H, n, pick
  <2> QED
    BY <1>2
<1>4. \A i \in 0 .. n : H(i) \in Nat
  BY <1>1, HeaderNext
<1>0. ASSUME NEW U, NEW i \in 1 .. n, NEW sz
      PROVE  WalkStep(U, a, name, H(i - 1), sz)
               = IF files[i].name = name THEN Spot(files, i) ELSE U[H(i)][Len(files[i].data)]
  <2>1. WalkStep(U, a, name, H(i - 1), sz) = WalkOn(U, files, name, i)
    BY WalkRound
  <2> QED
    BY <2>1 DEF WalkOn
<1>5. ASSUME NEW at \in Nat, NEW sz \in Nat
      PROVE  V(at, sz) = WalkStep(W, a, name, at, sz)
  <2>1. CASE \E i \in 1 .. n : at = H(i - 1)
    <3>1. PICK i \in 1 .. n : at = H(i - 1)
      BY <2>1
    <3>2. i - 1 \in 0 .. n /\ (i - 1) + 1 = i /\ i \in 0 .. n /\ Len(files[i].data) \in Nat
      <4>1. files[i].data \in Seq(Byte)
        BY <1>1 DEF File
      <4> QED
        BY <1>1, <4>1
    <3>3. V(at, sz) = Found(files, name, i, sz)
      <4> HIDE DEF V, H, n
      <4> QED
        BY <1>3, <3>1, <3>2
    <3>4. Found(files, name, i, sz)
            = IF files[i].name = name THEN Spot(files, i)
              ELSE Found(files, name, i + 1, Len(files[i].data))
      BY <1>1, FoundNext
    <3>5. W[H(i)][Len(files[i].data)] = Found(files, name, i + 1, Len(files[i].data))
      <4>1. W[H(i)][Len(files[i].data)] = V(H(i), Len(files[i].data))
        <5>1. H(i) \in Nat
          BY <1>4, <3>2
        <5> HIDE DEF V, H
        <5>2. W[H(i)] = [s \in Nat |-> V(H(i), s)]
          BY <5>1
        <5> QED
          BY <3>2, <5>2
      <4> HIDE DEF V, H, W, n
      <4> QED
        BY <1>3, <3>2, <4>1
    <3>6. WalkStep(W, a, name, at, sz)
            = IF files[i].name = name THEN Spot(files, i) ELSE W[H(i)][Len(files[i].data)]
      <4> HIDE DEF W, H, a, n, V
      <4> QED
        BY <1>0, <3>1
    <3> HIDE DEF W, V, H, a
    <3> QED
      BY <3>3, <3>4, <3>5, <3>6
  <2>2. CASE at = H(n)
    <3>1. V(at, sz) = [result |-> NULL, size |-> sz]
      <4>1. n \in 0 .. n
        BY <1>1
      <4>2. V(at, sz) = Found(files, name, n + 1, sz)
        <5> HIDE DEF V, H, n
        <5> QED
          BY <1>3, <2>2, <4>1
      <4> QED
        BY <1>1, <4>2, FoundEnd
    <3> HIDE DEF W, V
    <3> QED
      BY <2>2, <3>1, WalkStops
  <2>3. CASE \A i \in 0 .. n : at # H(i)
    <3>1. V(at, sz) = [result |-> NULL, size |-> sz]
      <4> HIDE DEF H, n
      <4> QED
        BY <2>3
    <3> HIDE DEF W, V
    <3> QED
      BY <2>3, <3>1, WalkStops
  <2>4. \/ \E i \in 1 .. n : at = H(i - 1)
        \/ at = H(n)
        \/ \A i \in 0 .. n : at # H(i)
    <3> HIDE DEF H, n
    <3>1. ASSUME NEW i \in 0 .. n, at = H(i), i # n PROVE \E k \in 1 .. n : at = H(k - 1)
      <4>1. i + 1 \in 1 .. n /\ (i + 1) - 1 = i
        BY <1>1, <3>1
      <4> QED
        BY <3>1, <4>1
    <3> QED
      BY <3>1
  <2> HIDE DEF V, W, H, a, n
  <2> QED
    BY <2>1, <2>2, <2>3, <2>4
<1>6. W = [at \in Nat |-> [sz \in Nat |-> WalkStep(W, a, name, at, sz)]]
  <2> DEFINE U(at, sz) == WalkStep(W, a, name, at, sz)
  <2>1. \A at, sz \in Nat : V(at, sz) = U(at, sz)
    BY <1>5
  <2> HIDE DEF V, U
  <2>2. \A at \in Nat : [sz \in Nat |-> V(at, sz)] = [sz \in Nat |-> U(at, sz)]
    BY <2>1
  <2>3. W = [at \in Nat |-> [sz \in Nat |-> U(at, sz)]]
    BY <2>2
  <2> QED
    BY <2>3 DEF U
<1> HIDE DEF W
<1> QED
  BY <1>6 DEF IsWalk

\* cpio_get_file finds the first file of that name.
LEMMA GetFile ==
    ASSUME NEW files, Fit(files), NEW magic, NEW name \in Seq(Code), NEW size \in Nat
    PROVE  LET f == cpio_get_file(Archive(files, magic), name, size)
           IN  /\ f.result = Found(files, name, 1, size).result
               /\ f.size = Found(files, name, 1, size).size
               /\ f.printed = CurrentAt(Archive(files, magic), name)
<1> DEFINE n == Len(files)
           a == Archive(files, magic)
           H(i) == HeaderAfter(files, i)
           W == CHOOSE f : IsWalk(f, a, name)
           X == {k \in 0 .. n : \A sz \in Nat : W[H(n - k)][sz] = Found(files, name, n - k + 1, sz)}
<1>1. files \in Seq(File) /\ n \in Nat /\ \A i \in 1 .. n : files[i] \in File
  BY DEF Fit
<1>2. cpio_get_file(a, name, size)
        = [result |-> W[INITRAMFS_ADDR][size].result, size |-> W[INITRAMFS_ADDR][size].size,
           printed |-> CurrentAt(a, name)]
  BY DEF cpio_get_file, IsWalk, WalkStep
<1>3. IsWalk(W, a, name)
  BY WalkExists
<1> HIDE DEF W
<1>4. \A at, sz \in Nat : W[at][sz] = WalkStep(W, a, name, at, sz)
  <2> SUFFICES ASSUME NEW at \in Nat, NEW sz \in Nat PROVE W[at][sz] = WalkStep(W, a, name, at, sz)
    OBVIOUS
  <2> HIDE DEF a
  <2>1. W[at] = [s \in Nat |-> WalkStep(W, a, name, at, s)]
    BY <1>3 DEF IsWalk
  <2> QED
    BY <2>1
<1>5. \A i \in 0 .. n : H(i) \in Nat
  BY <1>1, HeaderNext
<1>0. ASSUME NEW U, NEW i \in 1 .. n, NEW sz
      PROVE  WalkStep(U, a, name, H(i - 1), sz)
               = IF files[i].name = name THEN Spot(files, i) ELSE U[H(i)][Len(files[i].data)]
  <2>1. WalkStep(U, a, name, H(i - 1), sz) = WalkOn(U, files, name, i)
    BY WalkRound
  <2> QED
    BY <2>1 DEF WalkOn
<1>6. 0 \in X
  <2>1. n - 0 = n /\ n \in 0 .. n /\ 0 \in 0 .. n
    BY <1>1
  <2>2. ASSUME NEW sz \in Nat PROVE W[H(n)][sz] = Found(files, name, n + 1, sz)
    <3>1. W[H(n)][sz] = WalkStep(W, a, name, H(n), sz)
      <4> HIDE DEF H, a
      <4> QED
        BY <1>4, <1>5, <2>1
    <3>2. WalkStep(W, a, name, H(n), sz) = [result |-> NULL, size |-> sz]
      BY WalkStops
    <3> QED
      BY <1>1, <3>1, <3>2, FoundEnd
  <2> HIDE DEF H, n
  <2> QED
    BY <2>1, <2>2
<1>7. ASSUME NEW k \in 0 .. n - 1, k \in X PROVE k + 1 \in X
  <2>1. PICK i \in 1 .. n : i = n - k
    <3> HIDE DEF X, n
    <3>1. n - k \in 1 .. n
      BY <1>1
    <3> QED
      BY <3>1
  <2>2. k + 1 \in 0 .. n /\ n - (k + 1) = i - 1 /\ (i - 1) + 1 = i /\ i - 1 \in 0 .. n
    BY <1>1, <2>1
  <2>3. ASSUME NEW sz \in Nat PROVE W[H(i - 1)][sz] = Found(files, name, i, sz)
    <3>1. W[H(i - 1)][sz] = WalkStep(W, a, name, H(i - 1), sz)
      <4> HIDE DEF H, a
      <4> QED
        BY <1>4, <1>5, <2>2
    <3>2. WalkStep(W, a, name, H(i - 1), sz)
            = IF files[i].name = name THEN Spot(files, i) ELSE W[H(i)][Len(files[i].data)]
      <4> HIDE DEF X, H, a, n
      <4> QED
        BY <1>0
    <3>3. Len(files[i].data) \in Nat
      <4>1. files[i].data \in Seq(Byte)
        BY <1>1 DEF File
      <4> QED
        BY <4>1
    <3>4. W[H(i)][Len(files[i].data)] = Found(files, name, i + 1, Len(files[i].data))
      <4> HIDE DEF H, n
      <4> QED
        BY <1>7, <2>1, <3>3
    <3>5. Found(files, name, i, sz)
            = IF files[i].name = name THEN Spot(files, i)
              ELSE Found(files, name, i + 1, Len(files[i].data))
      BY <1>1, FoundNext
    <3> HIDE DEF H, a
    <3> QED
      BY <3>1, <3>2, <3>4, <3>5
  <2> HIDE DEF H, n
  <2> QED
    BY <2>2, <2>3
<1>8. n \in X
  <2> HIDE DEF X, n
  <2>1. \A k \in 0 .. n : k \in X
    BY <1>1, <1>6, <1>7, Reaches
  <2> QED
    BY <1>1, <2>1
<1>9. n - n = 0 /\ n - n + 1 = 1
  BY <1>1
<1>10. H(0) = INITRAMFS_ADDR
  BY <1>1, HeaderNext
<1> HIDE DEF H, n
<1>11. W[H(0)][size] = Found(files, name, 1, size)
  BY <1>8, <1>9
<1> QED
  BY <1>2, <1>10, <1>11 DEF a

\* cpio_ls: the same loop, which puts down the names.
ListStep(W, a, at) ==
    LET p == cpio_parse_header(a, at)
    IN  IF p.error # 0 THEN <<>> ELSE <<p.filename>> \o W[p.next]

IsListing(W, a) == W = [at \in Nat |-> ListStep(W, a, at)]

\* The names of the files from file i to file n, and of all from file i on.
NamesTo(files, i, n) == [k \in 1 .. n - i + 1 |-> files[i + k - 1].name]

NamesFrom(files, i) == NamesTo(files, i, Len(files))

LEMMA NamesToNext ==
    ASSUME NEW files \in Seq(File), NEW n \in 1 .. Len(files), NEW i \in 1 .. n
    PROVE  NamesTo(files, i, n) = <<files[i].name>> \o NamesTo(files, i + 1, n)
<1> DEFINE F(k) == files[i + k - 1].name
           s == NamesTo(files, i, n)
           t == NamesTo(files, i + 1, n)
<1>1. n \in Nat /\ \A j \in 1 .. n : files[j].name \in Seq(Code)
  <2>1. n \in Nat /\ \A j \in 1 .. n : files[j] \in File
    OBVIOUS
  <2>2. \A f \in File : f.name \in Seq(Code)
    BY DEF File
  <2> QED
    BY <2>1, <2>2
<1>2. PICK m \in Nat : m = n - i
  BY <1>1, SMTT(60)
<1>3. /\ n - i + 1 = m + 1 /\ n - (i + 1) + 1 = m /\ i + 1 - 1 = i
      /\ \A k \in 1 .. m + 1 : i + k - 1 \in 1 .. n
      /\ \A k \in 1 .. m : k + 1 \in 1 .. m + 1 /\ (i + 1) + k - 1 = i + (k + 1) - 1
  BY <1>1, <1>2
<1> DEFINE G(k) == files[(i + 1) + k - 1].name
<1>4. s = [k \in 1 .. m + 1 |-> F(k)] /\ t = [k \in 1 .. m |-> G(k)]
  BY <1>3 DEF NamesTo
<1>5. (\A k \in 1 .. m + 1 : F(k) \in Seq(Code)) /\ (\A k \in 1 .. m : G(k) = F(k + 1))
  BY <1>1, <1>3
<1>6. F(1) = files[i].name
  BY <1>3
<1> HIDE DEF F, G, s, t
<1>7. s \in Seq(Seq(Code)) /\ Len(s) = m + 1
  BY <1>4, <1>5
<1>8. t \in Seq(Seq(Code)) /\ Len(t) = m
  <2>1. \A k \in 1 .. m : G(k) \in Seq(Code)
    BY <1>3, <1>5
  <2> QED
    BY <1>4, <2>1
<1>9. files[i].name \in Seq(Code)
  BY <1>1
<1> DEFINE u == <<files[i].name>> \o t
<1>10. u \in Seq(Seq(Code)) /\ Len(u) = m + 1 /\ u[1] = files[i].name /\ \A k \in 1 .. m : u[k + 1] = t[k]
  BY <1>8, <1>9
<1> HIDE DEF u
<1>11. ASSUME NEW k \in 1 .. m + 1 PROVE s[k] = u[k]
  <2>1. CASE k = 1
    BY <1>4, <1>6, <1>10, <2>1
  <2>2. CASE k # 1
    <3>1. PICK j \in 1 .. m : k = j + 1
      <4>1. k - 1 \in 1 .. m /\ k = (k - 1) + 1
        BY <2>2
      <4> QED
        BY <4>1
    <3> QED
      BY <1>4, <1>5, <1>10, <3>1
  <2> QED
    BY <2>1, <2>2
<1>12. s = u
  BY <1>7, <1>10, <1>11, SameCharacters
<1> QED
  BY <1>6, <1>12 DEF u, s, t

LEMMA NamesNext ==
    ASSUME NEW files \in Seq(File), NEW i \in 1 .. Len(files)
    PROVE  NamesFrom(files, i) = <<files[i].name>> \o NamesFrom(files, i + 1)
<1>1. Len(files) \in 1 .. Len(files) /\ i \in 1 .. Len(files)
  OBVIOUS
<1> QED
  BY <1>1, NamesToNext DEF NamesFrom

LEMMA ListRound ==
    ASSUME NEW files, Fit(files), NEW magic, NEW W, NEW i \in 1 .. Len(files)
    PROVE  ListStep(W, Archive(files, magic), HeaderAfter(files, i - 1))
             = <<files[i].name>> \o W[HeaderAfter(files, i)]
<1> DEFINE p == cpio_parse_header(Archive(files, magic), HeaderAfter(files, i - 1))
<1>1. p.error = 0 /\ p.filename = files[i].name /\ p.next = HeaderAfter(files, i)
  BY HeaderSays
<1>2. ListStep(W, Archive(files, magic), HeaderAfter(files, i - 1))
        = IF p.error # 0 THEN <<>> ELSE <<p.filename>> \o W[p.next]
  BY DEF ListStep
<1> HIDE DEF p
<1> QED
  BY <1>1, <1>2

LEMMA ListStops ==
    ASSUME NEW files, Fit(files), NEW magic, NEW W, NEW at,
           at = HeaderAfter(files, Len(files)) \/ \A i \in 0 .. Len(files) : at # HeaderAfter(files, i)
    PROVE  ListStep(W, Archive(files, magic), at) = <<>>
<1>1. cpio_parse_header(Archive(files, magic), at).error # 0
  BY WalkEnds DEF IsEnd
<1> QED
  BY <1>1 DEF ListStep

LEMMA NamesEnd ==
    ASSUME NEW files \in Seq(File)
    PROVE  NamesFrom(files, Len(files) + 1) = <<>>
<1>1. Len(files) \in Nat /\ Len(files) - (Len(files) + 1) + 1 = 0
  OBVIOUS
<1> QED
  BY <1>1 DEF NamesFrom, NamesTo

LEMMA ListingExists ==
    ASSUME NEW files, Fit(files), NEW magic
    PROVE  \E W : IsListing(W, Archive(files, magic))
<1> DEFINE n == Len(files)
           a == Archive(files, magic)
           H(i) == HeaderAfter(files, i)
           pick(at) == CHOOSE i \in 0 .. n : at = H(i)
           V(at) == IF \E i \in 0 .. n : at = H(i) THEN NamesFrom(files, pick(at) + 1) ELSE <<>>
           W == [at \in Nat |-> V(at)]
<1>1. files \in Seq(File) /\ n \in Nat
  BY DEF Fit
<1>2. \A i \in 0 .. n : pick(H(i)) = i
  <2>1. \A i, j \in 0 .. n : i < j => H(i) < H(j) /\ H(i) \in Nat /\ H(j) \in Nat
    BY <1>1, HeadersApart, HeaderNext
  <2> HIDE DEF H, n
  <2>2. \A i, j \in 0 .. n : H(i) = H(j) => i = j
    BY <1>1, <2>1
  <2> QED
    BY <2>2
<1>3. \A i \in 0 .. n : V(H(i)) = NamesFrom(files, i + 1)
  <2> HIDE DEF H, n, pick
  <2> QED
    BY <1>2
<1>4. \A i \in 0 .. n : H(i) \in Nat
  BY <1>1, HeaderNext
<1>5. ASSUME NEW U, NEW i \in 1 .. n
      PROVE  ListStep(U, a, H(i - 1)) = <<files[i].name>> \o U[H(i)]
  BY ListRound
<1>6. ASSUME NEW U, NEW at, at = H(n) \/ \A i \in 0 .. n : at # H(i)
      PROVE  ListStep(U, a, at) = <<>>
  BY <1>6, ListStops
<1>7. \A i \in 1 .. n : NamesFrom(files, i) = <<files[i].name>> \o NamesFrom(files, i + 1)
  BY <1>1, NamesNext
<1>8. NamesFrom(files, n + 1) = <<>>
  BY <1>1, NamesEnd
<1>9. ASSUME NEW at \in Nat PROVE V(at) = ListStep(W, a, at)
  <2>1. CASE \E i \in 1 .. n : at = H(i - 1)
    <3>1. PICK i \in 1 .. n : at = H(i - 1)
      BY <2>1
    <3>2. i - 1 \in 0 .. n /\ (i - 1) + 1 = i /\ i \in 0 .. n
      BY <1>1
    <3>3. W[H(i)] = V(H(i))
      <4> HIDE DEF V, H
      <4> QED
        BY <1>4, <3>2
    <3> HIDE DEF W, V, H, a, n
    <3>4. ListStep(W, a, at) = <<files[i].name>> \o W[H(i)]
      BY <1>5, <3>1
    <3>5. V(at) = NamesFrom(files, i)
      BY <1>3, <3>1, <3>2
    <3>6. W[H(i)] = NamesFrom(files, i + 1)
      BY <1>3, <3>2, <3>3
    <3> QED
      BY <1>7, <3>4, <3>5, <3>6
  <2>2. CASE at = H(n)
    <3>1. n \in 0 .. n
      BY <1>1
    <3> HIDE DEF W, V, H, a, n
    <3> QED
      BY <1>3, <1>6, <1>8, <2>2, <3>1
  <2>3. CASE \A i \in 0 .. n : at # H(i)
    <3>1. V(at) = <<>>
      <4> HIDE DEF H, n
      <4> QED
        BY <2>3
    <3> HIDE DEF W, V, H, a, n
    <3> QED
      BY <1>6, <2>3, <3>1
  <2>4. \/ \E i \in 1 .. n : at = H(i - 1)
        \/ at = H(n)
        \/ \A i \in 0 .. n : at # H(i)
    <3> HIDE DEF H, n
    <3>1. ASSUME NEW i \in 0 .. n, at = H(i), i # n PROVE \E k \in 1 .. n : at = H(k - 1)
      <4>1. i + 1 \in 1 .. n /\ (i + 1) - 1 = i
        BY <1>1, <3>1
      <4> QED
        BY <3>1, <4>1
    <3> QED
      BY <3>1
  <2> HIDE DEF V, W, H, a, n
  <2> QED
    BY <2>1, <2>2, <2>3, <2>4
<1>10. W = [at \in Nat |-> ListStep(W, a, at)]
  <2> DEFINE U(at) == ListStep(W, a, at)
  <2>1. \A at \in Nat : V(at) = U(at)
    BY <1>9
  <2> HIDE DEF V, U
  <2>2. W = [at \in Nat |-> U(at)]
    BY <2>1
  <2> QED
    BY <2>2 DEF U
<1> HIDE DEF W
<1> QED
  BY <1>10 DEF IsListing

LEMMA Listing ==
    ASSUME NEW files, Fit(files), NEW magic
    PROVE  cpio_ls(Archive(files, magic)) = [i \in 1 .. Len(files) |-> files[i].name]
<1> DEFINE n == Len(files)
           a == Archive(files, magic)
           H(i) == HeaderAfter(files, i)
           W == CHOOSE f : IsListing(f, a)
           X == {k \in 0 .. n : W[H(n - k)] = NamesFrom(files, n - k + 1)}
<1>1. files \in Seq(File) /\ n \in Nat
  BY DEF Fit
<1>2. cpio_ls(a) = W[INITRAMFS_ADDR]
  BY DEF cpio_ls, IsListing, ListStep
<1>3. IsListing(W, a)
  BY ListingExists
<1> HIDE DEF W
<1>4. \A at \in Nat : W[at] = ListStep(W, a, at)
  <2> HIDE DEF a
  <2> QED
    BY <1>3 DEF IsListing
<1>5. \A i \in 0 .. n : H(i) \in Nat
  BY <1>1, HeaderNext
<1>6. \A i \in 1 .. n : ListStep(W, a, H(i - 1)) = <<files[i].name>> \o W[H(i)]
  BY ListRound
<1>7. ListStep(W, a, H(n)) = <<>>
  BY ListStops
<1>8. \A i \in 1 .. n : NamesFrom(files, i) = <<files[i].name>> \o NamesFrom(files, i + 1)
  BY <1>1, NamesNext
<1>9. NamesFrom(files, n + 1) = <<>>
  BY <1>1, NamesEnd
<1>10. H(0) = INITRAMFS_ADDR
  BY <1>1, HeaderNext
<1>11. NamesFrom(files, 1) = [i \in 1 .. n |-> files[i].name]
  <2>1. n - 1 + 1 = n /\ \A k \in 1 .. n : 1 + k - 1 = k
    BY <1>1
  <2> QED
    BY <2>1 DEF NamesFrom, NamesTo
<1> HIDE DEF H, a, n
<1>12. 0 \in X
  <2>1. n - 0 = n /\ n \in 0 .. n /\ 0 \in 0 .. n
    BY <1>1
  <2> QED
    BY <1>4, <1>5, <1>7, <1>9, <2>1
<1>13. ASSUME NEW k \in 0 .. n - 1, k \in X PROVE k + 1 \in X
  <2>1. PICK i \in 1 .. n : i = n - k
    <3> HIDE DEF X
    <3>1. n - k \in 1 .. n
      BY <1>1
    <3> QED
      BY <3>1
  <2>2. k + 1 \in 0 .. n /\ n - (k + 1) = i - 1 /\ (i - 1) + 1 = i /\ i - 1 \in 0 .. n
    BY <1>1, <2>1
  <2>3. W[H(i)] = NamesFrom(files, i + 1)
    BY <1>13, <2>1
  <2>4. W[H(i - 1)] = NamesFrom(files, i)
    BY <1>4, <1>5, <1>6, <1>8, <2>2, <2>3
  <2> QED
    BY <2>2, <2>4
<1>14. n \in X
  <2> HIDE DEF X
  <2>1. \A k \in 0 .. n : k \in X
    BY <1>1, <1>12, <1>13, Reaches
  <2> QED
    BY <1>1, <2>1
<1>15. n - n = 0 /\ n - n + 1 = 1
  BY <1>1
<1>16. W[H(0)] = NamesFrom(files, 1)
  BY <1>14, <1>15
<1> QED
  BY <1>2, <1>10, <1>11, <1>16 DEF a, n

\* What cpio_get_file prints: the same loop again, which puts down the name at
\* every header it comes to.
TourStep(W, a, name, at) ==
    LET p == cpio_parse_header(a, at)
    IN  IF p.error = -1 THEN <<Unset>>
        ELSE IF p.error = 1 \/ cpio_strncmp(p.filename, name, Len(name) + 1) = 0
        THEN <<p.filename>>
        ELSE <<p.filename>> \o W[p.next]

IsTour(W, a, name) == W = [at \in Nat |-> TourStep(W, a, name, at)]

\* What it prints at file i and after it.
TourOn(W, files, name, i) ==
    IF files[i].name = name THEN <<files[i].name>>
    ELSE <<files[i].name>> \o W[HeaderAfter(files, i)]

\* What is printed where the loop ends without a file.
LastLine(a, at) ==
    LET p == cpio_parse_header(a, at) IN IF p.error = -1 THEN Unset ELSE p.filename

\* What is printed from file i on.
Toured(files, name, i, last) ==
    IF Hits(files, name, i) # {} THEN NamesTo(files, i, Min(Hits(files, name, i)))
    ELSE NamesFrom(files, i) \o <<last>>

TouredOn(files, name, i, last) ==
    IF files[i].name = name THEN <<files[i].name>>
    ELSE <<files[i].name>> \o Toured(files, name, i + 1, last)

\* One to the front, one to the end.
LEMMA BothEnds ==
    ASSUME NEW S, NEW x \in S, NEW s \in Seq(S), NEW y
    PROVE  (<<x>> \o s) \o <<y>> = <<x>> \o (s \o <<y>>)
<1> DEFINE T == S \cup {y}
           u == (<<x>> \o s) \o <<y>>
           v == <<x>> \o (s \o <<y>>)
           n == Len(s)
<1>1. x \in T /\ y \in T /\ n \in Nat /\ s \in [1 .. n -> T]
  OBVIOUS
<1>2. s \in Seq(T)
  BY <1>1
<1> HIDE DEF T
<1>3. <<x>> \o s \in Seq(T) /\ Len(<<x>> \o s) = n + 1 /\ s \o <<y>> \in Seq(T) /\ Len(s \o <<y>>) = n + 1
  BY <1>1, <1>2
<1>4. u \in Seq(T) /\ v \in Seq(T) /\ Len(u) = n + 2 /\ Len(v) = n + 2
  BY <1>1, <1>2, <1>3
<1>5. ASSUME NEW i \in 1 .. n + 2 PROVE u[i] = v[i]
  BY <1>1, <1>2, <1>3
<1> QED
  <2> HIDE DEF u, v
  <2>1. u = v
    BY <1>4, <1>5, SameCharacters
  <2> QED
    BY <2>1 DEF u, v

LEMMA NamesFromNames ==
    ASSUME NEW files \in Seq(File), NEW i \in 1 .. Len(files) + 1
    PROVE  NamesFrom(files, i) \in Seq(Seq(Code))
<1> DEFINE n == Len(files)
           F(k) == files[i + k - 1].name
<1>1. n \in Nat /\ \A j \in 1 .. n : files[j].name \in Seq(Code)
  <2>1. \A f \in File : f.name \in Seq(Code)
    BY DEF File
  <2> QED
    BY <2>1
<1>2. PICK m \in Nat : m = n - i + 1
  BY <1>1
<1>3. \A k \in 1 .. m : F(k) \in Seq(Code)
  BY <1>1, <1>2
<1>4. NamesFrom(files, i) = [k \in 1 .. m |-> F(k)]
  BY <1>2 DEF NamesFrom, NamesTo
<1> HIDE DEF F, n
<1> QED
  BY <1>2, <1>3, <1>4

LEMMA TouredNext ==
    ASSUME NEW files \in Seq(File), NEW name, NEW i \in 1 .. Len(files), NEW last
    PROVE  Toured(files, name, i, last) = TouredOn(files, name, i, last)
<1> DEFINE n == Len(files)
           S == Hits(files, name, i)
           T == Hits(files, name, i + 1)
<1>1. n \in Nat /\ i \in Nat /\ i + 1 \in 1 .. n + 1
  OBVIOUS
<1>2. CASE files[i].name = name
  <2>1. S # {} /\ Min(S) = i
    BY <1>2, HitsNext
  <2>2. i - i + 1 = 1 /\ i + 1 - 1 = i
    BY <1>1
  <2>3. NamesTo(files, i, i) = [k \in 1 .. 1 |-> files[i + k - 1].name]
    BY <2>2 DEF NamesTo
  <2>4. [k \in 1 .. 1 |-> files[i + k - 1].name] = <<files[i].name>>
    BY <2>2
  <2> HIDE DEF S
  <2> QED
    BY <1>2, <2>1, <2>3, <2>4 DEF Toured, TouredOn, S
<1>3. CASE files[i].name # name
  <2>1. S = T
    BY <1>3, HitsNext
  <2>2. CASE T # {}
    <3>1. T \in SUBSET Nat /\ T \subseteq 1 .. n /\ \A j \in T : j >= i + 1
      BY <1>1 DEF Hits
    <3>2. PICK m : m = Min(T)
      OBVIOUS
    <3>3. m \in T
      <4> HIDE DEF T
      <4> QED
        BY <2>2, <3>1, <3>2, MinFacts
    <3>4. m \in 1 .. Len(files) /\ i \in 1 .. m
      <4> HIDE DEF T
      <4> QED
        BY <1>1, <3>1, <3>3
    <3>5. NamesTo(files, i, m) = <<files[i].name>> \o NamesTo(files, i + 1, m)
      BY <3>4, NamesToNext
    <3> HIDE DEF S, T
    <3> QED
      BY <1>3, <2>1, <2>2, <3>2, <3>5 DEF Toured, TouredOn, S, T
  <2>3. CASE T = {}
    <3>1. NamesFrom(files, i) = <<files[i].name>> \o NamesFrom(files, i + 1)
      BY NamesNext
    <3>2. files[i].name \in Seq(Code)
      <4>1. files[i] \in File
        OBVIOUS
      <4> QED
        BY <4>1 DEF File
    <3>3. NamesFrom(files, i + 1) \in Seq(Seq(Code))
      <4>1. i + 1 \in 1 .. Len(files) + 1
        BY <1>1
      <4> QED
        BY <4>1, NamesFromNames
    <3>4. NamesFrom(files, i) \o <<last>> = <<files[i].name>> \o (NamesFrom(files, i + 1) \o <<last>>)
      <4>1. PICK x \in Seq(Code), t \in Seq(Seq(Code)) : x = files[i].name /\ t = NamesFrom(files, i + 1)
        BY <3>2, <3>3
      <4>2. (<<x>> \o t) \o <<last>> = <<x>> \o (t \o <<last>>)
        BY BothEnds
      <4> QED
        BY ONLY <3>1, <4>1, <4>2
    <3> HIDE DEF S, T
    <3> QED
      BY <1>3, <2>1, <2>3, <3>4 DEF Toured, TouredOn, S, T
  <2> QED
    BY <2>2, <2>3
<1> QED
  BY <1>2, <1>3

LEMMA TouredEnd ==
    ASSUME NEW files \in Seq(File), NEW name, NEW last
    PROVE  Toured(files, name, Len(files) + 1, last) = <<last>>
<1>1. Len(files) \in Nat
  OBVIOUS
<1>2. Hits(files, name, Len(files) + 1) = {}
  BY <1>1 DEF Hits
<1>3. NamesFrom(files, Len(files) + 1) = <<>>
  BY NamesEnd
<1>4. <<>> \o <<last>> = <<last>>
  OBVIOUS
<1> QED
  BY <1>2, <1>3, <1>4 DEF Toured

LEMMA TourRound ==
    ASSUME NEW files, Fit(files), NEW magic, NEW name \in Seq(Code), NEW W,
           NEW i \in 1 .. Len(files)
    PROVE  TourStep(W, Archive(files, magic), name, HeaderAfter(files, i - 1))
             = TourOn(W, files, name, i)
<1> DEFINE a == Archive(files, magic)
           p == cpio_parse_header(a, HeaderAfter(files, i - 1))
<1>1. p.error = 0 /\ p.filename = files[i].name /\ p.next = HeaderAfter(files, i)
  BY HeaderSays
<1>2. files[i].name \in Seq(Code)
  <2>1. files[i] \in File
    BY DEF Fit
  <2> QED
    BY <2>1 DEF File
<1>3. cpio_strncmp(p.filename, name, Len(name) + 1) = 0 <=> files[i].name = name
  <2> HIDE DEF p
  <2> QED
    BY <1>1, <1>2, WholeString
<1>4. TourStep(W, a, name, HeaderAfter(files, i - 1))
        = IF p.error = -1 THEN <<Unset>>
          ELSE IF p.error = 1 \/ cpio_strncmp(p.filename, name, Len(name) + 1) = 0
          THEN <<p.filename>>
          ELSE <<p.filename>> \o W[p.next]
  BY DEF TourStep
<1> HIDE DEF p
<1> QED
  BY <1>1, <1>3, <1>4 DEF TourOn

LEMMA TourStops ==
    ASSUME NEW files, Fit(files), NEW magic, NEW name, NEW W, NEW at,
           at = HeaderAfter(files, Len(files)) \/ \A i \in 0 .. Len(files) : at # HeaderAfter(files, i)
    PROVE  TourStep(W, Archive(files, magic), name, at) = <<LastLine(Archive(files, magic), at)>>
<1>1. IsEnd(cpio_parse_header(Archive(files, magic), at))
  BY WalkEnds
<1> QED
  BY <1>1 DEF IsEnd, TourStep, LastLine

\* This loop ends too.
LEMMA TourExists ==
    ASSUME NEW files, Fit(files), NEW magic, NEW name \in Seq(Code)
    PROVE  \E W : IsTour(W, Archive(files, magic), name)
<1> DEFINE n == Len(files)
           a == Archive(files, magic)
           H(i) == HeaderAfter(files, i)
           last == LastLine(a, H(n))
           pick(at) == CHOOSE i \in 0 .. n : at = H(i)
           V(at) == IF \E i \in 0 .. n : at = H(i) THEN Toured(files, name, pick(at) + 1, last)
                    ELSE <<LastLine(a, at)>>
           W == [at \in Nat |-> V(at)]
<1>1. files \in Seq(File) /\ n \in Nat
  BY DEF Fit
<1>2. \A i \in 0 .. n : pick(H(i)) = i
  <2>1. \A i, j \in 0 .. n : i < j => H(i) < H(j) /\ H(i) \in Nat /\ H(j) \in Nat
    BY <1>1, HeadersApart, HeaderNext
  <2> HIDE DEF H, n
  <2>2. \A i, j \in 0 .. n : H(i) = H(j) => i = j
    BY <1>1, <2>1
  <2> QED
    BY <2>2
<1>3. \A i \in 0 .. n : V(H(i)) = Toured(files, name, i + 1, last)
  <2> HIDE DEF H, n, pick, last
  <2> QED
    BY <1>2
<1>4. \A i \in 0 .. n : H(i) \in Nat
  BY <1>1, HeaderNext
<1>5. ASSUME NEW U, NEW i \in 1 .. n PROVE TourStep(U, a, name, H(i - 1)) = TourOn(U, files, name, i)
  BY TourRound
<1>6. ASSUME NEW U, NEW at, at = H(n) \/ \A i \in 0 .. n : at # H(i)
      PROVE  TourStep(U, a, name, at) = <<LastLine(a, at)>>
  BY <1>6, TourStops
<1>7. \A i \in 1 .. n : Toured(files, name, i, last) = TouredOn(files, name, i, last)
  <2> HIDE DEF last
  <2> QED
    BY <1>1, TouredNext
<1>8. Toured(files, name, n + 1, last) = <<last>>
  BY <1>1, TouredEnd
<1>9. ASSUME NEW at \in Nat PROVE V(at) = TourStep(W, a, name, at)
  <2>1. CASE \E i \in 1 .. n : at = H(i - 1)
    <3>1. PICK i \in 1 .. n : at = H(i - 1)
      BY <2>1
    <3>2. i - 1 \in 0 .. n /\ (i - 1) + 1 = i /\ i \in 0 .. n
      BY <1>1
    <3>3. W[H(i)] = V(H(i))
      <4> HIDE DEF V, H
      <4> QED
        BY <1>4, <3>2
    <3>7. TourOn(W, files, name, i)
            = IF files[i].name = name THEN <<files[i].name>> ELSE <<files[i].name>> \o W[H(i)]
      <4> HIDE DEF W
      <4> QED
        BY DEF TourOn
    <3> HIDE DEF W, V, H, a, n, last
    <3>4. TourStep(W, a, name, at) = TourOn(W, files, name, i)
      BY <1>5, <3>1
    <3>5. V(at) = Toured(files, name, i, last)
      BY <1>3, <3>1, <3>2
    <3>6. W[H(i)] = Toured(files, name, i + 1, last)
      BY <1>3, <3>2, <3>3
    <3> QED
      BY <1>7, <3>4, <3>5, <3>6, <3>7 DEF TouredOn
  <2>2. CASE at = H(n)
    <3>1. n \in 0 .. n
      BY <1>1
    <3>2. last = LastLine(a, at)
      BY <2>2
    <3> HIDE DEF W, V, H, a, n, last
    <3> QED
      BY <1>3, <1>6, <1>8, <2>2, <3>1, <3>2
  <2>3. CASE \A i \in 0 .. n : at # H(i)
    <3>1. V(at) = <<LastLine(a, at)>>
      <4> HIDE DEF H, n, a
      <4> QED
        BY <2>3
    <3> HIDE DEF W, V, H, a, n
    <3> QED
      BY <1>6, <2>3, <3>1
  <2>4. \/ \E i \in 1 .. n : at = H(i - 1)
        \/ at = H(n)
        \/ \A i \in 0 .. n : at # H(i)
    <3> HIDE DEF H, n
    <3>1. ASSUME NEW i \in 0 .. n, at = H(i), i # n PROVE \E k \in 1 .. n : at = H(k - 1)
      <4>1. i + 1 \in 1 .. n /\ (i + 1) - 1 = i
        BY <1>1, <3>1
      <4> QED
        BY <3>1, <4>1
    <3> QED
      BY <3>1
  <2> HIDE DEF V, W, H, a, n
  <2> QED
    BY <2>1, <2>2, <2>3, <2>4
<1>10. W = [at \in Nat |-> TourStep(W, a, name, at)]
  <2> DEFINE U(at) == TourStep(W, a, name, at)
  <2>1. \A at \in Nat : V(at) = U(at)
    BY <1>9
  <2> HIDE DEF V, U
  <2>2. W = [at \in Nat |-> U(at)]
    BY <2>1
  <2> QED
    BY <2>2 DEF U
<1> HIDE DEF W
<1> QED
  BY <1>10 DEF IsTour

\* The lines that cpio_get_file prints.
LEMMA Tour ==
    ASSUME NEW files, Fit(files), NEW magic, NEW name \in Seq(Code)
    PROVE  \E last \in {CPIO_FOOTER_MAGIC, Unset} :
             CurrentAt(Archive(files, magic), name) = Toured(files, name, 1, last)
<1> DEFINE n == Len(files)
           a == Archive(files, magic)
           H(i) == HeaderAfter(files, i)
           last == LastLine(a, H(n))
           W == CHOOSE f : IsTour(f, a, name)
           X == {k \in 0 .. n : W[H(n - k)] = Toured(files, name, n - k + 1, last)}
<1>1. files \in Seq(File) /\ n \in Nat
  BY DEF Fit
<1>2. CurrentAt(a, name) = W[INITRAMFS_ADDR]
  BY DEF CurrentAt, IsTour, TourStep
<1>3. IsTour(W, a, name)
  BY TourExists
<1> HIDE DEF W
<1>4. \A at \in Nat : W[at] = TourStep(W, a, name, at)
  <2> HIDE DEF a
  <2> QED
    BY <1>3 DEF IsTour
<1>5. \A i \in 0 .. n : H(i) \in Nat
  BY <1>1, HeaderNext
<1>6. \A i \in 1 .. n : TourStep(W, a, name, H(i - 1)) = TourOn(W, files, name, i)
  BY TourRound
<1>7. TourStep(W, a, name, H(n)) = <<last>>
  BY TourStops
<1>8. last \in {CPIO_FOOTER_MAGIC, Unset}
  <2>1. IsEnd(cpio_parse_header(a, H(n)))
    BY WalkEnds
  <2> QED
    BY <2>1 DEF IsEnd, LastLine
<1> HIDE DEF last
<1>9. \A i \in 1 .. n : Toured(files, name, i, last) = TouredOn(files, name, i, last)
  BY <1>1, TouredNext
<1>10. Toured(files, name, n + 1, last) = <<last>>
  BY <1>1, TouredEnd
<1>11. H(0) = INITRAMFS_ADDR
  BY <1>1, HeaderNext
<1> HIDE DEF H, a, n
<1>12. 0 \in X
  <2>1. n - 0 = n /\ n \in 0 .. n /\ 0 \in 0 .. n
    BY <1>1
  <2> QED
    BY <1>4, <1>5, <1>7, <1>10, <2>1
<1>13. ASSUME NEW k \in 0 .. n - 1, k \in X PROVE k + 1 \in X
  <2>1. PICK i \in 1 .. n : i = n - k
    <3> HIDE DEF X
    <3>1. n - k \in 1 .. n
      BY <1>1
    <3> QED
      BY <3>1
  <2>2. k + 1 \in 0 .. n /\ n - (k + 1) = i - 1 /\ (i - 1) + 1 = i /\ i - 1 \in 0 .. n
    BY <1>1, <2>1
  <2>3. W[H(i)] = Toured(files, name, i + 1, last)
    BY <1>13, <2>1
  <2>4. TourOn(W, files, name, i) = TouredOn(files, name, i, last)
    BY <2>3 DEF TourOn, TouredOn, H
  <2>5. W[H(i - 1)] = Toured(files, name, i, last)
    BY <1>4, <1>5, <1>6, <1>9, <2>2, <2>4
  <2> QED
    BY <2>2, <2>5
<1>14. n \in X
  <2> HIDE DEF X
  <2>1. \A k \in 0 .. n : k \in X
    BY <1>1, <1>12, <1>13, Reaches
  <2> QED
    BY <1>1, <2>1
<1>15. n - n = 0 /\ n - n + 1 = 1
  BY <1>1
<1>16. W[H(0)] = Toured(files, name, 1, last)
  BY <1>14, <1>15
<1> QED
  BY <1>2, <1>8, <1>11, <1>16 DEF a

\* What a byte of memory may be.
Cell == {Foreign} \cup Byte

\* What Packed says of an archive.
LEMMA PackedFits ==
    ASSUME NEW a, Packed(a)
    PROVE  Fit(a.files) /\ \E magic : a = Archive(a.files, magic)
<1>1. a.files \in Seq(File)
  BY DEF Packed, File, Code, Byte
<1>2. \A i \in 1 .. Len(a.files) : a.files[i] \in ToSet(a.files)
  BY <1>1 DEF ToSet
<1>3. \A i \in 1 .. Len(a.files) : /\ (Len(a.files[i].name) + 1) \div pow(16, 7) < 16
                                   /\ Len(a.files[i].data) \div pow(16, 7) < 16
  BY <1>2 DEF Packed
<1>4. \E magic : a = Archive(a.files, magic)
  BY DEF Packed
<1> QED
  BY <1>1, <1>3, <1>4 DEF Fit

\* Whatever is copied, it is bytes.
LEMMA ContentCells ==
    ASSUME NEW files \in Seq(File), NEW magic, NEW at, NEW n \in Nat
    PROVE  Bytes(Archive(files, magic), at, n) \in Seq(Cell)
<1> DEFINE b == Archive(files, magic).byte
           C(i) == IF at + i - 1 \in DOMAIN b THEN b[at + i - 1] ELSE Foreign
<1>1. \A w \in DOMAIN b : b[w] \in Byte
  BY ArchiveBytes
<1> HIDE DEF b
<1>2. \A i \in 1 .. n : C(i) \in Cell
  BY <1>1 DEF Cell
<1>3. Bytes(Archive(files, magic), at, n) = [i \in 1 .. n |-> C(i)]
  BY DEF Bytes, b
<1> HIDE DEF C
<1>4. [i \in 1 .. n |-> C(i)] \in [1 .. n -> Cell]
  BY <1>2
<1> QED
  BY <1>3, <1>4

\* The bytes of a file are where its header says.
LEMMA SpotBytes ==
    ASSUME NEW files \in Seq(File), NEW magic, NEW i \in 1 .. Len(files)
    PROVE  /\ Content(Archive(files, magic), Spot(files, i)) = files[i].data
           /\ Spot(files, i).result \in Nat /\ Spot(files, i).result # NULL
           /\ Spot(files, i).size \in Nat
<1> DEFINE b == Archive(files, magic).byte
           d == DataAt(HeaderAfter(files, i - 1), files[i])
           data == files[i].data
           n == Len(data)
<1>1. files[i] \in File /\ data \in Seq(Byte) /\ n \in Nat
  <2>1. files[i] \in File
    OBVIOUS
  <2> QED
    BY <2>1 DEF File
<1>2. \A k \in 1 .. n : d + k - 1 \in DOMAIN b /\ b[d + k - 1] = data[k]
  BY ArchiveBytes
<1>3. d \in Nat /\ d # NULL
  <2>1. HeaderAfter(files, i - 1) \in Nat
    <3>1. i - 1 \in 0 .. Len(files)
      OBVIOUS
    <3> QED
      BY <3>1, HeaderNext
  <2>2. d \in Nat /\ d > HeaderAfter(files, i - 1)
    BY <1>1, <2>1, DataPlace
  <2> QED
    BY <2>1, <2>2 DEF NULL
<1>4. Spot(files, i) = [result |-> d, size |-> n]
  BY DEF Spot
<1>5. Content(Archive(files, magic), Spot(files, i))
        = [k \in 1 .. n |-> IF d + k - 1 \in DOMAIN b THEN b[d + k - 1] ELSE Foreign]
  BY <1>4 DEF Content, Bytes
<1> HIDE DEF b, d, data, n
<1>6. [k \in 1 .. n |-> IF d + k - 1 \in DOMAIN b THEN b[d + k - 1] ELSE Foreign]
        = [k \in 1 .. n |-> data[k]]
  BY <1>2
<1>7. [k \in 1 .. n |-> data[k]] = data
  BY <1>1 DEF n
<1>8. Content(Archive(files, magic), Spot(files, i)) = data
  BY <1>5, <1>6, <1>7
<1>9. Spot(files, i).result = d /\ Spot(files, i).size = n
  BY <1>4
<1> QED
  BY <1>1, <1>3, <1>8, <1>9 DEF data

\* cpio_get_file on an archive that cpio has made.
LEMMA FoundFile ==
    ASSUME NEW a, Packed(a), NEW name \in Seq(Code), NEW size \in Nat
    PROVE  LET f == cpio_get_file(a, name, size) IN
           /\ Locates(a, f, name)
           /\ f.result \in Nat /\ f.size \in Nat /\ Content(a, f) \in Seq(Cell)
           /\ f.printed = CurrentAt(a, name)
<1> DEFINE files == a.files
           n == Len(files)
           hits == Named(files, name)
           f == cpio_get_file(a, name, size)
<1>1. PICK magic : a = Archive(files, magic)
  BY PackedFits
<1>2. Fit(files) /\ files \in Seq(File) /\ n \in Nat
  BY PackedFits, SMTT(60) DEF Fit
<1>3. /\ f.result = Found(files, name, 1, size).result
      /\ f.size = Found(files, name, 1, size).size
      /\ f.printed = CurrentAt(a, name)
  <2>1. LET g == cpio_get_file(Archive(files, magic), name, size)
        IN  /\ g.result = Found(files, name, 1, size).result
            /\ g.size = Found(files, name, 1, size).size
            /\ g.printed = CurrentAt(Archive(files, magic), name)
    BY <1>2, GetFile
  <2> HIDE DEF files
  <2> QED
    BY <1>1, <2>1
<1>0. Content(a, f) = Bytes(a, f.result, f.size)
  BY DEF Content
<1>4. Hits(files, name, 1) = hits /\ hits \subseteq 1 .. n
  BY <1>2 DEF Hits, Named
<1> HIDE DEF files, n, hits, f
<1>5. CASE hits # {}
  <2>1. PICK i : i = Min(hits)
    OBVIOUS
  <2>2. i \in 1 .. n /\ f.result = Spot(files, i).result /\ f.size = Spot(files, i).size
    <3>1. hits \in SUBSET Nat
      BY <1>2, <1>4
    <3>2. i \in hits
      BY <1>5, <2>1, <3>1, MinFacts
    <3> QED
      BY <1>3, <1>4, <1>5, <2>1, <3>2 DEF Found
  <2>3. /\ Content(a, f) = files[i].data
        /\ f.result \in Nat /\ f.result # NULL /\ f.size \in Nat
    <3>1. /\ Content(Archive(files, magic), Spot(files, i)) = files[i].data
          /\ Spot(files, i).result \in Nat /\ Spot(files, i).result # NULL
          /\ Spot(files, i).size \in Nat
      BY <1>2, <2>2, SpotBytes DEF n
    <3>2. Content(Archive(files, magic), Spot(files, i))
            = Bytes(Archive(files, magic), Spot(files, i).result, Spot(files, i).size)
      BY DEF Content
    <3> QED
      BY <1>0, <1>1, <2>2, <3>1, <3>2
  <2>4. Locates(a, f, name)
    BY <1>5, <2>1, <2>3 DEF Locates, FirstNamed, hits, files
  <2>5. Content(a, f) \in Seq(Cell)
    BY <1>0, <1>1, <1>2, <2>3, ContentCells
  <2> QED
    BY <1>3, <2>3, <2>4, <2>5 DEF f
<1>6. CASE hits = {}
  <2>1. f.result = NULL /\ f.size = IF 1 > n THEN size ELSE Len(files[n].data)
    BY <1>3, <1>4, <1>6 DEF Found, n
  <2>2. f.size \in Nat
    <3>1. ASSUME ~(1 > n) PROVE Len(files[n].data) \in Nat
      <4>1. files[n] \in File
        BY <1>2, <3>1 DEF n
      <4> QED
        BY <4>1 DEF File
    <3> QED
      BY <2>1, <3>1
  <2>3. Locates(a, f, name)
    BY <1>6, <2>1 DEF Locates, hits, files
  <2>4. Content(a, f) \in Seq(Cell)
    BY <1>0, <1>1, <1>2, <2>2, ContentCells
  <2> QED
    BY <1>3, <2>1, <2>2, <2>3, <2>4 DEF f, NULL
<1> QED
  BY <1>5, <1>6

\* Archives are read as they were written.
LEMMA ArchiveFinds ==
    ASSUME NEW a, Packed(a), NEW name \in Seq(Code)
    PROVE  FindsRight(a, name)
<1>1. PICK magic : a = Archive(a.files, magic)
  BY PackedFits
<1>2. Fit(a.files) /\ a.files \in Seq(File)
  BY PackedFits DEF Fit
<1>3. cpio_ls(a) = [i \in 1 .. Len(a.files) |-> a.files[i].name]
  BY <1>1, <1>2, Listing
<1>4. DOMAIN a.files = 1 .. Len(a.files)
  BY <1>2
<1>5. cpio_ls(a) = [i \in DOMAIN a.files |-> a.files[i].name]
  BY <1>3, <1>4
<1>6. Locates(a, cpio_get_file(a, name, DEFAULT_SIZE), name)
  BY CpioAssumption, FoundFile
<1> QED
  BY <1>5, <1>6 DEF FindsRight

\* The lines that are printed, for the first file of that name or without one.
LEMMA PrintedLines ==
    ASSUME NEW a, Packed(a), NEW name \in Seq(Code)
    PROVE  LET names == [i \in DOMAIN a.files |-> a.files[i].name]
           IN  IF Named(a.files, name) = {}
               THEN CurrentAt(a, name) \in {Append(names, CPIO_FOOTER_MAGIC), Append(names, Unset)}
               ELSE CurrentAt(a, name) = SubSeq(names, 1, Min(Named(a.files, name)))
<1> DEFINE files == a.files
           n == Len(files)
           hits == Named(files, name)
           names == [i \in DOMAIN files |-> files[i].name]
<1>1. PICK magic : a = Archive(files, magic)
  BY PackedFits
<1>2. Fit(files) /\ files \in Seq(File) /\ n \in Nat /\ DOMAIN files = 1 .. n
  <2>1. Fit(files)
    BY PackedFits
  <2>2. files \in Seq(File)
    BY <2>1 DEF Fit
  <2> HIDE DEF files
  <2> QED
    BY <2>1, <2>2
<1>3. Hits(files, name, 1) = hits /\ hits \subseteq 1 .. n
  BY <1>2 DEF Hits, Named
<1>4. names \in Seq(Seq(Code)) /\ Len(names) = n /\ \A i \in 1 .. n : names[i] = files[i].name
  <2>1. \A f \in File : f.name \in Seq(Code)
    BY DEF File
  <2>2. \A i \in 1 .. n : files[i].name \in Seq(Code)
    BY <1>2, <2>1
  <2> HIDE DEF files, n
  <2> QED
    BY <1>2, <2>2
<1>5. PICK last \in {CPIO_FOOTER_MAGIC, Unset} : CurrentAt(a, name) = Toured(files, name, 1, last)
  <2>1. \E last \in {CPIO_FOOTER_MAGIC, Unset} :
           CurrentAt(Archive(files, magic), name) = Toured(files, name, 1, last)
    BY <1>2, Tour
  <2> HIDE DEF files
  <2> QED
    BY <1>1, <2>1
<1>6. \A m \in 0 .. n : NamesTo(files, 1, m) = SubSeq(names, 1, m)
  <2> SUFFICES ASSUME NEW m \in 0 .. n PROVE NamesTo(files, 1, m) = SubSeq(names, 1, m)
    OBVIOUS
  <2>1. m \in Nat /\ m - 1 + 1 = m /\ \A k \in 1 .. m : k \in 1 .. n /\ 1 + k - 1 = k
    BY <1>2
  <2>2. NamesTo(files, 1, m) = [k \in 1 .. m |-> files[1 + k - 1].name]
    BY <2>1 DEF NamesTo
  <2> HIDE DEF names, files, n
  <2>3. SubSeq(names, 1, m) = [k \in 1 .. m |-> names[k]]
    BY <1>4, <2>1
  <2> QED
    BY <1>4, <2>1, <2>2, <2>3
<1>7. CASE hits # {}
  <2>1. hits \in SUBSET Nat
    BY <1>2, <1>3
  <2> HIDE DEF hits, names, files, n
  <2>2. Min(hits) \in 0 .. n
    <3>1. Min(hits) \in hits
      BY <1>7, <2>1, MinFacts
    <3>2. \A x \in 1 .. n : x \in 0 .. n
      BY <1>2
    <3>3. Min(hits) \in 1 .. n
      BY ONLY <1>3, <3>1
    <3> QED
      BY <3>2, <3>3
  <2>3. CurrentAt(a, name) = NamesTo(files, 1, Min(hits))
    BY <1>3, <1>5, <1>7 DEF Toured
  <2> QED
    BY <1>6, <1>7, <2>2, <2>3 DEF hits, names, files
<1>8. CASE hits = {}
  <2> HIDE DEF hits, names, n
  <2>1. CurrentAt(a, name) = NamesFrom(files, 1) \o <<last>>
    BY <1>3, <1>5, <1>8 DEF Toured
  <2>2. NamesFrom(files, 1) = names
    <3>1. NamesFrom(files, 1) = SubSeq(names, 1, n)
      BY <1>2, <1>6 DEF NamesFrom, n
    <3> QED
      BY <1>4, <3>1
  <2>3. names \o <<last>> = Append(names, last)
    BY <1>4
  <2> QED
    BY <1>5, <1>8, <2>1, <2>2, <2>3 DEF hits, names, files
<1> QED
  BY <1>7, <1>8

\* And `cat' prints what was written.
LEMMA CatPrints ==
    ASSUME NEW a, Packed(a), NEW name \in Seq(Code)
    PROVE  PrintsRight(a, name)
<1> DEFINE f == cpio_get_file(a, name, 0)
           c == Content(a, f)
           data == FirstNamed(a.files, name).data
<1>1. command_cpio_ls(a) = [i \in DOMAIN a.files |-> a.files[i].name]
  BY ArchiveFinds DEF FindsRight, command_cpio_ls
<1>2. 0 \in Nat
  OBVIOUS
<1>3. Locates(a, f, name) /\ f.result \in Nat /\ f.size \in Nat /\ c \in Seq(Cell)
  BY <1>2, FoundFile
<1>4. command_getCpioFile(a, name) = Printed(a, f)
  BY DEF command_getCpioFile
<1> DEFINE names == [i \in DOMAIN a.files |-> a.files[i].name]
<1>7. /\ f.printed = CurrentAt(a, name)
      /\ IF Named(a.files, name) = {}
         THEN f.printed \in {Append(names, CPIO_FOOTER_MAGIC), Append(names, Unset)}
         ELSE f.printed = SubSeq(names, 1, Min(Named(a.files, name)))
  <2>1. f.printed = CurrentAt(a, name)
    BY <1>2, FoundFile
  <2> HIDE DEF f
  <2> QED
    BY <2>1, PrintedLines
<1>5. CASE Named(a.files, name) = {}
  <2> HIDE DEF f, names
  <2>1. Printed(a, f) = [lines |-> f.printed, exists |-> FALSE]
    BY <1>3, <1>5 DEF Locates, Printed
  <2> QED
    BY <1>1, <1>4, <1>5, <1>7, <2>1 DEF PrintsRight, names, f
<1>6. CASE Named(a.files, name) # {}
  <2>1. f.result # NULL /\ c = data
    BY <1>3, <1>6 DEF Locates
  <2>2. data \in Seq(Byte) /\ Len(data) = f.size
    <3>1. DOMAIN c = 1 .. f.size
      BY DEF Content, Bytes
    <3>2. Len(c) = f.size
      BY <1>3, <3>1
    <3>3. data \in Seq(Byte)
      <4>1. a.files \in Seq(File)
        BY PackedFits DEF Fit
      <4>2. Named(a.files, name) \in SUBSET Nat /\ Named(a.files, name) \subseteq 1 .. Len(a.files)
        BY <4>1 DEF Named
      <4>3. Min(Named(a.files, name)) \in 1 .. Len(a.files)
        BY <1>6, <4>2, MinFacts
      <4>4. FirstNamed(a.files, name) \in File
        BY <4>1, <4>3 DEF FirstNamed
      <4> QED
        BY <4>4 DEF File
    <3> QED
      BY <2>1, <3>2, <3>3
  <2> HIDE DEF f, c, data
  <2>3. \A i \in 1 .. f.size : data[i] \in Byte /\ data[i] % 256 = data[i]
    <3>1. \A x \in Byte : x % 256 = x
      BY DEF Byte
    <3>2. \A i \in 1 .. f.size : data[i] \in Byte
      BY <2>2
    <3> QED
      BY <3>1, <3>2
  <2>4. [i \in 1 .. f.size |-> data[i] % 256] = [i \in 1 .. f.size |-> data[i]]
    BY <2>3
  <2>5. [i \in 1 .. f.size |-> data[i]] = data
    BY <2>2
  <2>6. Printed(a, f) = [lines |-> f.printed, exists |-> TRUE, text |-> Append(data, LF)]
    <3>1. Printed(a, f) = [lines |-> f.printed, exists |-> TRUE,
                           text |-> Append([i \in 1 .. f.size |-> data[i] % 256], LF)]
      BY <2>1 DEF Printed, c
    <3> QED
      BY <2>4, <2>5, <3>1
  <2> QED
    BY <1>1, <1>4, <1>6, <1>7, <2>6 DEF PrintsRight, f, data
<1> QED
  BY <1>5, <1>6

-----------------------------------------------------------------------------
(***************************************************************************)
(* The command line of the shell.  The buffer holds the text that is       *)
(* shown, with what was erased after it, which the NUL cuts off.           *)
(***************************************************************************)
\* strncmp() on strings that begin alike, and on ones that do not.
LEMMA BeginAlike ==
    ASSUME NEW a, NEW b, NEW n \in Nat,
           \A j \in 0 .. n - 1 : At(a, j) = At(b, j) /\ At(a, j) # NUL
    PROVE  strncmp(a, b, n) = 0
<1> DEFINE Stops(i) == /\ i = n \/ (At(a, i) # At(b, i) \/ At(a, i) = NUL)
                       /\ \A j \in 0 .. i - 1 : ~(At(a, j) # At(b, j) \/ At(a, j) = NUL)
           x == CHOOSE i \in 0 .. n : Stops(i)
<1>1. n \in 0 .. n /\ Stops(n)
  OBVIOUS
<1>2. \A i \in 0 .. n : Stops(i) => i = n
  OBVIOUS
<1>3. strncmp(a, b, n) = IF x = n THEN 0 ELSE At(a, x) - At(b, x)
  BY DEF strncmp, FirstUpTo
<1>4. x = n
  <2> HIDE DEF Stops
  <2> QED
    BY <1>1, <1>2
<1> QED
  BY <1>3, <1>4

LEMMA DifferAt ==
    ASSUME NEW a, NEW b, NEW n \in Nat, NEW d \in 0 .. n - 1,
           At(a, d) \in Int, At(b, d) \in Int, At(a, d) # At(b, d),
           \A j \in 0 .. d - 1 : At(a, j) = At(b, j) /\ At(a, j) # NUL
    PROVE  strncmp(a, b, n) # 0
<1> DEFINE Stops(i) == /\ i = n \/ (At(a, i) # At(b, i) \/ At(a, i) = NUL)
                       /\ \A j \in 0 .. i - 1 : ~(At(a, j) # At(b, j) \/ At(a, j) = NUL)
           x == CHOOSE i \in 0 .. n : Stops(i)
<1>1. d \in 0 .. n /\ Stops(d) /\ d # n
  OBVIOUS
<1>2. ASSUME NEW i \in 0 .. n, Stops(i) PROVE i = d
  <2>1. ~(i < d)
    BY <1>2
  <2>2. ~(d < i)
    BY <1>2
  <2> QED
    BY <2>1, <2>2
<1>3. strncmp(a, b, n) = IF x = n THEN 0 ELSE At(a, x) - At(b, x)
  BY DEF strncmp, FirstUpTo
<1>4. x = d
  <2> HIDE DEF Stops
  <2> QED
    BY <1>1, <1>2
<1> HIDE DEF x
<1> QED
  BY <1>1, <1>3, <1>4

LEMMA BeginApart ==
    ASSUME NEW a, NEW b, NEW n \in Nat \ {0}, At(a, 0) \in Int, At(b, 0) \in Int, At(a, 0) # At(b, 0)
    PROVE  strncmp(a, b, n) # 0
<1>1. 0 \in 0 .. n - 1 /\ 0 .. 0 - 1 = {}
  OBVIOUS
<1> QED
  BY <1>1, DifferAt

\* A buffer of m characters with a text in it, and a NUL after the text.
HasText(buf, m, text) ==
    /\ m \in Nat /\ buf \in [1 .. m -> Byte]
    /\ text \in Seq(Code) /\ Len(text) \in 0 .. m - 1
    /\ buf[Len(text) + 1] = NUL
    /\ \A i \in 1 .. Len(text) : buf[i] = text[i]

\* What its characters are.
LEMMA HeldCharacters ==
    ASSUME NEW buf, NEW m, NEW text, HasText(buf, m, text)
    PROVE  /\ \A j \in 0 .. Len(text) : At(buf, j) = At(text, j)
           /\ strlen(buf) = Len(text)
           /\ \A i \in 1 .. Len(text) : buf[i] # NUL
<1> DEFINE k == Len(text)
<1>1. /\ m \in Nat /\ k \in Nat /\ k \in 0 .. m - 1 /\ buf \in [1 .. m -> Byte]
      /\ buf[k + 1] = NUL /\ text \in Seq(Code)
      /\ \A i \in 1 .. k : buf[i] = text[i]
  BY DEF HasText
<1>2. \A i \in 1 .. k : buf[i] # NUL
  <2>1. \A i \in 1 .. k : text[i] \in Code
    BY <1>1
  <2>2. \A c \in Code : c # NUL
    BY DEF Code, NUL
  <2> QED
    BY <1>1, <2>1, <2>2
<1> HIDE DEF k
<1>3. strlen(buf) = k
  BY <1>1, <1>2, StrlenFirst
<1>4. ASSUME NEW j \in 0 .. k PROVE At(buf, j) = At(text, j)
  <2>1. Len(buf) = m /\ j < m /\ j \in Nat
    BY <1>1
  <2>2. At(buf, j) = buf[j + 1]
    BY <2>1 DEF At
  <2>3. CASE j < k
    <3>1. At(text, j) = text[j + 1]
      BY <1>1, <2>3 DEF At, k
    <3>2. j + 1 \in 1 .. k
      BY <1>1, <2>3
    <3> QED
      BY <1>1, <2>2, <3>1, <3>2
  <2>4. CASE ~(j < k)
    <3>1. j = k
      BY <1>1, <2>4
    <3>2. At(text, j) = NUL
      BY <2>4 DEF At, k
    <3> QED
      BY <1>1, <2>2, <3>1, <3>2
  <2> QED
    BY <2>3, <2>4
<1> QED
  BY <1>2, <1>3, <1>4 DEF k

\* The buffer as a string is the text.
LEMMA HeldString ==
    ASSUME NEW buf, NEW m, NEW text, HasText(buf, m, text)
    PROVE  CString(buf) = text
<1> DEFINE k == Len(text)
           w == SubSeq(buf, 1, k)
<1>1. m \in Nat /\ k \in Nat /\ k \in 0 .. m - 1 /\ buf \in Seq(Byte) /\ Len(buf) = m
  BY DEF HasText
<1>2. CString(buf) = w
  BY HeldCharacters DEF CString
<1>3. w \in Seq(Byte) /\ Len(w) = k /\ \A i \in 1 .. k : w[i] = buf[i]
  <2>1. k \in 0 .. Len(buf)
    BY <1>1
  <2> HIDE DEF k
  <2> QED
    BY <1>1, <2>1, Parts
<1>4. text \in Seq(Code) /\ \A i \in 1 .. k : w[i] = text[i]
  BY <1>3 DEF HasText
<1> HIDE DEF w
<1>5. w = text
  BY <1>3, <1>4, SameCharacters
<1> QED
  BY <1>2, <1>5

\* From character n of the text on.
LEMMA HeldRest ==
    ASSUME NEW buf, NEW m, NEW text, HasText(buf, m, text), NEW n \in 0 .. Len(text)
    PROVE  CString(From(buf, n)) = From(text, n)
<1> DEFINE k == Len(text)
           b == SubSeq(buf, n + 1, Len(buf))
           t == SubSeq(text, n + 1, Len(text))
<1>1. m \in Nat /\ k \in Nat /\ k \in 0 .. m - 1 /\ buf \in Seq(Byte) /\ Len(buf) = m
      /\ text \in Seq(Code) /\ n \in Nat /\ n <= k
  BY DEF HasText
<1>2. b \in Seq(Byte) /\ Len(b) = m - n /\ \A i \in 1 .. m - n : b[i] = buf[n + i]
  <2>1. n \in 0 .. Len(buf)
    BY <1>1
  <2> QED
    BY <1>1, <2>1, Parts
<1>3. t \in Seq(Code) /\ Len(t) = k - n /\ \A i \in 1 .. k - n : t[i] = text[n + i]
  BY <1>1, Parts
<1> HIDE DEF b, t, k
<1>4. HasText(b, m - n, t)
  <2>1. m - n \in Nat /\ k - n \in Nat /\ k - n \in 0 .. m - n - 1
    BY <1>1
  <2>2. b \in [1 .. m - n -> Byte]
    BY <1>2
  <2>3. b[(k - n) + 1] = NUL
    <3>1. (k - n) + 1 \in 1 .. m - n /\ n + ((k - n) + 1) = k + 1
      BY <1>1
    <3>2. buf[k + 1] = NUL
      BY DEF HasText, k
    <3> QED
      BY <1>2, <3>1, <3>2
  <2>4. ASSUME NEW i \in 1 .. k - n PROVE b[i] = t[i]
    <3>1. i \in 1 .. m - n /\ n + i \in 1 .. k
      BY <1>1
    <3>2. buf[n + i] = text[n + i]
      BY <3>1 DEF HasText, k
    <3> QED
      BY <1>2, <1>3, <3>1, <3>2
  <2> QED
    BY <1>3, <2>1, <2>2, <2>3, <2>4 DEF HasText
<1>5. CString(b) = t
  BY <1>4, HeldString
<1> QED
  BY <1>5 DEF From, b, t

\* strcmp() with the buffer is equality with the text.
LEMMA HeldCompared ==
    ASSUME NEW buf, NEW m, NEW text, HasText(buf, m, text), NEW name \in Seq(Code)
    PROVE  strcmp(buf, name) = 0 <=> text = name
<1> DEFINE k == Len(text)
<1>1. /\ m \in Nat /\ k \in Nat /\ k \in 0 .. m - 1 /\ buf \in [1 .. m -> Byte]
      /\ buf[k + 1] = NUL /\ text \in Seq(Code)
      /\ \A i \in 1 .. k : buf[i] = text[i]
  BY DEF HasText
<1>2. /\ strlen(buf) = k
      /\ \A j \in 0 .. k : At(buf, j) = At(text, j)
      /\ \A i \in 1 .. k : buf[i] # NUL
  BY HeldCharacters
<1>3. ASSUME strcmp(buf, name) = 0 PROVE text = name
  <2>1. Len(name) = k /\ \A i \in 1 .. k : name[i] = buf[i]
    <3> HIDE DEF k
    <3> QED
      BY <1>1, <1>2, <1>3, StrcmpEqual
  <2>2. Len(name) = Len(text) /\ \A i \in 1 .. Len(text) : text[i] = name[i]
    BY <1>1, <2>1
  <2> QED
    BY <1>1, <2>2, SameCharacters
<1>4. ASSUME text = name PROVE strcmp(buf, name) = 0
  <2> DEFINE Stops(i) == /\ i = k \/ At(buf, i) # At(name, i)
                         /\ \A j \in 0 .. i - 1 : ~(At(buf, j) # At(name, j))
             x == CHOOSE i \in 0 .. k : Stops(i)
  <2>1. \A j \in 0 .. k : At(buf, j) = At(name, j)
    BY <1>2, <1>4
  <2>2. At(buf, k) = NUL /\ At(name, k) = NUL
    <3>1. At(text, k) = NUL
      BY <1>1, Characters
    <3> QED
      BY <1>1, <1>2, <2>1, <3>1
  <2>3. strcmp(buf, name) = At(buf, x) - At(name, x)
    BY <1>2 DEF strcmp, FirstUpTo
  <2> HIDE DEF k
  <2>4. k \in 0 .. k /\ Stops(k) /\ \A i \in 0 .. k : Stops(i) => i = k
    BY <1>1, <2>1
  <2>5. x = k
    <3> HIDE DEF Stops
    <3> QED
      BY <2>4
  <2> HIDE DEF x
  <2> QED
    BY <2>2, <2>3, <2>5 DEF NUL
<1> QED
  BY <1>3, <1>4

\* What a line may be while it is typed, and that its buffer begins with a text.
LineState == [buffer : [1 .. LineLen -> Byte], counter : 0 .. LineLen]

Agrees(ln, text) ==
    /\ ln \in LineState /\ text \in Seq(Code)
    /\ ln.counter = Len(text)
    /\ \A i \in 1 .. Len(text) : ln.buffer[i] = text[i]

LEMMA EditedLine ==
    ASSUME NEW ln \in LineState, NEW c \in Code
    PROVE  Edited(ln, c) \in LineState
<1>1. /\ ln.buffer \in [1 .. LineLen -> Byte] /\ ln.counter \in 0 .. LineLen
      /\ ln = [buffer |-> ln.buffer, counter |-> ln.counter]
  BY DEF LineState
<1>2. LineLen \in Nat /\ c \in Byte
  BY CommandsAssumption DEF Code, Byte
<1>3. CASE parse(c) = "BACK_SPACE" /\ ln.counter > 0
  <2>1. Edited(ln, c) = [ln EXCEPT !.counter = ln.counter - 1]
    BY <1>3 DEF Edited
  <2>2. ln.counter - 1 \in 0 .. LineLen
    BY <1>1, <1>2, <1>3
  <2> QED
    BY <2>1, <2>2 DEF LineState
<1>4. CASE parse(c) = "REGULAR_INPUT" /\ ln.counter < LineLen
  <2>1. Edited(ln, c) = [buffer |-> [ln.buffer EXCEPT ![ln.counter + 1] = c],
                           counter |-> ln.counter + 1]
    BY <1>4 DEF Edited
  <2>2. ln.counter + 1 \in 0 .. LineLen
    BY <1>1, <1>2, <1>4
  <2>3. [ln.buffer EXCEPT ![ln.counter + 1] = c] \in [1 .. LineLen -> Byte]
    BY <1>1, <1>2
  <2> QED
    BY <2>1, <2>2, <2>3 DEF LineState
<1>5. CASE /\ ~(parse(c) = "BACK_SPACE" /\ ln.counter > 0)
           /\ ~(parse(c) = "REGULAR_INPUT" /\ ln.counter < LineLen)
  BY <1>5 DEF Edited
<1> QED
  BY <1>3, <1>4, <1>5

LEMMA ShownText ==
    ASSUME NEW text \in Seq(Code), NEW c \in Code
    PROVE  Shows(text, c) \in Seq(Code)
<1>1. CASE c >= 128
  BY <1>1 DEF Shows, BACK_SPACE
<1>2. CASE c = BACK_SPACE
  <2>1. Shows(text, c) = IF text = <<>> THEN text ELSE Front(text)
    BY <1>2 DEF Shows, BACK_SPACE
  <2>2. text # <<>> => Front(text) \in Seq(Code)
    <3>1. text # <<>> => Len(text) # 0
      OBVIOUS
    <3> QED
      BY <3>1, FrontFacts
  <2> QED
    BY <2>1, <2>2
<1>3. CASE ~(c >= 128) /\ c # BACK_SPACE
  BY <1>3 DEF Shows
<1> QED
  BY <1>1, <1>2, <1>3

\* A key does to the line what it does to the text.
LEMMA KeyAgrees ==
    ASSUME NEW ln, NEW text, Agrees(ln, text), NEW c \in Code, c \notin {LF, CR},
           Len(text) < LineLen
    PROVE  Agrees(Edited(ln, c), Shows(text, c)) /\ Len(Shows(text, c)) <= Len(text) + 1
<1> DEFINE k == Len(text)
<1>1. /\ ln \in LineState /\ text \in Seq(Code) /\ ln.counter = k /\ k \in Nat /\ c \in Nat
      /\ ln.buffer \in [1 .. LineLen -> Byte] /\ LineLen \in Nat
      /\ \A i \in 1 .. k : ln.buffer[i] = text[i]
  <2>1. /\ ln \in LineState /\ text \in Seq(Code) /\ ln.counter = k
        /\ \A i \in 1 .. k : ln.buffer[i] = text[i]
    BY DEF Agrees
  <2>2. ln.buffer \in [1 .. LineLen -> Byte]
    BY <2>1 DEF LineState
  <2>3. k \in Nat /\ c \in Nat /\ LineLen \in Nat
    BY <2>1, CommandsAssumption DEF Code
  <2> QED
    BY <2>1, <2>2, <2>3
<1>2. Edited(ln, c) \in LineState /\ Shows(text, c) \in Seq(Code)
  BY <1>1, EditedLine, ShownText
<1>3. CASE c >= 128
  <2>1. parse(c) = "UNKNOWN"
    BY <1>3 DEF parse, BACK_SPACE
  <2>2. Edited(ln, c) = ln /\ Shows(text, c) = text
    BY <1>3, <2>1 DEF Edited, Shows, BACK_SPACE
  <2> QED
    BY <1>1, <2>2
<1>4. CASE c = BACK_SPACE
  <2>1. parse(c) = "BACK_SPACE"
    BY <1>4 DEF parse, BACK_SPACE
  <2>2. Shows(text, c) = IF text = <<>> THEN text ELSE Front(text)
    BY <1>4 DEF Shows, BACK_SPACE
  <2>3. CASE k = 0
    <3>1. Edited(ln, c) = ln
      BY <1>1, <2>1, <2>3 DEF Edited
    <3>2. text = <<>>
      BY <1>1, <2>3
    <3> QED
      BY <1>1, <2>2, <3>1, <3>2
  <2>4. CASE k # 0
    <3>1. Edited(ln, c) = [ln EXCEPT !.counter = k - 1]
      BY <1>1, <2>1, <2>4 DEF Edited
    <3>2. Edited(ln, c).counter = k - 1 /\ Edited(ln, c).buffer = ln.buffer
      BY <1>1, <3>1 DEF LineState
    <3>3. Shows(text, c) = Front(text)
      BY <1>1, <2>2, <2>4
    <3>4. Len(Front(text)) = k - 1 /\ \A i \in 1 .. k - 1 : Front(text)[i] = text[i]
      BY <1>1, <2>4, FrontFacts
    <3> HIDE DEF k
    <3>5. \A i \in 1 .. k - 1 : Edited(ln, c).buffer[i] = Shows(text, c)[i]
      BY <1>1, <3>2, <3>3, <3>4
    <3> QED
      BY <1>1, <1>2, <3>2, <3>3, <3>4, <3>5 DEF Agrees, k
  <2> QED
    BY <2>3, <2>4
<1>5. CASE ~(c >= 128) /\ c # BACK_SPACE
  <2>1. parse(c) = "REGULAR_INPUT"
    BY <1>5 DEF parse
  <2>2. Edited(ln, c) = [buffer |-> [ln.buffer EXCEPT ![k + 1] = c], counter |-> k + 1]
    BY <1>1, <2>1 DEF Edited
  <2>3. Shows(text, c) = Append(text, c)
    BY <1>5 DEF Shows
  <2>4. /\ Len(Append(text, c)) = k + 1
        /\ \A i \in 1 .. k : Append(text, c)[i] = text[i]
        /\ Append(text, c)[k + 1] = c
    BY <1>1
  <2> HIDE DEF k
  <2>5. ASSUME NEW i \in 1 .. k + 1 PROVE Edited(ln, c).buffer[i] = Shows(text, c)[i]
    <3>1. k + 1 \in 1 .. LineLen /\ i \in 1 .. LineLen /\ (i = k + 1 \/ i \in 1 .. k)
      BY <1>1 DEF k
    <3>2. Edited(ln, c).buffer[i] = IF i = k + 1 THEN c ELSE ln.buffer[i]
      BY <1>1, <2>2, <3>1
    <3> QED
      BY <1>1, <2>3, <2>4, <3>1, <3>2
  <2>6. Edited(ln, c).counter = k + 1
    BY <2>2
  <2> QED
    BY <1>1, <1>2, <2>3, <2>4, <2>5, <2>6 DEF Agrees, k
<1> QED
  BY <1>3, <1>4, <1>5

\* The two loops, over the keys.
EditLoop(after, keys) ==
    after = [i \in 0 .. Len(keys) |-> IF i = 0 THEN EmptyLine ELSE Edited(after[i - 1], keys[i])]

ShowLoop(text, keys) ==
    text = [i \in 0 .. Len(keys) |-> IF i = 0 THEN <<>> ELSE Shows(text[i - 1], keys[i])]

LEMMA EmptyAgrees == Agrees(EmptyLine, <<>>)
<1>1. LineLen \in Nat /\ LineLen > 0
  BY CommandsAssumption
<1>2. EmptyLine = [buffer |-> [i \in 1 .. LineLen |-> NUL], counter |-> 0]
  BY <1>1 DEF EmptyLine, Copies
<1>3. [i \in 1 .. LineLen |-> NUL] \in [1 .. LineLen -> Byte] /\ 0 \in 0 .. LineLen
  BY <1>1 DEF Byte, NUL
<1>4. <<>> \in Seq(Code) /\ Len(<<>>) = 0
  OBVIOUS
<1> QED
  BY <1>2, <1>3, <1>4 DEF Agrees, LineState

LEMMA EditLoopExists ==
    ASSUME NEW keys \in Seq(Code)
    PROVE  \E after : EditLoop(after, keys)
<1> DEFINE n == Len(keys)
           step == [i \in 1 .. n |-> [w \in LineState |-> Edited(w, keys[i])]]
<1>1. n \in Nat /\ EmptyLine \in LineState /\ \A i \in 1 .. n : keys[i] \in Code
  BY EmptyAgrees DEF Agrees
<1>2. \A i \in 1 .. n, w \in LineState : Edited(w, keys[i]) \in LineState
  BY <1>1, EditedLine
<1> HIDE DEF n
<1>3. step \in Steps(n, LineState)
  BY <1>2 DEF Steps
<1>4. PICK f : Loop(f, n, LineState, EmptyLine, step)
  <2> HIDE DEF step
  <2> QED
    BY <1>1, <1>3, Iterates
<1>5. ASSUME NEW i \in 0 .. n
      PROVE  f[i] = IF i = 0 THEN EmptyLine ELSE Edited(f[i - 1], keys[i])
  <2>1. CASE i = 0
    BY <1>4, <2>1 DEF Loop
  <2>2. CASE i # 0
    <3>1. i \in 1 .. n /\ i - 1 \in 0 .. n
      BY <1>1, <2>2
    <3>2. f[i - 1] \in LineState /\ f[i] = step[i][f[i - 1]]
      BY <1>4, <3>1 DEF Loop
    <3> QED
      BY <2>2, <3>1, <3>2
  <2> QED
    BY <2>1, <2>2
<1>6. f = [i \in 0 .. n |-> IF i = 0 THEN EmptyLine ELSE Edited(f[i - 1], keys[i])]
  BY <1>4, <1>5 DEF Loop
<1> QED
  BY <1>6 DEF EditLoop, n

LEMMA ShowLoopExists ==
    ASSUME NEW keys \in Seq(Code)
    PROVE  \E text : ShowLoop(text, keys)
<1> DEFINE n == Len(keys)
           step == [i \in 1 .. n |-> [w \in Seq(Code) |-> Shows(w, keys[i])]]
<1>1. n \in Nat /\ <<>> \in Seq(Code) /\ \A i \in 1 .. n : keys[i] \in Code
  OBVIOUS
<1>2. \A i \in 1 .. n, w \in Seq(Code) : Shows(w, keys[i]) \in Seq(Code)
  BY <1>1, ShownText
<1> HIDE DEF n
<1>3. step \in Steps(n, Seq(Code))
  BY <1>2 DEF Steps
<1>4. PICK f : Loop(f, n, Seq(Code), <<>>, step)
  <2> HIDE DEF step
  <2> QED
    BY <1>1, <1>3, Iterates
<1>5. ASSUME NEW i \in 0 .. n
      PROVE  f[i] = IF i = 0 THEN <<>> ELSE Shows(f[i - 1], keys[i])
  <2>1. CASE i = 0
    BY <1>4, <2>1 DEF Loop
  <2>2. CASE i # 0
    <3>1. i \in 1 .. n /\ i - 1 \in 0 .. n
      BY <1>1, <2>2
    <3>2. f[i - 1] \in Seq(Code) /\ f[i] = step[i][f[i - 1]]
      BY <1>4, <3>1 DEF Loop
    <3> QED
      BY <2>2, <3>1, <3>2
  <2> QED
    BY <2>1, <2>2
<1>6. f = [i \in 0 .. n |-> IF i = 0 THEN <<>> ELSE Shows(f[i - 1], keys[i])]
  BY <1>4, <1>5 DEF Loop
<1> QED
  BY <1>6 DEF ShowLoop, n

\* Whatever was typed and erased, the buffer that is run holds the text that is
\* shown.
LEMMA LineHasText ==
    ASSUME NEW keys, keys \in Seq(Code \ {LF, CR}), Len(keys) < LineLen
    PROVE  \E buf : /\ HasText(buf, LineLen, Visible(keys))
                    /\ command_controller(keys) = Runs(buf)
<1> DEFINE n == Len(keys)
           after == CHOOSE f : EditLoop(f, keys)
           text == CHOOSE f : ShowLoop(f, keys)
           X == {i \in 0 .. n : Agrees(after[i], text[i]) /\ Len(text[i]) <= i}
           ln == after[n]
           t == text[n]
<1>1. n \in Nat /\ LineLen \in Nat /\ n < LineLen /\ \A i \in 1 .. n : keys[i] \in Code \ {LF, CR}
  BY CommandsAssumption
<1>2. keys \in Seq(Code)
  <2>1. keys \in [1 .. n -> Code]
    BY <1>1
  <2> QED
    BY <1>1, <2>1
<1>3. EditLoop(after, keys)
  BY <1>2, EditLoopExists
<1>4. ShowLoop(text, keys)
  BY <1>2, ShowLoopExists
<1>5. /\ Visible(keys) = t
      /\ command_controller(keys) =
           IF ln.counter = LineLen THEN [command |-> "too_long", arg |-> <<>>]
           ELSE Runs([ln.buffer EXCEPT ![ln.counter + 1] = NUL])
  BY DEF Visible, command_controller, EditLoop, ShowLoop
<1> HIDE DEF after, text
<1>6. ASSUME NEW i \in 0 .. n
      PROVE  /\ after[i] = IF i = 0 THEN EmptyLine ELSE Edited(after[i - 1], keys[i])
             /\ text[i] = IF i = 0 THEN <<>> ELSE Shows(text[i - 1], keys[i])
  BY <1>3, <1>4 DEF EditLoop, ShowLoop
<1> HIDE DEF n
<1>7. 0 \in X
  <2>1. 0 \in 0 .. n /\ after[0] = EmptyLine /\ text[0] = <<>> /\ Len(<<>>) = 0
    BY <1>1, <1>6
  <2> QED
    BY <2>1, EmptyAgrees
<1>8. ASSUME NEW i \in 0 .. n - 1, i \in X PROVE i + 1 \in X
  <2>1. i + 1 \in 0 .. n /\ i + 1 \in 1 .. n /\ i + 1 # 0 /\ (i + 1) - 1 = i /\ i \in 0 .. n
    BY <1>1
  <2>2. PICK c \in Code \ {LF, CR} : c = keys[i + 1]
    BY <1>1, <2>1
  <2>3. after[i + 1] = Edited(after[i], c) /\ text[i + 1] = Shows(text[i], c)
    BY <1>6, <2>1, <2>2
  <2>4. Agrees(after[i], text[i]) /\ Len(text[i]) <= i /\ Len(text[i]) \in Nat
    BY <1>8 DEF Agrees
  <2>5. Len(text[i]) < LineLen
    BY <1>1, <2>4
  <2>6. Agrees(Edited(after[i], c), Shows(text[i], c)) /\ Len(Shows(text[i], c)) <= Len(text[i]) + 1
    BY <2>4, <2>5, KeyAgrees
  <2>7. Len(Shows(text[i], c)) \in Nat
    BY <2>6 DEF Agrees
  <2>8. Len(text[i + 1]) <= i + 1
    BY <2>3, <2>4, <2>6, <2>7
  <2> QED
    BY <2>1, <2>3, <2>6, <2>8
<1>9. n \in X
  <2>1. \A i \in 0 .. n : i \in X
    <3> HIDE DEF X
    <3> QED
      BY <1>1, <1>7, <1>8, Reaches
  <2> QED
    BY <1>1, <2>1
<1>10. Agrees(ln, t) /\ Len(t) <= n
  BY <1>9
<1> HIDE DEF ln, t, X
<1> DEFINE k == Len(t)
           buf == [ln.buffer EXCEPT ![k + 1] = NUL]
<1>11. /\ ln \in LineState /\ t \in Seq(Code) /\ ln.counter = k
       /\ \A i \in 1 .. k : ln.buffer[i] = t[i]
  BY <1>10 DEF Agrees
<1>12. k \in Nat /\ k < LineLen /\ k \in 0 .. LineLen - 1 /\ k + 1 \in 1 .. LineLen
  BY <1>1, <1>10, <1>11
<1>13. ln.buffer \in [1 .. LineLen -> Byte] /\ NUL \in Byte
  BY <1>11 DEF LineState, Byte, NUL
<1> HIDE DEF k
<1>14. buf \in [1 .. LineLen -> Byte] /\ buf[k + 1] = NUL
  BY <1>12, <1>13
<1>15. \A i \in 1 .. k : buf[i] = t[i]
  BY <1>1, <1>11, <1>12, <1>13
<1>16. HasText(buf, LineLen, t)
  <2> HIDE DEF buf
  <2> QED
    BY <1>1, <1>11, <1>12, <1>14, <1>15 DEF HasText, k
<1>17. command_controller(keys) = Runs(buf)
  BY <1>5, <1>11, <1>12
<1> QED
  BY <1>5, <1>16, <1>17

\* A text that starts with w.
LEMMA StartsWith ==
    ASSUME NEW t \in Seq(Code), NEW w \in Seq(Code), Start(t, Len(w)) = w
    PROVE  Len(w) <= Len(t) /\ \A j \in 0 .. Len(w) - 1 : At(t, j) = w[j + 1]
<1>1. PICK n \in Nat : n = Len(w)
  OBVIOUS
<1>2. /\ Len(Start(t, n)) = IF n < Len(t) THEN n ELSE Len(t)
      /\ \A j \in Nat : At(Start(t, n), j) = IF j < n THEN At(t, j) ELSE NUL
  BY StartFacts
<1>3. Start(t, n) = w
  BY <1>1
<1>4. n <= Len(t)
  <2>1. Len(t) \in Nat /\ Len(Start(t, n)) = n
    BY <1>1, <1>3
  <2> QED
    BY <1>2, <2>1
<1>5. ASSUME NEW j \in 0 .. n - 1 PROVE At(t, j) = w[j + 1]
  <2>1. j \in Nat /\ j < n
    OBVIOUS
  <2>2. At(w, j) = At(t, j)
    BY <1>2, <1>3, <2>1
  <2>3. At(w, j) = w[j + 1]
    BY <1>1, <2>1, Characters
  <2> QED
    BY <2>2, <2>3
<1> QED
  BY <1>1, <1>4, <1>5

\* The commands: no one starts like another one that has an argument.
LEMMA CommandNames ==
    /\ \A n \in DOMAIN Exact : Exact[n] \in Seq(Code) /\ Exact[n][1] # 115
                               /\ (Exact[n][1] = 99 => Exact[n][2] # 97)
    /\ {"cat", "setTimeout", "not_found"} \cap DOMAIN Exact = {}
    /\ cat \in Seq(Code) /\ Len(cat) = 4 /\ cat[1] = 99 /\ cat[2] = 97
    /\ setTimeout \in Seq(Code) /\ Len(setTimeout) = 11 /\ setTimeout[1] = 115
<1>1. DOMAIN Exact = {"help", "hello", "reboot", "ls", "ma", "cpio_svc", "currentEL",
                      "coreTimerOn", "coreTimerOff"}
  BY DEF Exact
<1> DEFINE Differs(n) == /\ Exact[n] \in Seq(Code) /\ Exact[n][1] # 115
                         /\ Exact[n][1] = 99 => Exact[n][2] # 97
<1>2. Differs("help")
  BY DEF Exact, Code
<1>3. Differs("hello")
  BY DEF Exact, Code
<1>4. Differs("reboot")
  BY DEF Exact, Code
<1>5. Differs("ls")
  BY DEF Exact, Code
<1>6. Differs("ma")
  BY DEF Exact, Code
<1>7. Differs("cpio_svc")
  BY DEF Exact, Code
<1>8. Differs("currentEL")
  BY DEF Exact, Code
<1>9. Differs("coreTimerOn")
  BY DEF Exact, Code
<1>10. Differs("coreTimerOff")
  BY DEF Exact, Code
<1>11. \A n \in DOMAIN Exact : Differs(n)
  <2> HIDE DEF Differs
  <2> QED
    BY <1>1, <1>2, <1>3, <1>4, <1>5, <1>6, <1>7, <1>8, <1>9, <1>10
<1>12. cat \in Seq(Code) /\ Len(cat) = 4 /\ cat[1] = 99 /\ cat[2] = 97
  BY DEF cat, Code
<1>13. setTimeout \in Seq(Code) /\ Len(setTimeout) = 11 /\ setTimeout[1] = 115
  BY DEF setTimeout, Code
<1>14. {"cat", "setTimeout", "not_found"} \cap DOMAIN Exact = {}
  BY <1>1
<1> QED
  BY <1>11, <1>12, <1>13, <1>14

\* The two first characters of a text that starts with one of the others.
LEMMA CatStarts ==
    ASSUME NEW t \in Seq(Code), Start(t, 4) = cat
    PROVE  Len(t) >= 4 /\ t[1] = 99 /\ t[2] = 97 /\ \A j \in 0 .. 3 : At(t, j) = cat[j + 1]
<1>1. Start(t, Len(cat)) = cat /\ cat \in Seq(Code) /\ Len(cat) = 4
  BY CommandNames
<1>2. 4 <= Len(t) /\ \A j \in 0 .. 3 : At(t, j) = cat[j + 1]
  <2>1. Len(cat) <= Len(t) /\ \A j \in 0 .. Len(cat) - 1 : At(t, j) = cat[j + 1]
    BY <1>1, StartsWith
  <2>2. Len(cat) - 1 = 3
    BY <1>1
  <2> QED
    BY <1>1, <2>1, <2>2
<1>3. At(t, 0) = t[1] /\ At(t, 1) = t[2]
  BY <1>2 DEF At
<1> QED
  BY <1>2, <1>3, CommandNames

LEMMA TimeoutStarts ==
    ASSUME NEW t \in Seq(Code), Start(t, 11) = setTimeout
    PROVE  Len(t) >= 11 /\ t[1] = 115 /\ \A j \in 0 .. 10 : At(t, j) = setTimeout[j + 1]
<1>1. Start(t, Len(setTimeout)) = setTimeout /\ setTimeout \in Seq(Code) /\ Len(setTimeout) = 11
  BY CommandNames
<1>2. 11 <= Len(t) /\ \A j \in 0 .. 10 : At(t, j) = setTimeout[j + 1]
  <2>1. Len(setTimeout) <= Len(t) /\ \A j \in 0 .. Len(setTimeout) - 1 : At(t, j) = setTimeout[j + 1]
    BY <1>1, StartsWith
  <2>2. Len(setTimeout) - 1 = 10
    BY <1>1
  <2> QED
    BY <1>1, <2>1, <2>2
<1>3. At(t, 0) = t[1]
  BY <1>2 DEF At
<1> QED
  BY <1>2, <1>3, CommandNames

\* A text that starts otherwise is not taken for them.
LEMMA OtherStart ==
    ASSUME NEW buf, NEW m, NEW t, HasText(buf, m, t)
    PROVE  /\ t[1] # 115 => strncmp(buf, setTimeout, 10) # 0
           /\ t[1] # 99 \/ t[2] # 97 => strncmp(buf, cat, 3) # 0
<1> DEFINE k == Len(t)
<1>1. /\ t \in Seq(Code) /\ k \in Nat /\ \A j \in 0 .. k : At(buf, j) = At(t, j)
  BY HeldCharacters DEF HasText
<1>2. \A j \in Nat : /\ At(t, j) \in Int
                     /\ j < k => At(t, j) = t[j + 1] /\ At(t, j) # NUL
                     /\ j >= k => At(t, j) = NUL
  BY <1>1, Characters
<1> HIDE DEF k
<1>3. 0 \in Nat /\ 1 \in Nat /\ 0 + 1 = 1 /\ 1 + 1 = 2 /\ 0 \in 0 .. k
  BY <1>1
<1>4. At(buf, 0) \in Int /\ (At(buf, 0) = t[1] \/ At(buf, 0) = NUL)
  BY <1>1, <1>2, <1>3
<1>5. At(setTimeout, 0) = 115 /\ At(cat, 0) = 99 /\ At(cat, 1) = 97
  BY CommandNames DEF At
<1>6. ASSUME t[1] # 115 PROVE strncmp(buf, setTimeout, 10) # 0
  <2>1. At(buf, 0) # 115
    BY <1>4, <1>6 DEF NUL
  <2> QED
    BY <1>4, <1>5, <2>1, BeginApart
<1>7. ASSUME At(buf, 0) # 99 PROVE strncmp(buf, cat, 3) # 0
  BY <1>4, <1>5, <1>7, BeginApart
<1>8. ASSUME t[1] # 99 PROVE strncmp(buf, cat, 3) # 0
  BY <1>4, <1>7, <1>8 DEF NUL
<1>9. ASSUME t[2] # 97, At(buf, 0) = 99 PROVE strncmp(buf, cat, 3) # 0
  <2>1. 0 < k
    <3>1. At(t, 0) # NUL
      BY <1>1, <1>3, <1>9 DEF NUL
    <3> QED
      BY <1>1, <1>2, <1>3, <3>1
  <2>2. 1 \in 0 .. k /\ At(buf, 1) = At(t, 1)
    BY <1>1, <2>1
  <2>3. At(buf, 1) \in Int /\ At(buf, 1) # 97
    <3>1. At(t, 1) \in Int /\ (At(t, 1) = t[2] \/ At(t, 1) = NUL)
      BY <1>1, <1>2, <1>3
    <3> QED
      BY <1>9, <2>2, <3>1 DEF NUL
  <2> DEFINE i == 1
  <2>4. i \in 0 .. 3 - 1 /\ At(buf, i) \in Int /\ At(cat, i) \in Int /\ At(buf, i) # At(cat, i)
    BY <1>5, <2>3
  <2>5. \A j \in 0 .. i - 1 : At(buf, j) = At(cat, j) /\ At(buf, j) # NUL
    BY <1>5, <1>9 DEF NUL
  <2> HIDE DEF i
  <2> QED
    BY <2>4, <2>5, DifferAt
<1> QED
  BY <1>6, <1>7, <1>8, <1>9

\* What a buffer that holds a text runs.
LEMMA RunsText ==
    ASSUME NEW buf, NEW m, NEW t, HasText(buf, m, t)
    PROVE  LET run == Runs(buf) IN
           /\ (run.command \in DOMAIN Exact) = (t \in Range(Exact))
           /\ run.command \in DOMAIN Exact => t = Exact[run.command]
           /\ Start(t, 4) = cat => run = [command |-> "cat", arg |-> From(t, 4)]
           /\ Start(t, 11) = setTimeout => run = [command |-> "setTimeout", arg |-> From(t, 11)]
<1> DEFINE same == {n \in DOMAIN Exact : strcmp(buf, Exact[n]) = 0}
           first == CHOOSE n \in same : TRUE
           run == Runs(buf)
<1>1. t \in Seq(Code) /\ \A j \in 0 .. Len(t) : At(buf, j) = At(t, j)
  BY HeldCharacters DEF HasText
<1>2. \A n \in DOMAIN Exact : n \in same <=> t = Exact[n]
  BY CommandNames, HeldCompared
<1>3. run = CASE same # {} -> [command |-> first, arg |-> <<>>]
              [] strncmp(buf, cat, 3) = 0 -> [command |-> "cat", arg |-> CString(From(buf, 4))]
              [] strncmp(buf, setTimeout, 10) = 0 ->
                   [command |-> "setTimeout", arg |-> CString(From(buf, 11))]
              [] OTHER -> [command |-> "not_found", arg |-> CString(buf)]
  BY DEF Runs
<1>4. same # {} <=> t \in Range(Exact)
  BY <1>2 DEF Range
<1>5. CASE same # {}
  <2>1. first \in same
    BY <1>5
  <2>2. first \in DOMAIN Exact /\ t = Exact[first]
    BY <1>2, <2>1
  <2>3. run = [command |-> first, arg |-> <<>>]
    <3>1. /\ Exact[first] \in Seq(Code) /\ Exact[first][1] # 115
          /\ Exact[first][1] = 99 => Exact[first][2] # 97
      BY <2>2, CommandNames
    <3> HIDE DEF first, same, run
    <3>2. t[1] # 115 /\ (t[1] = 99 => t[2] # 97)
      BY <2>2, <3>1
    <3>3. strncmp(buf, cat, 3) # 0 /\ strncmp(buf, setTimeout, 10) # 0
      BY <3>2, OtherStart
    <3> QED
      BY <1>3, <1>5, <3>3
  <2>4. Start(t, 4) # cat /\ Start(t, 11) # setTimeout
    <3>1. /\ Exact[first][1] # 115
          /\ Exact[first][1] = 99 => Exact[first][2] # 97
      BY <2>2, CommandNames
    <3> HIDE DEF first, same, run
    <3>2. t[1] # 115 /\ (t[1] = 99 => t[2] # 97)
      BY <2>2, <3>1
    <3>3. Start(t, 4) # cat
      BY <1>1, <3>2, CatStarts
    <3>4. Start(t, 11) # setTimeout
      BY <1>1, <3>2, TimeoutStarts
    <3> QED
      BY <3>3, <3>4
  <2> HIDE DEF first, same, run
  <2>5. run.command = first
    BY <2>3
  <2>6. run.command \in DOMAIN Exact /\ t \in Range(Exact) /\ t = Exact[run.command]
    BY <1>4, <1>5, <2>2, <2>5
  <2> QED
    BY <2>4, <2>6 DEF run
<1>6. CASE same = {}
  <2>1. run.command \notin DOMAIN Exact
    <3>1. run.command \in {"cat", "setTimeout", "not_found"}
      BY <1>3, <1>6
    <3> QED
      BY <3>1, CommandNames
  <2>2. ASSUME Start(t, 4) = cat PROVE run = [command |-> "cat", arg |-> From(t, 4)]
    <3>1. Len(t) >= 4 /\ \A j \in 0 .. 3 : At(t, j) = cat[j + 1]
      BY <1>1, <2>2, CatStarts
    <3>2. \A j \in 0 .. 3 - 1 : At(buf, j) = At(cat, j) /\ At(buf, j) # NUL
      <4> SUFFICES ASSUME NEW j \in 0 .. 2 PROVE At(buf, j) = At(cat, j) /\ At(buf, j) # NUL
        OBVIOUS
      <4>1. j \in Nat /\ j \in 0 .. 3 /\ j < 4 /\ Len(t) \in Nat
        BY <1>1
      <4>2. At(cat, j) = cat[j + 1] /\ At(cat, j) # NUL
        <5>1. cat \in Seq(Code) /\ Len(cat) = 4
          BY CommandNames
        <5> QED
          BY <4>1, <5>1, Characters
      <4>3. j \in 0 .. Len(t)
        BY <3>1, <4>1
      <4> QED
        BY <1>1, <3>1, <4>1, <4>2, <4>3
    <3>3. strncmp(buf, cat, 3) = 0
      BY <3>2, BeginAlike
    <3>4. 4 \in 0 .. Len(t)
      BY <1>1, <3>1
    <3>5. CString(From(buf, 4)) = From(t, 4)
      BY <3>4, HeldRest
    <3>6. run = [command |-> "cat", arg |-> CString(From(buf, 4))]
      <4>1. t[1] = 99
        BY <1>1, <2>2, CatStarts
      <4>2. strncmp(buf, setTimeout, 10) # 0
        BY <4>1, OtherStart
      <4> QED
        BY <1>3, <1>6, <3>3, <4>2
    <3> QED
      BY <3>5, <3>6
  <2>3. ASSUME Start(t, 11) = setTimeout PROVE run = [command |-> "setTimeout", arg |-> From(t, 11)]
    <3>1. Len(t) >= 11 /\ t[1] = 115 /\ \A j \in 0 .. 10 : At(t, j) = setTimeout[j + 1]
      BY <1>1, <2>3, TimeoutStarts
    <3>2. \A j \in 0 .. 10 - 1 : At(buf, j) = At(setTimeout, j) /\ At(buf, j) # NUL
      <4> SUFFICES ASSUME NEW j \in 0 .. 9
                   PROVE  At(buf, j) = At(setTimeout, j) /\ At(buf, j) # NUL
        OBVIOUS
      <4>1. j \in Nat /\ j \in 0 .. 10 /\ j < 11 /\ Len(t) \in Nat
        BY <1>1
      <4>2. At(setTimeout, j) = setTimeout[j + 1] /\ At(setTimeout, j) # NUL
        <5>1. setTimeout \in Seq(Code) /\ Len(setTimeout) = 11
          BY CommandNames
        <5> QED
          BY <4>1, <5>1, Characters
      <4>3. j \in 0 .. Len(t)
        BY <3>1, <4>1
      <4> QED
        BY <1>1, <3>1, <4>1, <4>2, <4>3
    <3>3. strncmp(buf, setTimeout, 10) = 0
      BY <3>2, BeginAlike
    <3>4. strncmp(buf, cat, 3) # 0
      BY <3>1, OtherStart
    <3>5. 11 \in 0 .. Len(t)
      BY <1>1, <3>1
    <3>6. CString(From(buf, 11)) = From(t, 11)
      BY <3>5, HeldRest
    <3>7. run = [command |-> "setTimeout", arg |-> CString(From(buf, 11))]
      BY <1>3, <1>6, <3>3, <3>4
    <3> QED
      BY <3>6, <3>7
  <2>4. t \notin Range(Exact)
    BY <1>4, <1>6
  <2> HIDE DEF run
  <2>5. (run.command \in DOMAIN Exact) = (t \in Range(Exact))
    BY <2>1, <2>4
  <2> QED
    BY <2>1, <2>2, <2>3, <2>5 DEF run
<1> QED
  BY <1>5, <1>6

\* A line obeys what it shows.
LEMMA LineObeyed ==
    ASSUME NEW keys, keys \in Seq(Code \ {LF, CR})
    PROVE  ObeysLine(keys)
<1> SUFFICES ASSUME Len(keys) < LineLen
             PROVE  LET text == Visible(keys)
                        run == command_controller(keys)
                    IN  /\ (run.command \in DOMAIN Exact) = (text \in Range(Exact))
                        /\ run.command \in DOMAIN Exact => text = Exact[run.command]
                        /\ Start(text, 4) = cat => run = [command |-> "cat", arg |-> From(text, 4)]
                        /\ Start(text, 11) = setTimeout =>
                             run = [command |-> "setTimeout", arg |-> From(text, 11)]
  BY DEF ObeysLine
<1>1. PICK buf : /\ HasText(buf, LineLen, Visible(keys))
                 /\ command_controller(keys) = Runs(buf)
  BY LineHasText
<1> QED
  BY <1>1, RunsText

\* Every archive that cpio has made is read as it was written, name by name and byte
\* by byte; `cat' prints a line for each entry up to the file, as cpio_get_file does,
\* and then the file; and every line of fewer keys than the buffer holds, erased ones
\* included, runs the command that it shows, with the argument that it shows.
THEOREM LookupAlwaysRight == Spec => []LookupRight
<1>1. InputInv => LookupRight
  <2> SUFFICES ASSUME InputInv PROVE LookupRight
    OBVIOUS
  <2>1. ASSUME input.kind = "file"
        PROVE  FindsRight(input.a, input.name) /\ PrintsRight(input.a, input.name)
    <3>1. GivenFile
      BY <2>1 DEF InputInv
    <3>2. PICK a \in Archives, name \in Names : input = [kind |-> "file", a |-> a, name |-> name]
      BY <3>1 DEF GivenFile
    <3>3. Packed(a) /\ name \in Seq(Code)
      BY SystemAssumption DEF Code
    <3>4. FindsRight(a, name) /\ PrintsRight(a, name)
      BY <3>3, ArchiveFinds, CatPrints
    <3>5. input.a = a /\ input.name = name
      BY <3>2
    <3> QED
      BY <3>4, <3>5
  <2>2. ASSUME input.kind = "line" PROVE ObeysLine(input.keys)
    <3>1. GivenLine
      BY <2>2 DEF InputInv
    <3>2. PICK keys \in Lines : input = [kind |-> "line", keys |-> keys]
      BY <3>1 DEF GivenLine
    <3>3. keys \in Seq(Code \ {LF, CR})
      BY SystemAssumption DEF Code
    <3>4. ObeysLine(keys)
      BY <3>3, LineObeyed
    <3>5. input.keys = keys
      BY <3>2
    <3> QED
      BY <3>4, <3>5
  <2> QED
    BY <2>1, <2>2 DEF LookupRight
<1> QED
  BY <1>1, InputInvariant, PTL

-----------------------------------------------------------------------------
(***************************************************************************)
(* exec.  The pointers of argv[] are copied from one place of a stack page *)
(* to another, by way of a backup; the file is copied over what is there.  *)
(***************************************************************************)
\* The stack of a user task, and how many calls it has made.
TaskInv ==
    /\ stack \in [Word -> Nat]
    /\ regs \in [x0 : Nat, x1 : Nat, sp : 0 .. Words, pc : {0, LoadAddress}]
    /\ status \in {"user", "hang"}
    /\ calls \in 0 .. MaxCalls

\* An even number of words, however many arguments there are.
LEMMA Aligned ==
    ASSUME NEW argc \in 0 .. Words - 1
    PROVE  /\ StackPointer(argc) \in 0 .. Words
           /\ StackPointer(argc) % 2 = 0
           /\ StackPointer(argc) + argc <= Words
<1>1. PICK w \in Nat : Words = 2 * w
  <2>1. Words = 2 * (Words \div 2) + (Words % 2) /\ Words \div 2 \in Int
    BY SyscallAssumption, DivMod
  <2>2. Words = 2 * (Words \div 2) /\ Words \div 2 \in Nat
    BY <2>1, SyscallAssumption
  <2> QED
    BY <2>2
<1>2. PICK k \in Int, r \in 0 .. 1 : r = argc % 2 /\ argc = 2 * k + r
  <2>1. argc \in Int /\ 2 \in Nat \ {0}
    BY SyscallAssumption
  <2>2. argc % 2 \in 0 .. 2 - 1 /\ argc \div 2 \in Int /\ argc = 2 * (argc \div 2) + (argc % 2)
    BY <2>1, DivMod
  <2> QED
    BY <2>2
<1>3. argc + r = 2 * (k + r) /\ StackPointer(argc) = 2 * (w - (k + r))
  BY <1>1, <1>2 DEF StackPointer
<1>4. PICK z \in Int : z = w - (k + r)
  BY <1>1, <1>2
<1>5. (2 * z) % 2 = 0
  <2>1. 2 * z \in Int /\ 2 \in Nat \ {0} /\ 0 \in 0 .. 2 - 1 /\ 2 * z = 2 * z + 0
    OBVIOUS
  <2> QED
    BY ONLY z \in Int, <2>1, ModUnique
<1>6. StackPointer(argc) \in 0 .. Words /\ StackPointer(argc) + argc <= Words
  <2>1. argc <= Words - 1 /\ argc >= 0
    BY SyscallAssumption
  <2>2. StackPointer(argc) = Words - argc - r
    BY <1>2, SyscallAssumption DEF StackPointer
  <2> QED
    BY <1>1, <1>2, <1>3, <2>1, <2>2
<1> QED
  BY <1>3, <1>4, <1>5, <1>6

\* The arguments of an exec.
LEMMA ArgsFacts ==
    ASSUME NEW args \in Arguments
    PROVE  Len(args) \in 0 .. Words - 1 /\ \A i \in 1 .. Len(args) : args[i] \in Nat \ {NULL}
<1>1. args \in Seq(Nat \ {NULL}) /\ Len(args) < Words /\ Words \in Nat
  BY SyscallAssumption DEF NULL
<1> QED
  BY <1>1

\* argv[] on the stack, up to its null pointer.
LEMMA ArgvFacts ==
    ASSUME stack \in [Word -> Nat], NEW at \in Word, NEW args, NEW n \in Nat, n = Len(args),
           \A i \in 1 .. n : args[i] \in Nat \ {NULL}, at + n < Words
    PROVE  /\ WithArgv(at, args) \in [Word -> Nat]
           /\ \A i \in 0 .. n - 1 : /\ at + i \in Word
                                    /\ WithArgv(at, args)[at + i] = args[i + 1]
                                    /\ WithArgv(at, args)[at + i] # NULL
           /\ ArgcCount(WithArgv(at, args), at) = n
<1> DEFINE stk == WithArgv(at, args)
<1>1. Words \in Nat /\ at \in Nat /\ at < Words /\ NULL \in Nat
  BY SyscallAssumption DEF Word, NULL
<1>2. stk = [w \in Word |-> IF w \in at .. at + n - 1 THEN args[w - at + 1]
                            ELSE IF w = at + n THEN NULL ELSE stack[w]]
  BY DEF WithArgv
<1>3. ASSUME NEW w \in Word
      PROVE  (IF w \in at .. at + n - 1 THEN args[w - at + 1]
              ELSE IF w = at + n THEN NULL ELSE stack[w]) \in Nat
  <2>1. CASE w \in at .. at + n - 1
    <3>1. w - at + 1 \in 1 .. n
      BY <1>1, <2>1
    <3> QED
      BY <2>1, <3>1
  <2>2. CASE w \notin at .. at + n - 1
    BY <1>1, <2>2
  <2> QED
    BY <2>1, <2>2
<1>4. stk \in [Word -> Nat]
  <2> HIDE DEF stk
  <2> QED
    BY <1>2, <1>3
<1> HIDE DEF stk
<1>5. ASSUME NEW i \in 0 .. n - 1
      PROVE  at + i \in Word /\ stk[at + i] = args[i + 1] /\ stk[at + i] # NULL
  <2>1. /\ at + i \in Word /\ at + i \in at .. at + n - 1 /\ (at + i) - at + 1 = i + 1
        /\ i + 1 \in 1 .. n
    BY <1>1 DEF Word
  <2> QED
    BY <1>2, <2>1
<1>6. stk[at + n] = NULL
  <2>1. at + n \in Word /\ at + n \notin at .. at + n - 1
    BY <1>1 DEF Word
  <2> QED
    BY <1>2, <2>1
<1> DEFINE Ends(k) == stk[at + k] = NULL /\ \A i \in 0 .. k - 1 : stk[at + i] # NULL
<1>7. n \in 0 .. Words - at /\ Ends(n)
  BY <1>1, <1>5, <1>6
<1>8. ASSUME NEW k \in 0 .. Words - at, Ends(k) PROVE k = n
  <2>1. ~(k < n)
    <3>1. k < n => k \in 0 .. n - 1
      BY <1>1
    <3> QED
      BY <1>5, <1>8, <3>1
  <2>2. ~(n < k)
    <3>1. n < k => n \in 0 .. k - 1
      BY <1>1
    <3> QED
      BY <1>6, <1>8, <3>1
  <2> QED
    BY <1>1, <2>1, <2>2
<1>9. ArgcCount(stk, at) = CHOOSE k \in 0 .. Words - at : Ends(k)
  BY DEF ArgcCount
<1> HIDE DEF Ends
<1>10. ArgcCount(stk, at) = n
  BY <1>7, <1>8, <1>9
<1> QED
  BY <1>4, <1>5, <1>10 DEF stk

\* The pointers are copied, wherever they were.
LEMMA CopyFacts ==
    ASSUME NEW stk \in [Word -> Nat], NEW at \in Word, NEW n \in Nat, NEW sp \in 0 .. Words,
           \A i \in 0 .. n - 1 : at + i \in Word, sp + n <= Words
    PROVE  /\ CopiedArgv(stk, at, n, sp) \in [Word -> Nat]
           /\ \A i \in 0 .. n - 1 : /\ sp + i \in Word
                                    /\ CopiedArgv(stk, at, n, sp)[sp + i] = stk[at + i]
           /\ \A w \in Word : w < sp => CopiedArgv(stk, at, n, sp)[w] = stk[w]
<1> DEFINE backup == [i \in 0 .. n - 1 |-> stk[at + i]]
           new == [w \in Word |-> IF w \in sp .. sp + n - 1 THEN backup[w - sp] ELSE stk[w]]
<1>1. Words \in Nat /\ at \in Nat /\ sp \in Nat
  BY SyscallAssumption DEF Word
<1>2. CopiedArgv(stk, at, n, sp) = new
  BY DEF CopiedArgv
<1>3. backup \in [0 .. n - 1 -> Nat]
  OBVIOUS
<1>4. \A w \in Word : w \in sp .. sp + n - 1 => w - sp \in 0 .. n - 1
  BY <1>1 DEF Word
<1>5. new \in [Word -> Nat]
  <2> HIDE DEF backup
  <2> QED
    BY <1>3, <1>4
<1>6. ASSUME NEW i \in 0 .. n - 1 PROVE sp + i \in Word /\ new[sp + i] = stk[at + i]
  <2>1. sp + i \in Word /\ sp + i \in sp .. sp + n - 1 /\ (sp + i) - sp = i
    BY <1>1 DEF Word
  <2>2. new[sp + i] = backup[i]
    <3> HIDE DEF backup
    <3> QED
      BY <2>1
  <2> QED
    BY <2>1, <2>2
<1>7. ASSUME NEW w \in Word, w < sp PROVE new[w] = stk[w]
  <2>1. w \notin sp .. sp + n - 1
    BY <1>1, <1>7 DEF Word
  <2> HIDE DEF backup
  <2> QED
    BY <2>1
<1> HIDE DEF new
<1> QED
  BY <1>2, <1>5, <1>6, <1>7

\* The strings that were recorded, and what of the stack is what it was.
Recorded(name, args) ==
    \E stk \in [Word -> Nat] :
      /\ asked'.call = "exec" /\ asked'.name = name /\ asked'.args = args
      /\ asked'.strings = [i \in 1 .. Len(args) |-> StringAt(stk, image, args[i])]
      /\ \A w \in Word : w < regs'.sp => stack'[w] = stk[w]

\* What exec() does to the stack and the registers.
LEMMA ExecTask ==
    ASSUME TaskInv, NEW name, NEW at \in Word, NEW args \in Arguments, at + Len(args) < Words,
           sys_exec(name, at, args)
    PROVE  TaskInv' /\ ArgumentsPassed' /\ Recorded(name, args)
<1> DEFINE n == Len(args)
           stk == WithArgv(at, args)
           argc == ArgcCount(stk, at)
           sp == StackPointer(argc)
<1>1. /\ calls' = calls + 1 /\ calls < MaxCalls /\ status' = status /\ status = "user"
      /\ stack' = CopiedArgv(stk, at, argc, sp)
      /\ regs' = [x0 |-> argc, x1 |-> sp, sp |-> sp, pc |-> LoadAddress]
      /\ asked' = [call |-> "exec", name |-> name, args |-> args,
                   strings |-> [i \in 1 .. Len(args) |-> StringAt(stk, image, args[i])]]
  BY DEF sys_exec, Svc
<1>2. calls \in Nat /\ Words \in Nat /\ MaxCalls \in Nat
  BY SyscallAssumption DEF TaskInv
<1>3. n \in 0 .. Words - 1 /\ \A i \in 1 .. n : args[i] \in Nat \ {NULL}
  BY ArgsFacts
<1>4. n \in Nat /\ n \in 0 .. Words - 1
  BY <1>3, SyscallAssumption
<1>5. /\ stk \in [Word -> Nat]
      /\ \A i \in 0 .. n - 1 : at + i \in Word /\ stk[at + i] = args[i + 1]
      /\ argc = n
  <2>1. stack \in [Word -> Nat]
    BY DEF TaskInv
  <2>2. PICK m \in Nat : m = Len(args)
    BY <1>4
  <2>3. at + m < Words /\ \A i \in 1 .. m : args[i] \in Nat \ {NULL}
    BY <1>3, <2>2
  <2>4. /\ WithArgv(at, args) \in [Word -> Nat]
        /\ \A i \in 0 .. m - 1 : /\ at + i \in Word
                                 /\ WithArgv(at, args)[at + i] = args[i + 1]
                                 /\ WithArgv(at, args)[at + i] # NULL
        /\ ArgcCount(WithArgv(at, args), at) = m
    BY ONLY at \in Word, m \in Nat, <2>1, <2>2, <2>3, ArgvFacts
  <2> QED
    BY <2>2, <2>4
<1>6. sp \in 0 .. Words /\ sp % 2 = 0 /\ sp + n <= Words
  BY <1>4, <1>5, Aligned
<1> HIDE DEF stk, argc, sp, n
<1>7. /\ stack' \in [Word -> Nat]
      /\ \A i \in 0 .. n - 1 : sp + i \in Word /\ stack'[sp + i] = stk[at + i]
      /\ \A w \in Word : w < sp => stack'[w] = stk[w]
  <2>1. \A i \in 0 .. n - 1 : at + i \in Word
    BY <1>5
  <2>2. /\ CopiedArgv(stk, at, n, sp) \in [Word -> Nat]
        /\ \A i \in 0 .. n - 1 : /\ sp + i \in Word
                                 /\ CopiedArgv(stk, at, n, sp)[sp + i] = stk[at + i]
        /\ \A w \in Word : w < sp => CopiedArgv(stk, at, n, sp)[w] = stk[w]
    BY ONLY at \in Word, <1>4, <1>5, <1>6, <2>1, CopyFacts
  <2> QED
    BY <1>1, <1>5, <2>2
<1>8. TaskInv'
  <2>1. regs' \in [x0 : Nat, x1 : Nat, sp : 0 .. Words, pc : {0, LoadAddress}]
    <3>1. argc \in Nat /\ sp \in Nat /\ sp \in 0 .. Words
      BY <1>2, <1>4, <1>5, <1>6
    <3> QED
      BY <1>1, <3>1
  <2>2. calls' \in 0 .. MaxCalls
    BY <1>1, <1>2
  <2> QED
    BY <1>1, <1>7, <2>1, <2>2 DEF TaskInv
<1>9. ArgumentsPassed'
  <2>1. asked'.args = args /\ Len(asked'.args) = n
    BY <1>1 DEF n
  <2>2. regs'.sp = sp /\ regs' = [x0 |-> n, x1 |-> sp, sp |-> sp, pc |-> LoadAddress]
    BY <1>1, <1>5
  <2>3. ASSUME NEW i \in 1 .. n PROVE stack'[sp + i - 1] = args[i]
    <3>1. PICK j \in 0 .. n - 1 : i = j + 1 /\ sp + i - 1 = sp + j
      <4>1. i - 1 \in 0 .. n - 1 /\ i = (i - 1) + 1 /\ sp + i - 1 = sp + (i - 1)
        BY <1>2, <1>4, <1>6
      <4> QED
        BY ONLY <4>1
    <3> QED
      BY <1>5, <1>7, <3>1
  <2>4. /\ regs' = [x0 |-> Len(asked'.args), x1 |-> regs'.sp, sp |-> regs'.sp, pc |-> LoadAddress]
        /\ regs'.sp % 2 = 0 /\ regs'.sp + Len(asked'.args) <= Words
        /\ \A i \in 1 .. Len(asked'.args) : stack'[regs'.sp + i - 1] = asked'.args[i]
    BY <1>6, <2>1, <2>2, <2>3
  <2> QED
    BY <2>4 DEF ArgumentsPassed
<1>10. Recorded(name, args)
  <2>1. regs'.sp = sp
    BY <1>1
  <2>2. /\ asked'.call = "exec" /\ asked'.name = name /\ asked'.args = args
        /\ asked'.strings = [i \in 1 .. Len(args) |-> StringAt(stk, image, args[i])]
    BY <1>1
  <2> QED
    BY <1>5, <1>7, <2>1, <2>2 DEF Recorded
<1> QED
  BY <1>8, <1>9, <1>10

\* The other calls change no more than x0 and the stack.
LEMMA OtherCalls ==
    ASSUME TaskInv, SyscallNext,
           ~ \E name \in Programs, at \in Word : \E args \in Arguments :
               at + Len(args) < Words /\ sys_exec(name, at, args)
    PROVE  TaskInv' /\ ~Executed' /\ UNCHANGED <<archive, image>>
<1>0. MaxCalls \in Nat /\ Words \in Nat /\ Pid \in Nat
  BY SyscallAssumption
<1>1. ASSUME NEW v \in Nat, Returns(v)
      PROVE  regs' \in [x0 : Nat, x1 : Nat, sp : 0 .. Words, pc : {0, LoadAddress}]
  BY <1>1 DEF Returns, TaskInv
<1>2. ASSUME calls < MaxCalls, calls' = calls + 1 PROVE calls' \in 0 .. MaxCalls
  BY <1>0, <1>2 DEF TaskInv
<1>3. CASE sys_gitPID \/ sys_clone
  <2>1. /\ \E v \in Nat : Returns(v)
        /\ calls < MaxCalls /\ calls' = calls + 1
        /\ asked'.call \in {"getpid", "clone"}
        /\ UNCHANGED <<archive, stack, image, status>>
    BY <1>0, <1>3 DEF sys_gitPID, sys_clone, Svc
  <2> QED
    BY <1>1, <1>2, <2>1 DEF TaskInv, Executed
<1>4. CASE NotImplemented
  <2>1. /\ status' = "hang" /\ calls < MaxCalls /\ calls' = calls + 1
        /\ UNCHANGED <<archive, stack, regs, image>>
    BY <1>4 DEF NotImplemented
  <2> QED
    BY <1>2, <2>1 DEF TaskInv, Executed
<1>5. CASE \E size \in 0 .. 1 : sys_uart_write(size)
  <2>1. PICK size \in 0 .. 1 : sys_uart_write(size)
    BY <1>5
  <2>2. /\ Returns(size) /\ size \in Nat
        /\ calls < MaxCalls /\ calls' = calls + 1
        /\ asked'.call = "uartwrite"
        /\ UNCHANGED <<archive, stack, image, status>>
    BY <2>1 DEF sys_uart_write, Svc
  <2> QED
    BY <1>1, <1>2, <2>2 DEF TaskInv, Executed
<1>6. CASE \E at \in Word : \E typedIn \in Inputs :
             at + Len(typedIn) < Words /\ sys_uart_read(at, typedIn)
  <2>1. PICK at \in Word, typedIn \in Inputs :
          at + Len(typedIn) < Words /\ sys_uart_read(at, typedIn)
    BY <1>6
  <2>2. PICK m \in 0 .. 2 : typedIn \in [1 .. m -> {CR, 97}]
    BY DEF Inputs, BoundedSeq, SeqOf
  <2>3. Len(typedIn) = m /\ m \in Nat /\ at \in Nat
    BY <1>0, <2>2 DEF Word
  <2>4. /\ Returns(m) /\ stack' = Filled(at, typedIn)
        /\ calls < MaxCalls /\ calls' = calls + 1
        /\ asked'.call = "uartread"
        /\ UNCHANGED <<archive, image, status>>
    BY <2>1, <2>3 DEF sys_uart_read, Svc
  <2>5. Filled(at, typedIn) \in [Word -> Nat]
    <3> DEFINE value(w) ==
                 CASE w \in at .. at + m - 1 ->
                        IF typedIn[w - at + 1] = CR THEN LF ELSE typedIn[w - at + 1]
                   [] w = at + m -> NUL
                   [] OTHER -> stack[w]
    <3>1. Filled(at, typedIn) = [w \in Word |-> value(w)]
      BY <2>3 DEF Filled
    <3>2. ASSUME NEW w \in Word PROVE value(w) \in Nat
      <4>1. CASE w \in at .. at + m - 1
        <5>1. w - at + 1 \in 1 .. m /\ w # at + m
          BY <2>3, <4>1
        <5>2. typedIn[w - at + 1] \in {CR, 97}
          BY <2>2, <5>1
        <5>3. value(w) = IF typedIn[w - at + 1] = CR THEN LF ELSE typedIn[w - at + 1]
          BY <4>1, <5>1
        <5> QED
          BY <5>2, <5>3 DEF CR, LF
      <4>2. CASE w \notin at .. at + m - 1 /\ w = at + m
        <5>1. value(w) = NUL
          BY <4>2
        <5> QED
          BY <5>1 DEF NUL
      <4>3. CASE w \notin at .. at + m - 1 /\ w # at + m
        <5>1. value(w) = stack[w]
          BY <4>3
        <5> QED
          BY <5>1 DEF TaskInv
      <4> QED
        BY <4>1, <4>2, <4>3
    <3> HIDE DEF value
    <3> QED
      BY <3>1, <3>2
  <2> QED
    BY <1>1, <1>2, <2>3, <2>4, <2>5 DEF TaskInv, Executed
<1> QED
  BY <1>3, <1>4, <1>5, <1>6 DEF SyscallNext

\* No program has been asked for before there is a user task.
ArgvInv ==
    /\ TaskInv
    /\ phase # "user" => asked = [call |-> "none"]
    /\ ArgumentsPassed

LEMMA InitArgvInv == Init => ArgvInv
<1> SUFFICES ASSUME Init PROVE ArgvInv
  OBVIOUS
<1>1. Words \in Nat /\ MaxCalls \in Nat
  BY SyscallAssumption
<1>2. /\ stack = [w \in Word |-> NULL] /\ regs = [x0 |-> 0, x1 |-> 0, sp |-> Words, pc |-> 0]
      /\ status = "user" /\ asked = [call |-> "none"] /\ calls = 0
  BY DEF Init, SyscallInit
<1>3. TaskInv
  BY <1>1, <1>2 DEF TaskInv, NULL
<1>4. ~Executed
  BY <1>2 DEF Executed
<1> QED
  BY <1>2, <1>3, <1>4 DEF ArgvInv, ArgumentsPassed

\* A step of the machine is a system call, the start of user mode, or leaves the
\* user task alone.
LEMMA TaskSteps ==
    ASSUME [Next]_vars
    PROVE  \/ phase = "user" /\ phase' = "user" /\ SyscallNext
           \/ /\ phase # "user" /\ phase' = "user" /\ archive' \in Initramfs
              /\ UNCHANGED <<stack, regs, image, status, asked, calls>>
           \/ UNCHANGED svars /\ (phase' = "user" <=> phase = "user")
<1>1. CASE User
  BY <1>1 DEF User
<1>2. CASE UserStarts
  BY <1>2 DEF UserStarts
<1>3. CASE ~User /\ ~UserStarts
  BY <1>3 DEF Next, vars, Booting, Boot, KernelStarts, Library, CallStrings, CallNumbers,
              CallPrintf, CallTimeout, CallCpio, CallShell, CallLists, Calls, MailboxStarts,
              UseMailbox, Rest
<1> QED
  BY <1>1, <1>2, <1>3

LEMMA NextArgvInv == ArgvInv /\ [Next]_vars => ArgvInv'
<1> SUFFICES ASSUME ArgvInv, [Next]_vars PROVE ArgvInv'
  OBVIOUS
<1>1. TaskInv /\ ArgumentsPassed
  BY DEF ArgvInv
<1>2. CASE phase = "user" /\ phase' = "user" /\ SyscallNext
  <2>1. CASE \E name \in Programs, at \in Word : \E args \in Arguments :
               at + Len(args) < Words /\ sys_exec(name, at, args)
    <3>1. PICK name \in Programs, at \in Word, args \in Arguments :
            at + Len(args) < Words /\ sys_exec(name, at, args)
      BY <2>1
    <3>2. TaskInv' /\ ArgumentsPassed'
      BY <1>1, <3>1, ExecTask
    <3> QED
      BY <1>2, <3>2 DEF ArgvInv
  <2>2. CASE ~ \E name \in Programs, at \in Word : \E args \in Arguments :
               at + Len(args) < Words /\ sys_exec(name, at, args)
    <3>1. TaskInv' /\ ~Executed'
      BY <1>1, <1>2, <2>2, OtherCalls
    <3> QED
      BY <1>2, <3>1 DEF ArgvInv, ArgumentsPassed
  <2> QED
    BY <2>1, <2>2
<1>3. CASE UNCHANGED <<stack, regs, status, asked, calls>> /\ (phase' # "user" => phase # "user")
  BY <1>3 DEF ArgvInv, TaskInv, ArgumentsPassed, Executed
<1> QED
  BY <1>2, <1>3, TaskSteps DEF svars

\* A program that is started by exec() finds argc, its arguments in order and an
\* aligned stack, wherever on the stack the old program had put them, for stacks
\* and argument lists of every size.
THEOREM ExecPassesArguments == Spec => []ArgumentsPassed
<1>1. ArgvInv => ArgumentsPassed
  BY DEF ArgvInv
<1> QED
  BY <1>1, InitArgvInv, NextArgvInv, PTL DEF Spec

-----------------------------------------------------------------------------
\* A file that is copied over what is in memory is there completely, and what was
\* behind it is there still.
LEMMA Overwrites ==
    ASSUME NEW target \in Seq(Cell), NEW file \in Seq(Cell)
    PROVE  /\ Overwrite(target, file) \in Seq(Cell)
           /\ Start(Overwrite(target, file), Len(file)) = file
           /\ Len(Overwrite(target, file)) = IF Len(file) < Len(target) THEN Len(target) ELSE Len(file)
           /\ \A k \in Nat : Len(file) <= k /\ k < Len(target) =>
                               From(Overwrite(target, file), k) = From(target, k)
<1> DEFINE n == Len(file)
           m == Len(target)
           rest == SubSeq(target, n + 1, m)
           new == file \o rest
<1>1. n \in Nat /\ m \in Nat
  OBVIOUS
<1>2. /\ rest \in Seq(Cell) /\ Len(rest) \in Nat
      /\ Len(rest) = IF n < m THEN m - n ELSE 0
      /\ n < m => \A i \in 1 .. m - n : rest[i] = target[n + i]
  <2>1. \A i \in n + 1 .. m : target[i] \in Cell
    BY <1>1
  <2>2. n + 1 \in Int /\ m \in Int
    BY <1>1
  <2> QED
    BY <1>1, <2>1, <2>2, SubSeqProperties
<1> HIDE DEF rest
<1>3. /\ new \in Seq(Cell) /\ Len(new) = Len(file) + Len(rest)
      /\ \A i \in 1 .. Len(file) + Len(rest) :
           new[i] = IF i <= Len(file) THEN file[i] ELSE rest[i - Len(file)]
  BY <1>2, Concatenated
<1>4. Overwrite(target, file) = new
  BY DEF Overwrite, rest
<1> HIDE DEF new
<1>5. n \in 0 .. Len(new) /\ Start(new, n) = SubSeq(new, 1, n)
  <2>1. n <= Len(new) /\ Len(new) \in Nat
    BY <1>1, <1>2, <1>3
  <2>2. (IF n < Len(new) THEN n ELSE Len(new)) = n
    BY <1>1, <2>1
  <2> QED
    BY <1>1, <2>1, <2>2 DEF Start
<1>6. PICK w : w = SubSeq(new, 1, n)
  OBVIOUS
<1>7. w \in Seq(Cell) /\ Len(w) = n /\ \A i \in 1 .. n : w[i] = new[i]
  BY ONLY <1>3, <1>5, <1>6, Parts
<1>8. \A i \in 1 .. n : new[i] = file[i]
  BY <1>1, <1>2, <1>3
<1>9. w = file
  <2>1. Len(w) = Len(file) /\ \A i \in 1 .. Len(w) : w[i] = file[i]
    BY <1>7, <1>8
  <2> QED
    BY ONLY file \in Seq(Cell), <1>7, <2>1, SameCharacters
<1>10. Len(new) = IF n < m THEN m ELSE n
  BY <1>1, <1>2, <1>3
<1>11. ASSUME NEW k \in Nat, n <= k, k < m PROVE From(new, k) = From(target, k)
  <2>1. Len(new) = m /\ k \in 0 .. m
    BY <1>1, <1>10, <1>11
  <2>2. PICK x : x = SubSeq(new, k + 1, m)
    OBVIOUS
  <2>3. PICK y : y = SubSeq(target, k + 1, m)
    OBVIOUS
  <2>4. x \in Seq(Cell) /\ Len(x) = m - k /\ \A i \in 1 .. m - k : x[i] = new[k + i]
    BY ONLY <1>3, <2>1, <2>2, Parts
  <2>5. y \in Seq(Cell) /\ Len(y) = m - k /\ \A i \in 1 .. m - k : y[i] = target[k + i]
    BY ONLY target \in Seq(Cell), m = Len(target), <2>1, <2>3, Parts
  <2>6. ASSUME NEW i \in 1 .. m - k PROVE x[i] = y[i]
    <3>1. /\ k + i \in 1 .. n + (m - n) /\ ~(k + i <= n) /\ (k + i) - n \in 1 .. m - n
          /\ n + ((k + i) - n) = k + i /\ n < m
      BY <1>1, <1>11
    <3>2. new[k + i] = rest[(k + i) - n]
      BY <1>2, <1>3, <3>1
    <3> QED
      BY <1>2, <2>4, <2>5, <3>1, <3>2
  <2>7. x = y
    <3>1. Len(x) = Len(y) /\ \A i \in 1 .. Len(x) : x[i] = y[i]
      BY <2>4, <2>5, <2>6
    <3> QED
      BY ONLY <2>4, <2>5, <3>1, SameCharacters
  <2> QED
    BY <2>1, <2>2, <2>3, <2>7 DEF From
<1> QED
  BY <1>3, <1>4, <1>5, <1>6, <1>9, <1>10, <1>11

\* Where strlen() stops, and nowhere else.
LEMMA StrlenStops ==
    ASSUME NEW S, NEW s \in Seq(S)
    PROVE  /\ strlen(s) \in 0 .. Len(s)
           /\ \A i \in 0 .. Len(s) :
                i = strlen(s) <=>
                  (i = Len(s) \/ At(s, i) = NUL) /\ \A j \in 0 .. i - 1 : At(s, j) # NUL
<1> DEFINE n == Len(s)
           X == {i \in 0 .. n : At(s, i) = NUL}
           Stops(i) == (i = n \/ At(s, i) = NUL) /\ \A j \in 0 .. i - 1 : ~(At(s, j) = NUL)
<1>1. n \in Nat /\ \A i \in 0 .. n : \A j \in 0 .. i - 1 : j \in 0 .. n
  OBVIOUS
<1>2. PICK k \in 0 .. n :
        /\ k = n \/ k \in X
        /\ \A j \in 0 .. k - 1 : j \notin X
        /\ \A i \in 0 .. n : (i = n \/ i \in X) /\ (\A j \in 0 .. i - 1 : j \notin X) => i = k
  <2> HIDE DEF n, X
  <2> QED
    BY <1>1, StopsOnce
<1>3. Stops(k) /\ \A i \in 0 .. n : Stops(i) => i = k
  BY <1>1, <1>2
<1>4. strlen(s) = CHOOSE i \in 0 .. n : Stops(i)
  BY DEF strlen, FirstUpTo
<1>5. strlen(s) = k
  <2> HIDE DEF Stops, n
  <2> QED
    BY <1>3, <1>4
<1> QED
  BY <1>3, <1>5

\* A string stays what it is if its characters and its NUL do.
LEMMA StringStays ==
    ASSUME NEW S, NEW a \in Seq(S), NEW b \in Seq(S), Len(a) = Len(b),
           Len(CString(a)) < Len(a),
           \A i \in 1 .. Len(CString(a)) + 1 : a[i] = b[i]
    PROVE  CString(b) = CString(a)
<1> DEFINE n == Len(a)
<1>1. PICK k \in 0 .. n : k = strlen(a)
  BY StrlenStops
<1>2. PICK x : x = SubSeq(a, 1, k)
  OBVIOUS
<1>3. CString(a) = x
  BY <1>1, <1>2 DEF CString
<1>4. x \in Seq(S) /\ Len(x) = k /\ \A i \in 1 .. k : x[i] = a[i]
  BY ONLY a \in Seq(S), n = Len(a), k \in 0 .. n, <1>2, Parts
<1>5. n \in Nat /\ k \in Nat /\ k < n /\ n = Len(b) /\ \A i \in 1 .. k + 1 : a[i] = b[i]
  BY <1>3, <1>4
<1>6. \A j \in 0 .. k : At(a, j) = At(b, j)
  BY <1>5 DEF At
<1>7. At(a, k) = NUL /\ \A j \in 0 .. k - 1 : At(a, j) # NUL
  <2>1. k # Len(a)
    BY <1>5
  <2> QED
    BY <1>1, <2>1, StrlenStops
<1>8. At(b, k) = NUL /\ \A j \in 0 .. k - 1 : At(b, j) # NUL
  BY <1>5, <1>6, <1>7
<1>9. k = strlen(b)
  <2>1. k \in 0 .. Len(b)
    BY <1>5
  <2> QED
    BY <1>8, <2>1, StrlenStops
<1>10. PICK y : y = SubSeq(b, 1, k)
  OBVIOUS
<1>11. CString(b) = y
  BY <1>9, <1>10 DEF CString
<1>12. y \in Seq(S) /\ Len(y) = k /\ \A i \in 1 .. k : y[i] = b[i]
  <2>1. k \in 0 .. Len(b)
    BY <1>5
  <2> QED
    BY ONLY b \in Seq(S), <1>10, <2>1, Parts
<1>13. \A i \in 1 .. k : y[i] = x[i]
  BY <1>4, <1>5, <1>12
<1> QED
  BY <1>3, <1>4, <1>11, <1>12, <1>13, SameCharacters

\* The same at a pointer into the stack, below a place from which it is written,
LEMMA StackStringStays ==
    ASSUME NEW stk \in [Word -> Nat], NEW new \in [Word -> Nat], NEW sp \in 0 .. Words,
           \A w \in Word : w < sp => new[w] = stk[w],
           NEW img, NEW img2, NEW p \in 1 .. Words, p + Len(StringAt(stk, img, p)) <= sp
    PROVE  StringAt(new, img2, p) = StringAt(stk, img, p)
<1> DEFINE m == Words + 1 - p
           a == [i \in 1 .. m |-> stk[p + i - 2]]
           b == [i \in 1 .. m |-> new[p + i - 2]]
<1>1. Words \in Nat /\ p \in Nat /\ m \in Nat /\ \A i \in 1 .. m : p + i - 2 \in Word
  BY SyscallAssumption DEF Word
<1>2. StringAt(stk, img, p) = CString(a) /\ StringAt(new, img2, p) = CString(b)
  BY DEF StringAt
<1>3. /\ a \in Seq(Nat) /\ Len(a) = m /\ \A i \in 1 .. m : a[i] = stk[p + i - 2]
      /\ b \in Seq(Nat) /\ Len(b) = m /\ \A i \in 1 .. m : b[i] = new[p + i - 2]
  <2> HIDE DEF m
  <2>1. a \in [1 .. m -> Nat] /\ b \in [1 .. m -> Nat]
    BY <1>1
  <2>2. (\A i \in 1 .. m : a[i] = stk[p + i - 2]) /\ (\A i \in 1 .. m : b[i] = new[p + i - 2])
    OBVIOUS
  <2> HIDE DEF a, b
  <2>3. a \in Seq(Nat) /\ Len(a) = m /\ b \in Seq(Nat) /\ Len(b) = m
    BY <1>1, <2>1
  <2> QED
    BY <2>2, <2>3
<1> HIDE DEF a, b
<1>4. PICK k \in 0 .. m : k = Len(CString(a))
  <2>1. PICK j \in 0 .. m : j = strlen(a)
    BY <1>3, StrlenStops
  <2>2. PICK x : x = SubSeq(a, 1, j)
    OBVIOUS
  <2>3. Len(x) = j
    BY ONLY <1>3, <2>1, <2>2, Parts
  <2> QED
    BY <2>1, <2>2, <2>3 DEF CString
<1>5. p + k <= sp
  BY <1>2, <1>4
<1>6. k < m /\ \A i \in 1 .. k + 1 : i \in 1 .. m /\ p + i - 2 < sp
  BY <1>1, <1>5
<1>7. \A i \in 1 .. k + 1 : a[i] = b[i]
  BY <1>1, <1>3, <1>6
<1>8. CString(b) = CString(a)
  BY <1>3, <1>4, <1>6, <1>7, StringStays
<1> QED
  BY <1>2, <1>8

\* and at any other, but for one to where a file is put.
LEMMA ImageStringStays ==
    ASSUME NEW stk, NEW new, NEW img \in Seq(Cell), NEW file \in Seq(Cell),
           NEW p \in Nat, p \notin 1 .. Words,
           p \notin LoadAddress .. LoadAddress + Len(file) - 1
    PROVE  StringAt(new, Overwrite(img, file), p) = StringAt(stk, img, p)
<1> DEFINE n == Len(file)
           m == Len(img)
           laid == Overwrite(img, file)
<1>1. n \in Nat /\ m \in Nat /\ LoadAddress \in Nat
  BY DEF LoadAddress
<1>2. /\ Len(laid) = IF n < m THEN m ELSE n
      /\ \A k \in Nat : n <= k /\ k < m => From(laid, k) = From(img, k)
  BY Overwrites
<1>3. /\ StringAt(stk, img, p) = IF p \in LoadAddress .. LoadAddress + m - 1
                                 THEN CString(From(img, p - LoadAddress)) ELSE <<p>>
      /\ StringAt(new, laid, p) = IF p \in LoadAddress .. LoadAddress + Len(laid) - 1
                                  THEN CString(From(laid, p - LoadAddress)) ELSE <<p>>
  BY DEF StringAt
<1> HIDE DEF n, m, laid
<1>4. CASE p \in LoadAddress .. LoadAddress + m - 1
  <2>1. PICK k \in Nat : k = p - LoadAddress
    BY <1>1, <1>4
  <2>2. n <= k /\ k < m /\ n < m
    BY <1>1, <1>4, <2>1 DEF n
  <2>3. p \in LoadAddress .. LoadAddress + Len(laid) - 1
    BY <1>2, <1>4, <2>2
  <2>4. From(laid, k) = From(img, k)
    BY <1>2, <2>2
  <2> QED
    BY <1>3, <1>4, <2>1, <2>3, <2>4 DEF laid
<1>5. CASE p \notin LoadAddress .. LoadAddress + m - 1
  <2>1. p \notin LoadAddress .. LoadAddress + Len(laid) - 1
    BY <1>1, <1>2, <1>5 DEF n
  <2> QED
    BY <1>3, <1>5, <2>1 DEF laid
<1> QED
  BY <1>4, <1>5

\* What is in memory.
ImageInv ==
    /\ image \in Seq(Cell)
    /\ phase # "user" => asked = [call |-> "none"]
    /\ phase = "user" => archive \in Initramfs
    /\ ImageLoaded
    /\ StringsKept

\* exec() loads the first file of that name, and spares what is not below it.
LEMMA ExecImage ==
    ASSUME ImageInv, phase = "user", NEW name \in Programs, NEW at, NEW args \in Arguments,
           sys_exec(name, at, args), TaskInv', Recorded(name, args)
    PROVE  image' \in Seq(Cell) /\ ImageLoaded' /\ archive' = archive /\ StringsKept'
<1> DEFINE f == cpio_get_file(archive, name, DEFAULT_SIZE)
           file == Content(archive, f)
           known == Named(archive.files, name)
           data == FirstNamed(archive.files, name).data
<1>1. /\ image' = Overwrite(image, file) /\ archive' = archive
      /\ asked'.call = "exec" /\ asked'.name = name /\ asked'.args = args
  BY DEF sys_exec, cpio_move_file, Recorded
<1>2. Locates(archive, f, name) /\ file \in Seq(Cell)
  <2>1. Packed(archive) /\ name \in Seq(Code)
    BY SystemAssumption DEF ImageInv, Code
  <2> QED
    BY <2>1, CpioAssumption, FoundFile
<1>3. known # {} => file = data
  BY <1>2 DEF Locates
<1> HIDE DEF f, file, known, data
<1>4. image' \in Seq(Cell) /\ Start(image', Len(file)) = file
  BY <1>1, <1>2, Overwrites DEF ImageInv
<1>5. /\ Named(archive'.files, asked'.name) = known
      /\ FirstNamed(archive'.files, asked'.name).data = data
  BY <1>1 DEF known, data
<1>6. known # {} => Start(image', Len(data)) = data
  BY <1>3, <1>4
<1>7. ASSUME known # {}, NEW i \in 1 .. Len(args),
                  IF args[i] \in 1 .. Words THEN args[i] + Len(asked'.strings[i]) <= regs'.sp
                  ELSE args[i] \notin LoadAddress .. LoadAddress + Len(data) - 1
      PROVE  StringAt(stack', image', args[i]) = asked'.strings[i]
  <2>1. PICK stk \in [Word -> Nat] :
          /\ asked'.strings = [h \in 1 .. Len(args) |-> StringAt(stk, image, args[h])]
          /\ \A w \in Word : w < regs'.sp => stack'[w] = stk[w]
    BY DEF Recorded
  <2>2. stack' \in [Word -> Nat] /\ regs'.sp \in 0 .. Words
    BY DEF TaskInv
  <2>3. PICK p \in Nat : p = args[i]
    BY ArgsFacts
  <2>4. asked'.strings[i] = StringAt(stk, image, p)
    BY <2>1, <2>3
  <2>5. PICK sp \in 0 .. Words : sp = regs'.sp
    BY <2>2
  <2>6. IF p \in 1 .. Words THEN p + Len(StringAt(stk, image, p)) <= sp
        ELSE p \notin LoadAddress .. LoadAddress + Len(file) - 1
    BY <1>3, <1>7, <2>3, <2>4, <2>5
  <2>7. CASE p \in 1 .. Words
    <3>1. \A w \in Word : w < sp => stack'[w] = stk[w]
      BY <2>1, <2>5
    <3>2. p + Len(StringAt(stk, image, p)) <= sp
      BY <2>6, <2>7
    <3>3. StringAt(stack', image', p) = StringAt(stk, image, p)
      BY ONLY <2>2, <2>7, <3>1, <3>2, StackStringStays
    <3> QED
      BY <2>3, <2>4, <3>3
  <2>8. CASE p \notin 1 .. Words
    <3>1. p \notin LoadAddress .. LoadAddress + Len(file) - 1
      BY <2>6, <2>8
    <3>2. image \in Seq(Cell)
      BY DEF ImageInv
    <3>3. StringAt(stack', Overwrite(image, file), p) = StringAt(stk, image, p)
      BY <1>2, <2>8, <3>1, <3>2, ImageStringStays
    <3> QED
      BY <1>1, <2>3, <2>4, <3>3
  <2> QED
    BY <2>7, <2>8
<1>8. StringsKept'
  BY <1>1, <1>5, <1>7 DEF StringsKept, Spared
<1> QED
  BY <1>1, <1>4, <1>5, <1>6, <1>8 DEF ImageLoaded

LEMMA NextImageInv == ArgvInv /\ ImageInv /\ [Next]_vars => ImageInv'
<1> SUFFICES ASSUME ArgvInv, ImageInv, [Next]_vars PROVE ImageInv'
  OBVIOUS
<1>1. TaskInv
  BY DEF ArgvInv
<1>2. CASE phase = "user" /\ phase' = "user" /\ SyscallNext
  <2>1. CASE \E name \in Programs, at \in Word : \E args \in Arguments :
               at + Len(args) < Words /\ sys_exec(name, at, args)
    <3>1. PICK name \in Programs, at \in Word, args \in Arguments :
            at + Len(args) < Words /\ sys_exec(name, at, args)
      BY <2>1
    <3>0. TaskInv' /\ Recorded(name, args)
      BY <1>1, <3>1, ExecTask
    <3>2. image' \in Seq(Cell) /\ ImageLoaded' /\ archive' = archive /\ StringsKept'
      BY <1>2, <3>0, <3>1, ExecImage
    <3> QED
      BY <1>2, <3>2 DEF ImageInv
  <2>2. CASE ~ \E name \in Programs, at \in Word : \E args \in Arguments :
               at + Len(args) < Words /\ sys_exec(name, at, args)
    <3>1. ~Executed' /\ UNCHANGED <<archive, image>>
      BY <1>1, <1>2, <2>2, OtherCalls
    <3> QED
      BY <1>2, <3>1 DEF ImageInv, ImageLoaded, StringsKept
  <2> QED
    BY <2>1, <2>2
<1>3. CASE /\ phase # "user" /\ phase' = "user" /\ archive' \in Initramfs
           /\ UNCHANGED <<stack, regs, image, status, asked, calls>>
  <2>1. ~Executed'
    BY <1>3 DEF ImageInv, Executed
  <2> QED
    BY <1>3, <2>1 DEF ImageInv, ImageLoaded, StringsKept
<1>4. CASE UNCHANGED svars /\ (phase' = "user" <=> phase = "user")
  BY <1>4 DEF ImageInv, ImageLoaded, StringsKept, Spared, Executed, svars
<1> QED
  BY <1>2, <1>3, <1>4, TaskSteps

LEMMA ImageInvariant == Spec => [](ArgvInv /\ ImageInv)
<1>1. Init => ImageInv
  <2> SUFFICES ASSUME Init PROVE ImageInv
    OBVIOUS
  <2>1. phase = "boot" /\ asked = [call |-> "none"] /\ image = <<>>
    BY DEF Init, SyscallInit
  <2>2. <<>> \in Seq(Cell)
    OBVIOUS
  <2>3. ~Executed
    BY <2>1 DEF Executed
  <2> QED
    BY <2>1, <2>2, <2>3 DEF ImageInv, ImageLoaded, StringsKept
<1> QED
  BY <1>1, InitArgvInv, NextArgvInv, NextImageInv, PTL DEF Spec

\* A program that is started by exec() finds itself, all bytes of the first file of
\* that name, whatever was loaded there before, and the pointers of its arguments;
\* and an argument is the string it was, unless it is in memory that the program or
\* its argv[] has been put on (src/sys.c:94 writes it before argv[] is read).
THEOREM ExecAlwaysRight == Spec => []ExecRight
<1>1. ArgvInv /\ ImageInv => ExecRight
  BY DEF ArgvInv, ImageInv, ExecRight
<1> QED
  BY <1>1, ImageInvariant, PTL

\* Every variable of the machine keeps its type from power-on: the command line stays
\* in its buffer, sp in the user stack, and the program at LoadAddress is made of
\* bytes.  Of the size that the bootloader reads only the type is claimed.
THEOREM SystemTypeCorrect == Spec => []SystemTypeOK
<1>1. ArgvInv /\ ImageInv => SyscallTypeOK
  BY DEF ArgvInv, ImageInv, TaskInv, SyscallTypeOK, Cell, Byte
<1>2. BootTypeOK /\ MboxTypeOK /\ SyscallTypeOK => SystemTypeOK
  BY DEF SystemTypeOK
<1> QED
  BY <1>1, <1>2, MachineContainsParts, BootTypeCorrect, MboxTypeCorrect, ImageInvariant, PTL

-----------------------------------------------------------------------------
(***************************************************************************)
(* printf.  The digit of weight p of n is (n \div p) % base; ui2a divides  *)
(* them off from the first one on.                                         *)
(***************************************************************************)
\* Dividing by a product.
LEMMA DivProduct ==
    ASSUME NEW n \in Nat, NEW p \in Nat \ {0}, NEW b \in Nat \ {0}
    PROVE  /\ n \div p \in Nat /\ n % p \in Nat /\ n % (p * b) \in Nat
           /\ (n \div p) \div b = n \div (p * b)
           /\ (n % (p * b)) \div p = (n \div p) % b
           /\ (n % (p * b)) % p = n % p
<1> DEFINE q == n \div p
           r == n % p
           h == q \div b
           d == q % b
<1>0. p * b \in Nat \ {0} /\ n \in Int
  <2>1. p * b >= p /\ p * b \in Int
    BY ProductGrows
  <2> QED
    BY <2>1
<1>1. r \in 0 .. p - 1 /\ q \in Int /\ n = p * q + r
  BY <1>0, DivMod
<1>2. d \in 0 .. b - 1 /\ h \in Int /\ q = b * h + d
  <2> HIDE DEF q
  <2> QED
    BY <1>1, DivMod
<1>3. q >= 0
  <2> HIDE DEF q, r
  <2>1. -q \in Int /\ (q < 0 => -q >= 1) /\ p * (-q) = -(p * q)
    BY <1>1
  <2>2. -q >= 1 => p * (-q) >= p
    BY <2>1, ProductGrows
  <2> QED
    BY <1>1, <2>1, <2>2
<1>4. PICK e \in Int : e = p * d + r
  BY <1>1, <1>2
<1>5. n = (p * b) * h + e /\ e \in 0 .. p * b - 1
  <2> HIDE DEF q, r, h, d
  <2>1. n = (p * b) * h + e
    BY <1>1, <1>2, <1>4
  <2>2. p * d <= p * (b - 1) /\ p * d >= 0 /\ p * d \in Int /\ p * (b - 1) = p * b - p
    <3>1. d \in Int /\ b - 1 \in Int /\ d <= b - 1 /\ 0 \in Int /\ 0 <= d /\ p * 0 = 0
      BY <1>2
    <3>2. p * d <= p * (b - 1) /\ p * 0 <= p * d
      BY <3>1, ProductOrder
    <3> QED
      BY <3>1, <3>2
  <2> QED
    BY <1>1, <1>4, <2>1, <2>2
<1>6. n \div (p * b) = h /\ n % (p * b) = e
  <2> HIDE DEF q, r, h, d
  <2>1. PICK m \in Nat \ {0} : m = p * b
    BY <1>0
  <2>2. n = m * h + e /\ e \in 0 .. m - 1
    BY <1>5, <2>1
  <2>3. n % m = e /\ n \div m = h
    BY <1>0, <1>2, <2>2, ModUnique
  <2> QED
    BY <2>1, <2>3
<1>7. e \div p = d /\ e % p = r
  <2> HIDE DEF q, r, h, d
  <2> QED
    BY <1>1, <1>2, <1>4, ModUnique
<1>8. q \in Nat /\ r \in Nat /\ e \in Nat
  <2> HIDE DEF q, r, h, d
  <2> QED
    BY <1>0, <1>1, <1>3, <1>5
<1> QED
  BY <1>6, <1>7, <1>8

\* A quotient is below b as long as the number is below the product.
LEMMA DivBelow ==
    ASSUME NEW n \in Nat, NEW p \in Nat \ {0}, NEW b \in Nat \ {0}
    PROVE  n \div p < b <=> n < p * b
<1>1. PICK q \in Int, r \in 0 .. p - 1 : q = n \div p /\ n = p * q + r
  BY DivMod
<1>2. CASE q < b
  <2>1. p * q <= p * (b - 1) /\ p * (b - 1) = p * b - p
    <3>1. b - 1 \in Int /\ q <= b - 1
      BY <1>2
    <3> QED
      BY <3>1, ProductOrder
  <2> QED
    BY <1>1, <1>2, <2>1
<1>3. CASE q >= b
  <2>1. p * b <= p * q
    BY <1>3, ProductOrder
  <2> QED
    BY <1>1, <1>3, <2>1
<1> QED
  BY <1>1, <1>2, <1>3

\* The powers of a base grow.
LEMMA PowAbove ==
    ASSUME NEW base \in Nat \ {0, 1}, NEW n \in Nat
    PROVE  pow(base, n) > n
<1> DEFINE X == {i \in 0 .. n : pow(base, i) > i}
<1>1. \A i \in Nat : pow(base, i) \in Nat /\ pow(base, i + 1) = pow(base, i) * base
  BY PowNext
<1>2. 0 \in X
  BY PowNext
<1>3. ASSUME NEW i \in 0 .. n - 1, i \in X PROVE i + 1 \in X
  <2>1. PICK w \in Nat : w = pow(base, i) /\ w > i /\ pow(base, i + 1) = w * base
    BY <1>1, <1>3
  <2>2. w * base > i + 1
    <3>1. w \in Nat \ {0} /\ 2 \in Int /\ 2 <= base /\ base \in Int
      BY <2>1
    <3>2. w * 2 <= w * base
      BY ONLY <3>1, ProductOrder
    <3> QED
      BY <2>1, <3>2
  <2>3. i + 1 \in 0 .. n
    OBVIOUS
  <2> QED
    BY <2>1, <2>2, <2>3
<1>4. n \in X
  <2> HIDE DEF X
  <2> QED
    BY <1>2, <1>3, Reaches
<1> QED
  BY <1>4

\* The powers of sixteen are no less than those of ten.
LEMMA PowSixteen ==
    ASSUME NEW n \in Nat
    PROVE  pow(16, n) >= pow(10, n)
<1> DEFINE X == {i \in 0 .. n : pow(16, i) >= pow(10, i)}
<1>1. \A i \in Nat : /\ pow(16, i) \in Nat /\ pow(16, i + 1) = pow(16, i) * 16
                     /\ pow(10, i) \in Nat /\ pow(10, i + 1) = pow(10, i) * 10
                     /\ pow(16, 0) = 1 /\ pow(10, 0) = 1
  BY PowNext
<1>2. 0 \in X
  BY <1>1
<1>3. ASSUME NEW i \in 0 .. n - 1, i \in X PROVE i + 1 \in X
  <2>1. /\ pow(16, i) >= pow(10, i) /\ pow(16, i) \in Nat /\ pow(10, i) \in Nat
        /\ pow(16, i + 1) = pow(16, i) * 16 /\ pow(10, i + 1) = pow(10, i) * 10
    BY <1>1, <1>3
  <2>2. i + 1 \in 0 .. n
    OBVIOUS
  <2> QED
    BY <2>1, <2>2
<1>4. n \in X
  <2> HIDE DEF X
  <2> QED
    BY <1>2, <1>3, Reaches
<1> QED
  BY <1>4

\* The first loop of ui2a stops at the weight of the first digit.
LEMMA RoundsFacts ==
    ASSUME NEW num \in Nat, NEW base \in Nat \ {0, 1}
    PROVE  /\ Rounds(num, base) \in 0 .. num
           /\ num < pow(base, Rounds(num, base) + 1)
           /\ \A j \in 1 .. Rounds(num, base) : num >= pow(base, j)
           /\ NrDigits(num, base) = Rounds(num, base) + 1
<1> DEFINE X == {k \in Nat : num \div pow(base, k) < base}
<1>1. \A k \in Nat : pow(base, k) \in Nat \ {0} /\ pow(base, k + 1) = pow(base, k) * base
  BY PowNext, PowPositive
<1>2. \A k \in Nat : k \in X <=> num < pow(base, k + 1)
  <2> SUFFICES ASSUME NEW k \in Nat PROVE k \in X <=> num < pow(base, k + 1)
    OBVIOUS
  <2>1. PICK p \in Nat \ {0} : p = pow(base, k) /\ pow(base, k + 1) = p * base
    BY <1>1
  <2>2. num \div p < base <=> num < p * base
    BY DivBelow
  <2> QED
    BY <2>1, <2>2
<1>3. Rounds(num, base) = CHOOSE i \in 0 .. num :
                            (i = num \/ num \div pow(base, i) < base)
                            /\ \A j \in 0 .. i - 1 : ~(num \div pow(base, j) < base)
  BY DEF Rounds, FirstUpTo
<1>4. \A i \in 0 .. num : i \in X <=> num \div pow(base, i) < base
  OBVIOUS
<1> HIDE DEF X
<1>5. PICK r \in 0 .. num :
        /\ r = num \/ r \in X
        /\ \A j \in 0 .. r - 1 : j \notin X
        /\ \A i \in 0 .. num : (i = num \/ i \in X) /\ (\A j \in 0 .. i - 1 : j \notin X) => i = r
  BY StopsOnce
<1>6. \A i \in 0 .. num :
        ((i = num \/ num \div pow(base, i) < base)
         /\ \A j \in 0 .. i - 1 : ~(num \div pow(base, j) < base)) <=> i = r
  <2> SUFFICES ASSUME NEW i \in 0 .. num
               PROVE  ((i = num \/ num \div pow(base, i) < base)
                       /\ \A j \in 0 .. i - 1 : ~(num \div pow(base, j) < base)) <=> i = r
    OBVIOUS
  <2>1. \A j \in 0 .. i - 1 : j \in 0 .. num
    OBVIOUS
  <2>2. (\A j \in 0 .. i - 1 : ~(num \div pow(base, j) < base))
          <=> \A j \in 0 .. i - 1 : j \notin X
    BY <1>4, <2>1
  <2> QED
    BY <1>4, <1>5, <2>2
<1>7. Rounds(num, base) = r
  BY <1>3, <1>6
<1>8. num < pow(base, r + 1)
  <2>1. num \in X
    <3>1. pow(base, num + 1) > num + 1
      BY PowAbove
    <3> QED
      BY <1>1, <1>2, <3>1
  <2> QED
    BY <1>2, <1>5, <2>1
<1>9. \A j \in 1 .. r : num >= pow(base, j)
  <2> SUFFICES ASSUME NEW j \in 1 .. r PROVE num >= pow(base, j)
    OBVIOUS
  <2>1. j - 1 \in 0 .. r - 1 /\ j - 1 \in Nat /\ (j - 1) + 1 = j /\ j \in Nat
    OBVIOUS
  <2>2. ~(num < pow(base, j))
    BY <1>2, <1>5, <2>1
  <2> QED
    BY <1>1, <2>1, <2>2
<1>10. NrDigits(num, base) = r + 1
  <2> DEFINE P(k) == num < pow(base, k) /\ \A j \in 1 .. k - 1 : num >= pow(base, j)
  <2>1. NrDigits(num, base) = CHOOSE k \in 1 .. num + 1 : P(k)
    BY DEF NrDigits
  <2>2. r + 1 \in 1 .. num + 1 /\ P(r + 1)
    BY <1>8, <1>9
  <2>3. ASSUME NEW k \in 1 .. num + 1, P(k) PROVE k = r + 1
    <3>1. ~(k <= r)
      <4>1. k <= r => num >= pow(base, k)
        BY <1>9
      <4>2. k \in Nat /\ pow(base, k) \in Nat /\ num < pow(base, k)
        BY <1>1, <2>3
      <4> QED
        BY <4>1, <4>2
    <3>2. ~(k > r + 1)
      <4>1. k > r + 1 => num >= pow(base, r + 1)
        BY <2>3
      <4>2. pow(base, r + 1) \in Nat
        BY <1>1
      <4> QED
        BY <1>8, <4>1, <4>2
    <3> QED
      BY <3>1, <3>2
  <2> HIDE DEF P
  <2> QED
    BY <2>1, <2>2, <2>3
<1> QED
  BY <1>7, <1>8, <1>9, <1>10

-----------------------------------------------------------------------------
\* The second loop of ui2a.
DigitLoop(loop, num, base, uc) ==
    loop = [i \in 0 .. Rounds(num, base) + 1 |->
              IF i = 0 THEN [num |-> num, d |-> pow(base, Rounds(num, base)), bf |-> <<>>]
              ELSE WriteDigit(loop[i - 1], base, uc)]

\* After i of its rounds, r being the rounds of the first loop.
DigitsOf(num, base, uc, r, i) ==
    [j \in 1 .. i |-> DigitChar((num \div pow(base, r + 1 - j)) % base, uc)]

AfterDigits(num, base, uc, r, i) ==
    IF i <= r
    THEN [num |-> num % pow(base, r + 1 - i), d |-> pow(base, r - i),
          bf |-> DigitsOf(num, base, uc, r, i)]
    ELSE [num |-> num % 1, d |-> 0, bf |-> DigitsOf(num, base, uc, r, r + 1)]

\* One more digit.
LEMMA DigitsNext ==
    ASSUME NEW num \in Nat, NEW base \in Nat \ {0, 1}, NEW uc \in BOOLEAN, NEW r \in Nat,
           NEW i \in 0 .. r
    PROVE  DigitsOf(num, base, uc, r, i + 1) =
             Append(DigitsOf(num, base, uc, r, i), DigitChar((num \div pow(base, r - i)) % base, uc))
<1> DEFINE D(j) == DigitChar((num \div pow(base, r + 1 - j)) % base, uc)
           a == DigitsOf(num, base, uc, r, i)
           b == DigitsOf(num, base, uc, r, i + 1)
           S == {D(j) : j \in 1 .. i + 1}
<1>1. a = [j \in 1 .. i |-> D(j)] /\ b = [j \in 1 .. i + 1 |-> D(j)]
  BY DEF DigitsOf
<1>2. i \in Nat /\ i + 1 \in Nat /\ i + 1 \in 1 .. i + 1 /\ r + 1 - (i + 1) = r - i
      /\ \A j \in 1 .. i : j \in 1 .. i + 1
  OBVIOUS
<1>3. \A j \in 1 .. i + 1 : D(j) \in S
  OBVIOUS
<1>4. D(i + 1) = DigitChar((num \div pow(base, r - i)) % base, uc)
  BY <1>2
<1> HIDE DEF D, a, b, S
<1>5. a \in Seq(S) /\ Len(a) = i /\ b \in Seq(S) /\ Len(b) = i + 1 /\ D(i + 1) \in S
  BY <1>1, <1>2, <1>3
<1>6. /\ Append(a, D(i + 1)) \in Seq(S) /\ Len(Append(a, D(i + 1))) = i + 1
      /\ \A j \in 1 .. i : Append(a, D(i + 1))[j] = a[j]
      /\ Append(a, D(i + 1))[i + 1] = D(i + 1)
  BY <1>5, AppendProperties
<1>7. \A j \in 1 .. i + 1 : b[j] = Append(a, D(i + 1))[j]
  <2> SUFFICES ASSUME NEW j \in 1 .. i + 1 PROVE b[j] = Append(a, D(i + 1))[j]
    OBVIOUS
  <2>1. b[j] = D(j)
    BY <1>1
  <2>2. CASE j = i + 1
    BY <1>6, <2>1, <2>2
  <2>3. CASE j # i + 1
    <3>1. j \in 1 .. i
      BY <1>2, <2>3
    <3>2. a[j] = D(j)
      BY <1>1, <3>1
    <3> QED
      BY <1>6, <2>1, <3>1, <3>2
  <2> QED
    BY <2>2, <2>3
<1>8. b = Append(a, D(i + 1))
  BY <1>5, <1>6, <1>7, SameCharacters
<1> QED
  BY <1>4, <1>8 DEF a, b

LEMMA DigitWritten ==
    ASSUME NEW m, NEW p, NEW a, NEW base, NEW uc, p # 0
    PROVE  WriteDigit([num |-> m, d |-> p, bf |-> a], base, uc) =
             [num |-> m % p, d |-> p \div base,
              bf |-> IF a # <<>> \/ m \div p > 0 \/ p \div base = 0
                     THEN Append(a, DigitChar(m \div p, uc)) ELSE a]
  BY DEF WriteDigit

\* A round of the second loop.
LEMMA DigitRound ==
    ASSUME NEW num \in Nat, NEW base \in Nat \ {0, 1}, NEW uc \in BOOLEAN, NEW r \in Nat,
           num < pow(base, r + 1), \A j \in 1 .. r : num >= pow(base, j),
           NEW i \in Nat
    PROVE  WriteDigit(AfterDigits(num, base, uc, r, i), base, uc) =
             AfterDigits(num, base, uc, r, i + 1)
<1> DEFINE s == AfterDigits(num, base, uc, r, i)
           t == AfterDigits(num, base, uc, r, i + 1)
<1>1. CASE i > r
  <2>1. ~(i <= r) /\ ~(i + 1 <= r)
    BY <1>1
  <2>2. s = t /\ s.d = 0
    BY <2>1 DEF AfterDigits
  <2> HIDE DEF s, t
  <2>3. WriteDigit(s, base, uc) = t
    BY <2>2 DEF WriteDigit
  <2> QED
    BY <2>3 DEF s, t
<1>2. CASE i <= r
  <2>1. PICK k \in Nat : k = r - i
    BY <1>2
  <2>2. r + 1 - i = k + 1
    BY <2>1
  <2>3. PICK p \in Nat \ {0} : p = pow(base, k) /\ pow(base, k + 1) = p * base
    BY PowNext, PowPositive
  <2> DEFINE a == DigitsOf(num, base, uc, r, i)
             m == num % (p * base)
             dgt == m \div p
  <2>4. s = [num |-> m, d |-> p, bf |-> a]
    BY <1>2, <2>1, <2>2, <2>3 DEF AfterDigits
  <2>5. /\ dgt = (num \div p) % base /\ m % p = num % p /\ num \div p \in Nat
        /\ m \in Nat /\ base \in Nat \ {0} /\ dgt \in Nat
    <3>0. base \in Nat \ {0}
      OBVIOUS
    <3>1. /\ m \in Nat /\ num \div p \in Nat
          /\ dgt = (num \div p) % base /\ m % p = num % p
      BY ONLY num \in Nat, p \in Nat \ {0}, <3>0, DivProduct, ZenonT(60)
    <3>2. (num \div p) % base \in 0 .. base - 1
      <4>1. PICK q \in Int : q = num \div p
        BY <3>1
      <4>2. q % base \in 0 .. base - 1
        BY DivMod
      <4> QED
        BY <4>1, <4>2
    <3> HIDE DEF m, dgt
    <3> QED
      BY <3>0, <3>1, <3>2
  <2> HIDE DEF m, dgt
  <2>6. a # <<>> <=> i # 0
    <3>1. a = [j \in 1 .. i |-> DigitChar((num \div pow(base, r + 1 - j)) % base, uc)]
      BY DEF DigitsOf
    <3>2. DOMAIN a = 1 .. i
      BY <3>1
    <3>3. DOMAIN <<>> = 1 .. 0
      OBVIOUS
    <3>4. i # 0 => 1 \in 1 .. i /\ 1 \notin 1 .. 0
      OBVIOUS
    <3>5. i = 0 => a = <<>>
      BY <3>1
    <3> QED
      BY <3>2, <3>3, <3>4, <3>5
  <2>7. CASE k = 0
    <3>1. p = 1 /\ p \div base = 0
      <4>1. p = 1
        BY <2>3, <2>7, PowNext
      <4>2. 1 \div base = 0
        <5>1. 1 \in Int /\ base \in Nat \ {0} /\ 0 \in Int /\ 1 \in 0 .. base - 1 /\ 1 = base * 0 + 1
          OBVIOUS
        <5> QED
          BY <5>1, ModUnique
      <4> QED
        BY <4>1, <4>2
    <3>2. WriteDigit(s, base, uc) =
            [num |-> num % 1, d |-> 0, bf |-> Append(a, DigitChar(dgt, uc))]
      <4>1. p # 0
        OBVIOUS
      <4> HIDE DEF s, a
      <4>2. WriteDigit(s, base, uc) =
              [num |-> m % p, d |-> p \div base,
               bf |-> IF a # <<>> \/ m \div p > 0 \/ p \div base = 0
                      THEN Append(a, DigitChar(m \div p, uc)) ELSE a]
        BY <2>4, <4>1, DigitWritten
      <4> QED
        BY <2>5, <3>1, <4>2 DEF dgt
    <3>3. i = r /\ ~(i + 1 <= r)
      BY <2>1, <2>7
    <3>4. t = [num |-> num % 1, d |-> 0, bf |-> DigitsOf(num, base, uc, r, i + 1)]
      BY <3>3 DEF AfterDigits
    <3>5. DigitsOf(num, base, uc, r, i + 1) = Append(a, DigitChar(dgt, uc))
      <4>1. i \in 0 .. r
        BY <1>2
      <4> QED
        BY <2>1, <2>3, <2>5, <4>1, DigitsNext, SMTT(60)
    <3> QED
      BY <3>2, <3>4, <3>5
  <2>8. CASE k # 0
    <3>1. PICK e \in Nat : e = k - 1 /\ e + 1 = k
      BY <2>8
    <3>2. PICK w \in Nat \ {0} : w = pow(base, e) /\ p = w * base
      <4>1. pow(base, e) \in Nat \ {0} /\ pow(base, e + 1) = pow(base, e) * base
        BY PowNext, PowPositive
      <4> QED
        BY <2>3, <3>1, <4>1
    <3>3. p \div base = w
      <4>1. p \in Int /\ base \in Nat \ {0} /\ w \in Int /\ 0 \in 0 .. base - 1 /\ p = base * w + 0
        BY <3>2
      <4> QED
        BY <4>1, ModUnique
    <3>4. a # <<>> \/ dgt > 0
      <4>1. CASE i # 0
        BY <2>6, <4>1
      <4>2. CASE i = 0
        <5>1. k = r /\ r \in 1 .. r
          BY <2>1, <2>8, <4>2
        <5>2. num >= p /\ num < p * base
          BY <2>3, <5>1
        <5>3. m = num
          <6>1. PICK z \in Nat \ {0} : z = p * base
            BY <5>2
          <6>2. num \in Int /\ 0 \in Int /\ num \in 0 .. z - 1 /\ num = z * 0 + num
            BY <5>2, <6>1
          <6>3. num % z = num
            BY <6>2, ModUnique
          <6> QED
            BY <6>1, <6>3 DEF m
        <5>4. ~(num \div p < 1)
          <6>1. 1 \in Nat \ {0} /\ ~(num < p * 1)
            BY <5>2
          <6> QED
            BY <6>1, DivBelow
        <5> QED
          BY <2>5, <5>3, <5>4 DEF dgt
      <4> QED
        BY <4>1, <4>2
    <3>5. WriteDigit(s, base, uc) =
            [num |-> num % p, d |-> w, bf |-> Append(a, DigitChar(dgt, uc))]
      <4>1. p # 0
        OBVIOUS
      <4> HIDE DEF s, a
      <4>2. WriteDigit(s, base, uc) =
              [num |-> m % p, d |-> p \div base,
               bf |-> IF a # <<>> \/ m \div p > 0 \/ p \div base = 0
                      THEN Append(a, DigitChar(m \div p, uc)) ELSE a]
        BY <2>4, <4>1, DigitWritten
      <4> QED
        BY <2>5, <3>3, <3>4, <4>2 DEF dgt
    <3>6. i + 1 <= r /\ r + 1 - (i + 1) = k /\ r - (i + 1) = e
      BY <2>1, <2>8, <3>1
    <3>7. t = [num |-> num % p, d |-> w, bf |-> DigitsOf(num, base, uc, r, i + 1)]
      BY <2>3, <3>2, <3>6 DEF AfterDigits
    <3>8. DigitsOf(num, base, uc, r, i + 1) = Append(a, DigitChar(dgt, uc))
      <4>1. i \in 0 .. r
        BY <1>2
      <4> QED
        BY <2>1, <2>3, <2>5, <4>1, DigitsNext, SMTT(60)
    <3> QED
      BY <3>5, <3>7, <3>8
  <2> QED
    BY <2>7, <2>8
<1> QED
  BY <1>1, <1>2

\* ui2a writes the digits of its number.
LEMMA UnsignedWritten ==
    ASSUME NEW num \in Nat, NEW base \in Nat \ {0, 1}, NEW uc \in BOOLEAN
    PROVE  ui2a(num, base, uc) = Positional(num, base, uc)
<1> DEFINE r == Rounds(num, base)
           E(i) == AfterDigits(num, base, uc, r, i)
           f == [i \in 0 .. r + 1 |-> E(i)]
           loop == CHOOSE g : DigitLoop(g, num, base, uc)
           X == {i \in 0 .. r + 1 : loop[i] = E(i)}
<1>1. /\ r \in 0 .. num /\ r \in Nat /\ num < pow(base, r + 1)
      /\ \A j \in 1 .. r : num >= pow(base, j)
      /\ NrDigits(num, base) = r + 1
  BY RoundsFacts
<1>2. ui2a(num, base, uc) = loop[r + 1].bf
  BY DEF ui2a, DigitLoop
<1> HIDE DEF r
<1>3. \A i \in Nat : WriteDigit(E(i), base, uc) = E(i + 1)
  BY <1>1, DigitRound
<1>4. E(0) = [num |-> num, d |-> pow(base, r), bf |-> <<>>]
  <2>1. 0 <= r /\ r + 1 - 0 = r + 1 /\ r - 0 = r
    BY <1>1
  <2>2. DigitsOf(num, base, uc, r, 0) = <<>>
    BY DEF DigitsOf
  <2>3. num % pow(base, r + 1) = num
    <3>1. PICK z \in Nat \ {0} : z = pow(base, r + 1)
      BY <1>1, PowPositive
    <3>2. num \in Int /\ 0 \in Int /\ num \in 0 .. z - 1 /\ num = z * 0 + num
      BY <1>1, <3>1
    <3>3. num % z = num
      BY <3>2, ModUnique
    <3> QED
      BY <3>1, <3>3
  <2> QED
    BY <2>1, <2>2, <2>3 DEF AfterDigits
<1> HIDE DEF E
<1>5. DigitLoop(f, num, base, uc)
  <2>1. ASSUME NEW i \in 0 .. r + 1
        PROVE  f[i] = IF i = 0 THEN [num |-> num, d |-> pow(base, r), bf |-> <<>>]
                      ELSE WriteDigit(f[i - 1], base, uc)
    <3>1. CASE i = 0
      BY <1>4, <3>1
    <3>2. CASE i # 0
      <4>1. i - 1 \in 0 .. r + 1 /\ i - 1 \in Nat /\ (i - 1) + 1 = i
        BY <1>1, <3>2
      <4>2. f[i - 1] = E(i - 1) /\ f[i] = E(i)
        BY <4>1
      <4>3. WriteDigit(E(i - 1), base, uc) = E(i)
        BY <1>3, <4>1
      <4> QED
        BY <3>2, <4>2, <4>3
    <3> QED
      BY <3>1, <3>2
  <2>2. f = [i \in 0 .. r + 1 |-> f[i]]
    OBVIOUS
  <2> HIDE DEF f
  <2> QED
    BY <2>1, <2>2 DEF DigitLoop, r
<1>6. DigitLoop(loop, num, base, uc)
  <2> HIDE DEF f
  <2> QED
    BY <1>5
<1> HIDE DEF loop, f
<1>7. \A i \in 0 .. r + 1 :
        loop[i] = IF i = 0 THEN [num |-> num, d |-> pow(base, r), bf |-> <<>>]
                  ELSE WriteDigit(loop[i - 1], base, uc)
  BY <1>6 DEF DigitLoop, r
<1>8. 0 \in X
  BY <1>1, <1>4, <1>7
<1>9. ASSUME NEW i \in 0 .. (r + 1) - 1, i \in X PROVE i + 1 \in X
  <2>1. i + 1 \in 0 .. r + 1 /\ i + 1 # 0 /\ (i + 1) - 1 = i /\ i \in Nat
    BY <1>1
  <2>2. loop[i + 1] = WriteDigit(E(i), base, uc)
    BY <1>7, <1>9, <2>1
  <2> QED
    BY <1>3, <2>1, <2>2
<1>10. r + 1 \in X
  <2> HIDE DEF X
  <2>1. r + 1 \in Nat /\ r + 1 \in 0 .. r + 1
    BY <1>1
  <2> QED
    BY <1>8, <1>9, <2>1, Reaches
<1>11. E(r + 1).bf = DigitsOf(num, base, uc, r, r + 1)
  <2>1. ~(r + 1 <= r)
    BY <1>1
  <2> QED
    BY <2>1 DEF E, AfterDigits
<1>12. DigitsOf(num, base, uc, r, r + 1) = Positional(num, base, uc)
  BY <1>1 DEF DigitsOf, Positional
<1> QED
  BY <1>2, <1>10, <1>11, <1>12

\* The characters of the digits.
LEMMA DigitCode ==
    ASSUME NEW dgt \in 0 .. 15, NEW uc \in BOOLEAN
    PROVE  /\ DigitChar(dgt, uc) \in Code
           /\ dgt < 10 => DigitChar(dgt, uc) \in Digits /\ a2d(DigitChar(dgt, uc)) = dgt
           /\ dgt # 0 => DigitChar(dgt, uc) # Zero
  BY DEF DigitChar, Code, Digits, Zero, a2d

Bases == {10, 16}

\* The digits of a number; no digit is left over before the first one, which is
\* not zero unless the number is, and those of a word fit in bf[].
LEMMA PositionalFacts ==
    ASSUME NEW num \in Nat, NEW base \in Bases, NEW uc \in BOOLEAN
    PROVE  LET s == Positional(num, base, uc)
               n == NrDigits(num, base)
           IN  /\ n \in Nat \ {0} /\ s \in Seq(Code) /\ Len(s) = n
               /\ \A i \in 1 .. n : /\ (num \div pow(base, n - i)) % base \in 0 .. base - 1
                                    /\ s[i] = DigitChar((num \div pow(base, n - i)) % base, uc)
               /\ num < pow(base, n)
               /\ num # 0 => s[1] # Zero
               /\ num < WORD => n <= BF - 2
<1> DEFINE s == Positional(num, base, uc)
           n == NrDigits(num, base)
           r == Rounds(num, base)
           D(i) == (num \div pow(base, n - i)) % base
<1>0. base \in Nat \ {0, 1} /\ base \in Nat \ {0} /\ base <= 16 /\ num \in Int /\ BF \in Nat
  BY PrintfAssumption DEF Bases
<1>1. /\ r \in Nat /\ n = r + 1 /\ num < pow(base, r + 1)
      /\ \A j \in 1 .. r : num >= pow(base, j)
  BY <1>0, RoundsFacts
<1>2. s = [i \in 1 .. n |-> DigitChar(D(i), uc)]
  BY DEF Positional
<1> HIDE DEF n, r, s
<1>3. ASSUME NEW i \in 1 .. n PROVE D(i) \in 0 .. base - 1
  <2>1. n - i \in Nat
    BY <1>1
  <2>2. PICK p \in Nat \ {0} : p = pow(base, n - i)
    BY <1>0, <2>1, PowPositive
  <2>3. PICK q \in Int : q = num \div p
    BY <1>0, DivMod
  <2>4. q % base \in 0 .. base - 1
    BY <1>0, DivMod
  <2> QED
    BY <2>2, <2>3, <2>4
<1> HIDE DEF D
<1>4. \A i \in 1 .. n : D(i) \in 0 .. 15 /\ DigitChar(D(i), uc) \in Code
  <2>1. \A i \in 1 .. n : D(i) \in 0 .. 15
    BY <1>0, <1>3
  <2> QED
    BY <2>1, DigitCode
<1>5. n \in Nat \ {0} /\ s \in Seq(Code) /\ Len(s) = n
  BY <1>1, <1>2, <1>4
<1>6. num # 0 => s[1] # Zero
  <2> SUFFICES ASSUME num # 0 PROVE s[1] # Zero
    OBVIOUS
  <2>1. 1 \in 1 .. n /\ n - 1 = r
    BY <1>1
  <2>2. PICK p \in Nat \ {0} : p = pow(base, r) /\ pow(base, r + 1) = p * base
    BY <1>0, <1>1, PowNext, PowPositive
  <2>3. num >= p
    <3>1. CASE r = 0
      <4>1. p = 1
        BY <1>0, <2>2, <3>1, PowNext
      <4> QED
        BY <4>1
    <3>2. CASE r # 0
      <4>1. r \in 1 .. r
        BY <1>1, <3>2
      <4> QED
        BY <1>1, <2>2, <4>1
    <3> QED
      BY <3>1, <3>2
  <2>4. num < p * base
    BY <1>1, <2>2
  <2>5. PICK q \in Int : q = num \div p
    BY <1>0, DivMod
  <2>6. q < base
    BY <1>0, <2>4, <2>5, DivBelow
  <2>7. ~(q < 1)
    <3>1. 1 \in Nat \ {0} /\ ~(num < p * 1)
      BY <2>3
    <3> QED
      BY <2>5, <3>1, DivBelow
  <2>8. q % base = q
    <3>1. q \in 0 .. base - 1 /\ 0 \in Int /\ q = base * 0 + q
      BY <1>0, <2>6, <2>7
    <3> QED
      BY <1>0, <3>1, ModUnique
  <2>9. D(1) = q /\ q # 0
    BY <2>1, <2>2, <2>5, <2>7, <2>8 DEF D
  <2>10. D(1) \in 0 .. 15
    BY <1>4, <2>1
  <2>11. DigitChar(D(1), uc) # Zero
    BY <2>9, <2>10, DigitCode
  <2> QED
    BY <1>2, <2>1, <2>11
<1>7. num < WORD => n <= BF - 2
  <2> SUFFICES ASSUME num < WORD, ~(n <= BF - 2) PROVE FALSE
    OBVIOUS
  <2>1. PICK b \in Nat \ {0} : b = BF - 2
    BY PrintfAssumption
  <2>2. pow(base, b) >= pow(10, b) /\ pow(10, b) \in Nat /\ pow(base, b) \in Nat
    <3>1. pow(10, b) \in Nat /\ pow(base, b) \in Nat
      BY <1>0, PowNext
    <3>2. pow(16, b) >= pow(10, b)
      BY PowSixteen
    <3> QED
      BY <3>1, <3>2 DEF Bases
  <2>3. WORD \in Nat /\ WORD <= pow(10, b)
    BY <2>1, PrintfAssumption
  <2>4. b \in 1 .. r
    BY <1>0, <1>1, <2>1
  <2>5. num >= pow(base, b)
    BY <1>1, <2>4
  <2> QED
    BY <2>2, <2>3, <2>5
<1>8. \A i \in 1 .. n : s[i] = DigitChar(D(i), uc)
  BY <1>2
<1>9. num < pow(base, n)
  BY <1>1
<1>10. \A i \in 1 .. n : /\ (num \div pow(base, n - i)) % base \in 0 .. base - 1
                         /\ s[i] = DigitChar((num \div pow(base, n - i)) % base, uc)
  BY <1>3, <1>8 DEF D
<1> QED
  BY <1>5, <1>6, <1>7, <1>9, <1>10 DEF s, n

\* A word, signed or not.
LEMMA WordFacts ==
    ASSUME NEW v \in Int
    PROVE  /\ AsUnsigned(v) \in Nat /\ AsUnsigned(v) < WORD
           /\ AsInt(v) \in Int /\ AsInt(v) < WORD
           /\ AsInt(v) < 0 => /\ -AsInt(v) \in Nat /\ -AsInt(v) < WORD
                              /\ (-AsInt(v)) % WORD = -AsInt(v)
<1>1. PICK w \in Nat \ {0, 1} : w = WORD
  BY PrintfAssumption
<1>2. PICK m \in 0 .. w - 1 : m = v % w
  BY DivMod
<1>3. PICK h \in Nat : h = w \div 2 /\ h >= 1
  BY <1>1
<1>4. AsUnsigned(v) = m /\ AsInt(v) = IF m < h THEN m ELSE m - w
  BY <1>1, <1>2, <1>3 DEF AsUnsigned, AsInt
<1>5. CASE m < h
  BY <1>1, <1>2, <1>4, <1>5
<1>6. CASE ~(m < h)
  <2>1. PICK a \in Nat : a = w - m
    BY <1>2
  <2>2. AsInt(v) = m - w /\ m - w \in Int /\ m - w < w /\ -(m - w) = a /\ a < w
    BY <1>2, <1>3, <1>4, <1>6, <2>1
  <2>3. a % w = a
    <3>1. a \in Int /\ a \in 0 .. w - 1 /\ 0 \in Int /\ a = w * 0 + a /\ w \in Nat \ {0}
      BY <2>2
    <3> QED
      BY <3>1, ModUnique
  <2> QED
    BY <1>1, <1>2, <1>4, <2>2, <2>3
<1> QED
  BY <1>5, <1>6

\* A number is written to bf[] as it should be, with room for the NUL.
LEMMA NumeralText ==
    ASSUME NEW d, IsDirective(d), d.conv \in Numbered
    PROVE  /\ Numeral(d.conv, d.arg) = Text(d)
           /\ Text(d) \in Seq(Code) /\ Len(Text(d)) + 1 <= BF
<1> DEFINE v == d.arg
           c == d.conv
           up == (c = UpperX)
<1>0. v \in Int /\ c \notin {String, Char} /\ BF \in Nat
  BY PrintfAssumption DEF IsDirective, Numbered, String, Char, Unsigned, Decimal, LowerX, UpperX
<1>1. \A num \in Nat, base \in Bases, uc \in BOOLEAN :
        num < WORD => /\ ui2a(num, base, uc) = Positional(num, base, uc)
                      /\ Positional(num, base, uc) \in Seq(Code)
                      /\ Len(Positional(num, base, uc)) + 2 <= BF
  <2> SUFFICES ASSUME NEW num \in Nat, NEW base \in Bases, NEW uc \in BOOLEAN, num < WORD
               PROVE  /\ ui2a(num, base, uc) = Positional(num, base, uc)
                      /\ Positional(num, base, uc) \in Seq(Code)
                      /\ Len(Positional(num, base, uc)) + 2 <= BF
    OBVIOUS
  <2>1. base \in Nat \ {0, 1}
    BY DEF Bases
  <2>2. PICK n \in Nat : /\ n = Len(Positional(num, base, uc)) /\ n <= BF - 2
                         /\ Positional(num, base, uc) \in Seq(Code)
    BY PositionalFacts
  <2> QED
    BY <1>0, <2>1, <2>2, UnsignedWritten
<1>2. 10 \in Bases /\ 16 \in Bases
  BY DEF Bases
<1>3. /\ AsUnsigned(v) \in Nat /\ AsUnsigned(v) < WORD /\ AsUnsigned(v) = v % WORD
      /\ AsInt(v) \in Int /\ AsInt(v) < WORD
      /\ AsInt(v) < 0 => /\ -AsInt(v) \in Nat /\ -AsInt(v) < WORD
                         /\ (-AsInt(v)) % WORD = -AsInt(v)
  BY <1>0, WordFacts DEF AsUnsigned
<1>4. Text(d) = CASE c = Unsigned -> Positional(v % WORD, 10, FALSE)
                  [] c \in {LowerX, UpperX} -> Positional(v % WORD, 16, up)
                  [] c = Decimal -> IF AsInt(v) < 0 THEN <<45>> \o Positional(-AsInt(v), 10, FALSE)
                                    ELSE Positional(AsInt(v), 10, FALSE)
                  [] c = String -> d.arg
                  [] c = Char -> <<d.arg>>
  BY <1>0 DEF Text
<1>5. Numeral(c, v) = CASE c = Unsigned -> ui2a(AsUnsigned(v), 10, FALSE)
                        [] c = Decimal -> i2a(AsInt(v))
                        [] OTHER -> ui2a(AsUnsigned(v), 16, up)
  BY DEF Numeral
<1>a. up \in BOOLEAN
  OBVIOUS
<1> HIDE DEF v, c, up
<1>b. \A s \in Seq(Code) : Len(s) + 2 <= BF => Len(s) + 1 <= BF /\ (1 + Len(s)) + 1 <= BF
  <2> SUFFICES ASSUME NEW s \in Seq(Code), Len(s) + 2 <= BF
               PROVE  Len(s) + 1 <= BF /\ (1 + Len(s)) + 1 <= BF
    OBVIOUS
  <2>1. PICK k \in Nat : k = Len(s)
    OBVIOUS
  <2> QED
    BY <1>0, <2>1
<1>6. ASSUME c = Unsigned
      PROVE  Numeral(c, v) = Text(d) /\ Text(d) \in Seq(Code) /\ Len(Text(d)) + 1 <= BF
  <2>1. Text(d) = Positional(v % WORD, 10, FALSE) /\ Numeral(c, v) = ui2a(AsUnsigned(v), 10, FALSE)
    BY <1>4, <1>5, <1>6 DEF Unsigned, Decimal, LowerX, UpperX, String, Char
  <2>2. /\ Numeral(c, v) = Text(d) /\ Text(d) \in Seq(Code) /\ Len(Text(d)) + 2 <= BF
    BY <1>1, <1>2, <1>3, <2>1
  <2> QED
    BY <1>b, <2>2
<1>7. ASSUME c = LowerX \/ c = UpperX
      PROVE  Numeral(c, v) = Text(d) /\ Text(d) \in Seq(Code) /\ Len(Text(d)) + 1 <= BF
  <2>1. /\ Text(d) = Positional(v % WORD, 16, up)
        /\ Numeral(c, v) = ui2a(AsUnsigned(v), 16, up)
    <3>1. c # Unsigned /\ c # Decimal /\ c # String /\ c # Char /\ c \in {LowerX, UpperX}
      BY <1>7 DEF Unsigned, Decimal, LowerX, UpperX, String, Char
    <3> QED
      BY <1>4, <1>5, <3>1
  <2>2. /\ Numeral(c, v) = Text(d) /\ Text(d) \in Seq(Code) /\ Len(Text(d)) + 2 <= BF
    BY <1>1, <1>2, <1>3, <1>a, <2>1
  <2> QED
    BY <1>b, <2>2
<1>8. ASSUME c = Decimal
      PROVE  Numeral(c, v) = Text(d) /\ Text(d) \in Seq(Code) /\ Len(Text(d)) + 1 <= BF
  <2>1. /\ Text(d) = IF AsInt(v) < 0 THEN <<45>> \o Positional(-AsInt(v), 10, FALSE)
                     ELSE Positional(AsInt(v), 10, FALSE)
        /\ Numeral(c, v) = i2a(AsInt(v))
    BY <1>4, <1>5, <1>8 DEF Unsigned, Decimal, LowerX, UpperX, String, Char
  <2>2. i2a(AsInt(v)) = IF AsInt(v) < 0 THEN <<45>> \o ui2a((-AsInt(v)) % WORD, 10, FALSE)
                        ELSE ui2a(AsInt(v), 10, FALSE)
    BY DEF i2a
  <2>3. CASE AsInt(v) < 0
    <3>1. PICK a \in Nat : a = -AsInt(v) /\ a < WORD /\ a % WORD = a
      BY <1>3, <2>3
    <3>2. PICK p \in Seq(Code) : /\ p = Positional(a, 10, FALSE) /\ ui2a(a, 10, FALSE) = p
                                 /\ Len(p) + 2 <= BF
      BY <1>1, <1>2, <3>1
    <3>3. Text(d) = <<45>> \o p /\ Numeral(c, v) = <<45>> \o p
      BY <2>1, <2>2, <2>3, <3>1, <3>2
    <3>4. <<45>> \in Seq(Code) /\ Len(<<45>>) = 1
      BY DEF Code
    <3>5. <<45>> \o p \in Seq(Code) /\ Len(<<45>> \o p) = 1 + Len(p)
      BY <3>4, ConcatProperties
    <3> QED
      BY <1>b, <3>2, <3>3, <3>5
  <2>4. CASE ~(AsInt(v) < 0)
    <3>1. PICK a \in Nat : a = AsInt(v) /\ a < WORD
      BY <1>3, <2>4
    <3>2. PICK p \in Seq(Code) : /\ p = Positional(a, 10, FALSE) /\ ui2a(a, 10, FALSE) = p
                                 /\ Len(p) + 2 <= BF
      BY <1>1, <1>2, <3>1
    <3>3. Text(d) = p /\ Numeral(c, v) = p
      BY <2>1, <2>2, <2>4, <3>1, <3>2
    <3> QED
      BY <1>b, <3>2, <3>3
  <2> QED
    BY <2>3, <2>4
<1>9. c = Unsigned \/ c = LowerX \/ c = UpperX \/ c = Decimal
  BY DEF Numbered, c
<1>10. Numeral(c, v) = Text(d) /\ Text(d) \in Seq(Code) /\ Len(Text(d)) + 1 <= BF
  BY <1>6, <1>7, <1>8, <1>9
<1> QED
  BY <1>10 DEF c, v

-----------------------------------------------------------------------------
\* The loop of a2i over the n digits from position p on.
WidthLoop(num, fmt, p, n) ==
    num = [j \in 0 .. n |-> IF j = 0 THEN 0 ELSE num[j - 1] * 10 + a2d(At(fmt, p + j - 1))]

\* There are n digits at position p.
DigitsEnd(fmt, p, n) ==
    /\ Len(fmt) \in Nat /\ n \in 0 .. Len(fmt)
    /\ \A j \in 0 .. n - 1 : a2d(At(fmt, p + j)) \in 0 .. 9
    /\ a2d(At(fmt, p + n)) < 0 \/ a2d(At(fmt, p + n)) > 10

\* a2i goes on to the first character that is no digit.
LEMMA WidthEnds ==
    ASSUME NEW fmt, NEW p \in Nat, NEW n \in Nat, DigitsEnd(fmt, p, n)
    PROVE  a2i(fmt, p, 10) = <<(CHOOSE num : WidthLoop(num, fmt, p, n))[n], p + n>>
<1> DEFINE P(j) == a2d(At(fmt, p + j)) < 0 \/ a2d(At(fmt, p + j)) > 10
           m == CHOOSE i \in 0 .. Len(fmt) : (i = Len(fmt) \/ P(i)) /\ \A j \in 0 .. i - 1 : ~P(j)
           X == {j \in 0 .. Len(fmt) : P(j)}
<1>1. a2i(fmt, p, 10) = <<(CHOOSE num : WidthLoop(num, fmt, p, m))[m], p + m>>
  BY DEF a2i, FirstUpTo, WidthLoop
<1>2. P(n) /\ \A j \in 0 .. n - 1 : ~P(j)
  <2>1. \A d \in 0 .. 9 : ~(d < 0 \/ d > 10)
    OBVIOUS
  <2> QED
    BY <2>1 DEF DigitsEnd
<1> HIDE DEF P
<1>a. Len(fmt) \in Nat /\ n \in 0 .. Len(fmt)
  BY DEF DigitsEnd
<1>3. PICK k \in 0 .. Len(fmt) :
        \A i \in 0 .. Len(fmt) :
          (i = Len(fmt) \/ i \in X) /\ (\A j \in 0 .. i - 1 : j \notin X) => i = k
  <2> HIDE DEF X
  <2> QED
    BY <1>a, StopsOnce, SMTT(60)
<1>4. \A i \in 0 .. Len(fmt) : \A j \in 0 .. i - 1 : j \in 0 .. Len(fmt)
  BY <1>a
<1>5. \A i \in 0 .. Len(fmt) :
        (i = Len(fmt) \/ P(i)) /\ (\A j \in 0 .. i - 1 : ~P(j)) => i = k
  BY <1>3, <1>4
<1>6. n = k
  BY <1>2, <1>5, <1>a
<1>7. m = n
  BY <1>2, <1>5, <1>6, <1>a
<1> QED
  BY <1>1, <1>7

\* The digits of w are at position p, and no other behind them.
WidthAt(fmt, p, w, n) ==
    /\ Len(fmt) \in Nat /\ n \in 0 .. Len(fmt) /\ n = Len(Positional(w, 10, FALSE))
    /\ \A j \in 1 .. n : At(fmt, p + j - 1) = Positional(w, 10, FALSE)[j]
    /\ a2d(At(fmt, p + n)) < 0 \/ a2d(At(fmt, p + n)) > 10

\* The digits of a width are read as that width.
LEMMA WidthRead ==
    ASSUME NEW fmt, NEW p \in Nat, NEW w \in Nat, NEW n \in Nat, WidthAt(fmt, p, w, n)
    PROVE  a2i(fmt, p, 10) = <<w, p + n>>
<1> DEFINE E(j) == w \div pow(10, n - j)
           D(j) == E(j) % 10
           f == [j \in 0 .. n |-> E(j)]
           num == CHOOSE g : WidthLoop(g, fmt, p, n)
           X == {j \in 0 .. n : num[j] = E(j)}
<1>0. 10 \in Bases /\ FALSE \in BOOLEAN /\ 10 \in Nat \ {0} /\ n \in Nat
  BY DEF Bases
<1>1. /\ n = NrDigits(w, 10) /\ w < pow(10, n)
      /\ \A j \in 1 .. n : /\ D(j) \in 0 .. 9
                           /\ Positional(w, 10, FALSE)[j] = DigitChar(D(j), FALSE)
  <2>1. LET s == Positional(w, 10, FALSE)
            k == NrDigits(w, 10)
        IN  /\ Len(s) = k /\ w < pow(10, k)
            /\ \A i \in 1 .. k : /\ (w \div pow(10, k - i)) % 10 \in 0 .. 10 - 1
                                 /\ s[i] = DigitChar((w \div pow(10, k - i)) % 10, FALSE)
    BY <1>0, PositionalFacts
  <2>2. n = Len(Positional(w, 10, FALSE))
    BY DEF WidthAt
  <2>3. n = NrDigits(w, 10)
    BY <2>1, <2>2
  <2>4. 0 .. 10 - 1 = 0 .. 9
    OBVIOUS
  <2>5. \A j \in 1 .. n : /\ D(j) \in 0 .. 10 - 1
                          /\ Positional(w, 10, FALSE)[j] = DigitChar(D(j), FALSE)
    BY <2>1, <2>3, Zenon
  <2>6. w < pow(10, n)
    BY <2>1, <2>3, Zenon
  <2> HIDE DEF D
  <2> QED
    BY <2>3, <2>4, <2>5, <2>6
<1>2. \A j \in 1 .. n : a2d(At(fmt, p + j - 1)) = D(j) /\ D(j) \in 0 .. 9
  <2> SUFFICES ASSUME NEW j \in 1 .. n
               PROVE  a2d(At(fmt, p + j - 1)) = D(j) /\ D(j) \in 0 .. 9
    OBVIOUS
  <2>1. D(j) \in 0 .. 9 /\ At(fmt, p + j - 1) = DigitChar(D(j), FALSE)
    BY <1>1 DEF WidthAt
  <2> HIDE DEF D
  <2>2. D(j) \in 0 .. 15 /\ D(j) < 10
    BY <2>1
  <2> QED
    BY <1>0, <2>1, <2>2, DigitCode
<1>3. a2i(fmt, p, 10) = <<num[n], p + n>>
  <2>1. \A j \in 0 .. n - 1 : a2d(At(fmt, p + j)) \in 0 .. 9
    <3> SUFFICES ASSUME NEW j \in 0 .. n - 1 PROVE a2d(At(fmt, p + j)) \in 0 .. 9
      OBVIOUS
    <3>1. j + 1 \in 1 .. n /\ p + (j + 1) - 1 = p + j
      OBVIOUS
    <3> HIDE DEF D
    <3> QED
      BY <1>2, <3>1
  <2>2. DigitsEnd(fmt, p, n)
    BY <2>1 DEF DigitsEnd, WidthAt
  <2> QED
    BY <2>2, WidthEnds
<1>4. E(0) = 0
  <2>1. n - 0 = n
    BY <1>0
  <2>2. PICK z \in Nat \ {0} : z = pow(10, n)
    BY <1>0, PowPositive
  <2>3. w \in Int /\ w \in 0 .. z - 1 /\ 0 \in Int /\ w = z * 0 + w
    BY <1>1, <2>2
  <2>4. w \div z = 0
    BY <2>3, ModUnique
  <2> QED
    BY <2>1, <2>2, <2>4
<1>5. E(n) = w
  <2>1. n - n = 0 /\ pow(10, 0) = 1
    BY <1>0, PowNext
  <2>2. w \div 1 = w
    OBVIOUS
  <2> QED
    BY <2>1, <2>2
<1>6. ASSUME NEW j \in 1 .. n PROVE E(j) = E(j - 1) * 10 + D(j)
  <2>1. PICK k \in Nat : k = n - j /\ n - (j - 1) = k + 1
    BY <1>0
  <2>2. PICK z \in Nat \ {0} : z = pow(10, k) /\ pow(10, k + 1) = z * 10
    BY <1>0, PowPositive, PowNext
  <2>3. E(j) = w \div z /\ E(j - 1) = w \div (z * 10)
    BY <2>1, <2>2
  <2>4. PICK q \in Nat : q = w \div z /\ q \div 10 = w \div (z * 10)
    BY <1>0, DivProduct
  <2>5. q = 10 * (q \div 10) + (q % 10) /\ q \div 10 \in Int /\ q % 10 \in Int
    OBVIOUS
  <2>6. E(j) = q /\ E(j - 1) = q \div 10 /\ D(j) = q % 10
    BY <2>3, <2>4
  <2> HIDE DEF E, D
  <2> QED
    BY <2>5, <2>6
<1> HIDE DEF D, E
<1>7. WidthLoop(f, fmt, p, n)
  <2>1. ASSUME NEW j \in 0 .. n
        PROVE  f[j] = IF j = 0 THEN 0 ELSE f[j - 1] * 10 + a2d(At(fmt, p + j - 1))
    <3>1. CASE j = 0
      BY <1>4, <3>1
    <3>2. CASE j # 0
      <4>1. j \in 1 .. n /\ j - 1 \in 0 .. n
        BY <3>2
      <4> QED
        BY <1>2, <1>6, <3>2, <4>1
    <3> QED
      BY <3>1, <3>2
  <2>2. f = [j \in 0 .. n |-> f[j]]
    OBVIOUS
  <2> HIDE DEF f
  <2> QED
    BY <2>1, <2>2 DEF WidthLoop
<1>8. WidthLoop(num, fmt, p, n)
  <2> HIDE DEF f
  <2> QED
    BY <1>7
<1> HIDE DEF num, f
<1>9. \A j \in 0 .. n :
        num[j] = IF j = 0 THEN 0 ELSE num[j - 1] * 10 + a2d(At(fmt, p + j - 1))
  BY <1>8 DEF WidthLoop
<1>10. 0 \in X
  BY <1>0, <1>4, <1>9
<1>11. ASSUME NEW j \in 0 .. n - 1, j \in X PROVE j + 1 \in X
  <2>1. j + 1 \in 0 .. n /\ j + 1 # 0 /\ (j + 1) - 1 = j /\ j + 1 \in 1 .. n
    BY <1>0
  <2>2. num[j + 1] = num[j] * 10 + a2d(At(fmt, p + (j + 1) - 1))
    BY <1>9, <2>1
  <2>3. a2d(At(fmt, p + (j + 1) - 1)) = D(j + 1) /\ E(j + 1) = E(j) * 10 + D(j + 1)
    BY <1>2, <1>6, <2>1
  <2> QED
    BY <1>11, <2>1, <2>2, <2>3
<1>12. n \in X
  <2> HIDE DEF X
  <2>1. n \in 0 .. n
    BY <1>0
  <2> QED
    BY <1>0, <1>10, <1>11, <2>1, Reaches
<1> QED
  BY <1>3, <1>5, <1>12

Conversion == Numbered \cup {String, Char}

\* No conversion is a digit.
LEMMA ConversionCode ==
    ASSUME NEW c \in Conversion
    PROVE  /\ c \in Code /\ c \notin Digits /\ c # NUL /\ c # Zero
           /\ a2d(c) < 0 \/ a2d(c) > 10
  BY DEF Conversion, Numbered, Unsigned, Decimal, LowerX, UpperX, String, Char, Code, Digits,
         NUL, Zero, a2d

-----------------------------------------------------------------------------
\* How many characters of a directive are for the zero flag and for the width.
FlagLen(d) == IF d.zero THEN 1 ELSE 0
WidthLen(d) == IF d.width = 0 THEN 0 ELSE Len(Positional(d.width, 10, FALSE))

\* The characters of a directive.
LEMMA WrittenFacts ==
    ASSUME NEW d, IsDirective(d)
    PROVE  LET z == FlagLen(d)
               n == WidthLen(d)
               W == Written(d)
           IN  /\ z \in 0 .. 1 /\ n \in Nat /\ W \in Seq(Code) /\ Len(W) = 2 + z + n
               /\ W[1] = Percent /\ W[2 + z + n] = d.conv
               /\ d.zero => W[2] = Zero
               /\ ~d.zero => W[2] # Zero
               /\ \A j \in 1 .. n : W[1 + z + j] = Positional(d.width, 10, FALSE)[j]
<1> DEFINE z == FlagLen(d)
           n == WidthLen(d)
           W == Written(d)
           A == IF d.zero THEN <<Zero>> ELSE <<>>
           num == Positional(d.width, 10, FALSE)
           B == IF d.width = 0 THEN <<>> ELSE num
           PA == <<Percent>> \o A
           PAB == PA \o B
<1>1. W = PAB \o <<d.conv>>
  BY DEF Written
<1>2. d.zero \in BOOLEAN /\ d.width \in Nat /\ d.conv \in Conversion
  BY PrintfAssumption DEF IsDirective, Conversion
<1>3. d.conv \in Code /\ d.conv # Zero
  BY <1>2, ConversionCode
<1>4. /\ num \in Seq(Code) /\ Len(num) \in Nat \ {0}
      /\ d.width # 0 => num[1] # Zero
  <2>1. 10 \in Bases
    BY DEF Bases
  <2> QED
    BY <1>2, <2>1, PositionalFacts
<1>5. z \in 0 .. 1 /\ (d.zero => z = 1) /\ (~d.zero => z = 0)
  BY <1>2 DEF FlagLen
<1>6. A \in Seq(Code) /\ Len(A) = z /\ (d.zero => A[1] = Zero)
  <2>1. CASE d.zero
    <3>1. A = <<Zero>> /\ z = 1
      BY <1>5, <2>1
    <3>2. Zero \in Code
      BY DEF Zero, Code
    <3> QED
      BY <2>1, <3>1, <3>2
  <2>2. CASE ~d.zero
    <3>1. A = <<>> /\ z = 0
      BY <1>5, <2>2
    <3> QED
      BY <2>2, <3>1
  <2> QED
    BY <2>1, <2>2
<1> HIDE DEF num
<1>7. /\ B \in Seq(Code) /\ Len(B) = n /\ n \in Nat
      /\ \A j \in 1 .. n : B[j] = num[j]
      /\ n # 0 => B[1] # Zero
  <2>1. CASE d.width = 0
    <3>1. B = <<>> /\ n = 0
      BY <2>1 DEF WidthLen
    <3> HIDE DEF B, n
    <3> QED
      BY <3>1
  <2>2. CASE d.width # 0
    <3>1. B = num /\ n = Len(num)
      BY <2>2 DEF WidthLen, num
    <3> QED
      BY <1>4, <2>2, <3>1
  <2> QED
    BY <2>1, <2>2
<1> HIDE DEF z, n, A, B
<1>8. Percent \in Code /\ <<Percent>> \in Seq(Code) /\ Len(<<Percent>>) = 1 /\ <<Percent>>[1] = Percent
  BY DEF Percent, Code
<1>9. /\ PA \in Seq(Code) /\ Len(PA) = 1 + z /\ PA[1] = Percent
      /\ z = 1 => PA[2] = A[1]
  <2>1. /\ PA \in Seq(Code) /\ Len(PA) = 1 + z
        /\ \A i \in 1 .. 1 + z : PA[i] = IF i <= 1 THEN <<Percent>>[i] ELSE A[i - 1]
    BY <1>6, <1>8, Concatenated
  <2>2. 1 \in 1 .. 1 + z /\ (z = 1 => 2 \in 1 .. 1 + z /\ ~(2 <= 1) /\ 2 - 1 = 1)
    BY <1>5
  <2> HIDE DEF PA
  <2> QED
    BY <1>8, <2>1, <2>2
<1> HIDE DEF PA
<1>10. /\ PAB \in Seq(Code) /\ Len(PAB) = 1 + z + n
       /\ \A i \in 1 .. 1 + z + n : PAB[i] = IF i <= 1 + z THEN PA[i] ELSE B[i - (1 + z)]
  <2>1. /\ PAB \in Seq(Code) /\ Len(PAB) = Len(PA) + Len(B)
        /\ \A i \in 1 .. Len(PA) + Len(B) :
             PAB[i] = IF i <= Len(PA) THEN PA[i] ELSE B[i - Len(PA)]
    BY ONLY <1>7, <1>9, Concatenated
  <2> HIDE DEF PAB
  <2>2. Len(PA) = 1 + z /\ Len(PA) + Len(B) = 1 + z + n
    BY <1>7, <1>9
  <2> QED
    BY <2>1, <2>2
<1> HIDE DEF PAB
<1>11. /\ W \in Seq(Code) /\ Len(W) = (1 + z + n) + 1
       /\ \A i \in 1 .. (1 + z + n) + 1 :
            W[i] = IF i <= 1 + z + n THEN PAB[i] ELSE <<d.conv>>[i - (1 + z + n)]
  <2>1. <<d.conv>> \in Seq(Code) /\ Len(<<d.conv>>) = 1
    BY <1>3
  <2> HIDE DEF W
  <2> QED
    BY <1>1, <1>10, <2>1, Concatenated
<1> HIDE DEF W
<1>12. Len(W) = 2 + z + n /\ (1 + z + n) + 1 = 2 + z + n /\ z \in Nat
  BY <1>5, <1>7, <1>11
<1>13. W[1] = Percent
  <2>1. 1 \in 1 .. (1 + z + n) + 1 /\ 1 <= 1 + z + n /\ 1 \in 1 .. 1 + z + n /\ 1 <= 1 + z
    BY <1>5, <1>7
  <2> QED
    BY <1>9, <1>10, <1>11, <2>1
<1>14. W[2 + z + n] = d.conv
  <2>1. PICK m \in Nat : m = 1 + z + n
    BY <1>5, <1>7
  <2>2. m + 1 \in 1 .. m + 1 /\ ~(m + 1 <= m) /\ (m + 1) - m = 1
    OBVIOUS
  <2>3. W[m + 1] = <<d.conv>>[1]
    BY <1>11, <2>1, <2>2
  <2> QED
    BY <1>12, <2>1, <2>3
<1>15. \A j \in 1 .. n : W[1 + z + j] = num[j]
  <2> SUFFICES ASSUME NEW j \in 1 .. n PROVE W[1 + z + j] = num[j]
    OBVIOUS
  <2>1. PICK i \in Nat : i = 1 + z + j
    BY <1>12
  <2>2. /\ i \in 1 .. (1 + z + n) + 1 /\ i <= 1 + z + n /\ i \in 1 .. 1 + z + n
        /\ ~(i <= 1 + z) /\ i - (1 + z) = j
    BY <1>7, <1>12, <2>1
  <2>3. W[i] = PAB[i]
    BY <1>11, <2>2
  <2>4. PAB[i] = B[j]
    BY <1>10, <2>2
  <2> QED
    BY <1>7, <2>1, <2>3, <2>4
<1>16. d.zero => W[2] = Zero
  <2> SUFFICES ASSUME d.zero PROVE W[2] = Zero
    OBVIOUS
  <2>1. z = 1
    BY <1>5
  <2>2. 2 \in 1 .. (1 + z + n) + 1 /\ 2 <= 1 + z + n /\ 2 \in 1 .. 1 + z + n /\ 2 <= 1 + z
    BY <1>7, <2>1
  <2> QED
    BY <1>6, <1>9, <1>10, <1>11, <2>1, <2>2
<1>17. ~d.zero => W[2] # Zero
  <2> SUFFICES ASSUME ~d.zero PROVE W[2] # Zero
    OBVIOUS
  <2>1. z = 0
    BY <1>5
  <2>2. CASE n = 0
    <3>1. 2 + z + n = 2
      BY <2>1, <2>2
    <3> QED
      BY <1>3, <1>14, <3>1
  <2>3. CASE n # 0
    <3>1. 1 \in 1 .. n /\ 1 + z + 1 = 2
      BY <1>7, <2>1, <2>3
    <3>2. W[2] = num[1] /\ B[1] = num[1]
      BY <1>7, <1>15, <3>1
    <3> QED
      BY <1>7, <2>3, <3>2
  <2> QED
    BY <2>2, <2>3
<1> QED
  BY <1>5, <1>7, <1>11, <1>12, <1>13, <1>14, <1>15, <1>16, <1>17 DEF z, n, W, num

-----------------------------------------------------------------------------
\* fmt has directive d at position i.
DirectiveAt(fmt, i, d) ==
    /\ Len(fmt) \in Nat /\ i + Len(Written(d)) <= Len(fmt)
    /\ \A j \in 1 .. Len(Written(d)) : At(fmt, i + j - 1) = Written(d)[j]

\* How tfp_format takes a directive apart.
LEMMA DirectiveRead ==
    ASSUME NEW fmt, NEW i \in Nat, NEW d, IsDirective(d), DirectiveAt(fmt, i, d)
    PROVE  LET lz == At(fmt, i + 1) = Zero
               j == IF lz THEN i + 2 ELSE i + 1
               width == IF At(fmt, j) \in Digits THEN a2i(fmt, j, 10) ELSE <<0, j>>
           IN  /\ At(fmt, i) = Percent
               /\ lz <=> d.zero
               /\ width[1] = d.width
               /\ width[2] + 1 = i + Len(Written(d)) /\ width[2] \in Nat
               /\ At(fmt, width[2]) = d.conv
<1> DEFINE z == FlagLen(d)
           n == WidthLen(d)
           W == Written(d)
           num == Positional(d.width, 10, FALSE)
           lz == At(fmt, i + 1) = Zero
           j == IF lz THEN i + 2 ELSE i + 1
           width == IF At(fmt, j) \in Digits THEN a2i(fmt, j, 10) ELSE <<0, j>>
<1>1. /\ z \in 0 .. 1 /\ n \in Nat /\ Len(W) = 2 + z + n
      /\ W[1] = Percent /\ W[2 + z + n] = d.conv
      /\ d.zero => W[2] = Zero
      /\ ~d.zero => W[2] # Zero
      /\ \A k \in 1 .. n : W[1 + z + k] = num[k]
  BY WrittenFacts
<1>2. /\ Len(fmt) \in Nat /\ i + Len(W) <= Len(fmt)
      /\ \A k \in 1 .. Len(W) : At(fmt, i + k - 1) = W[k]
  BY DEF DirectiveAt
<1>3. d.zero \in BOOLEAN /\ d.width \in Nat /\ d.conv \in Conversion
  BY PrintfAssumption DEF IsDirective, Conversion
<1>4. d.conv \notin Digits /\ (a2d(d.conv) < 0 \/ a2d(d.conv) > 10)
  BY <1>3, ConversionCode
<1>5. (d.zero => z = 1) /\ (~d.zero => z = 0)
  BY DEF FlagLen
<1>6. /\ d.width # 0 => n = Len(num) /\ n # 0 /\ num[1] \in Digits
      /\ d.width = 0 => n = 0
  <2>1. 10 \in Bases /\ FALSE \in BOOLEAN
    BY DEF Bases
  <2>2. LET m == NrDigits(d.width, 10)
        IN  /\ m \in Nat \ {0} /\ Len(num) = m
            /\ \A k \in 1 .. m : /\ (d.width \div pow(10, m - k)) % 10 \in 0 .. 10 - 1
                                 /\ num[k] = DigitChar((d.width \div pow(10, m - k)) % 10, FALSE)
    BY <1>3, <2>1, PositionalFacts
  <2>3. PICK e \in 0 .. 10 - 1 : num[1] = DigitChar(e, FALSE) /\ Len(num) \in Nat \ {0}
    <3>1. NrDigits(d.width, 10) \in Nat \ {0} /\ 1 \in 1 .. NrDigits(d.width, 10)
      BY <2>2
    <3> QED
      BY <2>2, <3>1
  <2>4. num[1] \in Digits
    <3>1. e \in 0 .. 15 /\ e < 10
      OBVIOUS
    <3> QED
      BY <2>1, <2>3, <3>1, DigitCode
  <2> QED
    BY <2>3, <2>4 DEF WidthLen
<1> HIDE DEF z, n, W, num
<1>7. At(fmt, i) = Percent
  <2>1. 1 \in 1 .. Len(W) /\ i + 1 - 1 = i
    BY <1>1
  <2> QED
    BY <1>1, <1>2, <2>1
<1>8. lz <=> d.zero
  <2>1. 2 \in 1 .. Len(W) /\ i + 2 - 1 = i + 1
    BY <1>1
  <2>2. At(fmt, i + 1) = W[2]
    BY <1>2, <2>1
  <2> QED
    BY <1>1, <1>3, <2>2
<1> HIDE DEF lz
<1>9. j = i + 1 + z /\ j \in Nat
  <2>1. CASE d.zero
    BY <1>5, <1>8, <2>1
  <2>2. CASE ~d.zero
    BY <1>5, <1>8, <2>2
  <2> QED
    BY <2>1, <2>2
<1> HIDE DEF j
<1>10. At(fmt, j + n) = d.conv /\ j + n + 1 = i + Len(W) /\ j + n \in Nat
  <2>1. PICK k \in Nat : k = 2 + z + n
    BY <1>1
  <2>2. k \in 1 .. Len(W) /\ i + k - 1 = j + n
    BY <1>1, <1>9, <2>1
  <2>3. At(fmt, i + k - 1) = W[k]
    BY <1>2, <2>2
  <2>4. At(fmt, j + n) = d.conv
    BY <1>1, <2>1, <2>2, <2>3
  <2>5. j + n + 1 = i + Len(W) /\ j + n \in Nat
    BY <1>1, <1>9
  <2> QED
    BY <2>4, <2>5
<1>11. width = <<d.width, j + n>>
  <2>1. CASE d.width = 0
    <3>1. n = 0 /\ j + n = j
      BY <1>6, <1>9, <2>1
    <3>2. At(fmt, j) \notin Digits
      BY <1>4, <1>10, <3>1
    <3> QED
      BY <2>1, <3>1, <3>2
  <2>2. CASE d.width # 0
    <3>1. \A k \in 1 .. n : At(fmt, j + k - 1) = num[k]
      <4> SUFFICES ASSUME NEW k \in 1 .. n PROVE At(fmt, j + k - 1) = num[k]
        OBVIOUS
      <4>1. PICK m \in Nat : m = 1 + z + k
        BY <1>1
      <4>2. m \in 1 .. Len(W) /\ i + m - 1 = j + k - 1
        BY <1>1, <1>9, <4>1
      <4>3. At(fmt, i + m - 1) = W[m] /\ W[m] = num[k]
        BY <1>1, <1>2, <4>1, <4>2
      <4> QED
        BY <4>2, <4>3
    <3>2. At(fmt, j) \in Digits
      <4>1. 1 \in 1 .. n /\ j + 1 - 1 = j
        BY <1>1, <1>6, <1>9, <2>2
      <4> QED
        BY <1>6, <2>2, <3>1, <4>1
    <3>3. n \in 0 .. Len(fmt)
      BY <1>1, <1>2
    <3>4. WidthAt(fmt, j, d.width, n)
      BY <1>2, <1>4, <1>6, <1>10, <2>2, <3>1, <3>3 DEF WidthAt, num
    <3>5. a2i(fmt, j, 10) = <<d.width, j + n>>
      BY <1>1, <1>3, <1>9, <3>4, WidthRead
    <3> QED
      BY <3>2, <3>5
  <2> QED
    BY <2>1, <2>2
<1>12. width[1] = d.width /\ width[2] = j + n
  BY <1>11
<1> HIDE DEF width
<1>13. /\ At(fmt, i) = Percent /\ (lz <=> d.zero) /\ width[1] = d.width
       /\ width[2] + 1 = i + Len(W) /\ width[2] \in Nat /\ At(fmt, width[2]) = d.conv
  BY <1>7, <1>8, <1>10, <1>12
<1> QED
  BY <1>13 DEF width, j, lz, W

\* A directive whose field putchw fills where it should be filled.
Fillable(d) == IsDirective(d) /\ ~FillBeforeSign(d)

\* A field is as wide as its directive says, filled with what it says.
LEMMA FieldFacts ==
    ASSUME NEW d, Fillable(d)
    PROVE  /\ Rendered(d) \in Seq(Code)
           /\ d.conv \in Numbered => Rendered(d) = putchw(d.width, d.zero, Numeral(d.conv, d.arg))
           /\ d.conv = String => Rendered(d) = putchw(d.width, FALSE, d.arg)
           /\ d.conv = Char => Rendered(d) = <<d.arg % 256>>
<1> DEFINE fill == IF d.zero /\ d.conv \notin {String, Char} THEN Zero ELSE Space
           missing == IF d.conv = Char THEN 0 ELSE d.width - Len(Text(d))
<1>0. IsDirective(d) /\ ~FillBeforeSign(d)
  BY DEF Fillable
<1>2. fill \in Code
  BY DEF Zero, Space, Code
<1>3. d.width \in Nat /\ d.zero \in BOOLEAN /\ d.conv \in Conversion
  BY <1>0, PrintfAssumption DEF IsDirective, Conversion
<1>4. /\ d.conv \in Numbered => Text(d) \in Seq(Code) /\ Numeral(d.conv, d.arg) = Text(d)
      /\ d.conv = String => Text(d) \in Seq(Code) /\ Text(d) = d.arg
      /\ d.conv = Char => Text(d) \in Seq(Code) /\ Text(d) = <<d.arg % 256>>
  <2>1. CASE d.conv \in Numbered
    <3>1. d.conv # String /\ d.conv # Char
      BY <2>1 DEF Numbered, Unsigned, Decimal, LowerX, UpperX, String, Char
    <3> QED
      BY <1>0, <2>1, <3>1, NumeralText
  <2>2. CASE d.conv = String
    <3>1. /\ d.conv # Unsigned /\ d.conv # Decimal /\ d.conv \notin {LowerX, UpperX}
          /\ d.conv # Char /\ d.conv \notin Numbered
      BY <2>2 DEF Numbered, Unsigned, Decimal, LowerX, UpperX, String, Char
    <3>2. Text(d) = d.arg
      BY <2>2, <3>1 DEF Text
    <3>3. d.arg \in Seq(Code)
      BY <1>0, <2>2 DEF IsDirective, Code
    <3> QED
      BY <2>2, <3>1, <3>2, <3>3
  <2>3. CASE d.conv = Char
    <3>1. /\ d.conv # Unsigned /\ d.conv # Decimal /\ d.conv \notin {LowerX, UpperX}
          /\ d.conv # String /\ d.conv \notin Numbered
      BY <2>3 DEF Numbered, Unsigned, Decimal, LowerX, UpperX, String, Char
    <3>2. Text(d) = <<d.arg>>
      BY <2>3, <3>1 DEF Text
    <3>3. d.arg \in 1 .. 255
      BY <1>0, <2>3 DEF IsDirective
    <3>4. d.arg % 256 = d.arg /\ d.arg \in Code
      BY <3>3 DEF Code
    <3>5. <<d.arg>> \in Seq(Code)
      BY <3>4
    <3> QED
      BY <2>3, <3>1, <3>2, <3>4, <3>5
  <2> QED
    BY <1>3, <2>1, <2>2, <2>3 DEF Conversion
<1>5. Text(d) \in Seq(Code)
  BY <1>3, <1>4 DEF Conversion
<1>6. missing \in Int
  BY <1>3, <1>5
<1>1. Rendered(d) = Copies(missing, fill) \o Text(d)
  <2>1. CASE SignedFill(d)
    <3>1. /\ d.conv \in Numbered /\ d.conv = Decimal /\ AsInt(d.arg) < 0 /\ d.arg \in Int
          /\ d.conv # Unsigned /\ d.conv \notin {LowerX, UpperX, String, Char}
      BY <1>0, <2>1
         DEF SignedFill, IsDirective, Numbered, Unsigned, Decimal, LowerX, UpperX, String, Char
    <3>2. PICK p : p = Positional(-AsInt(d.arg), 10, FALSE)
      OBVIOUS
    <3>3. Text(d) = <<45>> \o p
      <4>1. d.conv \notin {String, Char}
        BY <3>1
      <4> QED
        BY <3>1, <3>2, <4>1 DEF Text
    <3>4. Rendered(d) = <<45>> \o Copies(Missing(d), Zero) \o p
      BY <2>1, <3>2 DEF Rendered
    <3>5. Missing(d) = missing /\ ~(missing > 0)
      BY <1>0, <2>1 DEF Missing, FillBeforeSign
    <3>6. Copies(missing, Zero) = <<>> /\ Copies(missing, fill) = <<>>
      BY <3>5 DEF Copies
    <3>7. <<45>> \o <<>> = <<45>>
      OBVIOUS
    <3>8. <<>> \o Text(d) = Text(d)
      BY <1>5
    <3> QED
      BY <3>3, <3>4, <3>5, <3>6, <3>7, <3>8
  <2>2. CASE ~SignedFill(d)
    BY <2>2 DEF Rendered, Missing
  <2> QED
    BY <2>1, <2>2
<1> HIDE DEF fill, missing
<1>7. Copies(missing, fill) \in Seq(Code)
  BY <1>2, <1>6 DEF Copies
<1>8. Rendered(d) \in Seq(Code)
  BY <1>1, <1>5, <1>7, ConcatProperties
<1>9. ASSUME d.conv \in Numbered
      PROVE  Rendered(d) = putchw(d.width, d.zero, Numeral(d.conv, d.arg))
  <2>1. d.conv # String /\ d.conv # Char
    BY <1>9 DEF Numbered, Unsigned, Decimal, LowerX, UpperX, String, Char
  <2>2. missing = d.width - Len(Text(d)) /\ fill = IF d.zero THEN Zero ELSE Space
    BY <2>1 DEF missing, fill
  <2> QED
    BY <1>1, <1>4, <1>9, <2>2 DEF putchw
<1>10. ASSUME d.conv = String
       PROVE  Rendered(d) = putchw(d.width, FALSE, d.arg)
  <2>1. d.conv # Char
    BY <1>10 DEF String, Char
  <2>2. missing = d.width - Len(Text(d)) /\ fill = Space
    BY <1>10, <2>1 DEF missing, fill
  <2> QED
    BY <1>1, <1>4, <1>10, <2>2 DEF putchw
<1>11. ASSUME d.conv = Char
       PROVE  Rendered(d) = <<d.arg % 256>>
  <2>1. missing = 0
    BY <1>11 DEF missing
  <2>2. Copies(0, fill) = <<>>
    BY DEF Copies
  <2>3. <<>> \o Text(d) = Text(d)
    BY <1>5
  <2> QED
    BY <1>1, <1>4, <1>11, <2>1, <2>2, <2>3
<1> QED
  BY <1>8, <1>9, <1>10, <1>11

\* A round that takes a directive.
LEMMA DirectiveRound ==
    ASSUME NEW fmt, NEW va, NEW s, s.i \in Nat, NEW d, Fillable(d),
           DirectiveAt(fmt, s.i, d), va[s.k] = d.arg
    PROVE  FormatRound(fmt, va, s) = Puts(s, s.i + Len(Written(d)), s.k + 1, Rendered(d))
<1> DEFINE lz == At(fmt, s.i + 1) = Zero
           j == IF lz THEN s.i + 2 ELSE s.i + 1
           width == IF At(fmt, j) \in Digits THEN a2i(fmt, j, 10) ELSE <<0, j>>
           w == width[1]
           p == width[2]
           ch == At(fmt, p)
           k == s.k
           c == At(fmt, s.i)
           Handled ==
               CASE ch = NUL -> Puts(s, p, k, <<>>)
                 [] ch \in Numbered -> Puts(s, p + 1, k + 1, putchw(w, lz, Numeral(ch, va[k])))
                 [] ch = Char -> Puts(s, p + 1, k + 1, <<va[k] % 256>>)
                 [] ch = String -> Puts(s, p + 1, k + 1, putchw(w, FALSE, va[k]))
                 [] ch = Percent -> Puts(s, p + 1, k, <<Percent>>)
                 [] OTHER -> Puts(s, p + 1, k, <<>>)
<1>1. FormatRound(fmt, va, s) =
        CASE c = NUL -> s
          [] c \notin {NUL, Percent} -> Puts(s, s.i + 1, k, <<c>>)
          [] OTHER -> Handled
  BY DEF FormatRound
<1>2. /\ c = Percent /\ (lz <=> d.zero) /\ w = d.width
      /\ p + 1 = s.i + Len(Written(d)) /\ ch = d.conv
  <2>1. LET l == At(fmt, s.i + 1) = Zero
            m == IF l THEN s.i + 2 ELSE s.i + 1
            wd == IF At(fmt, m) \in Digits THEN a2i(fmt, m, 10) ELSE <<0, m>>
        IN  /\ At(fmt, s.i) = Percent
            /\ l <=> d.zero
            /\ wd[1] = d.width
            /\ wd[2] + 1 = s.i + Len(Written(d)) /\ wd[2] \in Nat
            /\ At(fmt, wd[2]) = d.conv
    BY Zenon, DirectiveRead DEF Fillable
  <2> QED
    BY Zenon, <2>1
<1> HIDE DEF lz, w, p, ch, c
<1>3. FormatRound(fmt, va, s) = Handled
  <2>1. c # NUL /\ ~(c \notin {NUL, Percent})
    BY <1>2 DEF Percent, NUL
  <2> HIDE DEF Handled
  <2> QED
    BY <1>1, <2>1
<1>4. ch \in Conversion /\ ch # NUL
  <2>1. ch \in Conversion
    BY <1>2 DEF Fillable, IsDirective, Conversion
  <2> QED
    BY <2>1, ConversionCode
<1>5. CASE ch \in Numbered
  <2>1. Handled = Puts(s, p + 1, k + 1, putchw(w, lz, Numeral(ch, va[k])))
    <3>1. ch # Char /\ ch # String /\ ch # Percent
      BY <1>5 DEF Numbered, Unsigned, Decimal, LowerX, UpperX, String, Char, Percent
    <3> QED
      BY <1>4, <1>5, <3>1
  <2>2. putchw(w, lz, Numeral(ch, va[k])) = putchw(d.width, d.zero, Numeral(d.conv, d.arg))
    BY <1>2 DEF putchw
  <2>3. Rendered(d) = putchw(d.width, d.zero, Numeral(d.conv, d.arg))
    BY <1>2, <1>5, FieldFacts
  <2> QED
    BY <1>2, <1>3, <2>1, <2>2, <2>3
<1>6. CASE ch = Char
  <2>1. Handled = Puts(s, p + 1, k + 1, <<va[k] % 256>>)
    <3>1. ch # NUL /\ ch \notin Numbered /\ ch # String /\ ch # Percent
      BY <1>6 DEF Numbered, Unsigned, Decimal, LowerX, UpperX, String, Char, Percent, NUL
    <3> QED
      BY <1>6, <3>1
  <2>2. Rendered(d) = <<d.arg % 256>>
    BY <1>2, <1>6, FieldFacts
  <2> QED
    BY <1>2, <1>3, <2>1, <2>2
<1>7. CASE ch = String
  <2>1. Handled = Puts(s, p + 1, k + 1, putchw(w, FALSE, va[k]))
    <3>1. ch # NUL /\ ch \notin Numbered /\ ch # Char /\ ch # Percent
      BY <1>7 DEF Numbered, Unsigned, Decimal, LowerX, UpperX, String, Char, Percent, NUL
    <3> QED
      BY <1>7, <3>1
  <2>2. Rendered(d) = putchw(d.width, FALSE, d.arg)
    BY <1>2, <1>7, FieldFacts
  <2> QED
    BY <1>2, <1>3, <2>1, <2>2
<1> QED
  BY <1>4, <1>5, <1>6, <1>7 DEF Conversion

\* A round that takes an ordinary character, and one at the end.
LEMMA OtherRounds ==
    ASSUME NEW fmt, NEW va, NEW s
    PROVE  /\ At(fmt, s.i) = NUL => FormatRound(fmt, va, s) = s
           /\ At(fmt, s.i) \notin {NUL, Percent} =>
                FormatRound(fmt, va, s) = Puts(s, s.i + 1, s.k, <<At(fmt, s.i)>>)
<1>1. NUL \in {NUL, Percent}
  OBVIOUS
<1> QED
  BY <1>1 DEF FormatRound

-----------------------------------------------------------------------------
\* f has the beginnings of the concatenation of n sequences.
Beginnings(f, ss, n) == f[0] = <<>> /\ \A i \in 1 .. n : f[i] = f[i - 1] \o ss[i]

FlattenLoop(h, ss) ==
    h = [i \in 1 .. Len(ss) |-> IF i = 1 THEN ss[i] ELSE h[i - 1] \o ss[i]]

\* The last of them is the concatenation.
LEMMA Flattened ==
    ASSUME NEW S, NEW n \in Nat, NEW ss \in [1 .. n -> Seq(S)]
    PROVE  \E f \in [0 .. n -> Seq(S)] : Beginnings(f, ss, n) /\ FlattenSeq(ss) = f[n]
<1> DEFINE T == Seq(S)
           step == [i \in 1 .. n |-> [w \in T |-> w \o ss[i]]]
<1>1. <<>> \in T /\ step \in Steps(n, T)
  <2>1. ASSUME NEW i \in 1 .. n, NEW w \in T PROVE w \o ss[i] \in T
    <3>1. ss[i] \in Seq(S)
      OBVIOUS
    <3> QED
      BY <3>1, ConcatProperties
  <2>2. \A i \in 1 .. n : [w \in T |-> w \o ss[i]] \in [T -> T]
    BY <2>1
  <2>3. <<>> \in T
    OBVIOUS
  <2> QED
    BY <2>2, <2>3 DEF Steps
<1>2. PICK f : Loop(f, n, T, <<>>, step)
  <2> HIDE DEF T, step
  <2> QED
    BY <1>1, Iterates
<1>3. f \in [0 .. n -> T] /\ f[0] = <<>> /\ \A i \in 1 .. n : f[i] = f[i - 1] \o ss[i]
  <2>1. \A i \in 1 .. n : i - 1 \in 0 .. n
    OBVIOUS
  <2> QED
    BY <1>2, <2>1 DEF Loop
<1>4. Beginnings(f, ss, n)
  BY <1>3 DEF Beginnings
<1>5. Len(ss) = n
  OBVIOUS
<1>6. CASE n = 0
  <2>1. FlattenSeq(ss) = ss
    BY <1>5, <1>6 DEF FlattenSeq
  <2>2. ss = <<>>
    BY <1>6
  <2> QED
    BY <1>3, <1>4, <1>6, <2>1, <2>2
<1>7. CASE n # 0
  <2> DEFINE h == CHOOSE x : FlattenLoop(x, ss)
             e == [i \in 1 .. n |-> f[i]]
             X == {i \in 0 .. n : i # 0 => h[i] = f[i]}
  <2>1. FlattenSeq(ss) = h[n]
    BY <1>5, <1>7 DEF FlattenSeq, FlattenLoop
  <2>2. \A i \in 1 .. n : f[i] = IF i = 1 THEN ss[i] ELSE f[i - 1] \o ss[i]
    <3> SUFFICES ASSUME NEW i \in 1 .. n
                 PROVE  f[i] = IF i = 1 THEN ss[i] ELSE f[i - 1] \o ss[i]
      OBVIOUS
    <3>1. CASE i = 1
      <4>1. ss[i] \in Seq(S) /\ i - 1 = 0
        BY <3>1
      <4>2. <<>> \o ss[i] = ss[i]
        BY <4>1
      <4> QED
        BY <1>3, <3>1, <4>1, <4>2
    <3>2. CASE i # 1
      BY <1>3, <3>2
    <3> QED
      BY <3>1, <3>2
  <2>3. FlattenLoop(e, ss)
    <3>1. \A i \in 1 .. n : e[i] = IF i = 1 THEN ss[i] ELSE e[i - 1] \o ss[i]
      <4> SUFFICES ASSUME NEW i \in 1 .. n
                   PROVE  e[i] = IF i = 1 THEN ss[i] ELSE e[i - 1] \o ss[i]
        OBVIOUS
      <4>1. i # 1 => i - 1 \in 1 .. n
        OBVIOUS
      <4>2. e[i] = f[i] /\ (i # 1 => e[i - 1] = f[i - 1])
        BY <4>1
      <4> HIDE DEF e
      <4> QED
        BY <2>2, <4>2
    <3>2. e = [i \in 1 .. n |-> e[i]]
      OBVIOUS
    <3> HIDE DEF e
    <3> QED
      BY <1>5, <3>1, <3>2 DEF FlattenLoop
  <2>4. FlattenLoop(h, ss)
    <3> HIDE DEF e
    <3> QED
      BY <2>3
  <2> HIDE DEF h, e
  <2>5. \A i \in 1 .. n : h[i] = IF i = 1 THEN ss[i] ELSE h[i - 1] \o ss[i]
    BY <1>5, <2>4 DEF FlattenLoop
  <2>6. 0 \in X
    OBVIOUS
  <2>7. ASSUME NEW i \in 0 .. n - 1, i \in X PROVE i + 1 \in X
    <3>1. i + 1 \in 1 .. n /\ (i + 1) - 1 = i /\ i + 1 \in 0 .. n
      OBVIOUS
    <3>2. CASE i = 0
      BY <2>2, <2>5, <3>1, <3>2
    <3>3. CASE i # 0
      <4>1. h[i] = f[i] /\ i + 1 # 1
        BY <2>7, <3>3
      <4> QED
        BY <2>2, <2>5, <3>1, <4>1
    <3> QED
      BY <3>2, <3>3
  <2>8. n \in X
    <3> HIDE DEF X
    <3>1. \A i \in 0 .. n : i \in X
      BY ONLY n \in Nat, <2>6, <2>7, Reaches
    <3> QED
      BY <3>1
  <2> QED
    BY <1>3, <1>4, <1>7, <2>1, <2>8
<1> QED
  BY <1>6, <1>7

\* y begins with x.
BeginsWith(y, x) == Len(x) <= Len(y) /\ \A j \in 1 .. Len(x) : y[j] = x[j]

LEMMA ConcatBegins ==
    ASSUME NEW S, NEW x \in Seq(S), NEW y \in Seq(S), NEW z \in Seq(S), BeginsWith(y, x)
    PROVE  BeginsWith(y \o z, x)
<1> DEFINE c == y \o z
<1>1. /\ c \in Seq(S) /\ Len(c) = Len(y) + Len(z)
      /\ \A i \in 1 .. Len(y) + Len(z) : c[i] = IF i <= Len(y) THEN y[i] ELSE z[i - Len(y)]
  BY Concatenated
<1>2. /\ Len(x) \in Nat /\ Len(y) \in Nat /\ Len(z) \in Nat
      /\ Len(x) <= Len(y) /\ \A j \in 1 .. Len(x) : y[j] = x[j]
  BY DEF BeginsWith
<1> HIDE DEF c
<1>3. Len(x) <= Len(c)
  BY <1>1, <1>2
<1>4. ASSUME NEW j \in 1 .. Len(x) PROVE c[j] = x[j]
  <2>1. j \in 1 .. Len(y) + Len(z) /\ j <= Len(y)
    BY <1>2
  <2> QED
    BY <1>1, <1>2, <2>1
<1>5. BeginsWith(c, x)
  BY <1>3, <1>4 DEF BeginsWith
<1> QED
  BY <1>5 DEF c

\* A part that stands behind x stands there in all that begins so.
LEMMA PartKept ==
    ASSUME NEW S, NEW x \in Seq(S), NEW w \in Seq(S), NEW y \in Seq(S), BeginsWith(y, x \o w)
    PROVE  /\ Len(x) \in Nat /\ Len(w) \in Nat /\ Len(x \o w) = Len(x) + Len(w)
           /\ Len(x) + Len(w) <= Len(y)
           /\ \A j \in 1 .. Len(w) : y[Len(x) + j] = w[j]
<1> DEFINE c == x \o w
<1>1. /\ c \in Seq(S) /\ Len(c) = Len(x) + Len(w)
      /\ \A i \in 1 .. Len(x) + Len(w) : c[i] = IF i <= Len(x) THEN x[i] ELSE w[i - Len(x)]
  BY Concatenated
<1> HIDE DEF c
<1>2. /\ Len(x) \in Nat /\ Len(w) \in Nat
      /\ Len(c) <= Len(y) /\ \A j \in 1 .. Len(c) : y[j] = c[j]
  BY DEF BeginsWith, c
<1>3. ASSUME NEW j \in 1 .. Len(w) PROVE y[Len(x) + j] = w[j]
  <2>1. PICK i \in Nat : i = Len(x) + j
    BY <1>2
  <2>2. i \in 1 .. Len(x) + Len(w) /\ ~(i <= Len(x)) /\ i - Len(x) = j
    BY <1>2, <2>1
  <2>3. c[i] = w[j] /\ y[i] = c[i]
    BY <1>1, <1>2, <2>2
  <2> QED
    BY <2>1, <2>3
<1> QED
  BY <1>1, <1>2, <1>3 DEF c

\* Where a part is in the whole.
PartsOf(S, f, ss, n) ==
    /\ f \in [0 .. n -> Seq(S)] /\ ss \in [1 .. n -> Seq(S)]
    /\ Beginnings(f, ss, n)

LEMMA PartPlace ==
    ASSUME NEW n \in Nat, NEW S, NEW ss, NEW f, PartsOf(S, f, ss, n), NEW m \in 0 .. n - 1
    PROVE  /\ f[m] \in Seq(S) /\ ss[m + 1] \in Seq(S) /\ f[m + 1] = f[m] \o ss[m + 1]
           /\ BeginsWith(f[n], f[m] \o ss[m + 1])
<1> DEFINE c == f[m + 1]
           X == {k \in 0 .. n - (m + 1) : BeginsWith(f[m + 1 + k], c)}
<1>1. /\ m \in 0 .. n /\ m + 1 \in 1 .. n /\ m + 1 \in 0 .. n /\ (m + 1) - 1 = m
      /\ n - (m + 1) \in Nat /\ m + 1 + (n - (m + 1)) = n /\ m + 1 + 0 = m + 1
  OBVIOUS
<1>2. f[m] \in Seq(S) /\ c \in Seq(S) /\ ss[m + 1] \in Seq(S) /\ c = f[m] \o ss[m + 1]
  BY <1>1 DEF PartsOf, Beginnings
<1>3. 0 \in X
  <2>1. BeginsWith(c, c)
    <3> HIDE DEF c
    <3> QED
      BY <1>2 DEF BeginsWith
  <2>2. 0 \in 0 .. n - (m + 1)
    BY <1>1
  <2> QED
    BY <1>1, <2>1, <2>2
<1>4. ASSUME NEW k \in 0 .. (n - (m + 1)) - 1, k \in X PROVE k + 1 \in X
  <2>1. PICK p \in Nat : p = m + 1 + k
    OBVIOUS
  <2>2. /\ p \in 0 .. n /\ p + 1 \in 1 .. n /\ p + 1 \in 0 .. n /\ (p + 1) - 1 = p
        /\ m + 1 + (k + 1) = p + 1 /\ k + 1 \in 0 .. n - (m + 1)
    BY <2>1
  <2>3. f[p] \in Seq(S) /\ ss[p + 1] \in Seq(S) /\ f[p + 1] = f[p] \o ss[p + 1]
    BY <2>2 DEF PartsOf, Beginnings
  <2>4. BeginsWith(f[p], c)
    BY <1>4, <2>1
  <2>5. BeginsWith(f[p + 1], c)
    <3> HIDE DEF c
    <3>1. BeginsWith(f[p] \o ss[p + 1], c)
      BY ONLY <1>2, <2>3, <2>4, ConcatBegins
    <3> QED
      BY <2>3, <3>1
  <2> QED
    BY <2>2, <2>5
<1>5. n - (m + 1) \in X
  <2> HIDE DEF X
  <2>1. PICK q \in Nat : q = n - (m + 1)
    BY <1>1
  <2>2. \A k \in 0 .. q - 1 : k \in X => k + 1 \in X
    BY <1>4, <2>1
  <2>3. \A k \in 0 .. q : k \in X
    BY ONLY q \in Nat, <1>3, <2>2, Reaches
  <2> QED
    BY <2>1, <2>3
<1>6. BeginsWith(f[n], c)
  BY <1>1, <1>5
<1> QED
  BY <1>2, <1>6

-----------------------------------------------------------------------------
\* f has the beginnings of the format of the directives ds, each with sep behind it,
\* and g those of its output.
Separator == {<<>>, <<97>>}

Formatted(f, g, ds, sep, n) ==
    /\ \A m \in 1 .. n : Fillable(ds[m])
    /\ f \in [0 .. n -> Seq(Code)] /\ Beginnings(f, [m \in 1 .. n |-> Written(ds[m]) \o sep], n)
    /\ g \in [0 .. n -> Seq(Code)] /\ Beginnings(g, [m \in 1 .. n |-> Rendered(ds[m]) \o sep], n)

\* The loop of tfp_format after m directives, and before the separator of the next.
After(f, g, m) == [i |-> Len(f[m]), k |-> m + 1, out |-> g[m]]

Between(f, g, ds, m) ==
    Puts(After(f, g, m), Len(f[m]) + Len(Written(ds[m + 1])), m + 2, Rendered(ds[m + 1]))

LEMMA SeparatorFacts ==
    /\ \A sep \in Separator : sep \in Seq(Code) /\ Len(sep) \in 0 .. 1
    /\ Len(<<97>>) = 1 /\ <<97>>[1] = 97 /\ 97 \notin {NUL, Percent}
  BY DEF Separator, Code, NUL, Percent

\* The directive and its separator stand in the format.
FieldFits(f, g, ds, sep, n, m) ==
    /\ Fillable(ds[m + 1]) /\ DirectiveAt(f[n], Len(f[m]), ds[m + 1])
    /\ Len(f[m]) \in Nat /\ Len(Written(ds[m + 1])) \in Nat
    /\ Len(Written(ds[m + 1])) >= 2
    /\ Len(f[m + 1]) = Len(f[m]) + Len(Written(ds[m + 1])) + Len(sep)
    /\ sep # <<>> => At(f[n], Len(f[m]) + Len(Written(ds[m + 1]))) = 97
    /\ g[m] \in Seq(Code) /\ Rendered(ds[m + 1]) \in Seq(Code)
    /\ g[m + 1] = g[m] \o (Rendered(ds[m + 1]) \o sep)

LEMMA FieldPlace ==
    ASSUME NEW n \in Nat, NEW f, NEW g, NEW ds, NEW sep \in Separator,
           Formatted(f, g, ds, sep, n), NEW m \in 0 .. n - 1
    PROVE  FieldFits(f, g, ds, sep, n, m)
<1> DEFINE d == ds[m + 1]
           W == Written(d)
           F == [l \in 1 .. n |-> Written(ds[l]) \o sep]
           G == [l \in 1 .. n |-> Rendered(ds[l]) \o sep]
<1>1. m + 1 \in 1 .. n /\ n \in 0 .. n
  OBVIOUS
<1>2. sep \in Seq(Code) /\ Len(sep) \in 0 .. 1
  BY SeparatorFacts
<1>3. \A l \in 1 .. n : Fillable(ds[l])
  BY DEF Formatted
<1>f. f \in [0 .. n -> Seq(Code)] /\ Beginnings(f, F, n)
  BY DEF Formatted
<1>g. g \in [0 .. n -> Seq(Code)] /\ Beginnings(g, G, n)
  BY DEF Formatted
<1>4. Fillable(d) /\ IsDirective(d)
  BY <1>1, <1>3 DEF Fillable
<1>5. (F \in [1 .. n -> Seq(Code)]) /\ (G \in [1 .. n -> Seq(Code)])
  <2>1. ASSUME NEW l \in 1 .. n
        PROVE  Written(ds[l]) \o sep \in Seq(Code) /\ Rendered(ds[l]) \o sep \in Seq(Code)
    <3>1. Fillable(ds[l]) /\ IsDirective(ds[l])
      BY <1>3 DEF Fillable
    <3>2. Written(ds[l]) \in Seq(Code) /\ Rendered(ds[l]) \in Seq(Code)
      BY <3>1, WrittenFacts, FieldFacts
    <3> QED
      BY <1>2, <3>2, ConcatProperties
  <2> QED
    BY <2>1
<1>6. F[m + 1] = W \o sep /\ G[m + 1] = Rendered(d) \o sep
  BY <1>1
<1>7. W \in Seq(Code) /\ Len(W) \in Nat /\ Len(W) >= 2 /\ Rendered(d) \in Seq(Code)
  <2>1. /\ FlagLen(d) \in 0 .. 1 /\ WidthLen(d) \in Nat /\ W \in Seq(Code)
        /\ Len(W) = 2 + FlagLen(d) + WidthLen(d)
    BY <1>4, WrittenFacts
  <2>2. Rendered(d) \in Seq(Code)
    BY <1>4, FieldFacts
  <2> QED
    BY <2>1, <2>2
<1> HIDE DEF d, W, F, G
<1>p. PartsOf(Code, f, F, n) /\ PartsOf(Code, g, G, n)
  BY <1>f, <1>g, <1>5 DEF PartsOf
<1>8. /\ f[m] \in Seq(Code) /\ f[m + 1] = f[m] \o (W \o sep)
      /\ BeginsWith(f[n], f[m] \o (W \o sep)) /\ f[n] \in Seq(Code)
  <2>1. /\ f[m] \in Seq(Code) /\ F[m + 1] \in Seq(Code) /\ f[m + 1] = f[m] \o F[m + 1]
        /\ BeginsWith(f[n], f[m] \o F[m + 1])
    BY ONLY n \in Nat, m \in 0 .. n - 1, <1>p, PartPlace
  <2> QED
    BY <1>1, <1>f, <1>6, <2>1
<1>9. g[m] \in Seq(Code) /\ g[m + 1] = g[m] \o (Rendered(d) \o sep)
  <2>1. /\ g[m] \in Seq(Code) /\ G[m + 1] \in Seq(Code) /\ g[m + 1] = g[m] \o G[m + 1]
        /\ BeginsWith(g[n], g[m] \o G[m + 1])
    BY ONLY n \in Nat, m \in 0 .. n - 1, <1>p, PartPlace, Zenon
  <2> QED
    BY <1>6, <2>1
<1>10. PICK x \in Seq(Code), y \in Seq(Code) : x = f[m] /\ y = f[n]
  BY <1>8
<1>11. PICK w \in Seq(Code) : w = W \o sep
  BY <1>2, <1>7, ConcatProperties
<1>l. PICK a \in Nat, b \in Nat, c \in Nat : a = Len(x) /\ b = Len(w) /\ c = Len(y)
  OBVIOUS
<1>12. /\ Len(x) \in Nat /\ Len(w) \in Nat /\ Len(x \o w) = Len(x) + Len(w)
       /\ Len(x) + Len(w) <= Len(y)
       /\ \A j \in 1 .. Len(w) : y[Len(x) + j] = w[j]
  <2>1. BeginsWith(y, x \o w)
    BY <1>8, <1>10, <1>11
  <2> QED
    BY ONLY x \in Seq(Code), y \in Seq(Code), w \in Seq(Code), <2>1, PartKept
<1>m. a + b <= c
  BY <1>l, <1>12
<1>13. /\ Len(w) = Len(W) + Len(sep)
       /\ \A j \in 1 .. Len(W) + Len(sep) : w[j] = IF j <= Len(W) THEN W[j] ELSE sep[j - Len(W)]
  BY <1>2, <1>7, <1>11, Concatenated
<1>14. ASSUME NEW j \in 1 .. Len(w) PROVE At(y, Len(x) + j - 1) = w[j]
  <2>0. j \in 1 .. b
    BY <1>l
  <2>1. PICK p \in Nat : p = a + j - 1
    BY <2>0
  <2>2. p < c /\ p + 1 = a + j
    BY <1>m, <2>0, <2>1
  <2>3. At(y, p) = y[p + 1]
    BY <1>l, <2>2 DEF At
  <2> QED
    BY <1>l, <1>12, <2>1, <2>2, <2>3
<1>15. DirectiveAt(f[n], Len(f[m]), d)
  <2>1. Len(y) \in Nat /\ Len(x) + Len(W) <= Len(y)
    BY <1>2, <1>7, <1>12, <1>13, SMTT(60)
  <2>2. ASSUME NEW j \in 1 .. Len(W) PROVE At(y, Len(x) + j - 1) = W[j]
    <3>1. j \in 1 .. Len(w) /\ j \in 1 .. Len(W) + Len(sep) /\ j <= Len(W)
      BY <1>2, <1>7, <1>13
    <3> QED
      BY <1>13, <1>14, <3>1
  <2>3. DirectiveAt(y, Len(x), d)
    BY <2>1, <2>2 DEF DirectiveAt, W
  <2> QED
    BY <1>10, <2>3
<1>16. Len(f[m + 1]) = Len(f[m]) + Len(W) + Len(sep)
  <2>1. f[m + 1] = x \o w
    BY <1>8, <1>10, <1>11
  <2>2. PICK u \in Nat, v \in Nat : u = Len(W) /\ v = Len(sep)
    BY <1>2, <1>7
  <2>3. Len(f[m + 1]) = a + (u + v)
    BY <1>l, <1>12, <1>13, <2>1, <2>2
  <2>4. a + (u + v) = a + u + v
    OBVIOUS
  <2> QED
    BY <1>10, <1>l, <2>2, <2>3, <2>4
<1>17. ASSUME sep # <<>> PROVE At(f[n], Len(f[m]) + Len(W)) = 97
  <2>1. sep = <<97>>
    BY <1>17 DEF Separator
  <2>2. Len(sep) = 1 /\ sep[1] = 97
    BY <2>1, SeparatorFacts
  <2>3. PICK j \in Nat : j = Len(W) + 1
    BY <1>7
  <2>4. /\ j \in 1 .. Len(w) /\ j \in 1 .. Len(W) + Len(sep) /\ ~(j <= Len(W)) /\ j - Len(W) = 1
        /\ Len(x) + j - 1 = Len(x) + Len(W)
    BY <1>7, <1>12, <1>13, <2>2, <2>3
  <2>5. w[j] = 97
    BY <1>13, <2>2, <2>4
  <2> QED
    BY <1>10, <1>14, <2>4, <2>5
<1> QED
  BY <1>4, <1>7, <1>8, <1>9, <1>10, <1>12, <1>15, <1>16, <1>17 DEF d, W, FieldFits

\* The rounds of tfp_format that take a directive, its separator, and the end.
FieldTaken(f, g, ds, sep, n, m, va) ==
    /\ sep = <<>> => FormatRound(f[n], va, After(f, g, m)) = After(f, g, m + 1)
    /\ sep # <<>> => /\ FormatRound(f[n], va, After(f, g, m)) = Between(f, g, ds, m)
                     /\ FormatRound(f[n], va, Between(f, g, ds, m)) = After(f, g, m + 1)

LEMMA FieldRounds ==
    ASSUME NEW n \in Nat, NEW f, NEW g, NEW ds, NEW sep \in Separator,
           Formatted(f, g, ds, sep, n), NEW m \in 0 .. n - 1,
           NEW va, va[m + 1] = ds[m + 1].arg
    PROVE  FieldTaken(f, g, ds, sep, n, m, va)
<1> DEFINE d == ds[m + 1]
           s == After(f, g, m)
           t == Between(f, g, ds, m)
           W == Written(d)
           R == Rendered(d)
<1>0. FieldFits(f, g, ds, sep, n, m)
  BY FieldPlace
<1>1. Fillable(d) /\ DirectiveAt(f[n], Len(f[m]), d)
  BY <1>0 DEF FieldFits
<1>2. Len(f[m]) \in Nat /\ Len(W) \in Nat /\ Len(f[m + 1]) = Len(f[m]) + Len(W) + Len(sep)
  BY <1>0 DEF FieldFits
<1>3. sep # <<>> => At(f[n], Len(f[m]) + Len(W)) = 97
  BY <1>0 DEF FieldFits
<1>4. g[m] \in Seq(Code) /\ R \in Seq(Code) /\ g[m + 1] = g[m] \o (R \o sep)
  BY <1>0 DEF FieldFits
<1>5. s.i = Len(f[m]) /\ s.k = m + 1 /\ s.out = g[m]
  BY DEF After
<1>6. t = Puts(s, Len(f[m]) + Len(W), m + 2, R)
  BY DEF Between
<1>7. t.i = Len(f[m]) + Len(W) /\ t.k = m + 2 /\ t.out = g[m] \o R
  <2> HIDE DEF s, t, W, R
  <2> QED
    BY <1>5, <1>6 DEF Puts
<1> HIDE DEF d, s, t, W, R
<1>8. FormatRound(f[n], va, s) = t
  <2>1. s.i \in Nat /\ DirectiveAt(f[n], s.i, d) /\ va[s.k] = d.arg
    BY <1>1, <1>2, <1>5 DEF d
  <2>2. FormatRound(f[n], va, s) = Puts(s, s.i + Len(W), s.k + 1, R)
    BY <1>1, <2>1, DirectiveRound DEF W, R
  <2>3. s.k + 1 = m + 2
    BY <1>5
  <2> QED
    BY <1>5, <1>6, <2>2, <2>3
<1>9. CASE sep = <<>>
  <2>1. Len(sep) = 0 /\ R \o sep = R
    BY <1>4, <1>9
  <2>2. Len(f[m + 1]) = Len(f[m]) + Len(W) /\ g[m + 1] = g[m] \o R /\ (m + 1) + 1 = m + 2
    BY <1>2, <1>4, <2>1
  <2>3. t = After(f, g, m + 1)
    BY <1>5, <1>6, <2>2 DEF After, Puts
  <2> QED
    BY <1>8, <1>9, <2>3 DEF s, FieldTaken
<1>10. CASE sep # <<>>
  <2>1. sep = <<97>> /\ Len(sep) = 1 /\ sep \in Seq(Code) /\ 97 \notin {NUL, Percent}
    BY <1>10, SeparatorFacts DEF Separator
  <2>2. At(f[n], t.i) = 97
    BY <1>3, <1>7, <1>10
  <2>3. FormatRound(f[n], va, t) = Puts(t, t.i + 1, t.k, sep)
    BY <2>1, <2>2, OtherRounds
  <2>4. t.i + 1 = Len(f[m + 1]) /\ t.k = (m + 1) + 1
    <3>1. PICK a \in Nat, b \in Nat : a = Len(f[m]) /\ b = Len(W) /\ Len(f[m + 1]) = a + b + Len(sep)
      BY <1>2
    <3> QED
      BY <1>7, <2>1, <3>1
  <2>5. t.out \o sep = g[m + 1]
    <3>0. PICK x \in Seq(Code), y \in Seq(Code), z \in Seq(Code) : x = g[m] /\ y = R /\ z = sep
      BY <1>4, <2>1
    <3>1. (x \o y) \o z = x \o (y \o z)
      BY ONLY x \in Seq(Code), y \in Seq(Code), z \in Seq(Code), ConcatAssociative, SMTT(30)
    <3> QED
      BY <1>4, <1>7, <3>0, <3>1
  <2>6. FormatRound(f[n], va, t) = After(f, g, m + 1)
    BY <2>3, <2>4, <2>5 DEF Puts, After
  <2> QED
    BY <1>8, <1>10, <2>6 DEF s, t, FieldTaken
<1> QED
  BY <1>9, <1>10

LEMMA FormatEnds ==
    ASSUME NEW n \in Nat, NEW f, NEW g, f[n] \in Seq(Code), NEW va
    PROVE  FormatRound(f[n], va, After(f, g, n)) = After(f, g, n)
<1>1. After(f, g, n).i = Len(f[n])
  BY DEF After
<1>2. Len(f[n]) \in Nat
  OBVIOUS
<1>3. At(f[n], Len(f[n])) = NUL
  BY <1>2 DEF At
<1> QED
  BY <1>1, <1>3, OtherRounds

\* The format is no shorter than the rounds it takes.
LEMMA FormatLength ==
    ASSUME NEW n \in Nat, NEW f, NEW g, NEW ds, NEW sep \in Separator,
           Formatted(f, g, ds, sep, n)
    PROVE  f[n] \in Seq(Code) /\ Len(f[n]) \in Nat /\ (Len(sep) + 1) * n <= Len(f[n])
<1> DEFINE b == Len(sep) + 1
           X == {m \in 0 .. n : b * m <= Len(f[m])}
<1>1. /\ f \in [0 .. n -> Seq(Code)] /\ f[0] = <<>>
  BY DEF Formatted, Beginnings
<1>2. b \in 1 .. 2 /\ Len(sep) = b - 1 /\ b \in Nat
  <2>1. PICK l \in 0 .. 1 : l = Len(sep)
    BY SeparatorFacts
  <2>2. b = l + 1
    BY <2>1
  <2> HIDE DEF b
  <2> QED
    BY <2>1, <2>2
<1> HIDE DEF b
<1>3. 0 \in X
  <2>1. Len(<<>>) = 0 /\ b * 0 = 0 /\ 0 \in 0 .. n
    BY <1>2
  <2> QED
    BY <1>1, <2>1
<1>4. ASSUME NEW m \in 0 .. n - 1, m \in X PROVE m + 1 \in X
  <2>1. /\ Len(f[m]) \in Nat /\ Len(Written(ds[m + 1])) \in Nat /\ Len(Written(ds[m + 1])) >= 2
        /\ Len(f[m + 1]) = Len(f[m]) + Len(Written(ds[m + 1])) + Len(sep)
    <3>1. FieldFits(f, g, ds, sep, n, m)
      BY FieldPlace
    <3> QED
      BY <3>1 DEF FieldFits
  <2>2. PICK x \in Nat, w \in Nat : /\ x = Len(f[m]) /\ w >= 2
                                   /\ Len(f[m + 1]) = x + w + (b - 1)
    BY <1>2, <2>1
  <2>3. b * m <= x /\ b * m \in Nat /\ b * (m + 1) = b * m + b
    BY <1>2, <1>4, <2>2
  <2>4. b * (m + 1) <= x + w + (b - 1)
    BY <1>2, <2>2, <2>3
  <2>5. m + 1 \in 0 .. n
    OBVIOUS
  <2> QED
    BY <2>2, <2>4, <2>5
<1>5. n \in X
  <2> HIDE DEF X
  <2>1. \A m \in 0 .. n : m \in X
    BY ONLY n \in Nat, <1>3, <1>4, Reaches
  <2> QED
    BY <2>1
<1>6. f[n] \in Seq(Code)
  BY <1>1
<1> QED
  BY <1>5, <1>6 DEF b

-----------------------------------------------------------------------------
\* The loop of tfp_format, and what it has done after r rounds, b to a directive.
FormatLoop(st, fmt, va) ==
    st = [r \in 0 .. Len(fmt) |->
            IF r = 0 THEN [i |-> 0, k |-> 1, out |-> <<>>] ELSE FormatRound(fmt, va, st[r - 1])]

StateAt(f, g, ds, b, n, r) ==
    IF r >= b * n THEN After(f, g, n)
    ELSE IF r % b = 0 THEN After(f, g, r \div b) ELSE Between(f, g, ds, r \div b)

LEMMA StatesAt ==
    ASSUME NEW n \in Nat, NEW f, NEW g, NEW ds, NEW b \in 1 .. 2
    PROVE  /\ \A q \in 0 .. n : StateAt(f, g, ds, b, n, b * q) = After(f, g, q)
           /\ b = 2 => \A q \in 0 .. n - 1 :
                         StateAt(f, g, ds, b, n, b * q + 1) = Between(f, g, ds, q)
<1>1. b \in Nat \ {0}
  OBVIOUS
<1>2. ASSUME NEW q \in 0 .. n PROVE StateAt(f, g, ds, b, n, b * q) = After(f, g, q)
  <2>1. CASE q = n
    <3>1. b * q \in Int /\ b * n = b * q
      BY <1>1, <2>1
    <3>2. b * q >= b * n
      BY <3>1
    <3> QED
      BY <2>1, <3>2 DEF StateAt
  <2>2. CASE q # n
    <3>1. ~(b * q >= b * n)
      <4>1. q \in Int /\ n - 1 \in Int /\ q <= n - 1
        BY <2>2
      <4>2. b * q <= b * (n - 1)
        BY <1>1, <4>1, ProductOrder
      <4>3. b * (n - 1) = b * n - b /\ b * n \in Int /\ b * q \in Int
        BY <1>1
      <4> QED
        BY <4>2, <4>3
    <3>2. PICK a \in Int : a = b * q
      BY <1>1
    <3>3. a = b * q + 0 /\ 0 \in 0 .. b - 1 /\ q \in Int
      BY <3>2
    <3>4. a % b = 0 /\ a \div b = q
      BY <1>1, <3>3, ModUnique
    <3>5. StateAt(f, g, ds, b, n, a) = After(f, g, q)
      BY <3>1, <3>2, <3>4 DEF StateAt
    <3> QED
      BY <3>2, <3>5
  <2> QED
    BY <2>1, <2>2
<1>3. ASSUME b = 2, NEW q \in 0 .. n - 1
      PROVE  StateAt(f, g, ds, b, n, b * q + 1) = Between(f, g, ds, q)
  <2>1. PICK a \in Int : a = b * q + 1
    BY <1>1
  <2>2. a % b = 1 /\ a \div b = q
    <3>1. 1 \in 0 .. b - 1 /\ q \in Int
      BY <1>3
    <3> QED
      BY <1>1, <2>1, <3>1, ModUnique
  <2>3. ~(a >= b * n)
    BY <1>3, <2>1
  <2>4. StateAt(f, g, ds, b, n, a) = Between(f, g, ds, q)
    BY <2>2, <2>3 DEF StateAt
  <2> QED
    BY <2>1, <2>4
<1> QED
  BY <1>2, <1>3

\* Every argument is the one its directive calls for.
ArgumentsOf(va, ds, n) == \A i \in 1 .. n : va[i] = ds[i].arg

LEMMA StateNext ==
    ASSUME NEW n \in Nat, NEW f, NEW g, NEW ds, NEW sep \in Separator,
           Formatted(f, g, ds, sep, n), NEW va, ArgumentsOf(va, ds, n), NEW r \in Nat
    PROVE  FormatRound(f[n], va, StateAt(f, g, ds, Len(sep) + 1, n, r)) =
             StateAt(f, g, ds, Len(sep) + 1, n, r + 1)
<1> DEFINE S(x) == StateAt(f, g, ds, Len(sep) + 1, n, x)
<1>1. PICK b \in 1 .. 2 : b = Len(sep) + 1 /\ (sep = <<>> <=> b = 1)
  <2>1. CASE sep = <<>>
    <3>1. Len(sep) + 1 = 1
      BY <2>1
    <3> QED
      BY <2>1, <3>1
  <2>2. CASE sep = <<97>>
    <3>1. Len(sep) + 1 = 2 /\ sep # <<>>
      BY <2>2, SeparatorFacts
    <3> QED
      BY <3>1
  <2> QED
    BY <2>1, <2>2 DEF Separator
<1>2. S(r) = StateAt(f, g, ds, b, n, r) /\ S(r + 1) = StateAt(f, g, ds, b, n, r + 1)
  BY <1>1
<1> HIDE DEF S
<1>3. b \in Nat \ {0} /\ b * n \in Nat
  OBVIOUS
<1>4. CASE r >= b * n
  <2>1. r + 1 >= b * n
    BY <1>3, <1>4
  <2>2. S(r) = After(f, g, n) /\ S(r + 1) = After(f, g, n)
    BY <1>2, <1>4, <2>1 DEF StateAt
  <2>3. FormatRound(f[n], va, After(f, g, n)) = After(f, g, n)
    <3>1. f[n] \in Seq(Code)
      BY FormatLength
    <3> QED
      BY <3>1, FormatEnds
  <2> QED
    BY <2>2, <2>3 DEF S
<1>5. CASE ~(r >= b * n)
  <2>1. PICK q \in Int, t \in 0 .. b - 1 : r = b * q + t
    <3>1. r \in Int /\ r % b \in 0 .. b - 1 /\ r \div b \in Int /\ r = b * (r \div b) + (r % b)
      BY <1>3, DivMod
    <3> QED
      BY ONLY <3>1
  <2>2. q \in 0 .. n - 1 /\ q \in 0 .. n /\ q + 1 \in 0 .. n
    <3>1. b = 1 \/ b = 2
      OBVIOUS
    <3>2. CASE b = 1
      BY <1>5, <2>1, <3>2
    <3>3. CASE b = 2
      BY <1>5, <2>1, <3>3
    <3> QED
      BY <3>1, <3>2, <3>3
  <2>3. va[q + 1] = ds[q + 1].arg
    <3>1. q + 1 \in 1 .. n
      BY <2>2
    <3> QED
      BY <3>1 DEF ArgumentsOf
  <2>4. /\ sep = <<>> => FormatRound(f[n], va, After(f, g, q)) = After(f, g, q + 1)
        /\ sep # <<>> => /\ FormatRound(f[n], va, After(f, g, q)) = Between(f, g, ds, q)
                         /\ FormatRound(f[n], va, Between(f, g, ds, q)) = After(f, g, q + 1)
    <3>1. FieldTaken(f, g, ds, sep, n, q, va)
      BY <2>2, <2>3, FieldRounds
    <3> QED
      BY <3>1 DEF FieldTaken
  <2>5. /\ StateAt(f, g, ds, b, n, b * q) = After(f, g, q)
        /\ StateAt(f, g, ds, b, n, b * (q + 1)) = After(f, g, q + 1)
        /\ b = 2 => StateAt(f, g, ds, b, n, b * q + 1) = Between(f, g, ds, q)
    <3>1. /\ \A p \in 0 .. n : StateAt(f, g, ds, b, n, b * p) = After(f, g, p)
          /\ b = 2 => \A p \in 0 .. n - 1 :
                        StateAt(f, g, ds, b, n, b * p + 1) = Between(f, g, ds, p)
      BY ONLY n \in Nat, b \in 1 .. 2, StatesAt
    <3> QED
      BY <2>2, <3>1
  <2>6. CASE b = 1
    <3>1. r = b * q /\ r + 1 = b * (q + 1) /\ sep = <<>>
      BY <1>1, <2>1, <2>6
    <3> QED
      BY <1>2, <2>4, <2>5, <3>1 DEF S
  <2>7. CASE b = 2 /\ t = 0
    <3>1. r = b * q /\ r + 1 = b * q + 1 /\ sep # <<>>
      BY <1>1, <2>1, <2>7
    <3> QED
      BY <1>2, <2>4, <2>5, <2>7, <3>1 DEF S
  <2>8. CASE b = 2 /\ t = 1
    <3>1. r = b * q + 1 /\ r + 1 = b * (q + 1) /\ sep # <<>>
      BY <1>1, <2>1, <2>8
    <3> QED
      BY <1>2, <2>4, <2>5, <2>8, <3>1 DEF S
  <2> QED
    BY <2>1, <2>6, <2>7, <2>8
<1> QED
  BY <1>4, <1>5

\* What tfp_format puts out.
LEMMA FormatOutput ==
    ASSUME NEW n \in Nat, NEW f, NEW g, NEW ds, NEW sep \in Separator,
           Formatted(f, g, ds, sep, n), NEW va, ArgumentsOf(va, ds, n)
    PROVE  tfp_format(f[n], va) = g[n]
<1> DEFINE S(r) == StateAt(f, g, ds, Len(sep) + 1, n, r)
           fmt == f[n]
           L == Len(fmt)
           e == [r \in 0 .. L |-> S(r)]
           st == CHOOSE h : FormatLoop(h, fmt, va)
           X == {r \in 0 .. L : st[r] = S(r)}
           s0 == [i |-> 0, k |-> 1, out |-> <<>>]
<1>1. \A r \in Nat : FormatRound(fmt, va, S(r)) = S(r + 1)
  BY StateNext
<1>2. L \in Nat /\ (Len(sep) + 1) * n <= L
  BY FormatLength
<1>3. S(0) = s0 /\ S(L) = After(f, g, n)
  <2>0. PICK l \in 0 .. 1 : l = Len(sep)
    BY SeparatorFacts
  <2>1. PICK b \in 1 .. 2 : b = Len(sep) + 1
    BY <2>0
  <2>2. b * 0 = 0 /\ 0 \in 0 .. n /\ L >= b * n
    BY <1>2, <2>1
  <2>3. StateAt(f, g, ds, b, n, b * 0) = After(f, g, 0)
    <3>1. \A p \in 0 .. n : StateAt(f, g, ds, b, n, b * p) = After(f, g, p)
      BY ONLY n \in Nat, b \in 1 .. 2, StatesAt
    <3> QED
      BY <2>2, <3>1
  <2>4. f[0] = <<>> /\ g[0] = <<>> /\ Len(<<>>) = 0
    BY DEF Formatted, Beginnings
  <2>5. After(f, g, 0) = s0
    BY <2>4 DEF After
  <2>6. StateAt(f, g, ds, b, n, L) = After(f, g, n)
    BY <2>2 DEF StateAt
  <2> QED
    BY <2>1, <2>2, <2>3, <2>5, <2>6
<1>4. tfp_format(fmt, va) = st[L].out
  BY DEF tfp_format, FormatLoop
<1> HIDE DEF S, fmt, s0
<1>5. FormatLoop(e, fmt, va)
  <2>1. ASSUME NEW r \in 0 .. L
        PROVE  e[r] = IF r = 0 THEN s0 ELSE FormatRound(fmt, va, e[r - 1])
    <3>1. CASE r = 0
      BY <1>3, <3>1
    <3>2. CASE r # 0
      <4>1. r - 1 \in 0 .. L /\ r - 1 \in Nat /\ (r - 1) + 1 = r
        BY <1>2, <3>2
      <4>2. e[r - 1] = S(r - 1) /\ e[r] = S(r)
        BY <4>1
      <4>3. FormatRound(fmt, va, S(r - 1)) = S(r)
        BY <1>1, <4>1
      <4> QED
        BY <3>2, <4>2, <4>3
    <3> QED
      BY <3>1, <3>2
  <2>2. e = [r \in 0 .. L |-> e[r]]
    OBVIOUS
  <2> HIDE DEF e
  <2> QED
    BY <2>1, <2>2 DEF FormatLoop, s0
<1>6. FormatLoop(st, fmt, va)
  <2> HIDE DEF e
  <2> QED
    BY <1>5
<1> HIDE DEF st, e
<1>7. \A r \in 0 .. L : st[r] = IF r = 0 THEN s0 ELSE FormatRound(fmt, va, st[r - 1])
  BY <1>6 DEF FormatLoop, s0
<1> HIDE DEF L
<1>8. 0 \in X
  BY <1>2, <1>3, <1>7
<1>9. ASSUME NEW r \in 0 .. L - 1, r \in X PROVE r + 1 \in X
  <2>1. r + 1 \in 0 .. L /\ r + 1 # 0 /\ (r + 1) - 1 = r /\ r \in Nat
    BY <1>2
  <2>2. st[r + 1] = FormatRound(fmt, va, S(r))
    BY <1>7, <1>9, <2>1
  <2> QED
    BY <1>1, <2>1, <2>2
<1>10. L \in X
  <2> HIDE DEF X
  <2>1. \A r \in 0 .. L : r \in X
    BY ONLY <1>2, <1>8, <1>9, Reaches
  <2> QED
    BY <1>2, <2>1
<1>11. After(f, g, n).out = g[n]
  BY DEF After
<1> QED
  BY <1>3, <1>4, <1>10, <1>11 DEF fmt

-----------------------------------------------------------------------------
\* A string with a NUL behind it is that string.
LEMMA Terminated ==
    ASSUME NEW a \in Seq(Code)
    PROVE  CString(Append(a, NUL)) = a
<1> DEFINE s == Append(a, NUL)
           k == Len(a)
<1>1. k \in Nat /\ \A i \in 1 .. k : a[i] \in Code
  OBVIOUS
<1>2. Code \subseteq Byte /\ NUL \in Byte /\ NUL \notin Code
  BY DEF Code, Byte, NUL
<1>3. a \in Seq(Byte)
  BY <1>1, <1>2
<1>4. /\ s \in Seq(Byte) /\ Len(s) = k + 1
      /\ \A i \in 1 .. k : s[i] = a[i]
      /\ s[k + 1] = NUL
  BY <1>2, <1>3, AppendProperties
<1> HIDE DEF s, k
<1>5. s \in [1 .. k + 1 -> Byte]
  BY <1>4
<1>6. \A i \in 1 .. k : s[i] # NUL
  BY <1>1, <1>2, <1>4
<1>7. strlen(s) = k
  <2>1. k + 1 \in Nat /\ k \in 0 .. (k + 1) - 1
    BY <1>1
  <2> QED
    BY <1>4, <1>5, <1>6, <2>1, StrlenFirst
<1>8. CString(s) = SubSeq(s, 1, k)
  BY <1>7 DEF CString
<1>9. /\ SubSeq(s, 1, k) \in Seq(Byte)
      /\ Len(SubSeq(s, 1, k)) = IF 1 <= k THEN k - 1 + 1 ELSE 0
      /\ \A i \in 1 .. k - 1 + 1 : SubSeq(s, 1, k)[i] = s[1 + i - 1]
  <2>1. \A i \in 1 .. k : s[i] \in Byte
    BY <1>1, <1>5
  <2>2. 1 \in Int /\ k \in Int
    BY <1>1
  <2> QED
    BY ONLY <2>1, <2>2, SubSeqProperties
<1>10. /\ CString(s) \in Seq(Byte) /\ Len(CString(s)) = k
       /\ \A i \in 1 .. k : CString(s)[i] = a[i]
  <2>1. (1 <= k => k - 1 + 1 = k) /\ (~(1 <= k) => k = 0) /\ k - 1 + 1 = k
    BY <1>1
  <2>2. \A i \in 1 .. k : 1 + i - 1 = i
    BY <1>1
  <2> QED
    BY <1>4, <1>8, <1>9, <2>1, <2>2
<1>11. CString(s) = a
  <2>1. Len(a) = k
    BY DEF k
  <2> QED
    BY <1>10, <2>1, SameCharacters
<1> QED
  BY <1>11 DEF s

\* The directives of a format.
Directives(ds) == ds \in Seq(ToSet(ds)) /\ \A d \in ToSet(ds) : IsDirective(d)

\* ... which are all filled where they should be.
AllFillable(ds) == \A d \in ToSet(ds) : ~FillBeforeSign(d)

Outputs(ds, sep, fmt, va) ==
    /\ tfp_printf(fmt, va) = FlattenSeq([i \in DOMAIN ds |-> Rendered(ds[i]) \o sep])
    /\ CString(tfp_sprintf(fmt, va)) = tfp_printf(fmt, va)

LEMMA FieldsRight ==
    ASSUME NEW ds, Directives(ds), NEW sep \in Separator, AllFillable(ds),
           NEW fmt, fmt = FlattenSeq([i \in DOMAIN ds |-> Written(ds[i]) \o sep]),
           NEW va, va = [i \in DOMAIN ds |-> ds[i].arg]
    PROVE  Outputs(ds, sep, fmt, va)
<1> DEFINE n == Len(ds)
           F == [i \in 1 .. n |-> Written(ds[i]) \o sep]
           G == [i \in 1 .. n |-> Rendered(ds[i]) \o sep]
<1>1. n \in Nat /\ DOMAIN ds = 1 .. n
  BY DEF Directives
<1>2. \A i \in 1 .. n : Fillable(ds[i]) /\ IsDirective(ds[i])
  <2> SUFFICES ASSUME NEW i \in 1 .. n PROVE Fillable(ds[i]) /\ IsDirective(ds[i])
    OBVIOUS
  <2>1. ds[i] \in ToSet(ds)
    BY DEF Directives
  <2> QED
    BY <2>1 DEF Directives, AllFillable, Fillable
<1>3. sep \in Seq(Code)
  BY SeparatorFacts
<1>4. F \in [1 .. n -> Seq(Code)] /\ G \in [1 .. n -> Seq(Code)]
  <2>1. ASSUME NEW i \in 1 .. n
        PROVE  Written(ds[i]) \o sep \in Seq(Code) /\ Rendered(ds[i]) \o sep \in Seq(Code)
    <3>1. Written(ds[i]) \in Seq(Code) /\ Rendered(ds[i]) \in Seq(Code)
      BY <1>2, WrittenFacts, FieldFacts
    <3> QED
      BY <1>3, <3>1, ConcatProperties
  <2> QED
    BY <2>1
<1> HIDE DEF n
<1>5. PICK f \in [0 .. n -> Seq(Code)] : Beginnings(f, F, n) /\ FlattenSeq(F) = f[n]
  <2> HIDE DEF F
  <2> QED
    BY ONLY <1>1, <1>4, Flattened
<1>6. PICK g \in [0 .. n -> Seq(Code)] : Beginnings(g, G, n) /\ FlattenSeq(G) = g[n]
  <2> HIDE DEF G
  <2> QED
    BY ONLY <1>1, <1>4, Flattened
<1>7. Formatted(f, g, ds, sep, n)
  BY <1>2, <1>5, <1>6 DEF Formatted
<1>8. ArgumentsOf(va, ds, n)
  BY <1>1 DEF ArgumentsOf
<1>9. F = [i \in DOMAIN ds |-> Written(ds[i]) \o sep]
      /\ G = [i \in DOMAIN ds |-> Rendered(ds[i]) \o sep]
  BY <1>1
<1> HIDE DEF F, G
<1>10. fmt = f[n]
  BY <1>5, <1>9
<1>11. tfp_format(fmt, va) = g[n]
  BY <1>1, <1>7, <1>8, <1>10, FormatOutput
<1>12. g[n] \in Seq(Code)
  BY <1>1
<1>13. CString(tfp_sprintf(fmt, va)) = g[n]
  BY <1>11, <1>12, Terminated DEF tfp_sprintf
<1> QED
  BY <1>6, <1>9, <1>11, <1>13 DEF tfp_printf, Outputs

LEMMA FormatRight ==
    ASSUME NEW ds, Directives(ds), NEW sep \in Separator
    PROVE  FormatsRight(ds, sep)
<1>1. ASSUME NEW d \in ToSet(ds), d.conv \notin {String, Char}
      PROVE  Len(Numeral(d.conv, d.arg)) + 1 <= BF
  <2>1. IsDirective(d)
    BY DEF Directives
  <2>2. d.conv \in Numbered
    BY <1>1, <2>1 DEF IsDirective
  <2> QED
    BY <2>1, <2>2, NumeralText
<1>2. PICK fmt : fmt = FlattenSeq([i \in DOMAIN ds |-> Written(ds[i]) \o sep])
  OBVIOUS
<1>3. PICK va : va = [i \in DOMAIN ds |-> ds[i].arg]
  OBVIOUS
<1>4. AllFillable(ds) => Outputs(ds, sep, fmt, va)
  BY ONLY Directives(ds), sep \in Separator, <1>2, <1>3, FieldsRight
<1> QED
  BY <1>1, <1>2, <1>3, <1>4 DEF FormatsRight, AllFillable, Outputs

\* printf.c, for every sequence of directives and every argument: the output is the
\* fields in order, each number with its digits, its sign, and the width and the fill
\* that its directive asks for, unless a negative number is to be filled with zeros,
\* which putchw puts in front of the sign; and bf[] has room for every number.
THEOREM PrintfAlwaysRight == Spec => []PrintfRight
<1>1. InputInv => PrintfRight
  <2> SUFFICES ASSUME InputInv, input.kind = "format"
               PROVE  FormatsRight(input.ds, input.sep)
    BY DEF PrintfRight
  <2>1. GivenFormat
    BY DEF InputInv
  <2>2. PICK ds \in Formats \cup TextFormats, sep \in Separator :
          input = [kind |-> "format", ds |-> ds, sep |-> sep]
    BY <2>1 DEF GivenFormat, Separator
  <2>3. Directives(ds)
    BY SystemAssumption DEF Directives
  <2>4. FormatsRight(ds, sep)
    BY <2>3, FormatRight
  <2>5. input.ds = ds /\ input.sep = sep
    BY <2>2
  <2> QED
    BY <2>4, <2>5
<1> QED
  BY <1>1, InputInvariant, PTL
=============================================================================
