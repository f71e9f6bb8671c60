------------------------------ MODULE Mailbox -------------------------------
(***************************************************************************)
(* mailbox_call of src/uart.c: tasks that send requests to the firmware    *)
(* through one pair of queues and poll for the answer.  Nothing keeps two  *)
(* calls apart: a task may be preempted between any two accesses to the    *)
(* device's registers, and takes answers that are not its own off the      *)
(* queue.  A request is known by the task whose buffer it carries.         *)
(***************************************************************************)
EXTENDS Naturals, Sequences

CONSTANTS
    Callers,       \* tasks that use the mailbox
    QueueLen,      \* requests, and answers, that the device holds
    MaxMbox        \* bound: calls

ASSUME MailboxAssumption == QueueLen \in Nat \ {0} /\ MaxMbox \in Nat

VARIABLES
    mpc,           \* task -> where it is in mailbox_call
    mbox,          \* task -> mbox[1]: "REQUEST", or one of Verdicts
    requests,      \* the device: written by MBOX_WRITE
    answers,       \* the device: read by MBOX_READ
    latch,         \* the device: what MBOX_READ returned last
    mcalls         \* calls made

\* REQUEST_SUCCEED, which is MBOX_RESPONSE, and REQUEST_FAILED.
Verdicts == {"SUCCEED", "FAILED"}

mvars == <<mpc, mbox, requests, answers, latch, mcalls>>

MboxInit ==
    /\ mpc = [t \in Callers |-> "user"]
    /\ mbox = [t \in Callers |-> "REQUEST"]
    /\ requests = <<>> /\ answers = <<>> /\ latch = "none"
    /\ mcalls = 0

Goes(t, p, q) == mpc[t] = p /\ mpc' = [mpc EXCEPT ![t] = q]

\* The user has filled in a buffer and calls.
mailbox_call(t) ==
    /\ mcalls < MaxMbox
    /\ Goes(t, "user", "full")
    /\ mbox' = [mbox EXCEPT ![t] = "REQUEST"]
    /\ mcalls' = mcalls + 1
    /\ UNCHANGED <<requests, answers, latch>>

\* MBOX_STATUS & MBOX_FULL is 0.
NotFull(t) ==
    /\ Len(requests) < QueueLen
    /\ Goes(t, "full", "write")
    /\ UNCHANGED <<mbox, requests, answers, latch, mcalls>>

\* *MBOX_WRITE = r; another task may have filled the queue since, and then the
\* device drops it.
MboxWrite(t) ==
    /\ Goes(t, "write", "empty")
    /\ requests' = IF Len(requests) < QueueLen THEN Append(requests, t) ELSE requests
    /\ UNCHANGED <<mbox, answers, latch, mcalls>>

\* MBOX_STATUS & MBOX_EMPTY is 0.
NotEmpty(t) ==
    /\ answers # <<>>
    /\ Goes(t, "empty", "read")
    /\ UNCHANGED <<mbox, requests, answers, latch, mcalls>>

\* Mutant: the first answer ends the call.
TakesAny(t, answer) == TRUE

\* r == *MBOX_READ
IsMine(t, answer) == answer = t

\* Another task may have emptied the queue since: the device then returns what it
\* returned last.
MboxRead(t) ==
    LET answer == IF answers = <<>> THEN latch ELSE Head(answers)
    IN  /\ Goes(t, "read", IF IsMine(t, answer) THEN "done" ELSE "empty")
        /\ answers' = IF answers = <<>> THEN <<>> ELSE Tail(answers)
        /\ latch' = answer
        /\ UNCHANGED <<mbox, requests, mcalls>>

\* mailbox_call returns mbox[1] == MBOX_RESPONSE: whether the request succeeded.
MboxReturn(t) ==
    /\ Goes(t, "done", "user")
    /\ UNCHANGED <<mbox, requests, answers, latch, mcalls>>

\* The firmware writes to the buffer whether it could do what is asked, and then to
\* the queue.
Answer ==
    /\ requests # <<>> /\ Len(answers) < QueueLen
    /\ \E verdict \in Verdicts : mbox' = [mbox EXCEPT ![Head(requests)] = verdict]
    /\ answers' = Append(answers, Head(requests))
    /\ requests' = Tail(requests)
    /\ UNCHANGED <<mpc, latch, mcalls>>

\* The loops around the two status bits.
MboxPoll(t) ==
    /\ \/ mpc[t] = "full" /\ Len(requests) = QueueLen
       \/ mpc[t] = "empty" /\ answers = <<>>
    /\ UNCHANGED mvars

MboxNext ==
    \/ \E t \in Callers : \/ mailbox_call(t) \/ NotFull(t) \/ MboxWrite(t) \/ NotEmpty(t)
                          \/ MboxRead(t) \/ MboxReturn(t) \/ MboxPoll(t)
    \/ Answer

MboxSpec == MboxInit /\ [][MboxNext]_mvars

-----------------------------------------------------------------------------
MboxTypeOK ==
    /\ mpc \in [Callers -> {"user", "full", "write", "empty", "read", "done"}]
    /\ mbox \in [Callers -> {"REQUEST"} \cup Verdicts]
    /\ requests \in Seq(Callers) /\ answers \in Seq(Callers)
    /\ Len(requests) <= QueueLen /\ Len(answers) <= QueueLen
    /\ latch \in Callers \cup {"none"}
    /\ mcalls \in 0 .. MaxMbox

\* A call comes back only when the firmware has answered this very request, so
\* that its result is the firmware's verdict on it, and 0 only if the request
\* failed: although answers are read by whoever comes first, although the queue may
\* be emptied between the test of MBOX_EMPTY and the read, and although the task's
\* earlier calls carried the same r.
MboxAnswered ==
    \A t \in Callers : mpc[t] = "done" => mbox[t] \in Verdicts
=============================================================================
