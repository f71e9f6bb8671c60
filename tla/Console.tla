------------------------------- MODULE Console -------------------------------
(***************************************************************************)
(* The mini UART and those who read from it: the kernel shell, which is    *)
(* fed and echoed by interrupt (shell_uart_irq_handler of src/uart.c with  *)
(* src/shell.c), and tasks that sleep in block_uart_read until a character *)
(* arrives (src/uart.c with src/wait.c).  irq_exc_router chooses between   *)
(* the two by kernel_shell_status.                                         *)
(*                                                                         *)
(* A character is a number, its place in what was typed, and a kind.  The  *)
(* transmit buffer is its index: what is echoed is not followed.  The      *)
(* scheduler is the one of Sched, reduced to what its properties promise:  *)
(* a switch goes to some RUNNING task.                                     *)
(*                                                                         *)
(* The wait queue is the list in memory, one store at a time: wait() adds  *)
(* an entry with interrupts and preemption on.                             *)
(***************************************************************************)
EXTENDS Integers, Sequences, FiniteSets, SequencesExt

CONSTANTS
    MAX_BUFFER_LEN,
    Readers,        \* tasks that call block_uart_read
    Idle,           \* the idle task, always RUNNING
    WaitQueue,      \* &uart_read_waitQueue.head
    NULL,
    Keys,           \* kinds of characters, as parse() tells them apart
    MaxTyped,       \* bound: characters typed
    MaxUnder        \* bound: how far uart_transmit_idx goes below zero

ASSUME ConsoleAssumption ==
    /\ MAX_BUFFER_LEN \in Nat \ {0}
    /\ IsFiniteSet(Readers) /\ Idle \notin Readers
    /\ WaitQueue \notin Readers /\ NULL \notin Readers \cup {WaitQueue}
    /\ Keys \subseteq {"regular", "newline", "backspace", "unknown"}
    /\ MaxTyped \in Nat /\ MaxUnder \in Nat

VARIABLES
    kernel_shell_status,
    typed,          \* characters typed so far
    rx,             \* the receiver's FIFO
    thre,           \* the transmit holding register is empty
    ier,            \* AUX_MU_IER: the interrupts that are on
    readBuf,        \* UART_READ_BUFFER, up to uart_read_idx
    uart_transmit_idx,
    pc,             \* where the shell stands
    ch,             \* input_char
    counter,        \* characters of the command line
    taken,          \* the characters the shell has taken
    cur,            \* the task on the CPU
    state,          \* reader -> state of its task_struct
    rpc,            \* reader -> where it stands
    next, prev,     \* the links of the queue's head, and of the entry that a
                    \* reader has on its stack inside wait()
    at,             \* reader inside __list_add -> the argument prev
    torn,           \* the queue has been changed in the middle of an addition
    fault           \* the access outside a buffer, or through a stray link

uart == <<typed, rx, thre, ier>>
shell == <<readBuf, uart_transmit_idx, pc, ch, counter, taken, fault>>
list == <<next, prev>>
waiters == <<cur, state, rpc, list, at, torn>>
vars == <<kernel_shell_status, uart, shell, waiters>>

NoChar == [n |-> 0, kind |-> "regular"]

Init ==
    /\ kernel_shell_status \in {"ENABLE", "DISABLE"}
    /\ typed = 0
    /\ rx = <<>>
    /\ thre = TRUE
    /\ ier = {"read"}
    /\ readBuf = <<>> /\ uart_transmit_idx = 0
    /\ pc = "poll" /\ ch = NoChar /\ counter = 0 /\ taken = {} /\ fault = "none"
    /\ cur = Idle
    /\ state = [r \in Readers |-> "RUNNING"]
    /\ rpc = [r \in Readers |-> "check"]
    /\ next = [e \in Readers \cup {WaitQueue} |->
                 IF e = WaitQueue THEN WaitQueue ELSE NULL]
    /\ prev = next
    /\ at = [r \in Readers |-> NULL]
    /\ torn = FALSE

Shell == kernel_shell_status = "ENABLE" /\ fault = "none"

-----------------------------------------------------------------------------
(***************************************************************************)
(* The hardware                                                            *)
(***************************************************************************)
Type ==
    /\ typed < MaxTyped /\ fault = "none"
    /\ \E k \in Keys : rx' = Append(rx, [n |-> typed + 1, kind |-> k])
    /\ typed' = typed + 1
    /\ UNCHANGED <<kernel_shell_status, thre, ier, shell, waiters>>

Transmitted ==
    /\ ~thre /\ thre' = TRUE
    /\ UNCHANGED <<kernel_shell_status, typed, rx, ier, shell, waiters>>

\* AUX_MU_IIR: a received byte comes before an empty transmitter.
ReadPending == "read" \in ier /\ rx # <<>>
TransmitPending == "transmit" \in ier /\ thre /\ ~ReadPending

-----------------------------------------------------------------------------
(***************************************************************************)
(* shell_uart_irq_handler.  The buffers are stacks: the handler and the    *)
(* shell both work at index idx.                                           *)
(***************************************************************************)
ShellReadIrq ==
    /\ Shell /\ ReadPending
    /\ IF Len(readBuf) < MAX_BUFFER_LEN
       THEN readBuf' = Append(readBuf, Head(rx)) /\ UNCHANGED fault
       ELSE fault' = "read_overflow" /\ UNCHANGED readBuf
    /\ rx' = Tail(rx)
    /\ UNCHANGED <<kernel_shell_status, typed, thre, ier,
                   uart_transmit_idx, pc, ch, counter, taken, waiters>>

\* Mutant: the transmit interrupt is turned off with one character left.
StopEarly(idx) == IF idx = 1 THEN ier \ {"transmit"} ELSE ier

\* AUX_MU_IER after a character has been sent and uart_transmit_idx is idx.
StopWhenDone(idx) == IF idx = 0 THEN ier \ {"transmit"} ELSE ier

\* The index is not looked at before a character is sent: from zero on it goes down
\* for ever, and what is sent lies in front of the buffer.
ShellTransmitIrq ==
    /\ Shell /\ TransmitPending
    /\ uart_transmit_idx > -MaxUnder
    /\ uart_transmit_idx' = uart_transmit_idx - 1
    /\ ier' = StopWhenDone(uart_transmit_idx - 1)
    /\ thre' = FALSE
    /\ UNCHANGED <<kernel_shell_status, typed, rx,
                   readBuf, pc, ch, counter, taken, fault, waiters>>

-----------------------------------------------------------------------------
(***************************************************************************)
(* read_transmit_asynchronous_procoessing and command_controller           *)
(***************************************************************************)
\* Mutant: the index is not moved.
KeepChar(buf) == buf

\* UART_READ_BUFFER without the character the shell has read.
Taken(buf) == Front(buf)

\* The first critical section.
TakeChar ==
    /\ Shell /\ pc = "poll" /\ readBuf # <<>>
    /\ taken' = taken \cup {Last(readBuf)}
    /\ readBuf' = Taken(readBuf)
    /\ ch' = Last(readBuf)
    /\ pc' = "echo"
    /\ UNCHANGED <<kernel_shell_status, uart, uart_transmit_idx, counter, fault, waiters>>

\* The second: the echo.
PushEcho ==
    /\ Shell /\ pc = "echo"
    /\ IF uart_transmit_idx \in 0 .. MAX_BUFFER_LEN - 1
       THEN uart_transmit_idx' = uart_transmit_idx + 1 /\ UNCHANGED fault
       ELSE fault' = "transmit_outside" /\ UNCHANGED uart_transmit_idx
    /\ pc' = "enable"
    /\ UNCHANGED <<kernel_shell_status, uart, readBuf, ch, counter, taken, waiters>>

\* Mutant: a character is stored when the line is full.
OneTooMany(n, k) ==
    CASE k = "backspace" -> IF n > 0 THEN n - 1 ELSE n
      [] k = "newline" -> 0
      [] k = "unknown" -> n
      [] k = "regular" -> IF n <= MAX_BUFFER_LEN THEN n + 1 ELSE n

\* command_controller: the length of the line after a character of kind k.
CommandController(n, k) ==
    CASE k = "backspace" -> IF n > 0 THEN n - 1 ELSE n
      [] k = "newline" -> 0
      [] k = "unknown" -> n
      [] k = "regular" -> IF n < MAX_BUFFER_LEN THEN n + 1 ELSE n

\* enable_uart_transmit_interrupt, and the character goes to command_controller.
EnableTransmit ==
    /\ Shell /\ pc = "enable"
    /\ ier' = ier \cup {"transmit"}
    /\ counter' = CommandController(counter, ch.kind)
    /\ pc' = "poll"
    /\ UNCHANGED <<kernel_shell_status, typed, rx, thre,
                   readBuf, uart_transmit_idx, ch, taken, fault, waiters>>

\* Nothing to read: wait until uart_transmit_idx is zero.
Drain ==
    /\ Shell
    /\ \/ pc = "poll" /\ readBuf = <<>> /\ pc' = "drain"
       \/ pc = "drain" /\ pc' = IF uart_transmit_idx = 0 THEN "poll" ELSE "drain"
    /\ UNCHANGED <<kernel_shell_status, uart, readBuf, uart_transmit_idx, ch, counter,
                   taken, fault, waiters>>

-----------------------------------------------------------------------------
(***************************************************************************)
(* block_uart_read and wait(), by a task with interrupts and preemption    *)
(* on; it reads a character when there is one.                             *)
(***************************************************************************)
Waiting == kernel_shell_status = "DISABLE" /\ fault = "none"

\* Reader r, on the CPU, goes from p to q.
Step(r, p, q) ==
    /\ Waiting /\ cur = r /\ rpc[r] = p
    /\ rpc' = [rpc EXCEPT ![r] = q]

\* uart_read_status() is ready: uart_getc().
Read(r) ==
    /\ rx # <<>> /\ Step(r, "check", "check")
    /\ rx' = Tail(rx)
    /\ UNCHANGED <<kernel_shell_status, typed, thre, ier, shell, cur, state, list, at, torn>>

\* It is not.
NotReady(r) ==
    /\ rx = <<>> /\ Step(r, "check", "enable")
    /\ UNCHANGED <<kernel_shell_status, uart, shell, cur, state, list, at, torn>>

EnableRead(r) ==
    /\ Step(r, "enable", "mark")
    /\ ier' = ier \cup {"read"}
    /\ UNCHANGED <<kernel_shell_status, typed, rx, thre, shell, cur, state, list, at, torn>>

\* wait(): current->state = TASK_WAITING
Mark(r) ==
    /\ Step(r, "mark", "queue")
    /\ state' = [state EXCEPT ![r] = "WAITING"]
    /\ UNCHANGED <<kernel_shell_status, uart, shell, cur, list, at, torn>>

\* Reader r is inside __list_add; the stage is the store to come.
Adding(r) == rpc[r] \in {"next->prev", "new->next", "new->prev", "prev->next"}

\* Reader r has a stack frame with an entry.
InWait(r) == Adding(r) \/ rpc[r] = "sched"

Live == {WaitQueue} \cup {r \in Readers : InWait(r)}

\* list_add_tail: the last entry, to be followed by the new one, is head->prev.
\* torn: that is the entry of a task which never got to linking it.
LoadTail(r) ==
    /\ Step(r, "queue", "next->prev")
    /\ at' = [at EXCEPT ![r] = prev[WaitQueue]]
    /\ torn' = (torn \/ prev[WaitQueue] \in {x \in Readers : Adding(x)})
    /\ UNCHANGED <<kernel_shell_status, uart, shell, cur, state, list>>

\* The four stores of __list_add.
StoreNextPrev(r) ==
    /\ Step(r, "next->prev", "new->next")
    /\ prev' = [prev EXCEPT ![WaitQueue] = r]
    /\ UNCHANGED <<kernel_shell_status, uart, shell, cur, state, next, at, torn>>

StoreNewNext(r) ==
    /\ Step(r, "new->next", "new->prev")
    /\ next' = [next EXCEPT ![r] = WaitQueue]
    /\ UNCHANGED <<kernel_shell_status, uart, shell, cur, state, prev, at, torn>>

StoreNewPrev(r) ==
    /\ Step(r, "new->prev", "prev->next")
    /\ prev' = [prev EXCEPT ![r] = at[r]]
    /\ UNCHANGED <<kernel_shell_status, uart, shell, cur, state, next, at, torn>>

StorePrevNext(r) ==
    /\ Step(r, "prev->next", "sched")
    /\ IF at[r] \in Live
       THEN next' = [next EXCEPT ![at[r]] = r] /\ UNCHANGED fault
       ELSE fault' = "stray_link" /\ UNCHANGED next
    /\ at' = [at EXCEPT ![r] = NULL]
    /\ UNCHANGED <<kernel_shell_status, uart, readBuf, uart_transmit_idx, pc, ch, counter,
                   taken, cur, state, prev, torn>>

Enqueue(r) ==
    \/ LoadTail(r)
    \/ StoreNextPrev(r) \/ StoreNewNext(r) \/ StoreNewPrev(r) \/ StorePrevNext(r)

\* schedule() has come back to r: wait() returns to the loop, and its frame is gone.
WaitReturns(r) ==
    /\ state[r] = "RUNNING" /\ Step(r, "sched", "check")
    /\ next' = [next EXCEPT ![r] = NULL]
    /\ prev' = [prev EXCEPT ![r] = NULL]
    /\ UNCHANGED <<kernel_shell_status, uart, shell, cur, state, at, torn>>

\* schedule(), or a preemption: see Sched.
SwitchTo(t) ==
    /\ Waiting /\ t # cur
    /\ t \in {Idle} \cup {r \in Readers : state[r] = "RUNNING"}
    /\ cur' = t
    /\ UNCHANGED <<kernel_shell_status, uart, shell, state, rpc, list, at, torn>>

\* The idle task spins.
IdleLoop ==
    /\ Waiting /\ cur = Idle
    /\ UNCHANGED vars

\* Mutant: the entry stays on the queue.
LeaveEntry(w) == w

\* list_del(w.pos), in the memory of w.
list_del(w) ==
    [w EXCEPT !.next[w.prev[w.pos]] = w.next[w.pos],
              !.prev[w.next[w.pos]] = w.prev[w.pos]]

\* A round of wake_up in the memory of w, with the entry pos: its task is woken.
\* The walk stops where it would follow a link to a frame that is gone.
WakeRound(w) ==
    IF /\ w.pos \in Live \ {WaitQueue}
       /\ w.next[w.pos] \in Live /\ w.prev[w.pos] \in Live
    THEN [list_del(w) EXCEPT !.pos = w.next[w.pos], !.woken = w.woken \cup {w.pos}]
    ELSE w

\* Where the walk stands after a round for every entry there may be.
wake_up ==
    LET walk[i \in 0 .. Cardinality(Readers)] ==
          IF i = 0
          THEN [next |-> next, prev |-> prev, pos |-> next[WaitQueue], woken |-> {}]
          ELSE WakeRound(walk[i - 1])
    IN  walk[Cardinality(Readers)]

\* uart_read_irq_wakeUp_handler: wake_up, disable_uart_read_interrupt
\* torn: the task on the CPU is adding its entry to the queue that is emptied.
WakeUpIrq ==
    /\ Waiting /\ ReadPending
    /\ LET w == wake_up
       IN  IF w.pos = WaitQueue
           THEN /\ next' = w.next /\ prev' = w.prev
                /\ state' = [r \in Readers |->
                               IF r \in w.woken THEN "RUNNING" ELSE state[r]]
                /\ ier' = ier \ {"read"}
                /\ UNCHANGED fault
           ELSE fault' = "stray_link" /\ UNCHANGED <<list, state, ier>>
    /\ torn' = (torn \/ (next[WaitQueue] # WaitQueue
                           /\ cur \in {x \in Readers : Adding(x)}))
    /\ UNCHANGED <<kernel_shell_status, typed, rx, thre, readBuf, uart_transmit_idx, pc, ch,
                   counter, taken, cur, rpc, at>>

ReaderStep(r) ==
    Read(r) \/ NotReady(r) \/ EnableRead(r) \/ Mark(r) \/ Enqueue(r) \/ WaitReturns(r)

ShellStep == TakeChar \/ PushEcho \/ EnableTransmit \/ Drain

\* A store has left its buffer, or a link has been followed to a frame that is gone:
\* nothing is said about what comes after.
Undefined == fault # "none" /\ UNCHANGED vars

Next ==
    \/ Type \/ Transmitted
    \/ ShellReadIrq \/ ShellTransmitIrq \/ ShellStep
    \/ \E r \in Readers : ReaderStep(r)
    \/ \E t \in Readers \cup {Idle} : SwitchTo(t)
    \/ IdleLoop \/ WakeUpIrq
    \/ Undefined

Spec == Init /\ [][Next]_vars

(***************************************************************************)
(* The device sends what it is given, interrupts are taken, and the shell  *)
(* goes on.                                                                *)
(***************************************************************************)
Fairness ==
    /\ WF_vars(Transmitted) /\ WF_vars(ShellReadIrq) /\ WF_vars(ShellTransmitIrq)
    /\ WF_vars(ShellStep)

FairSpec == Spec /\ Fairness

-----------------------------------------------------------------------------
(***************************************************************************)
(* Properties                                                              *)
(***************************************************************************)
\* Every variable keeps its type.
TypeOK ==
    LET Char == [n : 0 .. MaxTyped, kind : Keys \cup {"regular"}]
    IN  /\ kernel_shell_status \in {"ENABLE", "DISABLE"}
        /\ typed \in 0 .. MaxTyped
        /\ rx \in Seq(Char) /\ readBuf \in Seq(Char)
        /\ uart_transmit_idx \in -MaxUnder .. MAX_BUFFER_LEN
        /\ thre \in BOOLEAN
        /\ ier \subseteq {"read", "transmit"}
        /\ pc \in {"poll", "echo", "enable", "drain"}
        /\ ch \in Char /\ taken \subseteq Char
        /\ counter \in 0 .. MAX_BUFFER_LEN
        /\ cur \in Readers \cup {Idle}
        /\ state \in [Readers -> {"RUNNING", "WAITING"}]
        /\ rpc \in [Readers -> {"check", "enable", "mark", "queue", "next->prev",
                               "new->next", "new->prev", "prev->next", "sched"}]
        /\ LET Link == Readers \cup {WaitQueue, NULL}
           IN  /\ next \in [Readers \cup {WaitQueue} -> Link]
               /\ prev \in [Readers \cup {WaitQueue} -> Link]
               /\ at \in [Readers -> Link]
        /\ torn \in BOOLEAN
        /\ fault \in {"none", "read_overflow", "transmit_outside", "stray_link"}

\* The shell gets every character that was typed, once: each is in the receiver,
\* in the read buffer or taken, whatever the interrupt handler does between the
\* shell's test of uart_read_idx and its critical section.
NoCharLost ==
    Shell =>
      /\ {c.n : c \in ToSet(rx) \cup ToSet(readBuf) \cup taken} = 1 .. typed
      /\ Len(rx) + Len(readBuf) + Cardinality(taken) = typed

\* A task sleeps from the end of its addition to the wait queue to its wake-up.
Parked(r) == rpc[r] = "sched" /\ state[r] = "WAITING"

\* wake_up, whenever it comes, ends; it never follows a link into a stack frame that
\* is gone, although an entry lives on the kernel stack of a task inside wait(); and
\* it wakes tasks that sleep, no other.  It wakes all that sleep until the queue is
\* torn, which the code does not prevent: list_add_tail makes four stores with
\* interrupts and preemption on, and an entry is lost when wake_up takes the last one
\* off the queue in the middle of them, or when it is added behind that of a task
\* preempted in the middle of them.  Other wake-ups and switches in the middle of an
\* addition are harmless.
WaitEntriesLive ==
    /\ fault # "stray_link"
    /\ wake_up.pos = WaitQueue
    /\ wake_up.woken \subseteq {r \in Readers : Parked(r)}
    /\ ~torn => wake_up.woken = {r \in Readers : Parked(r)}

\* The shell keeps up: again and again all that was typed has been taken and
\* echoed, with every buffer empty, although the shell's wait for the end of the
\* echo, the interrupt that ends it and new characters come in many orders.  Not in
\* all: this is so as long as no buffer overflows and uart_transmit_idx stays above
\* zero.  When the handler sends the character just stored before the shell turns
\* the transmit interrupt on, the next one takes the index below zero, and the
\* shell waits for ever for it to be zero.
InputServed ==
    []<>(Shell /\ uart_transmit_idx >= 0 =>
           /\ rx = <<>> /\ readBuf = <<>> /\ uart_transmit_idx = 0
           /\ Cardinality(taken) = typed)
=============================================================================
