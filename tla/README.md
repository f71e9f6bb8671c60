# A TLA+ model of the NYCU OSDI kernel

The repository is a small AArch64 kernel for the Raspberry Pi 3: one core, a
priority scheduler with preemption from the core timer, fork/exec/exit/kill, a
buddy system with slab allocators on top, multiplexed timeouts, and a mini UART
that is served by interrupt; and the bootloader that receives it over the serial
line. This directory models its parts and the helpers they rest on, checks them
with TLC on small instances, and proves the safety of the scheduler, the
allocators, the timeouts, the console, the mailbox, the bootloader, the strings,
lists and archives they rest on, and exec with TLAPS for every size.

`PROJECT.json` maps each definition to the lines it models and lists the runs,
the hazards and the findings. Source paths below are relative to the repository.

## The system

| part | state | operations | talks to |
|---|---|---|---|
| task table, life cycle (`src/fork.c`, `sched.c`, `sys.c`, `main.c`) | `task[]`, `nr_tasks`, `task_struct`s, user stacks | copy_process, sys_fork, move_to_user_mode, exit_process, kill_zombies, sys_kill | kmalloc/kfree, scheduler |
| scheduler, preemption (`src/sched.c`, `sched.S`, `entry.S`) | `current`, `counter`, `preempt_count`, saved contexts | schedule, _schedule, switch_to, schedule_tail, timer_tick, task_preemption | every interrupt ends in task_preemption |
| buddy system (`src/mm.c`) | `bookkeep[]`, `free_area[]` | buddy_block_alloc, buddy_block_free | |
| object allocators (`src/mm.c`) | `obj_alloc_pool[]`, object fields of `bookkeep[]` | obj_allocate, obj_free, kmalloc, kfree | buddy system |
| timeouts (`src/timer.c`, `timer.S`) | `timer_list`, `isTimerMultiplexingEventIRQ`, the timer's registers | add_timer, timerEvents_irq_handler, core_timer_* | shares the core timer with the scheduler's tick |
| UART and shell input (`src/uart.c`, `shell.c`) | read and transmit buffers, `AUX_MU_IER`, the command line | shell_uart_irq_handler, read_transmit_asynchronous_procoessing, command_controller | interrupt router |
| wait queues (`src/wait.c`, `uart.c`) | `uart_read_waitQueue`, task states | block_uart_read, wait, wake_up | scheduler, interrupt router |
| exec and cpio (`src/sys.c`, `cpio.c`) | the archive in memory, the user stack and registers, the loaded image | sys_exec, cpio_parse_header, cpio_get_file, cpio_ls, cpio_move_file | system call entry |
| system call entry (`src/entry.S`, `sys.S`, `sys.c`) | | dispatch by number, sys_gitPID, sys_uart_read, sys_uart_write, sys_clone | every other part |
| shell commands (`src/shell.c`, `command.c`) | the command line | parse, command_controller, cat, ls, setTimeout | cpio, timeouts |
| mailbox (`src/uart.c`) | the device's two queues, the message buffers | mailbox_call | the firmware |
| lists (`include/list.h`) | the links | list_add, list_add_tail, list_del, list_for_each | allocators, timeouts, wait queues |
| printf, string, math (`src/printf.c`, `string.c`, `math.c`) | none | tfp_format and its parts, strcmp, itoa, atoi, ... | everything that prints or parses |
| bootloader (`bootloader/`) | the command line, the kernel being received | shell, reboot, loadKernel | the user and `kernel2Uart.py` over the serial line |
| boot code, user programs | | | not modelled, see below |

What is hard in it: interrupts arrive in the middle of system calls (`entry.S`
turns IRQs on before it dispatches) and inside `_schedule` itself; the preempt
count is kept by whatever task is `current` at the moment; pages pass between
parents, children, zombies and the allocator; the allocators trust stale fields;
a single hardware timer serves a list of timeouts and the scheduler; the UART's
buffers are shared with an interrupt handler; the bootloader's serial line has no
flow control; exec moves the arguments inside the stack they are on; tasks share
a mailbox without a lock; `wake_up` deletes what it walks over. The hazards of `PROJECT.json`
name the lines.

## Modules

| module | models | checked by |
|---|---|---|
| `Sched` | task table, life cycle, scheduler, preemption | `sched_*` (through `MCSched`) |
| `SchedProofs` | theorems about `Sched` | tlapm |
| `NumberFacts` | lemmas on division, remainders, powers of two, least numbers and loops that the other proofs use | tlapm |
| `PageAlloc` | what callers expect of a page allocator (abstract) | as a property of `Buddy` |
| `Buddy` | the buddy system; refines `PageAlloc` | `buddy` |
| `BuddyProofs` | theorems about `Buddy`, and that it refines `PageAlloc` | tlapm |
| `Kmalloc` | object allocators, kmalloc and kfree; EXTENDS `Buddy` | `kmalloc`, `kmalloc_reuse` |
| `KmallocProofs` | theorems about `Kmalloc` | tlapm |
| `Timer` | timeouts on the core timer | `timer`, `timer_race`, `timer_overtaken` |
| `TimerProofs` | theorems about `Timer` | tlapm |
| `Console` | UART interrupts, the shell's input and echo, wait queues | `console` |
| `ConsoleProofs` | theorems about `Console` | tlapm |
| `Strings`, `Printf`, `Lists` | `string.c` and `math.c`, `printf.c`, `list.h`: operators, each against a reference definition | `boot` |
| `Cpio` | the archive and its functions; EXTENDS `Printf` | `boot` |
| `Commands` | the kernel shell's line and the commands with arguments; EXTENDS `Cpio` | `boot` |
| `Syscall` | dispatch, exec and the calls on a task's own memory; EXTENDS `Commands` | `boot` |
| `Bootloader` | the bootloader, the user and the sending script; EXTENDS `Strings` | `boot`, `boot_cr` |
| `BootloaderProofs` | theorems about `Strings` and `Bootloader` | tlapm |
| `Mailbox` | tasks and the firmware on the mailbox | `boot` |
| `System` | the machine from power-on: the composition of the six above | `boot`, `boot_cr` (through `MCSystem`) |
| `SystemProofs` | theorems about `Mailbox`, `Lists`, `Cpio`, `Commands`, `Syscall` and `System` | tlapm |

Definitions with the comment *Mutant* are deliberate errors, one for each
property of each passing run; with the named definition replaced by its mutant
TLC reports the property as violated. They show that the property depends on that code.

### Sched

A `task_struct` is identified with its page (its kernel stack is the other end of
the page). `tcb` holds the fields of `task_struct`; `ctx` holds what the code
keeps in `cpu_context` and on the kernel stack: where the task's own code stands
(`base`) and how many activations of `_schedule` are stacked on it. Activations
stack because `task_preemption` enables IRQs before it calls `_schedule`, whose
first instruction is still preemptible.

Actions are runs of code between points where an interrupt makes a difference:
`sys_fork` is `ForkBegin` and `ForkEnd`, `exit_process` is `Exit` and
`ExitSchedule`, `sys_kill` is `KillBegin` and `KillEnd`, `_schedule` is
`EnterSched`, `Refill`, `Pick`, `SwitchTo` and `Resume`. `TimerIrq` and `UartIrq`
may happen between any two of them. A scan of the table is one step: the fields
it reads change only by ticks on `current`, and a tick during the scan is one
before or after it as far as the choice goes. kmalloc of a page is a choice of a
free page: it blocks when there is none, since the real one would fail inside
mm.c (see Kmalloc). The loop of `kill_zombies` reads `task[i]->state` of empty
slots and does nothing with it; it is modelled as no change.

`task[-1] = p` on a full table and kill() of an empty slot are recorded in
`fault`; after that, or when the CPU runs on a freed page, the behaviour is undefined
and only `Undefined` (stuttering) is left. exec does not change the state modelled here.
TASK_WAITING is left to `Console`.

### PageAlloc, Buddy, Kmalloc

`Buddy` has one action for buddy_block_alloc and one for buddy_block_free. The
loops are expressed by their results (`Take` gives the fields of all frames after
the splits, `Top` is where the merge loop ends), with the stale `order` fields the
loops leave behind. `Promise` maps it to `PageAlloc`.

`Kmalloc` keeps the real arithmetic of addresses. `live` counts how many callers
hold an address; it exceeds 1 because of the defect that `kmalloc_reuse` shows, and the other
properties are checked in spite of it. The contents of a freed object are left
out: obj_free writes them, and obj_allocate reads them into a local only. Calls
are atomic.

### Timer

`cnt` is the counter, and time passes by `Count`, at most `MaxLatency` counts past
a pending interrupt and `MaxAdd` within add_timer. Words wrap at `WORD`, and the
timer register at `TVAL`. add_timer is four steps, between which interrupts are taken
and a second of the system time may end (the code prints the whole list inside), since
its `disable_irq()` is commented out. The timer may be switched on or off at any moment
(`CoreTimerSwitch`, at most `MaxSwitches` times): neither the commands nor the system
calls look at the list or the flag. If the handler empties the list before
setNextTimerEventInterrupt is reached, that function reads memory behind `timer_list` as
an event, which is one of the words in `Garbage`.

The update of the list and the insertion are one step (an interrupt inside would meet a
half-linked list), and the copy of the message into `args[30]` is left out.

`disturbed` is a history variable: which of three things have happened since an event was last added
to an empty list, namely the handler inside add_timer (`"irq"`), a switch of the timer (`"switch"`)
and the end of a second inside add_timer (`"second"`). The code does go wrong after each of them,
and the properties say which they need: `NotEarly` holds as long as there was neither `"irq"` nor
`"switch"`, `NotLate`, `ArmedForHead` and the order of the list as long as there was none of the
three. The remaining times are exact whatever happens, and `HandlerFindsEvent` has no condition
either: the interrupt is routed to an empty list between the flag and the insertion of add_timer and
at no other point. `timer_race` and `timer_overtaken` are the runs that show the promises broken.

### Console

`kernel_shell_status` selects one of two systems. In shell mode the interrupt
handler and the shell share two buffers. Otherwise readers sleep in
block_uart_read. A character is its place in what was typed and the kind that
parse() sees; the transmit buffer is its index. `SwitchTo` is the scheduler, reduced to what
Sched shows: it goes to any RUNNING task. The idle task is always one of them. Enabling and
disabling interrupts by read-modify-write of `AUX_MU_IER` is one step; an interrupt between
the read and the write has the effect of one before it, as handlers only clear
the bit that the code sets. Both users are present in the source but not reached from the
checked-in main(): the shell is behind the idle loop, and sys_uart_read has its
call of block_uart_read commented out.

`uart_transmit_idx` is not looked at before the handler sends a character. The shell stores the echo
with interrupts off but turns the transmit interrupt on afterwards; if that is on already, the
handler drains the buffer between the two, and once more when the shell has turned it on again. The
index is then below zero for good, the shell spins at shell.c:87, or stores in front of the buffer.
All of this is in the model, down to `-MaxUnder`, and `InputServed` is claimed while the index is
not below zero.

The wait queue is `list.h` in memory. wait() adds its entry with interrupts and preemption on, so that
`Enqueue` is five actions: the load of the last entry and the four stores of `__list_add`.
`wake_up` walks the links as they are at that moment and deletes what it walks over. The addition
can be torn (`torn`): an entry is lost if `wake_up` empties the queue in the middle of its addition, or
if it is added behind the entry of a task that is preempted in the middle of its own. `WaitEntriesLive`
says what is left: `wake_up` ends, never follows a link into a stack frame that is gone and wakes only
tasks that sleep; and all of them, as long as no addition was torn.

block_uart_read can lose a wake-up, and the model shows how: it turns the read
interrupt on, the character arrives, the handler wakes nobody and turns the
interrupt off, and only then the task queues itself and sleeps. No line that is
built depends on it, and no property claims that readers are woken.

### System and what it composes

`System` starts in the bootloader. When a complete kernel has been entered it goes
on to one of three activities that share no state: a call of a library function
with any of the inputs of `MCSystem`, a user task with its system calls, or
several tasks on the mailbox.

`Strings`, `Printf`, `Cpio` and `Commands` have no state. A loop is a recursive function of the
number of its rounds, or of the one address or number it changes, so that it can be reasoned about
round by round; a string is the sequence of its codes. An archive is headers and bytes by address,
so that `align_up` and the hex fields decide what is found. printf's words have `WORD` values and
its `bf[]` has `BF` characters; `PrintfAssumption` says that a sign, the decimal digits of a word
and a NUL fit in it, as they do in the 12 characters that the code has for 32 bits. The fields that
a directive calls for (`Rendered`) are those of C: the zeros that fill up a negative number are
behind its sign. putchw puts them in front, and `PrintfRight` leaves such fields out
(`FillBeforeSign`). What cpio_get_file prints on its way, one line for each entry it comes to, is
part of what `cat` prints; where the archive breaks off the name in that line was never set
(`Unset`). `setTimeout` counts modulo `LONGWORD`, as its duration is a uint64_t. `Lists` works on
links in memory, the links of deleted entries included, and shows that the lists of the other
modules may be taken as sequences.

`Bootloader` receives through `rx`, which loses what arrives when it is full. The user types until
the script is started; the script sends the size, a line feed and the image. `lost` records what was
lost of it. `screen` is what is left of the echo; other output is left out, and so is the time it
takes (the line may be slow or fast against it). The script is started once, and nothing is typed
after that. The loop that reads the size has no limit: from the end of `buff[]` on it stores to
whatever lies behind, and the model lets the loader go on or stop in `fault`, after which everything
may happen and nothing is claimed (`StoreDigit`).

`Syscall` follows one task. The user puts argv anywhere on its stack and calls
exec: both are one action, `sys_exec`. The stack is counted in words; a character
that is read takes a word. A pointer is the number of a word of the stack, the address of a
byte of the program, or something else, and `asked` keeps the strings that the arguments
pointed to before the call. exec loads the new program over the old one before it
has read argv, so that arguments in the old program, such as those of rootfs/argv_test, are lost;
so are those on the stack where the new argv[] is put. `ExecRight` claims all others
(`Spared`). A call number above the limit hangs the CPU.

`Mailbox` has one action per access to the device. The call is known by the task,
since the message is on the stack of the task; a message in the data of a program
that was forked would be shared, and is not covered. The write to a queue that
another task has filled since the test is dropped by the device, and the read of
one that has been emptied returns the value of the last read; both are the external
part of the model. So is the firmware, which answers every request and says either that it
succeeded or that it failed; the call then returns 0.

## Runs

| run | result | what it shows |
|---|---|---|
| `sched_preempt` | pass | 3 slots, 4 pages, a kernel thread, both interrupts, two stacked activations, under `Fairness`: types, `PreemptBalance`, `ForkedStackComplete`, `ExitNeverReturns`, `NoPageLeak`, `SwitchToRunning`, `NoStarvation` |
| `sched_kill` | pass | kill(), exit() and fork() without interrupts: `NoRunAfterFree`, `NoDoubleFree`, `StacksOwned`, `NrTasksExact` |
| `sched_kill_race` | violation | kill() with the timer on: the CPU runs on a freed page |
| `buddy` | pass | 8 frames, orders 0 to 2: `Tiling`, `Coalesced`, `ListsMatchPages`, and `Buddy` implements `PageAlloc` |
| `kmalloc` | pass | 4 frames of 4 bytes, objects of 2 bytes, sizes that need an object, one frame, two frames and too much: `ListsMatchUse`, `CountsExact`, `LiveIsOwned`, `MemoryDisjoint` |
| `kmalloc_reuse` | violation | an address is handed out twice |
| `timer` | pass | 3 events of 0, 1 or 2 seconds in 12 counts, interrupts and ends of seconds inside add_timer, the timer switched once at any moment: `ListInDueOrder`, `ArmedForHead`, `NotEarly`, `NotLate`, `HandlerFindsEvent` |
| `timer_race` | violation | an interrupt inside add_timer, or coreTimerOn with an event pending, fires an event early |
| `timer_overtaken` | violation | add_timer runs across the end of a second: a pending event is overtaken and fires seconds late |
| `console` | pass | 4 characters of every kind, buffers of 2, the index of the transmit buffer down to -2, two readers whose additions to the queue are interrupted and preempted between any two stores: `NoCharLost`, `WaitEntriesLive`, and `InputServed` under `Fairness` |
| `boot` | pass | the bootloader (`LineShown`, `KernelComplete`, `LoadFinishes`), the helpers (`StringsRight`, `LinksRight`, `PrintfRight`), archive and command line (`LookupRight`), exec (`ExecRight`), the mailbox (`MboxAnswered`) |
| `boot_cr` | violation | the kernel that is entered is not the one that was sent |

Why the bounds are enough to be interesting. Three slots let a parent, a child and the idle task
exist, the table fill up, and a slot be reused after kill. Four pages, and five with kill(), let the
table fill with stacks left over. `MaxLag` = 1 lets counters reach the -1 that `_schedule` starts
from (a task with preemption off at counter 0 is hit by ticks), and `MaxDepth` = 2 lets an interrupt
stack one activation on another. Eight frames with two top blocks have a merge chain of two levels
and a top buddy that must not be merged. `EmptyLimit` = 2 (10 in the code) is reached. Sixteen
counts at 3 counts a second hold three overlapping events with truncation and late interrupts that
wrap `remainingTime` (twelve in the passing run, which has the disturbances as well). Buffers of 2
overflow with 4 characters, and two readers suffice for both ways to tear the queue.

In `boot` a command line of 3 characters overflows with the 6 that are typed, with erased ones among
them, and holds the names of the commands, which have one or two characters there; the kernel of 10
bytes has a size of two digits, carriage returns, line feeds and a byte that looks like a digit, and
the receiver of 2 characters overruns at any point of it. All 256 words are printed with every
conversion, in widths below and above their digits, where `BF` = 5 is just enough for the sign,
three digits and the NUL, as 12 is for 32 bits. Archives have up to two files with names and
contents of every length modulo 4, a trailer or a wrong magic. A user stack of 6 words and up to 3
arguments, which point to the stack, to the program and elsewhere, make every overlap of old and new
argv; two calls in a row have an exec of an exec. Three tasks with five calls on queues of 2 fill
the request queue between a test and a write. Lists of up to four entries, with every old link in
the others: as each operation is checked from every such list, this is the induction step for lists
of that length.

Deadlock is checked in every run.

Symmetry of pages is used in `sched_kill` only, which checks invariants: pages are
chosen by \E and never ordered.

### Fairness

`Sched!Fairness`: kernel code that is running goes on (`KernelStep`; user code and kernel threads
may compute for ever, so exit, fork and yield are not fair); the core timer ticks; and `SF(Refill)`:
a scan that has to refill does so if it gets there again and again. The last one is needed because a
tick between `counter = 0` and the end of the scan makes the counter -1, which sends the round to
task 0 without a refill. The timer ticks 32 times a second and a round takes microseconds, so that a
tick cannot hit every round. The fairness of the tick is that of a kernel without timeouts: after
the last timeout the handler turns the core timer off (timer.c:45), and `NoStarvation` holds only
while it ticks.

`Console!Fairness`: the device sends the character it has, the two interrupts of the
UART are taken while they are pending (the shell has IRQs on outside its two-line
critical section), and the shell's loop goes on.

`System!Fairness`: `kernel2Uart.py` sends the bytes it has, and the bootloader, which has
the processor for itself, goes on. The user need not type anything.

## Findings

1. `sys_kill` frees the page before it empties the slot, with preemption on (`sched_kill_race`).
2. `obj_allocate` does not advance the free list of the page (`kmalloc_reuse`).
3. `add_timer`'s critical section is commented out, though its comment calls it essential, and
   nothing keeps the core timer from being switched while events are pending: both fire a timeout
   early (`timer_race`).
4. An event that is still pending in the second after its time has a remaining time that wrapped,
   and the next add_timer inserts its event in front of it (`timer_overtaken`); the comment says the
   list is always sorted. The attempt to prove `ListInDueOrder` found it: the sorting needs that no
   second ends inside add_timer.
5. `uart_getc` of the bootloader changes every carriage return of the kernel it loads to a line feed
   (`boot_cr`).

Where the code departs from what one would ask and no line of the repository promises it, there is
no run; the models have the behaviour, and the property concerned says what it leaves out:

* a transmit index below zero, after which the shell hangs (`Console`, `InputServed`), and a torn
  addition to the wait queue, after which its task sleeps for ever (`Console`, `WaitEntriesLive`);
* the timer switched off with events pending, which are then late without limit (`Timer`,
  `NotLate`);
* zeros in front of the sign (`Printf`, `PrintfRight`), although printf.h promises zero padding;
* arguments of exec that the new program is loaded over (`Syscall`, `ExecRight`);
* a command line of the bootloader that is too long, is echoed all the same, and is then erased: the
  command is compared with a text that was cut off (`Bootloader`, `LineShown`, up to `over`); and a
  size with more digits than `buff[]` has room for (`StoreDigit`);
* characters that are typed faster than the shell reads come out in reverse, as both buffers are
  stacks (`Console`);
* `__NR_syscalls` is 11 and the table has 13 entries, so that the last two calls hang the CPU
  (`Syscall`).

`kill_zombies` reclaims nothing, because its loop body is commented out; `Sched` models it so,
and the table fills up in the runs (`table_overflow`).

## What is proved

All theorems are checked by tlapm to the last leaf, for every value of the constants that satisfies
the named assumption of the module (`SchedAssumption`, `BuddyAssumption`, `TimerAssumption`,
`SystemAssumption`, ..., which TLC evaluates in the runs): no bound on tasks, pages, stacked
activations, frames, orders, events, buffers, readers or callers. Each inductive invariant was
checked by TLC on the constants of the runs before it was proved.

What a loop computes is proved by induction on its rounds. The induction theorems of the
library have an operator as parameter, which the provers cannot instantiate; here the induction is
over a set X of numbers: `Reaches` (in `NumberFacts`) says that X holds all of 0 .. n if
it holds 0 and i + 1 with every i, and rests on the least number that would be missing.
`Iterates` says that a function with f[0] = b and f[i] = step[i][f[i - 1]] exists, which a
recursive definition means nothing without.

### Scheduler and life cycle: `SchedProofs`

* `TypeCorrect`: `Spec => []TypeOK`, with kill() and interrupts. That `current` stays a
  task_struct is not a local fact: it needs that only the running task has a chosen
  successor and that the slot is occupied (`PickedOccupied`), that slot 0 is the idle task
  and no other is (`IdleInTable`), and that sys_kill empties another slot (`KillsAnother`).
  `TypeInv` is their conjunction.
* With `~Kills`: `PreemptionBalanced`, `ForkIsComplete`, `ExitIsFinal`,
  `NoPageIsLeaked`, `SwitchesToRunning`. The hypothesis is needed:
  with kill() and interrupts the invariant is false (`sched_kill_race`), and a
  killed task's stack leaks (`if (task[pid]->flags = 0)`).
* With `~Kills` or no interrupts: `NeverRunsFreed`, `NeverFreesTwice`, `NrTasksCounts`,
  `StacksAreOwned`. This is the boundary of finding 1: each of kill() and interrupts alone is safe.

Without kill() the inductive invariant is `SafeInv == TypeInv /\ MemInv /\ CtlInv`.

* `CtlInv`: the balance of preempt counts holds only together with where
  switched-out tasks stand (`Parked`: before schedule_tail, or after switch_to in
  `_schedule`). A fork is complete because the only incomplete child belongs to the
  sys_fork that is running, which has preemption off (`ChildHeld`). Exit is final because
  a picked task stays RUNNING until it is switched to and a zombie never stands at
  `resume` while it is current (`PickedRunning`, `ZombieParked`).
* `MemInv`: the table is injective and its pages allocated; stacks of tasks that
  have not exited are allocated, distinct, and not task_structs; every other page
  is free. `exit_process` leaves `stack` pointing to a freed page, so that every
  statement about stacks is restricted to tasks that are not zombies.

With kill() and no interrupts it is `KillInv`. `sys_kill` frees the victim and empties the slot one
step later, so that the table does hold a freed page in between: the invariant says that this page
is the `Victim` of the running sys_kill, and that it is not the caller's own (`VictimIsOther`, which
rests on a pid being the slot of its task, `PidIsSlot`, since the code compares pids). Every other
task of the table is `Settled`: its page is allocated, and it stands before schedule_tail or after
switch_to unless it is running. `CountExact` is stated for `Occupied` and rests on the cardinality
lemmas `CountAdded` and `CountRemoved`.

### Buddy system: `BuddyProofs`

`BuddyTypeCorrect`, `BuddyTiling`, `BuddyCoalesced`, `BuddyListsMatch`, and `BuddyKeepsPromise`:
`BuddySpec` implements `PageAlloc`. The inductive invariant `BuddyInv` says which blocks there are
(the free ones by `free_area`, the others by `held`), that they are aligned, tile the pool and are
coalesced. It takes a frame to be the first of a free block when it is marked free and has an order:
that no frame inside a block looks so, whatever orders earlier splits and merges left there, is what
makes the merge loop right, which decides by the fields of the buddy's first frame without knowing
whether a block starts there. The blocks through which the loop goes are the `Merged(p, k)`, and the
halves given back by the splits are the `Split(t, k)`; the lemmas about them (`Chain`, `ChainApart`,
`CutTiles`, `MergeTiles`) replace the induction on the loops. For the refinement, the allocator must
refuse only when the abstract one has nothing left: if no list of a higher order has a block then no
aligned block of the order is free (`ExhaustedNone`), for which `Coalesced` is needed.

### Timeouts: `TimerProofs`

`TimerTypeCorrect`, `ListSorted`, `TimerArmed`, `TimeoutsNotEarly`, `TimeoutsNotLate`,
`HandlerSafe`, with interrupts at every step of add_timer, the ends of seconds inside it and the
timer switched at any moment; the conditions are those of the properties (`disturbed`), and no
assumption excludes what the code lets happen. The inductive invariant `TimerInv` comes in layers,
as the disturbances do. `Basic` holds whatever happens: the remaining time of every event is, as a
word, counted to the second in which it comes due (`Known`), and the flag is set for an empty list
only inside add_timer. `Alone` holds until the handler comes inside add_timer or the timer is
switched: add_timer finds its event in the list when it sets the timer, and that is not set to a
time before the second of the first event. `Quiet` holds until anything disturbs: the list is
sorted, the timer is on and set for a count of the second of the first event, the counter has not
passed that by more than the latency, and add_timer is still in the second in which it registered
its event, before which nothing in the list was due, so that the words compare like the numbers
(`InSecond`).

### Object allocators: `KmallocProofs`

`KmallocTypeCorrect`, `KmallocListsMatch`, `KmallocCountsExact`, `KmallocLiveOwned`,
`KmallocDisjoint`, for every pool, every range of object sizes and every limit of empty pages.
`KmallocInv` is stated page by page (`PageInv`: a page is unused, part of a held block, or a slab
of one allocator, with what its fields then are) and allocator by allocator (`AllocatorInv`:
where its pages are linked and what its counters count), since each step touches one page and
at most one allocator. What the callers hold on a page is a set of `Units`, an address and which of
its holders, so that a counter is a cardinality and a step adds or removes one unit; this is
what makes the counts exact although the same object is handed out twice (`kmalloc_reuse`; no
theorem claims `ObjectsDistinct`, which is false). `KmallocDisjoint` puts the layout of the
objects together with the tiling of the blocks. `KmallocUsesBuddy`: kmalloc and kfree call the buddy
system as it wants to be called, every behaviour is one of `BuddySpec`, and the theorems of
`BuddyProofs` hold below them (`KmallocKeepsPromise`).

### Console: `ConsoleProofs`

`TypeCorrect`, `NoInputLost`, `WaitQueueLive`. The characters are numbered, and the three
places they can be in hold disjoint sets of numbers.

For the wait queue the invariant says that there is a sequence of sleeping readers whose entries the
links connect to a circle with the head (`QueueIs`). The addition that the running task is in the
middle of is either at the end of this sequence, with its stores made up to that stage
(`AddsToEnd`), or behind an entry that is on no list any more (`AddsAside`). Such an entry, and
`head->prev` may lead to one, is that of a task that sleeps for ever or was preempted in the middle
of its own addition (`Lost`). Its frame stays where it is: the task was marked WAITING before it
began (`MarkedUntilQueued`), and nobody can find it to wake it. So no store and no walk meets a
frame that is gone. As long as nothing is torn, the sequence is all that sleep (`Whole`).

### Strings and bootloader: `BootloaderProofs`

What string.c and math.c compute is proved for all strings and numbers: `Comparisons` (strcmp,
strncmp, strcpy, strset) and `Conversions` (itoa, atoi, pow, reverse). A string of digits
`Denotes` a number by the quotients of the number: the last i digits are a remainder and
the others a quotient, one more at each round of the two loops.

The theorems are about `BootSpec`, the bootloader without the kernel. The invariants of the first
two do not need each other.

* `CommandShown`: `LineShown`, for every length of the buffer, unless more was typed than it holds.
  `LineInv` says that the screen shows the line as long as it fits (`Shown`), that the screen is
  never shorter than the line, so that a backspace has something to rub out, and that the command
  obeyed was the one shown (`Obeyed`, by `StrcmpEqual`: strcmp finds only equal strings equal,
  although erased characters may follow the NUL in the buffer). The theorem assumes `NUL \notin
  Keys`: a NUL that is typed would end the comparison and not be seen.
* `EntersCompleteKernel`: `KernelComplete`, for every image and every depth of the receiver, unless
  a character of the size was lost. `LoadInv` says that what has been read, what waits in the
  receiver and what the script has still to send are the stream of size, line feed and image, cut in
  three; as soon as a character is lost, fewer are left than the loader waits for, so that it waits
  forever instead of jumping (`Contiguous`). That atoi() reads the size that the script wrote is
  `Conversions`.
* `BootTypeCorrect`: `BootTypeOK`, for every key, NUL included: the line stays in its buffer, and
  atoi() of whatever arrived instead of a size is a number. The size itself is not limited by
  anything, and no limit is claimed.

### The machine: `SystemProofs`

* Mailbox: `MboxTypeCorrect` and `MboxCallAnswered`, for any number of tasks. A request is in the
  device, as a request or as an answer, at most once and only while its task polls; and what the
  device repeats when the queue has been emptied under a reader is never left from the reader's own
  earlier call (`LatchNotStale`).
* Lists: `LinksAlwaysRight`. `Circle(h, s)` says that the links from the head go through the entries
  of s and back; each operation turns the circle of one sequence into that of another, and a walk is
  at the i-th entry in its i-th round. wake_up deletes the entry on which it stands: the links of
  the deleted entry still lead on, which is why it sees all of them.
* Strings: `StringsAlwaysRight`, from `BootloaderProofs`, with the loop of setTimeout, which counts
  modulo the word.
* Archives and command line: `LookupAlwaysRight`. The eight hexadecimal digits of a header are read
  as they were written (`HexRead`), so that a header says where the next one is (`HeaderSays`). The
  walk of cpio_get_file is a recursive function of the address; `WalkExists` gives it explicitly
  (`Found`: the first file with that name from here on), and the induction goes backwards from the
  trailer; so does that of the lines printed on the way (`Tour`), which are the names up to the one
  that is found. Names and files may be of any length that eight digits can hold. For the command
  line, the buffer begins with the text that is shown after every key (`Agrees`), and the NUL that
  is put behind it makes it that string (`HasText`), whatever is left from erased text; no command
  is the start of another (`CommandNames`).
* printf: `PrintfAlwaysRight`, for every number of directives. ui2a divides the digits off from the
  first one on: after i rounds, num is the remainder by the weight of the i-th digit, and the first
  digit is not zero because the first loop stops at its weight (`RoundsFacts`, `DigitRound`); so it
  writes the digits of positional notation (`UnsignedWritten`), and these are read back by a2i as
  the width that was written (`WidthRead`). A directive at a position of the format is taken apart
  into its flag, width and conversion (`DirectiveRead`), and after r rounds the loop of tfp_format
  stands behind the r-th item of the format, a directive or an ordinary character, with the fields
  before it put out (`StateAt`). The separators are those of CallPrintf, none or one character. The
  field that putchw puts out is the one C asks for unless zeros go before a sign; that no number
  overruns bf[] needs no such exception.
* exec: `ExecPassesArguments` and `ExecAlwaysRight`, for every size of the stack, number of
  arguments and place of the old argv[]. `ArgvInv` follows the words of the stack through the
  backup, `ImageInv` the bytes at LoadAddress. A string is kept (`StringStays`) because strlen stops
  at its NUL before it gets to anything that exec writes, in the stack (`StackStringStays`) or in
  the image (`ImageStringStays`).
* Composition: `MachineContainsParts`, `Spec => BootSpec /\ MboxSpec`: every step of the machine is
  a step of the bootloader or of the mailbox or leaves it alone, and so `MachineKeepsPromises` and
  `SystemTypeCorrect` follow from the theorems about the parts. `InputInv` says what the library
  functions are called with.

`SystemAssumption` says what the inputs are: strings are without NUL (and without the space at which
setTimeout splits), lines are without the new line that ends them, numbers are natural, archives are
laid out as cpio(1) does (`Packed`), and printf is given arguments of the kinds that its directives
call for, with widths that are an int (`IsDirective`); a wrong argument is undefined in C.

### Only model-checked

* `NoStarvation`, `InputServed` and `LoadFinishes`: liveness is out of the prover's reach.
* The findings' runs, which end in a counterexample.

## Not modelled

* The boot code (`start.S`, `mm.S`, `utils.S`) is straight-line set-up before any of the
  state above exists; that the bootloader moves itself out of the way of the kernel is
  taken for granted.
* `dump_*`, `dumpTasksState` and other debugging output, and the tests at the end of
  `mm.c`, change no state.
* `uli2a` and `li2a` are not built (`PRINTF_LONG_SUPPORT`); `sync_exc_router` and
  `sync_svc_handler` are called from nowhere; `ftoa` is commented out.
* The commands help, hello and currentEL print; `ma` runs mm_init on a pool that is in
  use, and cpio_svc jumps to an address that is right for one archive only.
* The user programs appear as the system calls they may make at any time. The
  copies of printf.c, string.c and uart.c in `rootfs` and `bootloader` are the kernel's,
  up to the bootloader's reverse(), which nothing uses.
* The size of exec's image against the page pool, and the page that exec keeps for its
  backup of argv, are hazards in `PROJECT.json`.

## Plan

Done: all modules with their runs; theorems for every invariant of the passing runs and for
the refinement of `PageAlloc`. Left:

1. An abstract life cycle of a task, refined by Sched.
2. The allocator entered by two tasks at once, with Kmalloc's steps split where mm.c has
   half-linked lists.
