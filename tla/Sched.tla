------------------------------- MODULE Sched -------------------------------
(***************************************************************************)
(* The task table, the scheduler and the task system calls of the kernel:  *)
(* src/sched.c, src/fork.c, sys_fork, sys_exit and sys_kill of src/sys.c,  *)
(* the IRQ and ret_from_fork paths of src/entry.S, cpu_switch_to of        *)
(* src/sched.S and the boot sequence of src/main.c.                        *)
(*                                                                         *)
(* There is one core.  What interleaves is the code of the tasks, switched *)
(* by cpu_switch_to, and the interrupts, which arrive whenever the code    *)
(* runs with IRQs on: in the bodies of tasks and of system calls (entry.S  *)
(* calls enable_irq before it dispatches), and inside _schedule.  A step   *)
(* below is a run of the code of one task between two points where an      *)
(* interrupt makes a difference.                                           *)
(*                                                                         *)
(* A task_struct occupies a page, whose other end is the task's kernel     *)
(* stack, so a task_struct is identified with its page.                    *)
(***************************************************************************)
EXTENDS Integers, FiniteSets

CONSTANTS
    NR_TASKS,      \* slots of the task table
    Pages,         \* the pages kmalloc(PAGE_SIZE) can return
    INIT_TASK,     \* the statically allocated task_struct of main()
    NULL,          \* the null pointer
    Threads,       \* kernel threads main() creates before its idle loop
    Irqs,          \* the interrupt sources that are on
    Kills,         \* whether the user programs call kill()
    MaxLag,        \* bound: ticks counted against a task it cannot react to
    MaxDepth       \* bound: activations of _schedule stacked on one task

ASSUME SchedAssumption ==
    /\ NR_TASKS \in Nat \ {0}
    /\ INIT_TASK \notin Pages
    /\ NULL \notin Pages \cup {INIT_TASK}
    /\ Threads \in Nat \ {0}
    /\ Irqs \subseteq {"timer", "uart"}
    /\ Kills \in BOOLEAN
    /\ MaxLag \in Nat
    /\ MaxDepth \in Nat \ {0}

VARIABLES
    task,          \* task[]: slot -> task_struct or NULL
    tcb,           \* the contents of every task_struct
    ctx,           \* where the kernel code of every task stands
    current,       \* the running task's task_struct
    nr_tasks,
    free,          \* the pages the allocator may hand out
    fault          \* the undefined behaviour the kernel ran into, if any

vars == <<task, tcb, ctx, current, nr_tasks, free, fault>>

Slots == 0 .. NR_TASKS - 1
Structs == Pages \cup {INIT_TASK}

PF_KTHREAD == 2

(***************************************************************************)
(* struct task_struct, without cpu_context (that is ctx) and with what the *)
(* pt_regs at the top of its kernel stack hold: "zero" after memzero,      *)
(* "user" once move_to_user_mode has set pc and sp, "child" while they are *)
(* a copy of the parent's with sp at the top of a user stack that has not  *)
(* been filled in, "forked" once sys_fork has copied the user stack and    *)
(* set sp.                                                                 *)
(***************************************************************************)
TaskStruct ==
    [state : {"RUNNING", "ZOMBIE"},
     counter : Int,
     priority : Nat,
     preempt_count : Int,
     stack : Pages \cup {NULL},
     flags : {0, PF_KTHREAD},
     pid : Slots,
     regs : {"zero", "user", "child", "forked"}]

(***************************************************************************)
(* Where a task stands.  base is what its own code is doing: "new" before  *)
(* schedule_tail in ret_from_fork, "boot" in main() with arg threads still *)
(* to create, "body" anywhere in its code with IRQs on and preemption on,  *)
(* "forking" in sys_fork after copy_process returned pid arg, "exiting" in *)
(* exit_process before schedule(), "killing" in sys_kill with task arg     *)
(* freed and still in the table; "freed" marks a page that holds no task.  *)
(* Above it are depth activations of _schedule; an interrupt that stacks   *)
(* one on another always finds the lower one at its first instruction      *)
(* ("entry"), since later ones run with preempt_count > 0.  at is where    *)
(* the innermost one is: "entry", "sched" in the selection loop, "picked"  *)
(* with next chosen, "resume" after switch_to.                             *)
(***************************************************************************)
Context ==
    [base : {"freed", "new", "boot", "body", "forking", "exiting", "killing"},
     arg : Int,
     depth : Nat,
     at : {"none", "entry", "sched", "picked", "resume"},
     next : Slots]

Fresh == [base |-> "new", arg |-> 0, depth |-> 0, at |-> "none", next |-> 0]

Freed == [Fresh EXCEPT !.base = "freed"]

Booting == [Fresh EXCEPT !.base = "boot", !.arg = Threads]

InitTask ==
    [state |-> "RUNNING", counter |-> 0, priority |-> 1, preempt_count |-> 0,
     stack |-> NULL, flags |-> PF_KTHREAD, pid |-> 0, regs |-> "zero"]

Init ==
    /\ task = [i \in Slots |-> IF i = 0 THEN INIT_TASK ELSE NULL]
    /\ tcb = [s \in Structs |-> InitTask]
    /\ ctx = [s \in Structs |-> IF s = INIT_TASK THEN Booting ELSE Freed]
    /\ current = INIT_TASK
    /\ nr_tasks = 1
    /\ free = Pages
    /\ fault = "none"

-----------------------------------------------------------------------------
(***************************************************************************)
(* Behaviour is defined until a fault, and as long as the CPU does not run *)
(* on a task_struct (and kernel stack) that has been given back.           *)
(***************************************************************************)
Defined == fault = "none" /\ ctx[current].base # "freed"

\* The running task is in its own code, at b.
At(b) == Defined /\ ctx[current].depth = 0 /\ ctx[current].base = b

\* The running task is in _schedule, at a.
In(a) == Defined /\ ctx[current].depth > 0 /\ ctx[current].at = a

\* A task that entered EL0 through move_to_user_mode or was forked.
User(s) == tcb[s].stack # NULL

\* Context c with the task's own code at b.
Moved(c, b, arg) == [c EXCEPT !.base = b, !.arg = arg]

\* Context c with the innermost _schedule at a, and next = n.
Advanced(c, a, n) == [c EXCEPT !.at = a, !.next = n]

\* ctx with the running task's own code moved to b.
Goto(b, arg) == [ctx EXCEPT ![current] = Moved(@, b, arg)]

\* A call of _schedule() on top of what context c is doing.
Call(c) == [c EXCEPT !.depth = @ + 1, !.at = "entry"]

\* The innermost _schedule() returns.
Return(c) == [c EXCEPT !.depth = @ - 1,
                       !.at = IF c.depth = 1 THEN "none" ELSE "entry"]

-----------------------------------------------------------------------------
(***************************************************************************)
(* copy_process                                                            *)
(***************************************************************************)
\* assignPID() returns i.
AssignPID(i) == task[i] = NULL /\ \A j \in Slots : j < i => task[j] # NULL

TableFull == \A i \in Slots : task[i] # NULL

\* What copy_process fills in for pid i, of a task_struct with a user stack.
FilledStruct(i, flags, stack, count) ==
    [state |-> "RUNNING",
     counter |-> tcb[current].priority,
     priority |-> tcb[current].priority,
     preempt_count |-> count,
     stack |-> stack,
     flags |-> flags,
     pid |-> i,
     regs |-> IF flags = PF_KTHREAD THEN "zero" ELSE "child"]

\* Mutants: the child is preemptible at once; it keeps the parent's stack.
ChildPreemptible(i, flags, stack) == FilledStruct(i, flags, stack, 0)
ChildSharesStack(i, flags, stack) ==
    FilledStruct(i, flags, tcb[current].stack, 1)

\* The new task_struct: preemption stays off until schedule_tail.
ChildStruct(i, flags, stack) == FilledStruct(i, flags, stack, 1)

\* task[-1] = p: copy_process does not check what assignPID returned.
TableOverflow ==
    /\ TableFull
    /\ fault' = "table_overflow"
    /\ UNCHANGED <<task, tcb, ctx, current, nr_tasks, free>>

(***************************************************************************)
(* main() creates the kernel threads, with the core timer already on, and  *)
(* then idles.  copy_process disables preemption; a tick inside it differs *)
(* from one after it only by not preempting main().                        *)
(***************************************************************************)
CreateThread ==
    /\ At("boot")
    /\ \/ \E i \in Slots, p \in free :
            /\ AssignPID(i)
            /\ task' = [task EXCEPT ![i] = p]
            /\ tcb' = [tcb EXCEPT ![p] = ChildStruct(i, PF_KTHREAD, NULL)]
            /\ LET left == ctx[current].arg - 1 IN
                 ctx' = [Goto(IF left = 0 THEN "body" ELSE "boot", left)
                           EXCEPT ![p] = Fresh]
            /\ nr_tasks' = nr_tasks + 1
            /\ free' = free \ {p}
            /\ UNCHANGED <<current, fault>>
       \/ free # {} /\ TableOverflow

(***************************************************************************)
(* sys_fork, first half: preempt_disable, kmalloc of the user stack,       *)
(* copy_process.  The child is in the table and RUNNING from here on.      *)
(***************************************************************************)
ForkBegin ==
    /\ At("body") /\ User(current)
    /\ \/ \E i \in Slots, stack \in free : \E p \in free \ {stack} :
            /\ AssignPID(i)
            /\ task' = [task EXCEPT ![i] = p]
            /\ tcb' = [tcb EXCEPT ![current].preempt_count = @ + 1,
                                  ![p] = ChildStruct(i, 0, stack)]
            /\ ctx' = [Goto("forking", i) EXCEPT ![p] = Fresh]
            /\ nr_tasks' = nr_tasks + 1
            /\ free' = free \ {p, stack}
            /\ UNCHANGED <<current, fault>>
       \/ Cardinality(free) > 1 /\ TableOverflow

\* sys_fork, second half: copy the user stack, set the child's sp, preempt_enable.
ForkEnd ==
    /\ At("forking")
    /\ LET child == task[ctx[current].arg] IN
         tcb' = [tcb EXCEPT ![child].regs = "forked",
                            ![current].preempt_count = @ - 1]
    /\ ctx' = Goto("body", 0)
    /\ UNCHANGED <<task, current, nr_tasks, free, fault>>

\* move_to_user_mode, by a kernel thread such as kernel_process().
MoveToUser ==
    /\ At("body") /\ current # INIT_TASK /\ ~User(current)
    /\ \E stack \in free :
         /\ tcb' = [tcb EXCEPT ![current].stack = stack, ![current].regs = "user"]
         /\ free' = free \ {stack}
    /\ UNCHANGED <<task, ctx, current, nr_tasks, fault>>

-----------------------------------------------------------------------------
(***************************************************************************)
(* exit_process: the task becomes a zombie and gives its user stack back.  *)
(* The two halves are separated by preempt_enable().                       *)
(***************************************************************************)
\* Mutant: the user stack is kept.
KeepStack(s) == {}

\* The pages exit_process frees for task s.
ExitedStack(s) == {tcb[s].stack} \ {NULL}

Exit ==
    /\ At("body") /\ current # INIT_TASK
    /\ fault' = IF ExitedStack(current) \cap free = {} THEN fault ELSE "double_free"
    /\ free' = free \cup ExitedStack(current)
    /\ tcb' = [tcb EXCEPT ![current].state = "ZOMBIE"]
    /\ ctx' = Goto("exiting", 0)
    /\ UNCHANGED <<task, current, nr_tasks>>

\* schedule(): called by what the running task does at base, it returns to "body".
Schedule ==
    /\ tcb' = [tcb EXCEPT ![current].counter = 0]
    /\ ctx' = [ctx EXCEPT ![current] = Call(Moved(@, "body", 0))]
    /\ UNCHANGED <<current, fault>>

ExitSchedule ==
    /\ At("exiting")
    /\ Schedule
    /\ UNCHANGED <<task, nr_tasks, free>>

\* foo() and other kernel threads give up the CPU.
Yield ==
    /\ At("body") /\ current # INIT_TASK /\ ~User(current)
    /\ Schedule
    /\ UNCHANGED <<task, nr_tasks, free>>

\* kill_zombies: the statements that would reclaim a zombie are commented out.
KillZombies == UNCHANGED <<task, nr_tasks, free>>

\* One round of the idle loop of main().
Idle ==
    /\ At("body") /\ current = INIT_TASK
    /\ KillZombies
    /\ Schedule

-----------------------------------------------------------------------------
(***************************************************************************)
(* sys_kill(pid), which runs with preemption on.  pid 0 and the caller are *)
(* refused; an empty slot is dereferenced all the same.                    *)
(***************************************************************************)
\* Mutant: `==' for `=' in `if (task[pid]->flags = 0)', and nothing else.
FreeUserStack(p) == IF tcb[p].flags = 0 THEN {tcb[p].stack} ELSE {}

\* The pages freed beside the task_struct: the condition assigns 0, so that the
\* branch that frees the user stack is never taken.
KilledStack(p) == {}

\* Mutant: the caller's own pid is accepted.
KillAnyone(s) == Slots \ {0}

\* The pids sys_kill, called by s, acts on.
Killable(s) == Slots \ {0, tcb[s].pid}

KillBegin ==
    /\ Kills /\ At("body") /\ User(current)
    /\ \E pid \in Killable(current) :
         LET p == task[pid] IN
         \/ /\ p = NULL
            /\ fault' = "null_kill"
            /\ UNCHANGED <<tcb, ctx, free>>
         \/ /\ p # NULL
            /\ fault' = IF ({p} \cup KilledStack(p)) \cap free = {}
                        THEN fault ELSE "double_free"
            /\ free' = free \cup {p} \cup KilledStack(p)
            /\ tcb' = [tcb EXCEPT ![p].flags = 0]
            /\ ctx' = [Goto("killing", pid) EXCEPT ![p] = Freed]
    /\ UNCHANGED <<task, current, nr_tasks>>

\* Mutant: nr_tasks is not counted down.
KillKeepsCount ==
    /\ At("killing")
    /\ task' = [task EXCEPT ![ctx[current].arg] = NULL]
    /\ ctx' = Goto("body", 0)
    /\ UNCHANGED <<tcb, current, nr_tasks, free, fault>>

KillEnd ==
    /\ At("killing")
    /\ task' = [task EXCEPT ![ctx[current].arg] = NULL]
    /\ nr_tasks' = nr_tasks - 1
    /\ ctx' = Goto("body", 0)
    /\ UNCHANGED <<tcb, current, free, fault>>

-----------------------------------------------------------------------------
(***************************************************************************)
(* _schedule and switch_to                                                 *)
(***************************************************************************)
EnterSched ==
    /\ In("entry")
    /\ tcb' = [tcb EXCEPT ![current].preempt_count = @ + 1]
    /\ ctx' = [ctx EXCEPT ![current] = Advanced(@, "sched", 0)]
    /\ UNCHANGED <<task, current, nr_tasks, free, fault>>

\* Mutant: the scan does not look at the state.
RunnableAnyState == {i \in Slots : task[i] # NULL}

Runnable == {i \in Slots : task[i] # NULL /\ tcb[task[i]].state = "RUNNING"}

\* Slot i is what a scan leaves in next, with c = counter of i: the first of the
\* runnable tasks with the greatest counter, when that is at least 0.
Best(i) ==
    /\ i \in Runnable
    /\ tcb[task[i]].counter >= 0
    /\ \A j \in Runnable :
         \/ tcb[task[j]].counter < tcb[task[i]].counter
         \/ tcb[task[j]].counter = tcb[task[i]].counter /\ i <= j

\* Mutant: the priority is not added.
RefilledWithoutPriority(t) == t.counter \div 2

Refilled(t) == (t.counter \div 2) + t.priority

\* A scan that ends with c = 0: every task in the table gets a new time slice.
Refill ==
    /\ In("sched")
    /\ \E i \in Slots : Best(i) /\ tcb[task[i]].counter = 0
    /\ tcb' = [s \in Structs |->
                 IF \E i \in Slots : task[i] = s
                 THEN [tcb[s] EXCEPT !.counter = Refilled(tcb[s])]
                 ELSE tcb[s]]
    /\ UNCHANGED <<task, ctx, current, nr_tasks, free, fault>>

\* Mutant: next starts as -1, like c.
NextFromMinusOne == -1

\* next before the scan, and after one that finds no counter above -1.
NextDefault == 0

\* A scan that ends with c # 0.
Pick ==
    /\ In("sched")
    /\ \E i \in Slots \cup {NextDefault} :
         /\ IF i \in Slots /\ Best(i)
            THEN tcb[task[i]].counter # 0
            ELSE i = NextDefault /\ \A j \in Slots : ~Best(j)
         /\ ctx' = [ctx EXCEPT ![current] = Advanced(@, "picked", i)]
    /\ UNCHANGED <<task, tcb, current, nr_tasks, free, fault>>

\* switch_to(task[next], next) and cpu_switch_to.
SwitchTo ==
    /\ In("picked")
    /\ current' = task[ctx[current].next]
    /\ ctx' = [ctx EXCEPT ![current] = Advanced(@, "resume", 0)]
    /\ UNCHANGED <<task, tcb, nr_tasks, free, fault>>

\* The end of _schedule, after switch_to returned.
Resume ==
    /\ In("resume")
    /\ tcb' = [tcb EXCEPT ![current].preempt_count = @ - 1]
    /\ ctx' = [ctx EXCEPT ![current] = Return(@)]
    /\ UNCHANGED <<task, current, nr_tasks, free, fault>>

\* ret_from_fork: schedule_tail() and on to the thread function or to EL0.
ScheduleTail ==
    /\ At("new")
    /\ tcb' = [tcb EXCEPT ![current].preempt_count = @ - 1]
    /\ ctx' = Goto("body", 0)
    /\ UNCHANGED <<task, current, nr_tasks, free, fault>>

-----------------------------------------------------------------------------
(***************************************************************************)
(* irq_exc_handler: irq_exc_router and then task_preemption, whatever the  *)
(* source.  Only the core timer counts a tick.                             *)
(***************************************************************************)
\* Mutant: task_preemption does not look at preempt_count.
PreemptAnyway(counter) ==
    IF counter > 0
    THEN /\ tcb' = [tcb EXCEPT ![current].counter = counter]
         /\ UNCHANGED ctx
    ELSE /\ ctx[current].depth < MaxDepth
         /\ tcb' = [tcb EXCEPT ![current].counter = 0]
         /\ ctx' = [ctx EXCEPT ![current] = Call(@)]

TaskPreemption(counter) ==
    IF counter > 0 \/ tcb[current].preempt_count > 0
    THEN /\ tcb' = [tcb EXCEPT ![current].counter = counter]
         /\ UNCHANGED ctx
    ELSE /\ ctx[current].depth < MaxDepth
         /\ tcb' = [tcb EXCEPT ![current].counter = 0]
         /\ ctx' = [ctx EXCEPT ![current] = Call(@)]

TimerIrq ==
    /\ "timer" \in Irqs /\ Defined
    /\ tcb[current].preempt_count > 0 => tcb[current].counter > -MaxLag
    /\ TaskPreemption(tcb[current].counter - 1)
    /\ UNCHANGED <<task, current, nr_tasks, free, fault>>

UartIrq ==
    /\ "uart" \in Irqs /\ Defined
    /\ TaskPreemption(tcb[current].counter)
    /\ UNCHANGED <<task, current, nr_tasks, free, fault>>

-----------------------------------------------------------------------------
\* What the running task does next, interrupts aside.
Run ==
    \/ CreateThread \/ ForkBegin \/ ForkEnd \/ MoveToUser
    \/ Exit \/ ExitSchedule \/ Yield \/ Idle \/ KillBegin \/ KillEnd
    \/ EnterSched \/ Refill \/ Pick \/ SwitchTo \/ Resume \/ ScheduleTail

\* Nothing is said about what the machine does after undefined behaviour.
Undefined == ~Defined /\ UNCHANGED vars

Next == Run \/ TimerIrq \/ UartIrq \/ Undefined

Spec == Init /\ [][Next]_vars

-----------------------------------------------------------------------------
(***************************************************************************)
(* Properties                                                              *)
(***************************************************************************)
InTable(s) == \E i \in Slots : task[i] = s

\* The slots of the tasks that have not exited.
Alive == {i \in Slots : task[i] # NULL /\ tcb[task[i]].state # "ZOMBIE"}

\* Every variable keeps its type; the contents of a page that is not a
\* task_struct are covered too, since free leaves them behind.
TypeOK ==
    /\ task \in [Slots -> Structs \cup {NULL}]
    /\ tcb \in [Structs -> TaskStruct]
    /\ ctx \in [Structs -> Context]
    /\ current \in Structs
    /\ nr_tasks \in Int
    /\ free \subseteq Pages
    /\ fault \in {"none", "table_overflow", "double_free", "null_kill"}

\* preempt_disable() and preempt_enable() pair up across context switches: the
\* count of a task is the number of disabled sections it is in, never more than
\* one, and a task that is switched out (or was just created) is always inside
\* one, so that an interrupt cannot reschedule it before it has returned from
\* _schedule() or gone through schedule_tail().
PreemptBalance ==
    \A s \in Structs : InTable(s) \/ s = current =>
        /\ tcb[s].preempt_count = IF \/ ctx[s].base \in {"new", "forking"}
                                     \/ ctx[s].at \in {"sched", "picked", "resume"}
                                  THEN 1 ELSE 0
        /\ s # current => tcb[s].preempt_count = 1

\* A forked child does not run before sys_fork has copied the parent's user
\* stack and set the child's sp, although copy_process has already made it
\* RUNNING in the table (sys_fork's preempt_disable).
ForkedStackComplete == tcb[current].regs # "child"

\* exit_process() does not return: schedule() never comes back to a zombie.
ExitNeverReturns ==
    \A s \in Structs : (InTable(s) /\ tcb[s].state = "ZOMBIE") =>
        ctx[s].base = "exiting" \/ ctx[s].depth > 0

\* A context switch goes to a RUNNING task of the table, and so never revives a
\* zombie, also when every runnable task has overrun its time slice and
\* _schedule falls back on task[0].
SwitchToRunning ==
    [][current' # current => \E i \in Alive : task[i] = current']_vars

\* The user stack of a task that has not exited is allocated, and no two such
\* tasks share one or use one as a task_struct (sys_fork and move_to_user_mode
\* take it, exit_process gives it back).
StacksOwned ==
    Defined =>
      \A i, j \in Alive :
        LET s == task[i]
            t == task[j]
        IN  User(s) => /\ tcb[s].stack \notin free
                       /\ tcb[s].stack # t
                       /\ i # j => tcb[s].stack # tcb[t].stack

\* Without kill(), every page is free, or the task_struct of a task of the
\* table, or the user stack of one that has not exited.
NoPageLeak ==
    \A p \in Pages \ free :
        InTable(p) \/ \E i \in Alive : tcb[task[i]].stack = p

\* nr_tasks is the number of tasks in the table, except inside a table overflow.
NrTasksExact ==
    Defined => nr_tasks = Cardinality({i \in Slots : task[i] # NULL})

\* No page is given back twice, whatever the order of exit() and kill().
NoDoubleFree == fault # "double_free"

\* The CPU never runs on a task_struct that has been freed.
NoRunAfterFree == ctx[current].base # "freed"

\* A RUNNING task is eventually scheduled.
NoStarvation ==
    \A i \in Slots :
      (i \in Alive) ~> (task[i] \in {current, NULL} \/ ~Defined)

-----------------------------------------------------------------------------
(***************************************************************************)
(* Fairness.  The kernel's own code does not stop (user code and kernel    *)
(* threads may compute for ever); the core timer ticks; and it ticks 32    *)
(* times a second, so that it does not hit every single round of           *)
(* _schedule between the moment counter is set to 0 and the end of the     *)
(* scan.                                                                   *)
(***************************************************************************)
KernelStep ==
    \/ CreateThread \/ Idle \/ ForkEnd \/ ExitSchedule \/ KillEnd
    \/ EnterSched \/ Refill \/ Pick \/ SwitchTo \/ Resume \/ ScheduleTail

Fairness == WF_vars(KernelStep) /\ WF_vars(TimerIrq) /\ SF_vars(Refill)

FairSpec == Spec /\ Fairness
=============================================================================
