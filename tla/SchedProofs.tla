---------------------------- MODULE SchedProofs ----------------------------
(***************************************************************************)
(* Theorems about Sched, for every value of its constants.  First type     *)
(* correctness; then, for a system whose programs do not call kill(), what *)
(* the scheduler may do to the tasks and who owns the pages; then, at the  *)
(* end, what remains true when they do call it and no interrupt comes      *)
(* between its steps.  (With kill() and interrupts it is all false: see    *)
(* the run sched_kill_race.)                                               *)
(***************************************************************************)
EXTENDS Sched, FiniteSetTheorems, TLAPS

(***************************************************************************)
(* Type correctness.  That current stays a task_struct rests on three      *)
(* facts about the rest of the state: only the running task has chosen a   *)
(* successor and that slot is occupied, slot 0 is never emptied, and       *)
(* sys_kill never gets as far as emptying it.                              *)
(***************************************************************************)
PickedOccupied ==
    \A s \in Structs : ctx[s].at = "picked" =>
        s = current /\ ctx[s].depth > 0 /\ task[ctx[s].next] # NULL

IdleInTable == \A i \in Slots : task[i] = INIT_TASK <=> i = 0

KillsAnother == \A s \in Structs : ctx[s].base = "killing" => ctx[s].arg # 0

TypeInv == TypeOK /\ PickedOccupied /\ IdleInTable /\ KillsAnother

\* What copy_process leaves in a new task_struct is one.
LEMMA ChildTyped ==
    ASSUME TypeOK, NEW i \in Slots, NEW flags \in {0, PF_KTHREAD},
           NEW stack \in Pages \cup {NULL}
    PROVE  ChildStruct(i, flags, stack) \in TaskStruct
  BY DEF TypeOK, ChildStruct, FilledStruct, TaskStruct

\* Fresh and freed contexts are contexts, and not at any of the interesting points.
LEMMA FreshTyped ==
    /\ Fresh \in Context /\ Freed \in Context /\ Booting \in Context
    /\ Fresh.at = "none" /\ Fresh.base = "new" /\ Fresh.depth = 0
    /\ Freed.at = "none" /\ Freed.base = "freed" /\ Freed.depth = 0
    /\ Booting.at = "none" /\ Booting.base = "boot" /\ Booting.depth = 0
<1>1. 0 \in Slots
  BY SchedAssumption DEF Slots
<1>2. Threads \in Int
  BY SchedAssumption
<1>3. Fresh \in Context
  BY <1>1 DEF Fresh, Context
<1>4. Freed \in Context
  BY <1>1 DEF Fresh, Freed, Context
<1>5. Booting \in Context
  BY <1>1, <1>2 DEF Fresh, Booting, Context
<1> QED
  BY <1>3, <1>4, <1>5 DEF Fresh, Freed, Booting

\* The initial state.
LEMMA InitTypeInv == Init => TypeInv
<1> SUFFICES ASSUME Init PROVE TypeInv
  OBVIOUS
<1> USE SchedAssumption, FreshTyped
<1>1. InitTask \in TaskStruct
  BY DEF InitTask, TaskStruct, Slots, PF_KTHREAD
<1>2. TypeOK
  BY <1>1 DEF Init, TypeOK, Structs, Slots
<1>3. PickedOccupied
  BY DEF Init, PickedOccupied, Structs
<1>4. IdleInTable
  BY DEF Init, IdleInTable, Slots
<1>5. KillsAnother
  BY DEF Init, KillsAnother, Structs
<1> QED
  BY <1>2, <1>3, <1>4, <1>5 DEF TypeInv

Bases == {"freed", "new", "boot", "body", "forking", "exiting", "killing"}
Points == {"none", "entry", "sched", "picked", "resume"}

\* What the four operators on contexts change, and what they keep.
LEMMA ContextOps ==
    ASSUME NEW c \in Context
    PROVE  /\ Call(c) \in Context
           /\ Call(c).depth = c.depth + 1 /\ Call(c).at = "entry"
           /\ Call(c).base = c.base /\ Call(c).arg = c.arg
           /\ c.depth > 0 =>
                /\ Return(c) \in Context
                /\ Return(c).depth = c.depth - 1
                /\ Return(c).at = IF c.depth = 1 THEN "none" ELSE "entry"
                /\ Return(c).base = c.base /\ Return(c).arg = c.arg
           /\ \A b \in Bases, n \in Int :
                /\ Moved(c, b, n) \in Context
                /\ Moved(c, b, n).base = b /\ Moved(c, b, n).arg = n
                /\ Moved(c, b, n).depth = c.depth /\ Moved(c, b, n).at = c.at
                /\ Moved(c, b, n).next = c.next
           /\ \A a \in Points, n \in Slots :
                /\ Advanced(c, a, n) \in Context
                /\ Advanced(c, a, n).at = a /\ Advanced(c, a, n).next = n
                /\ Advanced(c, a, n).depth = c.depth
                /\ Advanced(c, a, n).base = c.base /\ Advanced(c, a, n).arg = c.arg
<1>1. Call(c) \in Context
  <2>1. [c EXCEPT !.depth = @ + 1] \in Context
    BY DEF Context
  <2>2. Call(c) = [[c EXCEPT !.depth = @ + 1] EXCEPT !.at = "entry"]
    BY DEF Call
  <2> QED
    BY <2>1, <2>2 DEF Context
<1>2. /\ Call(c).depth = c.depth + 1 /\ Call(c).at = "entry"
      /\ Call(c).base = c.base /\ Call(c).arg = c.arg
  BY DEF Call, Context
<1>3. ASSUME c.depth > 0
      PROVE  /\ Return(c) \in Context
             /\ Return(c).depth = c.depth - 1
             /\ Return(c).at = IF c.depth = 1 THEN "none" ELSE "entry"
             /\ Return(c).base = c.base /\ Return(c).arg = c.arg
  <2> DEFINE a == IF c.depth = 1 THEN "none" ELSE "entry"
             d == [c EXCEPT !.depth = @ - 1]
  <2>1. d \in Context /\ d.depth = c.depth - 1 /\ d.base = c.base /\ d.arg = c.arg
    BY <1>3 DEF Context
  <2>2. a \in {"none", "entry"}
    OBVIOUS
  <2>3. Return(c) = [d EXCEPT !.at = a]
    BY DEF Return
  <2> HIDE DEF a, d
  <2>4. /\ Return(c) \in Context /\ Return(c).depth = d.depth
        /\ Return(c).base = d.base /\ Return(c).arg = d.arg /\ Return(c).at = a
    BY <2>1, <2>2, <2>3 DEF Context
  <2> QED
    BY <2>1, <2>4 DEF a
<1>4. ASSUME NEW b \in Bases, NEW n \in Int
      PROVE  /\ Moved(c, b, n) \in Context
             /\ Moved(c, b, n).base = b /\ Moved(c, b, n).arg = n
             /\ Moved(c, b, n).depth = c.depth /\ Moved(c, b, n).at = c.at
             /\ Moved(c, b, n).next = c.next
  <2> DEFINE d == [c EXCEPT !.base = b]
  <2>1. /\ d \in Context /\ d.base = b /\ d.depth = c.depth /\ d.at = c.at
        /\ d.next = c.next
    BY DEF Context, Bases
  <2>2. Moved(c, b, n) = [d EXCEPT !.arg = n]
    BY DEF Moved
  <2> HIDE DEF d
  <2> QED
    BY <2>1, <2>2 DEF Context
<1>5. ASSUME NEW a \in Points, NEW n \in Slots
      PROVE  /\ Advanced(c, a, n) \in Context
             /\ Advanced(c, a, n).at = a /\ Advanced(c, a, n).next = n
             /\ Advanced(c, a, n).depth = c.depth
             /\ Advanced(c, a, n).base = c.base /\ Advanced(c, a, n).arg = c.arg
  <2> DEFINE d == [c EXCEPT !.at = a]
  <2>1. /\ d \in Context /\ d.at = a /\ d.depth = c.depth /\ d.base = c.base
        /\ d.arg = c.arg
    BY DEF Context, Points
  <2>2. Advanced(c, a, n) = [d EXCEPT !.next = n]
    BY DEF Advanced
  <2> HIDE DEF d
  <2> QED
    BY <2>1, <2>2 DEF Context
<1> QED
  BY <1>1, <1>2, <1>3, <1>4, <1>5

\* The part of it that concerns the task's own code.
LEMMA MovedFacts ==
    ASSUME NEW c \in Context, NEW b \in Bases, NEW n \in Int
    PROVE  /\ Moved(c, b, n) \in Context
           /\ Moved(c, b, n).base = b /\ Moved(c, b, n).arg = n
           /\ Moved(c, b, n).depth = c.depth /\ Moved(c, b, n).at = c.at
  BY ContextOps

\* The part that concerns a call of _schedule().
LEMMA CallFacts ==
    ASSUME NEW c \in Context
    PROVE  /\ Call(c) \in Context
           /\ Call(c).depth = c.depth + 1 /\ Call(c).at = "entry"
           /\ Call(c).base = c.base /\ Call(c).arg = c.arg
  BY ContextOps

\* The part that concerns the return from it.
LEMMA ReturnFacts ==
    ASSUME NEW c \in Context, c.depth > 0
    PROVE  /\ Return(c) \in Context
           /\ Return(c).depth = c.depth - 1
           /\ Return(c).at = IF c.depth = 1 THEN "none" ELSE "entry"
           /\ Return(c).base = c.base /\ Return(c).arg = c.arg
  BY ContextOps

\* The part that concerns the steps inside it.
LEMMA AdvancedFacts ==
    ASSUME NEW c \in Context, NEW a \in Points, NEW n \in Slots
    PROVE  /\ Advanced(c, a, n) \in Context
           /\ Advanced(c, a, n).at = a /\ Advanced(c, a, n).next = n
           /\ Advanced(c, a, n).depth = c.depth
           /\ Advanced(c, a, n).base = c.base /\ Advanced(c, a, n).arg = c.arg
  BY ContextOps

\* A step that moves the running task's context to c, away from "picked".
LEMMA ContextStep ==
    ASSUME TypeInv, NEW c \in Context,
           c.at # "picked", c.base = "killing" => c.arg # 0,
           ctx' = [ctx EXCEPT ![current] = c]
    PROVE  ctx' \in [Structs -> Context] /\ PickedOccupied' /\ KillsAnother'
  BY DEF TypeInv, TypeOK, PickedOccupied, KillsAnother

\* The same, when page p also becomes a task's, or ceases to be one.
LEMMA ContextStepPage ==
    ASSUME TypeInv, NEW c \in Context, NEW p \in Structs, NEW d \in {Fresh, Freed},
           c.at # "picked", c.base = "killing" => c.arg # 0,
           ctx' = [[ctx EXCEPT ![current] = c] EXCEPT ![p] = d]
    PROVE  ctx' \in [Structs -> Context] /\ PickedOccupied' /\ KillsAnother'
<1>1. d \in Context /\ d.at # "picked" /\ d.base # "killing"
  BY FreshTyped
<1> QED
  BY <1>1 DEF TypeInv, TypeOK, PickedOccupied, KillsAnother

\* Single assignments to a field of a task_struct keep tcb a table of task_structs.
LEMMA FieldUpdates ==
    ASSUME NEW f \in [Structs -> TaskStruct], NEW s \in Structs
    PROVE  /\ \A n \in Int :
                /\ [f EXCEPT ![s].counter = n] \in [Structs -> TaskStruct]
                /\ [f EXCEPT ![s].preempt_count = n] \in [Structs -> TaskStruct]
           /\ [f EXCEPT ![s].state = "ZOMBIE"] \in [Structs -> TaskStruct]
           /\ [f EXCEPT ![s].regs = "forked"] \in [Structs -> TaskStruct]
           /\ [f EXCEPT ![s].regs = "user"] \in [Structs -> TaskStruct]
           /\ [f EXCEPT ![s].flags = 0] \in [Structs -> TaskStruct]
           /\ \A p \in Pages : [f EXCEPT ![s].stack = p] \in [Structs -> TaskStruct]
<1>1. ASSUME NEW n \in Int PROVE [f EXCEPT ![s].counter = n] \in [Structs -> TaskStruct]
  BY DEF TaskStruct
<1>2. ASSUME NEW n \in Int PROVE [f EXCEPT ![s].preempt_count = n] \in [Structs -> TaskStruct]
  BY DEF TaskStruct
<1>3. [f EXCEPT ![s].state = "ZOMBIE"] \in [Structs -> TaskStruct]
  BY DEF TaskStruct
<1>4. [f EXCEPT ![s].regs = "forked"] \in [Structs -> TaskStruct]
  BY DEF TaskStruct
<1>5. [f EXCEPT ![s].regs = "user"] \in [Structs -> TaskStruct]
  BY DEF TaskStruct
<1>6. [f EXCEPT ![s].flags = 0] \in [Structs -> TaskStruct]
  BY DEF TaskStruct
<1>7. ASSUME NEW p \in Pages PROVE [f EXCEPT ![s].stack = p] \in [Structs -> TaskStruct]
  BY DEF TaskStruct
<1> QED
  BY <1>1, <1>2, <1>3, <1>4, <1>5, <1>6, <1>7

\* The fields the steps do arithmetic on are numbers.
LEMMA FieldTypes ==
    ASSUME NEW f \in [Structs -> TaskStruct], NEW s \in Structs
    PROVE  /\ f[s].counter \in Int /\ f[s].preempt_count \in Int
           /\ f[s].priority \in Nat /\ f[s].pid \in Slots
           /\ f[s].state \in {"RUNNING", "ZOMBIE"}
           /\ f[s].stack \in Pages \cup {NULL}
  BY DEF TaskStruct

\* preempt_disable() and preempt_enable() keep the type.
LEMMA CountUpdates ==
    ASSUME NEW f \in [Structs -> TaskStruct], NEW s \in Structs
    PROVE  /\ [f EXCEPT ![s].preempt_count = @ + 1] \in [Structs -> TaskStruct]
           /\ [f EXCEPT ![s].preempt_count = @ - 1] \in [Structs -> TaskStruct]
<1>1. f[s].preempt_count + 1 \in Int /\ f[s].preempt_count - 1 \in Int
  BY FieldTypes
<1>2. [f EXCEPT ![s].preempt_count = f[s].preempt_count + 1] \in [Structs -> TaskStruct]
  BY <1>1, FieldUpdates
<1>3. [f EXCEPT ![s].preempt_count = f[s].preempt_count - 1] \in [Structs -> TaskStruct]
  BY <1>1, FieldUpdates
<1> QED
  BY <1>2, <1>3

\* The fields of a context.
LEMMA ContextTypes ==
    ASSUME NEW c \in Context
    PROVE  /\ c.base \in Bases /\ c.at \in Points /\ c.arg \in Int
           /\ c.depth \in Nat /\ c.next \in Slots
  BY DEF Context, Bases, Points

\* A task in its own code has not picked a successor.
LEMMA NotPicked ==
    ASSUME TypeInv, ctx[current].depth = 0
    PROVE  ctx[current].at # "picked"
  BY DEF TypeInv, TypeOK, PickedOccupied

\* A step that goes on in the running task's own code.
LEMMA GotoStep ==
    ASSUME TypeInv, ctx[current].depth = 0, NEW b \in Bases, NEW n \in Int,
           b = "killing" => n # 0
    PROVE  /\ ctx' = Goto(b, n) =>
                ctx' \in [Structs -> Context] /\ PickedOccupied' /\ KillsAnother'
           /\ \A p \in Structs, d \in {Fresh, Freed} :
                ctx' = [Goto(b, n) EXCEPT ![p] = d] =>
                  ctx' \in [Structs -> Context] /\ PickedOccupied' /\ KillsAnother'
<1>1. ctx[current] \in Context
  BY DEF TypeInv, TypeOK
<1> DEFINE c == Moved(ctx[current], b, n)
<1>2. c \in Context /\ c.at # "picked" /\ (c.base = "killing" => c.arg # 0)
  BY <1>1, MovedFacts, NotPicked
<1>3. Goto(b, n) = [ctx EXCEPT ![current] = c]
  BY DEF Goto
<1> HIDE DEF c
<1>4. ASSUME ctx' = Goto(b, n)
      PROVE  ctx' \in [Structs -> Context] /\ PickedOccupied' /\ KillsAnother'
  BY <1>2, <1>3, <1>4, ContextStep
<1>5. ASSUME NEW p \in Structs, NEW d \in {Fresh, Freed},
             ctx' = [Goto(b, n) EXCEPT ![p] = d]
      PROVE  ctx' \in [Structs -> Context] /\ PickedOccupied' /\ KillsAnother'
  BY <1>2, <1>3, <1>5, ContextStepPage
<1> QED
  BY <1>4, <1>5

\* Slot 0 and a few memberships every step of the proofs below needs.
LEMMA Basics ==
    /\ 0 \in Slots /\ Slots \subseteq Int /\ INIT_TASK \in Structs /\ INIT_TASK # NULL
    /\ Pages \subseteq Structs /\ NULL \notin Structs
    /\ {"boot", "body", "forking", "exiting", "killing"} \subseteq Bases
    /\ {"entry", "sched", "picked", "resume"} \subseteq Points
  BY SchedAssumption DEF Slots, Structs, Bases, Points

\* A table overflow changes nothing but fault.
LEMMA OverflowTypeInv == TypeInv /\ TableOverflow => TypeInv'
  BY DEF TypeInv, TableOverflow, TypeOK, PickedOccupied, IdleInTable, KillsAnother

\* A new task does not displace main().
LEMMA AssignedNotIdle ==
    ASSUME TypeInv, NEW i \in Slots, NEW p \in free, AssignPID(i),
           task' = [task EXCEPT ![i] = p]
    PROVE  IdleInTable'
<1>1. p # INIT_TASK
  BY SchedAssumption DEF TypeInv, TypeOK
<1>2. i # 0
  BY Basics DEF TypeInv, IdleInTable, AssignPID
<1> QED
  BY <1>1, <1>2 DEF TypeInv, TypeOK, IdleInTable

\* copy_process() for a kernel thread fills a free page with a well-formed task.
LEMMA CreateThreadTypeInv == TypeInv /\ CreateThread => TypeInv'
<1> SUFFICES ASSUME TypeInv, CreateThread, ~TableOverflow PROVE TypeInv'
  BY OverflowTypeInv
<1> DEFINE left == ctx[current].arg - 1
           b == IF left = 0 THEN "body" ELSE "boot"
<1>1. PICK i \in Slots, p \in free :
        /\ AssignPID(i)
        /\ task' = [task EXCEPT ![i] = p]
        /\ tcb' = [tcb EXCEPT ![p] = ChildStruct(i, PF_KTHREAD, NULL)]
        /\ ctx' = [Goto(b, left) EXCEPT ![p] = Fresh]
        /\ nr_tasks' = nr_tasks + 1
        /\ free' = free \ {p}
        /\ UNCHANGED <<current, fault>>
  BY DEF CreateThread
<1>2. p \in Structs /\ TypeOK
  BY Basics DEF TypeInv, TypeOK
<1>3. left \in Int
  BY <1>2, ContextTypes DEF TypeOK
<1>4. b \in Bases /\ b # "killing"
  BY Basics
<1>5. ctx[current].depth = 0
  BY DEF CreateThread, At
<1> HIDE DEF left, b
<1>6. ctx' \in [Structs -> Context] /\ PickedOccupied' /\ KillsAnother'
  BY <1>1, <1>2, <1>3, <1>4, <1>5, GotoStep
<1>7. tcb' \in [Structs -> TaskStruct]
  BY <1>1, <1>2, ChildTyped DEF TypeOK, PF_KTHREAD
<1>8. TypeOK'
  BY <1>1, <1>2, <1>6, <1>7 DEF TypeOK
<1>9. IdleInTable'
  BY <1>1, AssignedNotIdle
<1> QED
  BY <1>6, <1>8, <1>9 DEF TypeInv

\* So does copy_process() called by sys_fork; the slot it returns is occupied.
LEMMA ForkBeginTypeInv == TypeInv /\ ForkBegin => TypeInv'
<1> SUFFICES ASSUME TypeInv, ForkBegin, ~TableOverflow PROVE TypeInv'
  BY OverflowTypeInv
<1>1. PICK i \in Slots, stack \in free, p \in free :
        /\ AssignPID(i)
        /\ task' = [task EXCEPT ![i] = p]
        /\ tcb' = [tcb EXCEPT ![current].preempt_count = @ + 1,
                              ![p] = ChildStruct(i, 0, stack)]
        /\ ctx' = [Goto("forking", i) EXCEPT ![p] = Fresh]
        /\ nr_tasks' = nr_tasks + 1
        /\ free' = free \ {p, stack}
        /\ UNCHANGED <<current, fault>>
  BY DEF ForkBegin
<1>2. p \in Structs /\ stack \in Pages /\ i \in Int /\ TypeOK
  BY Basics DEF TypeInv, TypeOK
<1>3. ctx[current].depth = 0
  BY DEF ForkBegin, At
<1>4. ctx' \in [Structs -> Context] /\ PickedOccupied' /\ KillsAnother'
  BY <1>1, <1>2, <1>3, Basics, GotoStep
<1>5. tcb' \in [Structs -> TaskStruct]
  <2> DEFINE f == [tcb EXCEPT ![current].preempt_count = @ + 1]
  <2>1. f \in [Structs -> TaskStruct]
    BY <1>2, CountUpdates DEF TypeOK
  <2>2. tcb' = [f EXCEPT ![p] = ChildStruct(i, 0, stack)]
    BY <1>1
  <2> HIDE DEF f
  <2> QED
    BY <1>2, <2>1, <2>2, ChildTyped
<1>6. TypeOK'
  BY <1>1, <1>2, <1>4, <1>5 DEF TypeOK
<1>7. IdleInTable'
  BY <1>1, AssignedNotIdle
<1> QED
  BY <1>4, <1>6, <1>7 DEF TypeInv

\* sys_fork completes a child that is a task_struct, since its slot is occupied.
LEMMA ForkEndTypeInv == TypeInv /\ ForkEnd => TypeInv'
<1> SUFFICES ASSUME TypeInv, ForkEnd PROVE TypeInv'
  OBVIOUS
<1> DEFINE child == task[ctx[current].arg]
           f == [tcb EXCEPT ![child].regs = "forked"]
<1>1. TypeOK /\ ctx[current].depth = 0 /\ ctx' = Goto("body", 0)
  BY DEF TypeInv, ForkEnd, At
<1>2. ctx' \in [Structs -> Context] /\ PickedOccupied' /\ KillsAnother'
  BY <1>1, Basics, GotoStep
<1>3. f \in [Structs -> TaskStruct]
  <2>1. CASE child \in Structs
    BY <1>1, <2>1, FieldUpdates DEF TypeOK
  <2>2. CASE child \notin Structs
    <3>1. f = tcb
      BY <1>1, <2>2, SMTT(60) DEF TypeOK
    <3> QED
      BY <1>1, <3>1 DEF TypeOK
  <2> QED
    BY <2>1, <2>2
<1>4. tcb' = [f EXCEPT ![current].preempt_count = @ - 1]
  BY DEF ForkEnd
<1> HIDE DEF f
<1>5. tcb' \in [Structs -> TaskStruct]
  BY <1>1, <1>3, <1>4, CountUpdates DEF TypeOK
<1>6. UNCHANGED <<task, current, nr_tasks, free, fault>>
  BY DEF ForkEnd
<1> QED
  BY <1>1, <1>2, <1>5, <1>6 DEF TypeInv, TypeOK, IdleInTable

\* move_to_user_mode() sets the user stack of a task_struct to a page.
LEMMA MoveToUserTypeInv == TypeInv /\ MoveToUser => TypeInv'
<1> SUFFICES ASSUME TypeInv, MoveToUser PROVE TypeInv'
  OBVIOUS
<1>1. PICK stack \in free :
        /\ tcb' = [tcb EXCEPT ![current].stack = stack, ![current].regs = "user"]
        /\ free' = free \ {stack}
  BY DEF MoveToUser
<1>2. TypeOK /\ UNCHANGED <<task, ctx, current, nr_tasks, fault>>
  BY DEF MoveToUser, TypeInv
<1> DEFINE f == [tcb EXCEPT ![current].stack = stack]
<1>3. f \in [Structs -> TaskStruct] /\ current \in Structs
  BY <1>2, FieldUpdates DEF TypeOK
<1>4. tcb' = [f EXCEPT ![current].regs = "user"]
  BY <1>1
<1> HIDE DEF f
<1>5. tcb' \in [Structs -> TaskStruct]
  BY <1>3, <1>4, FieldUpdates
<1>6. TypeOK'
  BY <1>1, <1>2, <1>5 DEF TypeOK
<1> QED
  BY <1>2, <1>6 DEF TypeInv, PickedOccupied, IdleInTable, KillsAnother

\* exit_process() gives back a page, or nothing when there is no user stack.
LEMMA ExitTypeInv == TypeInv /\ Exit => TypeInv'
<1> SUFFICES ASSUME TypeInv, Exit PROVE TypeInv'
  OBVIOUS
<1>1. TypeOK /\ ctx[current].depth = 0 /\ ctx' = Goto("exiting", 0)
  BY DEF TypeInv, Exit, At
<1>2. ctx' \in [Structs -> Context] /\ PickedOccupied' /\ KillsAnother'
  BY <1>1, Basics, GotoStep
<1>3. tcb' \in [Structs -> TaskStruct]
  BY <1>1, FieldUpdates DEF TypeOK, Exit
<1>4. ExitedStack(current) \subseteq Pages
  BY <1>1, FieldTypes DEF ExitedStack, TypeOK
<1>5. TypeOK'
  BY <1>1, <1>2, <1>3, <1>4 DEF TypeOK, Exit
<1> QED
  BY <1>2, <1>5 DEF TypeInv, IdleInTable, Exit

\* schedule(), wherever it is called from.
LEMMA ScheduleTypeInv ==
    ASSUME TypeInv, ctx[current].depth = 0, Schedule, UNCHANGED <<task, nr_tasks, free>>
    PROVE  TypeInv'
<1> DEFINE d == Moved(ctx[current], "body", 0)
           c == Call(d)
<1>1. TypeOK /\ ctx[current] \in Context
  BY DEF TypeInv, TypeOK
<1>2. d \in Context /\ d.base = "body"
  <2>1. "body" \in Bases /\ 0 \in Int
    BY Basics
  <2> QED
    BY <1>1, <2>1, MovedFacts
<1> HIDE DEF d
<1>3. c \in Context /\ c.at = "entry" /\ c.base = "body"
  BY <1>2, CallFacts
<1>4. ctx' = [ctx EXCEPT ![current] = c]
  BY DEF Schedule, d
<1> HIDE DEF c
<1>5. ctx' \in [Structs -> Context] /\ PickedOccupied' /\ KillsAnother'
  BY <1>3, <1>4, ContextStep
<1>6. tcb' \in [Structs -> TaskStruct]
  <2>1. \A n \in Int : [tcb EXCEPT ![current].counter = n] \in [Structs -> TaskStruct]
    BY <1>1, FieldUpdates DEF TypeOK
  <2> QED
    BY <2>1 DEF Schedule
<1> QED
  BY <1>1, <1>5, <1>6 DEF TypeInv, TypeOK, IdleInTable, Schedule

\* sys_kill frees the page of another task than the caller.
LEMMA KillBeginTypeInv == TypeInv /\ KillBegin => TypeInv'
<1> SUFFICES ASSUME TypeInv, KillBegin PROVE TypeInv'
  OBVIOUS
<1>1. TypeOK /\ ctx[current].depth = 0 /\ UNCHANGED <<task, current, nr_tasks>>
  BY DEF TypeInv, KillBegin, At
<1>2. PICK pid \in Killable(current) :
        \/ /\ task[pid] = NULL
           /\ fault' = "null_kill"
           /\ UNCHANGED <<tcb, ctx, free>>
        \/ /\ task[pid] # NULL
           /\ fault' = IF ({task[pid]} \cup KilledStack(task[pid])) \cap free = {}
                       THEN fault ELSE "double_free"
           /\ free' = free \cup {task[pid]} \cup KilledStack(task[pid])
           /\ tcb' = [tcb EXCEPT ![task[pid]].flags = 0]
           /\ ctx' = [Goto("killing", pid) EXCEPT ![task[pid]] = Freed]
  BY DEF KillBegin
<1>3. CASE task[pid] = NULL
  BY <1>1, <1>2, <1>3
     DEF TypeInv, TypeOK, PickedOccupied, IdleInTable, KillsAnother
<1>4. CASE task[pid] # NULL
  <2>1. pid \in Slots /\ pid # 0 /\ pid \in Int
    BY Basics DEF Killable
  <2>2. task[pid] \in Structs
    BY <1>1, <1>4, <2>1 DEF TypeOK
  <2>3. task[pid] \in Pages
    BY <2>1, <2>2 DEF TypeInv, IdleInTable, Structs
  <2>4. ctx' \in [Structs -> Context] /\ PickedOccupied' /\ KillsAnother'
    BY <1>1, <1>2, <1>4, <2>1, <2>2, Basics, GotoStep
  <2>5. tcb' \in [Structs -> TaskStruct]
    <3>1. [tcb EXCEPT ![task[pid]].flags = 0] \in [Structs -> TaskStruct]
      BY <1>1, <2>2, FieldUpdates DEF TypeOK
    <3> QED
      BY <1>2, <1>4, <3>1
  <2>6. TypeOK'
    BY <1>1, <1>2, <1>4, <2>3, <2>4, <2>5 DEF TypeOK, KilledStack
  <2> QED
    BY <1>1, <2>4, <2>6 DEF TypeInv, IdleInTable
<1> QED
  BY <1>3, <1>4

\* sys_kill clears a slot that is neither task[0] nor the one a scan has picked.
LEMMA KillEndTypeInv == TypeInv /\ KillEnd => TypeInv'
<1> SUFFICES ASSUME TypeInv, KillEnd PROVE TypeInv'
  OBVIOUS
<1>1. /\ TypeOK /\ ctx[current].depth = 0 /\ ctx[current].base = "killing"
      /\ ctx' = Goto("body", 0) /\ task' = [task EXCEPT ![ctx[current].arg] = NULL]
      /\ nr_tasks' = nr_tasks - 1 /\ UNCHANGED <<tcb, current, free, fault>>
  BY DEF TypeInv, KillEnd, At
<1>2. ctx' \in [Structs -> Context] /\ PickedOccupied' /\ KillsAnother'
  BY <1>1, Basics, GotoStep
<1>3. ctx[current].arg # 0
  BY <1>1 DEF TypeInv, KillsAnother, TypeOK
<1>4. TypeOK'
  <2>1. task' \in [Slots -> Structs \cup {NULL}]
    BY <1>1 DEF TypeOK
  <2>2. nr_tasks' \in Int
    BY <1>1 DEF TypeOK
  <2> QED
    BY <1>1, <1>2, <2>1, <2>2 DEF TypeOK
<1>5. IdleInTable'
  BY <1>1, <1>3, Basics DEF TypeInv, IdleInTable, TypeOK
<1> QED
  BY <1>2, <1>4, <1>5 DEF TypeInv

\* The steps inside _schedule that leave the table and current alone.
LEMMA EnterSchedTypeInv == TypeInv /\ EnterSched => TypeInv'
<1> SUFFICES ASSUME TypeInv, EnterSched PROVE TypeInv'
  OBVIOUS
<1> DEFINE c == Advanced(ctx[current], "sched", 0)
<1>1. TypeOK /\ ctx[current] \in Context /\ "sched" \in Points /\ 0 \in Slots
  BY Basics DEF TypeInv, TypeOK
<1>2. c \in Context /\ c.at = "sched" /\ c.base = ctx[current].base
      /\ c.arg = ctx[current].arg
  BY <1>1, AdvancedFacts
<1>3. ctx' = [ctx EXCEPT ![current] = c]
  BY DEF EnterSched
<1> HIDE DEF c
<1>4. c.base = "killing" => c.arg # 0
  BY <1>1, <1>2 DEF TypeInv, KillsAnother, TypeOK
<1>5. ctx' \in [Structs -> Context] /\ PickedOccupied' /\ KillsAnother'
  BY <1>2, <1>3, <1>4, ContextStep
<1>6. tcb' \in [Structs -> TaskStruct]
  BY <1>1, CountUpdates DEF TypeOK, EnterSched
<1> QED
  BY <1>1, <1>5, <1>6 DEF TypeInv, TypeOK, IdleInTable, EnterSched

\* The new time slices are integers.
LEMMA RefillTypeInv == TypeInv /\ Refill => TypeInv'
<1> SUFFICES ASSUME TypeInv, Refill PROVE TypeInv'
  OBVIOUS
<1>1. TypeOK /\ UNCHANGED <<task, ctx, current, nr_tasks, free, fault>>
  BY DEF TypeInv, Refill
<1>2. ASSUME NEW s \in Structs
      PROVE  [tcb[s] EXCEPT !.counter = Refilled(tcb[s])] \in TaskStruct
  <2>1. tcb[s] \in TaskStruct /\ tcb[s].counter \in Int /\ tcb[s].priority \in Nat
    BY <1>1, FieldTypes DEF TypeOK
  <2>2. Refilled(tcb[s]) \in Int
    BY <2>1 DEF Refilled
  <2> QED
    BY <2>1, <2>2 DEF TaskStruct
<1>3. tcb' \in [Structs -> TaskStruct]
  BY <1>1, <1>2 DEF TypeOK, Refill
<1> QED
  BY <1>1, <1>3 DEF TypeInv, TypeOK, PickedOccupied, IdleInTable, KillsAnother

\* A scan leaves the slot of a task in next; task[0] when it finds none.
LEMMA PickTypeInv == TypeInv /\ Pick => TypeInv'
<1> SUFFICES ASSUME TypeInv, Pick PROVE TypeInv'
  OBVIOUS
<1>1. /\ TypeOK /\ ctx[current].depth > 0 /\ ctx[current] \in Context
      /\ UNCHANGED <<task, tcb, current, nr_tasks, free, fault>>
  BY DEF TypeInv, TypeOK, Pick, In
<1>2. PICK i \in Slots \cup {NextDefault} :
        /\ IF i \in Slots /\ Best(i)
           THEN tcb[task[i]].counter # 0
           ELSE i = NextDefault /\ \A j \in Slots : ~Best(j)
        /\ ctx' = [ctx EXCEPT ![current] = Advanced(@, "picked", i)]
  BY DEF Pick
<1>3. i \in Slots /\ task[i] # NULL
  BY <1>2, Basics DEF NextDefault, Best, Runnable, TypeInv, IdleInTable
<1> DEFINE c == Advanced(ctx[current], "picked", i)
<1>4. "picked" \in Points
  BY Basics
<1>5. /\ c \in Context /\ c.at = "picked" /\ c.next = i
      /\ c.depth = ctx[current].depth
      /\ c.base = ctx[current].base /\ c.arg = ctx[current].arg
  BY <1>1, <1>3, <1>4, AdvancedFacts
<1>6. ctx' = [ctx EXCEPT ![current] = c]
  BY <1>2
<1> HIDE DEF c
<1>7. ctx' \in [Structs -> Context]
  BY <1>1, <1>5, <1>6 DEF TypeOK
<1>8. PickedOccupied'
  BY <1>1, <1>3, <1>5, <1>6 DEF TypeInv, TypeOK, PickedOccupied
<1>9. KillsAnother'
  BY <1>1, <1>5, <1>6 DEF TypeInv, TypeOK, KillsAnother
<1> QED
  BY <1>1, <1>7, <1>8, <1>9 DEF TypeInv, TypeOK, IdleInTable

\* switch_to() goes to a task_struct, because the picked slot is still occupied.
LEMMA SwitchToTypeInv == TypeInv /\ SwitchTo => TypeInv'
<1> SUFFICES ASSUME TypeInv, SwitchTo PROVE TypeInv'
  OBVIOUS
<1> DEFINE c == Advanced(ctx[current], "resume", 0)
<1>1. /\ TypeOK /\ ctx[current] \in Context /\ ctx[current].at = "picked"
      /\ current' = task[ctx[current].next]
      /\ UNCHANGED <<task, tcb, nr_tasks, free, fault>>
  BY DEF TypeInv, TypeOK, SwitchTo, In
<1>2. "resume" \in Points /\ 0 \in Slots
  BY Basics
<1>3. c \in Context /\ c.at = "resume" /\ c.base = ctx[current].base
      /\ c.arg = ctx[current].arg
  BY <1>1, <1>2, AdvancedFacts
<1>4. ctx' = [ctx EXCEPT ![current] = c]
  BY DEF SwitchTo
<1> HIDE DEF c
<1>5. c.base = "killing" => c.arg # 0
  BY <1>1, <1>3 DEF TypeInv, KillsAnother, TypeOK
<1>6. ctx' \in [Structs -> Context] /\ PickedOccupied' /\ KillsAnother'
  BY <1>3, <1>4, <1>5, ContextStep
<1>7. current' \in Structs
  <2>1. ctx[current].next \in Slots
    BY <1>1, ContextTypes
  <2>2. task[ctx[current].next] # NULL
    BY <1>1 DEF TypeInv, PickedOccupied, TypeOK
  <2> QED
    BY <1>1, <2>1, <2>2 DEF TypeOK
<1> QED
  BY <1>1, <1>6, <1>7 DEF TypeInv, TypeOK, IdleInTable

\* The return from _schedule() leaves the innermost activation below.
LEMMA ResumeTypeInv == TypeInv /\ Resume => TypeInv'
<1> SUFFICES ASSUME TypeInv, Resume PROVE TypeInv'
  OBVIOUS
<1> DEFINE c == Return(ctx[current])
<1>1. TypeOK /\ ctx[current] \in Context /\ ctx[current].depth > 0
  BY DEF TypeInv, TypeOK, Resume, In
<1>2. c \in Context /\ c.at # "picked" /\ c.base = ctx[current].base
      /\ c.arg = ctx[current].arg
  BY <1>1, ReturnFacts
<1>3. ctx' = [ctx EXCEPT ![current] = c]
  BY DEF Resume
<1> HIDE DEF c
<1>4. c.base = "killing" => c.arg # 0
  BY <1>1, <1>2 DEF TypeInv, KillsAnother, TypeOK
<1>5. ctx' \in [Structs -> Context] /\ PickedOccupied' /\ KillsAnother'
  BY <1>2, <1>3, <1>4, ContextStep
<1>6. tcb' \in [Structs -> TaskStruct]
  BY <1>1, CountUpdates DEF TypeOK, Resume
<1> QED
  BY <1>1, <1>5, <1>6 DEF TypeInv, TypeOK, IdleInTable, Resume

\* schedule_tail() moves a new task into its own code.
LEMMA ScheduleTailTypeInv == TypeInv /\ ScheduleTail => TypeInv'
<1> SUFFICES ASSUME TypeInv, ScheduleTail PROVE TypeInv'
  OBVIOUS
<1>1. TypeOK /\ ctx[current].depth = 0 /\ ctx' = Goto("body", 0)
  BY DEF TypeInv, ScheduleTail, At
<1>2. ctx' \in [Structs -> Context] /\ PickedOccupied' /\ KillsAnother'
  BY <1>1, Basics, GotoStep
<1>3. tcb' \in [Structs -> TaskStruct]
  BY <1>1, CountUpdates DEF TypeOK, ScheduleTail
<1> QED
  BY <1>1, <1>2, <1>3 DEF TypeInv, TypeOK, IdleInTable, ScheduleTail

\* An interrupt, with or without a tick.
LEMMA PreemptionTypeInv ==
    ASSUME TypeInv, NEW n \in Int, TaskPreemption(n),
           UNCHANGED <<task, current, nr_tasks, free, fault>>
    PROVE  TypeInv'
<1>1. TypeOK /\ ctx[current] \in Context
  BY DEF TypeInv, TypeOK
<1>2. \A k \in Int : [tcb EXCEPT ![current].counter = k] \in [Structs -> TaskStruct]
  BY <1>1, FieldUpdates DEF TypeOK
<1>3. tcb' \in [Structs -> TaskStruct]
  <2>1. \/ tcb' = [tcb EXCEPT ![current].counter = n]
        \/ tcb' = [tcb EXCEPT ![current].counter = 0]
    BY DEF TaskPreemption
  <2>2. [tcb EXCEPT ![current].counter = n] \in [Structs -> TaskStruct]
    BY <1>2
  <2>3. [tcb EXCEPT ![current].counter = 0] \in [Structs -> TaskStruct]
    BY <1>2
  <2> QED
    BY <2>1, <2>2, <2>3
<1>4. ctx' \in [Structs -> Context] /\ PickedOccupied' /\ KillsAnother'
  <2>1. CASE UNCHANGED ctx
    BY <1>1, <2>1 DEF TypeInv, TypeOK, PickedOccupied, KillsAnother
  <2>2. CASE ctx' = [ctx EXCEPT ![current] = Call(@)]
    <3> DEFINE c == Call(ctx[current])
    <3>1. c \in Context /\ c.at = "entry" /\ c.base = ctx[current].base
          /\ c.arg = ctx[current].arg
      BY <1>1, CallFacts
    <3>2. ctx' = [ctx EXCEPT ![current] = c]
      BY <2>2
    <3> HIDE DEF c
    <3>3. c.base = "killing" => c.arg # 0
      BY <1>1, <3>1 DEF TypeInv, KillsAnother, TypeOK
    <3> QED
      BY <3>1, <3>2, <3>3, ContextStep
  <2> QED
    BY <2>1, <2>2 DEF TaskPreemption
<1> QED
  BY <1>1, <1>3, <1>4 DEF TypeInv, TypeOK, IdleInTable

\* Every step preserves the type invariant.
LEMMA NextTypeInv == TypeInv /\ [Next]_vars => TypeInv'
<1> SUFFICES ASSUME TypeInv, [Next]_vars PROVE TypeInv'
  OBVIOUS
<1>1. CASE CreateThread \/ ForkBegin \/ ForkEnd \/ MoveToUser \/ Exit
  BY <1>1, CreateThreadTypeInv, ForkBeginTypeInv, ForkEndTypeInv,
     MoveToUserTypeInv, ExitTypeInv
<1>2. CASE ExitSchedule \/ Yield \/ Idle
  BY <1>2, ScheduleTypeInv DEF ExitSchedule, Yield, Idle, KillZombies, At
<1>3. CASE KillBegin \/ KillEnd
  BY <1>3, KillBeginTypeInv, KillEndTypeInv
<1>4. CASE EnterSched \/ Refill \/ Pick \/ SwitchTo \/ Resume \/ ScheduleTail
  BY <1>4, EnterSchedTypeInv, RefillTypeInv, PickTypeInv, SwitchToTypeInv,
     ResumeTypeInv, ScheduleTailTypeInv
<1>5. CASE TimerIrq \/ UartIrq
  <2>1. tcb[current].counter \in Int /\ tcb[current].counter - 1 \in Int
    BY FieldTypes DEF TypeInv, TypeOK
  <2> QED
    BY <1>5, <2>1, PreemptionTypeInv DEF TimerIrq, UartIrq
<1>6. CASE UNCHANGED vars
  BY <1>6 DEF vars, TypeInv, TypeOK, PickedOccupied, IdleInTable, KillsAnother
<1> QED
  BY <1>1, <1>2, <1>3, <1>4, <1>5, <1>6 DEF Next, Run, Undefined

\* Every variable keeps its type, whatever the number of tasks and pages and
\* whichever interrupts and system calls arrive: in particular _schedule never
\* makes current a null pointer, although it does not check task[next].
THEOREM TypeCorrect == Spec => []TypeOK
<1>1. TypeInv => TypeOK
  BY DEF TypeInv
<1> QED
  BY <1>1, InitTypeInv, NextTypeInv, PTL DEF Spec


-----------------------------------------------------------------------------
(***************************************************************************)
(* Control.  PreemptBalance alone is not inductive: that a task switched   *)
(* out comes back with preemption off depends on where it stands (Parked); *)
(* that a fork is complete when the child runs depends on the only         *)
(* incomplete child being the one of the sys_fork that is running          *)
(* (ChildHeld); that exit is final depends on what was picked staying      *)
(* RUNNING until it is switched to (PickedRunning).                        *)
(***************************************************************************)
ContextShape ==
    \A s \in Structs :
        /\ ctx[s].at = "none" <=> ctx[s].depth = 0
        /\ ctx[s].base \in {"new", "forking"} => ctx[s].depth = 0

Parked ==
    \A s \in Structs : InTable(s) /\ s # current =>
        ctx[s].base = "new" \/ ctx[s].at = "resume"

\* A child whose registers are not final is known to the sys_fork that is running.
ChildHeld ==
    \A s \in Structs : InTable(s) /\ tcb[s].regs = "child" =>
        /\ s # current
        /\ ctx[current].base = "forking"
        /\ task[ctx[current].arg] = s

\* main() never exits, and what _schedule picked is RUNNING until it is switched to.
PickedRunning ==
    /\ tcb[INIT_TASK].state = "RUNNING"
    /\ ctx[current].at = "picked" => tcb[task[ctx[current].next]].state = "RUNNING"

\* A zombie is on its way out of exit_process, and does not return from _schedule.
ZombieParked ==
    \A s \in Structs : InTable(s) /\ tcb[s].state = "ZOMBIE" =>
        /\ ctx[s].base = "exiting" \/ ctx[s].depth > 0
        /\ ctx[s].base \notin {"new", "forking"}
        /\ s = current => ctx[s].at # "resume"

CtlInv ==
    /\ ContextShape /\ Parked /\ PreemptBalance
    /\ ChildHeld /\ PickedRunning /\ ZombieParked

-----------------------------------------------------------------------------
(***************************************************************************)
(* Pages.  Nothing is said about counters or contexts here, except that    *)
(* no task is inside sys_kill.                                             *)
(***************************************************************************)
NoKilling == \A s \in Structs : ctx[s].base # "killing"

CurrentInTable == InTable(current)

TableAllocated == \A s \in Structs : InTable(s) => s \notin free

TableInjective ==
    \A i, j \in Slots : task[i] = task[j] /\ task[i] # NULL => i = j

\* s is in the table, has not exited, and has a user stack.
HasStack(s) == InTable(s) /\ tcb[s].state # "ZOMBIE" /\ tcb[s].stack # NULL

StacksAllocated ==
    \A s \in Structs : HasStack(s) =>
        tcb[s].stack \notin free /\ ~InTable(tcb[s].stack)

StacksDistinct ==
    \A s, t \in Structs :
        HasStack(s) /\ HasStack(t) /\ s # t => tcb[s].stack # tcb[t].stack

MemInv ==
    /\ NoKilling /\ CurrentInTable /\ TableAllocated /\ TableInjective
    /\ StacksAllocated /\ StacksDistinct /\ NoPageLeak

\* The initial state.
LEMMA InitMemInv == Init => MemInv
<1> SUFFICES ASSUME Init PROVE MemInv
  OBVIOUS
<1>1. /\ NULL \notin Structs /\ INIT_TASK \in Structs /\ 0 \in Slots
      /\ INIT_TASK \notin Pages
  BY Basics, SchedAssumption
<1>2. \A s \in Structs : InTable(s) => s = INIT_TASK
  BY <1>1 DEF Init, InTable
<1>3. \A s \in Structs : tcb[s].stack = NULL
  BY DEF Init, InitTask
<1>4. NoKilling
  BY FreshTyped DEF Init, NoKilling
<1>5. CurrentInTable
  BY <1>1 DEF Init, CurrentInTable, InTable
<1>6. TableAllocated
  BY <1>1, <1>2 DEF Init, TableAllocated
<1>7. TableInjective
  BY DEF Init, TableInjective
<1>8. StacksAllocated /\ StacksDistinct
  BY <1>3 DEF StacksAllocated, StacksDistinct, HasStack
<1>9. NoPageLeak
  BY DEF Init, NoPageLeak
<1> QED
  BY <1>4, <1>5, <1>6, <1>7, <1>8, <1>9 DEF MemInv

\* Steps that leave the table, the allocator and the owners of pages alone.
LEMMA MemUnchanged ==
    ASSUME TypeInv, MemInv, task' = task, free' = free,
           \E i \in Slots : task[i] = current',
           \A s \in Structs : /\ tcb'[s].state = tcb[s].state
                              /\ tcb'[s].stack = tcb[s].stack
                              /\ ctx'[s].base # "killing"
    PROVE  MemInv'
<1>1. \A s : InTable(s)' <=> InTable(s)
  BY DEF InTable
<1>2. NoKilling' /\ CurrentInTable' /\ TableAllocated' /\ TableInjective'
  BY <1>1 DEF MemInv, NoKilling, CurrentInTable, InTable, TableAllocated, TableInjective
<1>3. \A s \in Structs : HasStack(s)' <=> HasStack(s)
  BY <1>1 DEF HasStack
<1>4. StacksAllocated' /\ StacksDistinct'
  BY <1>1, <1>3 DEF MemInv, StacksAllocated, StacksDistinct
<1>5. NoPageLeak'
  <2>1. \A i \in Slots : task[i] # NULL => task[i] \in Structs
    BY DEF TypeInv, TypeOK
  <2>2. Alive' = Alive
    BY <2>1 DEF Alive
  <2>3. \A i \in Alive : tcb'[task'[i]].stack = tcb[task[i]].stack
    BY <2>1 DEF Alive
  <2> QED
    BY <1>1, <2>2, <2>3 DEF MemInv, NoPageLeak
<1> QED
  BY <1>2, <1>4, <1>5 DEF MemInv

\* A new task in slot i on page p, with user stack `stack' or none.
LEMMA MemCreate ==
    ASSUME TypeInv, TypeInv', MemInv, NEW i \in Slots, NEW p \in free, AssignPID(i),
           task' = [task EXCEPT ![i] = p], current' = current,
           NEW stack \in (free \ {p}) \cup {NULL},
           free' = free \ {p, stack},
           tcb'[p].state = "RUNNING", tcb'[p].stack = stack,
           \A s \in Structs \ {p} : /\ tcb'[s].state = tcb[s].state
                                    /\ tcb'[s].stack = tcb[s].stack,
           \A s \in Structs : ctx'[s].base # "killing"
    PROVE  MemInv'
<1>1. /\ p \in Structs /\ p # NULL /\ ~InTable(p) /\ p \in Pages /\ task[i] = NULL
      /\ NULL \notin Structs /\ task \in [Slots -> Structs \cup {NULL}]
      /\ free \subseteq Pages /\ NULL \notin free
  BY Basics DEF TypeInv, TypeOK, MemInv, TableAllocated, AssignPID
<1>2. \A s \in Structs : InTable(s)' <=> InTable(s) \/ s = p
  BY <1>1 DEF InTable
<1>3. NoKilling' /\ CurrentInTable'
  BY <1>2 DEF MemInv, NoKilling, CurrentInTable, TypeInv, TypeOK
<1>4. TableAllocated'
  BY <1>2 DEF MemInv, TableAllocated
<1>5. TableInjective'
  BY <1>1 DEF MemInv, TableInjective, InTable
<1>6. \A s \in Structs \ {p} : HasStack(s)' <=> HasStack(s)
  BY <1>1, <1>2 DEF HasStack
<1>7. \A s \in Structs : HasStack(s) => tcb[s].stack \notin free /\ ~InTable(tcb[s].stack)
                                        /\ tcb[s].stack \in Structs
  BY Basics DEF MemInv, StacksAllocated, HasStack, TypeInv, TypeOK, TaskStruct
<1>8. stack # NULL => stack \in Structs /\ ~InTable(stack) /\ stack # p
  BY <1>1, Basics DEF MemInv, TableAllocated
<1>9. StacksAllocated'
  BY <1>1, <1>2, <1>6, <1>7, <1>8 DEF StacksAllocated, HasStack
<1>10. StacksDistinct'
  BY <1>1, <1>6, <1>7, <1>8 DEF MemInv, StacksDistinct, HasStack
<1>11. NoPageLeak'
  <2>1. SUFFICES ASSUME NEW q \in Pages \ free'
                 PROVE  InTable(q)' \/ \E j \in Alive' : tcb'[task'[j]].stack = q
    BY DEF NoPageLeak
  <2>2. Alive \subseteq Alive' /\ i \in Alive' /\ i \notin Alive
    BY <1>1 DEF Alive, InTable
  <2>3. \A j \in Alive : task'[j] = task[j] /\ task[j] # p /\ task[j] \in Structs
    BY <1>1 DEF Alive, InTable
  <2>4. CASE q \in free
    BY <1>1, <1>2, <2>2, <2>4, Basics
  <2>5. CASE q \notin free
    BY <1>1, <1>2, <2>2, <2>3, <2>5, Basics DEF MemInv, NoPageLeak
  <2> QED
    BY <2>4, <2>5
<1> QED
  BY <1>3, <1>4, <1>5, <1>9, <1>10, <1>11 DEF MemInv

\* Exit is final: a task in its own code is not a zombie.
LEMMA BodyNotZombie ==
    ASSUME TypeInv, CurrentInTable, CtlInv, At("body")
    PROVE  tcb[current].state # "ZOMBIE"
  BY DEF TypeInv, TypeOK, CurrentInTable, CtlInv, ZombieParked, At

\* The running task gets a user stack (move_to_user_mode).
LEMMA MemMove ==
    ASSUME TypeInv, TypeInv', MemInv, CtlInv, MoveToUser
    PROVE  MemInv'
<1>1. PICK stack \in free :
        /\ tcb' = [tcb EXCEPT ![current].stack = stack, ![current].regs = "user"]
        /\ free' = free \ {stack}
  BY DEF MoveToUser
<1>2. /\ UNCHANGED <<task, ctx, current>> /\ current \in Structs
      /\ tcb[current].stack = NULL /\ stack \in Pages /\ stack \in Structs /\ stack # NULL
      /\ tcb \in [Structs -> TaskStruct] /\ task \in [Slots -> Structs \cup {NULL}]
  BY Basics DEF MoveToUser, User, TypeInv, TypeOK
<1>3. /\ tcb'[current].stack = stack /\ tcb'[current].state = tcb[current].state
      /\ \A s \in Structs \ {current} : tcb'[s] = tcb[s]
  BY <1>1, <1>2 DEF TaskStruct
<1>4. \A s : InTable(s)' <=> InTable(s)
  BY <1>2 DEF InTable
<1>5. NoKilling' /\ CurrentInTable' /\ TableAllocated' /\ TableInjective'
  BY <1>1, <1>2, <1>4 DEF MemInv, NoKilling, CurrentInTable, TableAllocated, TableInjective
<1>6. \A s \in Structs \ {current} : HasStack(s)' <=> HasStack(s)
  BY <1>3, <1>4 DEF HasStack
<1>7. ~InTable(stack)
  BY <1>2 DEF MemInv, TableAllocated
<1>8. StacksAllocated'
  BY <1>1, <1>2, <1>3, <1>4, <1>6, <1>7 DEF MemInv, StacksAllocated
<1>9. StacksDistinct'
  BY <1>2, <1>3, <1>6 DEF MemInv, StacksDistinct, StacksAllocated
<1>10. NoPageLeak'
  <2>1. SUFFICES ASSUME NEW q \in Pages \ free'
                 PROVE  InTable(q)' \/ \E j \in Alive' : tcb'[task'[j]].stack = q
    BY DEF NoPageLeak
  <2>2. \A j \in Slots : task[j] # NULL => task[j] \in Structs
    BY <1>2
  <2>3. Alive' = Alive
    BY <1>2, <1>3, <2>2 DEF Alive
  <2>4. CASE q = stack
    <3>1. PICK j \in Slots : task[j] = current
      BY DEF MemInv, CurrentInTable, InTable
    <3>2. tcb[current].state # "ZOMBIE" => j \in Alive
      BY <1>2, <3>1, Basics DEF Alive
    <3>3. tcb[current].state # "ZOMBIE"
      BY BodyNotZombie DEF MemInv, MoveToUser
    <3> QED
      BY <1>2, <1>3, <2>3, <2>4, <3>1, <3>2, <3>3
  <2>5. CASE q # stack
    <3>1. q \notin free
      BY <1>1, <2>1, <2>5
    <3>2. CASE InTable(q)
      BY <1>4, <3>2
    <3>3. CASE ~InTable(q)
      <4>1. PICK j \in Alive : tcb[task[j]].stack = q
        BY <2>1, <3>1, <3>3 DEF MemInv, NoPageLeak
      <4>2. task[j] # current /\ task[j] \in Structs
        BY <1>2, <2>1, <4>1, Basics DEF Alive
      <4> QED
        BY <1>2, <1>3, <2>3, <4>1, <4>2
    <3> QED
      BY <3>2, <3>3
  <2> QED
    BY <2>4, <2>5
<1> QED
  BY <1>5, <1>8, <1>9, <1>10 DEF MemInv

\* The running task exits and gives its user stack back.
LEMMA MemExit ==
    ASSUME TypeInv, TypeInv', MemInv, CtlInv, Exit
    PROVE  MemInv'
<1>1. /\ UNCHANGED <<task, current>> /\ current \in Structs
      /\ free' = free \cup ExitedStack(current)
      /\ tcb' = [tcb EXCEPT ![current].state = "ZOMBIE"]
      /\ ctx' = Goto("exiting", 0)
      /\ tcb \in [Structs -> TaskStruct] /\ task \in [Slots -> Structs \cup {NULL}]
  BY DEF Exit, TypeInv, TypeOK
<1>2. /\ tcb'[current].state = "ZOMBIE"
      /\ \A s \in Structs : tcb'[s].stack = tcb[s].stack
      /\ \A s \in Structs \ {current} : tcb'[s] = tcb[s]
  BY <1>1 DEF TaskStruct
<1>3. \A s : InTable(s)' <=> InTable(s)
  BY <1>1 DEF InTable
<1>4. NoKilling'
  <2>1. ctx[current] \in Context /\ "exiting" \in Bases
    BY Basics DEF TypeInv, TypeOK
  <2>2. Moved(ctx[current], "exiting", 0).base = "exiting"
    BY <2>1, MovedFacts
  <2> QED
    BY <1>1, <2>2 DEF MemInv, NoKilling, Goto, TypeInv, TypeOK
<1>5. CurrentInTable' /\ TableInjective'
  BY <1>1, <1>3 DEF MemInv, CurrentInTable, TableInjective
<1>6. \A s \in Structs : HasStack(s)' <=> HasStack(s) /\ s # current
  BY <1>2, <1>3 DEF HasStack
<1>7. /\ tcb[current].state # "ZOMBIE" /\ InTable(current)
      /\ tcb[current].stack # NULL => HasStack(current)
  BY BodyNotZombie DEF MemInv, CurrentInTable, HasStack, Exit
<1>8. \A q : q \in ExitedStack(current) <=> q = tcb[current].stack /\ q # NULL
  BY DEF ExitedStack
<1>9. TableAllocated'
  BY <1>1, <1>3, <1>7, <1>8 DEF MemInv, TableAllocated, StacksAllocated
<1>10. StacksAllocated'
  BY <1>1, <1>2, <1>3, <1>6, <1>7, <1>8 DEF MemInv, StacksAllocated, StacksDistinct
<1>11. StacksDistinct'
  BY <1>2, <1>6 DEF MemInv, StacksDistinct
<1>12. NoPageLeak'
  <2>1. SUFFICES ASSUME NEW q \in Pages \ free'
                 PROVE  InTable(q)' \/ \E j \in Alive' : tcb'[task'[j]].stack = q
    BY DEF NoPageLeak
  <2>2. CASE InTable(q)
    BY <1>3, <2>2
  <2>3. CASE ~InTable(q)
    <3>1. PICK j \in Alive : tcb[task[j]].stack = q
      BY <1>1, <2>1, <2>3 DEF MemInv, NoPageLeak
    <3>2. q # NULL
      BY <2>1, SchedAssumption
    <3>3. task[j] \in Structs /\ task[j] # current /\ j \in Slots
      BY <1>1, <1>8, <2>1, <3>1, <3>2 DEF Alive
    <3>4. j \in Alive'
      BY <1>1, <1>2, <3>1, <3>3 DEF Alive
    <3> QED
      BY <1>1, <1>2, <3>1, <3>3, <3>4
  <2> QED
    BY <2>2, <2>3
<1> QED
  BY <1>4, <1>5, <1>9, <1>10, <1>11, <1>12 DEF MemInv

-----------------------------------------------------------------------------
\* The preempt_count that context c calls for.
Weight(c) ==
    IF c.base \in {"new", "forking"} \/ c.at \in {"sched", "picked", "resume"}
    THEN 1 ELSE 0

\* The initial state.
LEMMA InitCtlInv == Init => CtlInv
<1> SUFFICES ASSUME Init PROVE CtlInv
  OBVIOUS
<1>1. \A s \in Structs : InTable(s) => s = INIT_TASK
  BY Basics DEF Init, InTable
<1>2. /\ current = INIT_TASK /\ INIT_TASK \in Structs
      /\ ctx[INIT_TASK] = Booting /\ tcb[INIT_TASK] = InitTask
      /\ \A s \in Structs : s # INIT_TASK => ctx[s] = Freed
  BY Basics DEF Init
<1>3. ContextShape
  BY <1>2, FreshTyped DEF ContextShape
<1>4. Parked
  BY <1>1, <1>2 DEF Parked
<1>5. PreemptBalance
  BY <1>1, <1>2, FreshTyped DEF PreemptBalance, InitTask
<1>6. ChildHeld
  BY <1>1, <1>2 DEF ChildHeld, InitTask
<1>7. PickedRunning
  BY <1>2, FreshTyped DEF PickedRunning, InitTask
<1>8. ZombieParked
  BY <1>1, <1>2 DEF ZombieParked, InitTask
<1> QED
  BY <1>3, <1>4, <1>5, <1>6, <1>7, <1>8 DEF CtlInv

\* A step of the running task that changes no other task and keeps the CPU.
LEMMA CtlLocal ==
    ASSUME TypeInv, CtlInv, task' = task, current' = current,
           NEW c, ctx' = [ctx EXCEPT ![current] = c],
           \A s \in Structs \ {current} :
               /\ tcb'[s].preempt_count = tcb[s].preempt_count
               /\ tcb'[s].regs = tcb[s].regs /\ tcb'[s].state = tcb[s].state,
           c.at = "none" <=> c.depth = 0,
           c.base \in {"new", "forking"} => c.depth = 0,
           tcb'[current].preempt_count = Weight(c),
           tcb'[current].regs \in {tcb[current].regs, "user"},
           \/ ctx[current].base # "forking"
           \/ c.base = "forking" /\ c.arg = ctx[current].arg,
           tcb'[current].state # tcb[current].state => current # INIT_TASK,
           c.at = "picked" => tcb'[task[c.next]].state = "RUNNING",
           tcb'[current].state = "ZOMBIE" =>
               /\ c.base = "exiting" \/ c.depth > 0
               /\ c.base \notin {"new", "forking"}
               /\ c.at # "resume"
    PROVE  CtlInv'
<1>1. \A s : InTable(s)' <=> InTable(s)
  BY DEF InTable
<1>2. /\ current \in Structs /\ ctx'[current] = c
      /\ \A s \in Structs \ {current} : ctx'[s] = ctx[s]
  BY DEF TypeInv, TypeOK
<1>3. ContextShape'
  BY <1>2 DEF CtlInv, ContextShape
<1>4. Parked'
  BY <1>1, <1>2 DEF CtlInv, Parked
<1>5. PreemptBalance'
  BY <1>1, <1>2 DEF CtlInv, PreemptBalance, Weight
<1>6. ChildHeld'
  BY <1>1, <1>2 DEF CtlInv, ChildHeld
<1>7. PickedRunning'
  BY <1>2, Basics DEF CtlInv, PickedRunning
<1>8. ZombieParked'
  BY <1>1, <1>2 DEF CtlInv, ZombieParked
<1> QED
  BY <1>3, <1>4, <1>5, <1>6, <1>7, <1>8 DEF CtlInv

SafeInv == TypeInv /\ MemInv /\ CtlInv

\* The running task's context and registers, as SafeInv describes them.
LEMMA CurrentFacts ==
    ASSUME SafeInv
    PROVE  /\ current \in Structs /\ InTable(current)
           /\ ctx \in [Structs -> Context] /\ tcb \in [Structs -> TaskStruct]
           /\ ctx[current] \in Context
           /\ ctx[current].base # "killing"
           /\ ctx[current].at = "none" <=> ctx[current].depth = 0
           /\ ctx[current].base \in {"new", "forking"} => ctx[current].depth = 0
           /\ tcb[current].preempt_count = Weight(ctx[current])
           /\ tcb[current].state = "ZOMBIE" =>
                /\ ctx[current].base = "exiting" \/ ctx[current].depth > 0
                /\ ctx[current].base \notin {"new", "forking"}
                /\ ctx[current].at # "resume"
           /\ tcb[current].regs # "child"
  BY DEF SafeInv, TypeInv, TypeOK, MemInv, CurrentInTable, NoKilling, CtlInv,
         ContextShape, PreemptBalance, Weight, ZombieParked, ChildHeld

\* CtlLocal for the steps that do not touch pages either.
LEMMA LocalSafe ==
    ASSUME SafeInv, task' = task, current' = current, free' = free,
           NEW c, ctx' = [ctx EXCEPT ![current] = c], c.base # "killing",
           \A s \in Structs : /\ tcb'[s].stack = tcb[s].stack
                              /\ tcb'[s].regs = tcb[s].regs
                              /\ tcb'[s].state = tcb[s].state
                              /\ s # current => tcb'[s].preempt_count = tcb[s].preempt_count,
           c.at = "none" <=> c.depth = 0,
           c.base \in {"new", "forking"} => c.depth = 0,
           tcb'[current].preempt_count = Weight(c),
           \/ ctx[current].base # "forking"
           \/ c.base = "forking" /\ c.arg = ctx[current].arg,
           c.at = "picked" =>
               task[c.next] \in Structs /\ tcb[task[c.next]].state = "RUNNING",
           tcb[current].state = "ZOMBIE" =>
               /\ c.base = "exiting" \/ c.depth > 0
               /\ c.base \notin {"new", "forking"}
               /\ c.at # "resume"
    PROVE  MemInv' /\ CtlInv'
<1>1. current \in Structs /\ InTable(current) /\ ctx \in [Structs -> Context]
  BY CurrentFacts
<1>2. MemInv'
  <2>1. \A s \in Structs : ctx'[s].base # "killing"
    BY <1>1 DEF SafeInv, MemInv, NoKilling
  <2>2. \E i \in Slots : task[i] = current'
    BY <1>1 DEF InTable
  <2> QED
    BY <2>1, <2>2, MemUnchanged DEF SafeInv
<1>3. CtlInv'
  <2>1. /\ \A s \in Structs \ {current} :
             /\ tcb'[s].preempt_count = tcb[s].preempt_count
             /\ tcb'[s].regs = tcb[s].regs /\ tcb'[s].state = tcb[s].state
        /\ tcb'[current].regs \in {tcb[current].regs, "user"}
        /\ ~(tcb'[current].state # tcb[current].state)
        /\ c.at = "picked" => tcb'[task[c.next]].state = "RUNNING"
        /\ tcb'[current].state = "ZOMBIE" =>
               /\ c.base = "exiting" \/ c.depth > 0
               /\ c.base \notin {"new", "forking"}
               /\ c.at # "resume"
    BY <1>1
  <2> QED
    BY <2>1, CtlLocal DEF SafeInv
<1> QED
  BY <1>2, <1>3

\* An assignment to one counter of the running task touches no other field.
LEMMA CounterOnly ==
    ASSUME NEW f \in [Structs -> TaskStruct], NEW s \in Structs, NEW n
    PROVE  /\ \A t \in Structs :
                LET g == [f EXCEPT ![s].counter = n]
                IN  /\ g[t].stack = f[t].stack /\ g[t].regs = f[t].regs
                    /\ g[t].state = f[t].state
                    /\ g[t].preempt_count = f[t].preempt_count
           /\ \A t \in Structs :
                LET g == [f EXCEPT ![s].preempt_count = n]
                IN  /\ g[t].stack = f[t].stack /\ g[t].regs = f[t].regs
                    /\ g[t].state = f[t].state
                    /\ t # s => g[t].preempt_count = f[t].preempt_count
                    /\ g[s].preempt_count = n
  BY DEF TaskStruct

\* schedule(), wherever it is called from.
LEMMA ScheduleSafe ==
    ASSUME SafeInv, ctx[current].depth = 0, ctx[current].base \in {"body", "exiting"},
           Schedule, UNCHANGED <<task, nr_tasks, free>>
    PROVE  MemInv' /\ CtlInv'
<1> DEFINE d == Moved(ctx[current], "body", 0)
           c == Call(d)
<1>1. ctx[current] \in Context /\ "body" \in Bases /\ 0 \in Int
  BY CurrentFacts, Basics
<1>2. d \in Context /\ d.base = "body" /\ d.depth = ctx[current].depth
  BY <1>1, MovedFacts
<1>3. ctx' = [ctx EXCEPT ![current] = c]
  BY DEF Schedule
<1> HIDE DEF d
<1>4. c.at = "entry" /\ c.base = "body" /\ c.depth = 1
  BY <1>1, <1>2, CallFacts
<1> HIDE DEF c
<1>5. \A s \in Structs : /\ tcb'[s].stack = tcb[s].stack /\ tcb'[s].regs = tcb[s].regs
                         /\ tcb'[s].state = tcb[s].state
                         /\ tcb'[s].preempt_count = tcb[s].preempt_count
  BY CurrentFacts, CounterOnly DEF Schedule
<1>6. tcb'[current].preempt_count = Weight(c)
  BY <1>4, <1>5, CurrentFacts DEF Weight
<1>7. /\ c.base # "killing" /\ (c.at = "none" <=> c.depth = 0)
      /\ c.base \in {"new", "forking"} => c.depth = 0
      /\ ctx[current].base # "forking" /\ c.at # "picked"
      /\ c.depth > 0 /\ c.base \notin {"new", "forking"} /\ c.at # "resume"
      /\ task' = task /\ current' = current /\ free' = free
  BY <1>4 DEF Schedule
<1> QED
  BY <1>3, <1>5, <1>6, <1>7, LocalSafe

\* preempt_disable() at the top of _schedule() makes the count match the context.
LEMMA EnterSchedSafe == SafeInv /\ EnterSched => MemInv' /\ CtlInv'
<1> SUFFICES ASSUME SafeInv, EnterSched PROVE MemInv' /\ CtlInv'
  OBVIOUS
<1> DEFINE c == Advanced(ctx[current], "sched", 0)
<1>1. /\ ctx[current] \in Context /\ "sched" \in Points /\ 0 \in Slots
      /\ ctx[current].depth > 0 /\ ctx[current].at = "entry"
  BY CurrentFacts, Basics DEF EnterSched, In
<1>2. c.at = "sched" /\ c.base = ctx[current].base /\ c.depth = ctx[current].depth
  BY <1>1, AdvancedFacts
<1>3. ctx' = [ctx EXCEPT ![current] = c]
  BY DEF EnterSched
<1> HIDE DEF c
<1>4. /\ \A s \in Structs : /\ tcb'[s].stack = tcb[s].stack /\ tcb'[s].regs = tcb[s].regs
                            /\ tcb'[s].state = tcb[s].state
                            /\ s # current => tcb'[s].preempt_count = tcb[s].preempt_count
      /\ tcb'[current].preempt_count = tcb[current].preempt_count + 1
  BY CurrentFacts, CounterOnly DEF EnterSched
<1>5. ctx[current].base \notin {"new", "forking"}
  BY <1>1, CurrentFacts
<1>6. tcb'[current].preempt_count = Weight(c)
  BY <1>1, <1>2, <1>4, <1>5, CurrentFacts DEF Weight
<1>7. /\ c.base # "killing" /\ (c.at = "none" <=> c.depth = 0)
      /\ c.base \in {"new", "forking"} => c.depth = 0
      /\ ctx[current].base # "forking" /\ c.at # "picked"
      /\ c.depth > 0 /\ c.base \notin {"new", "forking"} /\ c.at # "resume"
      /\ task' = task /\ current' = current /\ free' = free
  BY <1>1, <1>2, <1>5, CurrentFacts DEF EnterSched
<1> QED
  BY <1>3, <1>4, <1>6, <1>7, LocalSafe

\* A new time slice disturbs neither pages nor contexts.
LEMMA RefillSafe == SafeInv /\ Refill => MemInv' /\ CtlInv'
<1> SUFFICES ASSUME SafeInv, Refill PROVE MemInv' /\ CtlInv'
  OBVIOUS
<1> DEFINE c == ctx[current]
<1>1. UNCHANGED <<task, ctx, current, free>> /\ ctx' = [ctx EXCEPT ![current] = c]
  BY CurrentFacts DEF Refill
<1>2. \A s \in Structs : /\ tcb'[s].stack = tcb[s].stack /\ tcb'[s].regs = tcb[s].regs
                         /\ tcb'[s].state = tcb[s].state
                         /\ tcb'[s].preempt_count = tcb[s].preempt_count
  BY CurrentFacts DEF Refill, TaskStruct
<1>3. tcb'[current].preempt_count = Weight(c)
  BY <1>2, CurrentFacts
<1>4. c.at = "sched"
  BY DEF Refill, In
<1>5. /\ c.base # "killing" /\ (c.at = "none" <=> c.depth = 0)
      /\ c.base \in {"new", "forking"} => c.depth = 0
      /\ ctx[current].base # "forking" \/ (c.base = "forking" /\ c.arg = ctx[current].arg)
      /\ tcb[current].state = "ZOMBIE" => /\ c.base = "exiting" \/ c.depth > 0
                                          /\ c.base \notin {"new", "forking"}
                                          /\ c.at # "resume"
  BY CurrentFacts
<1> HIDE DEF c
<1> QED
  BY <1>1, <1>2, <1>3, <1>4, <1>5, LocalSafe

\* A scan picks a RUNNING task, or falls back on the idle task, which never exits.
LEMMA PickSafe == SafeInv /\ Pick => MemInv' /\ CtlInv'
<1> SUFFICES ASSUME SafeInv, Pick PROVE MemInv' /\ CtlInv'
  OBVIOUS
<1>1. PICK i \in Slots \cup {NextDefault} :
        /\ IF i \in Slots /\ Best(i)
           THEN tcb[task[i]].counter # 0
           ELSE i = NextDefault /\ \A j \in Slots : ~Best(j)
        /\ ctx' = [ctx EXCEPT ![current] = Advanced(@, "picked", i)]
  BY DEF Pick
<1>2. i \in Slots /\ task[i] \in Structs /\ tcb[task[i]].state = "RUNNING"
  <2>1. 0 \in Slots /\ task[0] = INIT_TASK /\ INIT_TASK \in Structs
    BY Basics DEF SafeInv, TypeInv, IdleInTable
  <2>2. tcb[INIT_TASK].state = "RUNNING"
    BY DEF SafeInv, CtlInv, PickedRunning
  <2>3. CASE i \in Slots /\ Best(i)
    BY <2>3 DEF Best, Runnable, SafeInv, TypeInv, TypeOK
  <2>4. CASE i = NextDefault
    BY <2>1, <2>2, <2>4 DEF NextDefault
  <2> QED
    BY <1>1, <2>3, <2>4
<1> DEFINE c == Advanced(ctx[current], "picked", i)
<1>3. /\ ctx[current] \in Context /\ "picked" \in Points
      /\ ctx[current].depth > 0 /\ ctx[current].at = "sched"
  BY CurrentFacts, Basics DEF Pick, In
<1>4. /\ c.at = "picked" /\ c.base = ctx[current].base /\ c.next = i
      /\ c.depth = ctx[current].depth
  BY <1>2, <1>3, AdvancedFacts
<1>5. ctx' = [ctx EXCEPT ![current] = c]
  BY <1>1
<1> HIDE DEF c
<1>6. ctx[current].base \notin {"new", "forking"}
  BY <1>3, CurrentFacts
<1>7. UNCHANGED <<task, tcb, current, free>>
  BY DEF Pick
<1>8. tcb'[current].preempt_count = Weight(c)
  BY <1>3, <1>4, <1>7, CurrentFacts DEF Weight
<1>9. /\ c.base # "killing" /\ (c.at = "none" <=> c.depth = 0)
      /\ c.base \in {"new", "forking"} => c.depth = 0
      /\ ctx[current].base # "forking"
      /\ c.depth > 0 /\ c.base \notin {"new", "forking"} /\ c.at # "resume"
      /\ task[c.next] \in Structs /\ tcb[task[c.next]].state = "RUNNING"
  BY <1>2, <1>3, <1>4, <1>6, CurrentFacts
<1> QED
  BY <1>5, <1>7, <1>8, <1>9, LocalSafe

\* preempt_enable() at the end of _schedule() leaves the disabled section.
LEMMA ResumeSafe == SafeInv /\ Resume => MemInv' /\ CtlInv'
<1> SUFFICES ASSUME SafeInv, Resume PROVE MemInv' /\ CtlInv'
  OBVIOUS
<1> DEFINE c == Return(ctx[current])
<1>1. /\ ctx[current] \in Context /\ ctx[current].depth > 0 /\ ctx[current].depth \in Nat
      /\ ctx[current].at = "resume" /\ ctx' = [ctx EXCEPT ![current] = c]
  BY CurrentFacts, ContextTypes DEF Resume, In
<1>2. /\ c.at = IF ctx[current].depth = 1 THEN "none" ELSE "entry"
      /\ c.base = ctx[current].base /\ c.depth = ctx[current].depth - 1
  BY <1>1, ReturnFacts
<1> HIDE DEF c
<1>3. ctx[current].base \notin {"new", "forking"} /\ tcb[current].state # "ZOMBIE"
  BY <1>1, CurrentFacts
<1>4. /\ \A s \in Structs : /\ tcb'[s].stack = tcb[s].stack /\ tcb'[s].regs = tcb[s].regs
                            /\ tcb'[s].state = tcb[s].state
                            /\ s # current => tcb'[s].preempt_count = tcb[s].preempt_count
      /\ tcb'[current].preempt_count = tcb[current].preempt_count - 1
  BY CurrentFacts, CounterOnly DEF Resume
<1>5. tcb'[current].preempt_count = Weight(c)
  BY <1>1, <1>2, <1>3, <1>4, CurrentFacts DEF Weight
<1>6. /\ c.base # "killing" /\ (c.at = "none" <=> c.depth = 0)
      /\ c.base \in {"new", "forking"} => c.depth = 0
      /\ ctx[current].base # "forking" /\ c.at # "picked"
      /\ task' = task /\ current' = current /\ free' = free
  BY <1>1, <1>2, <1>3, CurrentFacts DEF Resume
<1> QED
  BY <1>1, <1>3, <1>4, <1>5, <1>6, LocalSafe

\* schedule_tail() undoes the count copy_process() gave the child.
LEMMA ScheduleTailSafe == SafeInv /\ ScheduleTail => MemInv' /\ CtlInv'
<1> SUFFICES ASSUME SafeInv, ScheduleTail PROVE MemInv' /\ CtlInv'
  OBVIOUS
<1> DEFINE c == Moved(ctx[current], "body", 0)
<1>1. /\ ctx[current] \in Context /\ ctx[current].depth = 0
      /\ ctx[current].base = "new" /\ ctx' = [ctx EXCEPT ![current] = c]
      /\ "body" \in Bases /\ 0 \in Int
  BY CurrentFacts, Basics DEF ScheduleTail, At, Goto
<1>2. c.base = "body" /\ c.depth = ctx[current].depth /\ c.at = ctx[current].at
  BY <1>1, MovedFacts
<1> HIDE DEF c
<1>3. tcb[current].state # "ZOMBIE" /\ ctx[current].at = "none"
  BY <1>1, CurrentFacts
<1>4. /\ \A s \in Structs : /\ tcb'[s].stack = tcb[s].stack /\ tcb'[s].regs = tcb[s].regs
                            /\ tcb'[s].state = tcb[s].state
                            /\ s # current => tcb'[s].preempt_count = tcb[s].preempt_count
      /\ tcb'[current].preempt_count = tcb[current].preempt_count - 1
  BY CurrentFacts, CounterOnly DEF ScheduleTail
<1>5. tcb'[current].preempt_count = Weight(c)
  BY <1>1, <1>2, <1>3, <1>4, CurrentFacts DEF Weight
<1>6. /\ c.base # "killing" /\ (c.at = "none" <=> c.depth = 0)
      /\ c.base \in {"new", "forking"} => c.depth = 0
      /\ ctx[current].base # "forking" /\ c.at # "picked"
      /\ task' = task /\ current' = current /\ free' = free
  BY <1>1, <1>2, <1>3 DEF ScheduleTail
<1> QED
  BY <1>1, <1>3, <1>4, <1>5, <1>6, LocalSafe

\* An interrupt, with or without a tick.
LEMMA PreemptionSafe ==
    ASSUME SafeInv, NEW n \in Int, TaskPreemption(n),
           UNCHANGED <<task, current, nr_tasks, free, fault>>
    PROVE  MemInv' /\ CtlInv'
<1>1. \A s \in Structs : /\ tcb'[s].stack = tcb[s].stack /\ tcb'[s].regs = tcb[s].regs
                         /\ tcb'[s].state = tcb[s].state
                         /\ tcb'[s].preempt_count = tcb[s].preempt_count
  <2>1. PICK k : tcb' = [tcb EXCEPT ![current].counter = k]
    BY DEF TaskPreemption
  <2> QED
    BY <2>1, CurrentFacts, CounterOnly
<1>2. CASE UNCHANGED ctx
  <2> DEFINE c == ctx[current]
  <2>1. ctx' = [ctx EXCEPT ![current] = c] /\ task' = task /\ current' = current /\ free' = free
    BY <1>2, CurrentFacts
  <2>2. /\ c.base # "killing" /\ (c.at = "none" <=> c.depth = 0)
        /\ c.base \in {"new", "forking"} => c.depth = 0
        /\ ctx[current].base # "forking" \/ (c.base = "forking" /\ c.arg = ctx[current].arg)
        /\ tcb'[current].preempt_count = Weight(c)
        /\ tcb[current].state = "ZOMBIE" => /\ c.base = "exiting" \/ c.depth > 0
                                            /\ c.base \notin {"new", "forking"}
                                            /\ c.at # "resume"
    BY <1>1, CurrentFacts
  <2>3. c.at = "picked" => task[c.next] \in Structs /\ tcb[task[c.next]].state = "RUNNING"
    <3>1. c.next \in Slots
      BY CurrentFacts, ContextTypes
    <3> QED
      BY <3>1, CurrentFacts
         DEF SafeInv, CtlInv, PickedRunning, TypeInv, PickedOccupied, TypeOK
  <2> HIDE DEF c
  <2> QED
    BY <1>1, <2>1, <2>2, <2>3, LocalSafe
<1>3. CASE /\ tcb[current].preempt_count <= 0
           /\ ctx' = [ctx EXCEPT ![current] = Call(@)]
  <2> DEFINE c == Call(ctx[current])
  <2>1. ctx' = [ctx EXCEPT ![current] = c] /\ ctx[current] \in Context
        /\ ctx[current].depth \in Nat
    BY <1>3, CurrentFacts, ContextTypes
  <2>2. /\ c.depth = ctx[current].depth + 1 /\ c.at = "entry"
        /\ c.base = ctx[current].base /\ c.arg = ctx[current].arg
    BY <2>1, CallFacts
  <2> HIDE DEF c
  <2>3. Weight(ctx[current]) = 0
    BY <1>3, CurrentFacts DEF Weight
  <2>4. ctx[current].base \notin {"new", "forking"}
    BY <2>3 DEF Weight
  <2>5. tcb'[current].preempt_count = Weight(c)
    BY <1>1, <2>2, <2>3, <2>4, CurrentFacts DEF Weight
  <2>6. /\ c.base # "killing" /\ (c.at = "none" <=> c.depth = 0)
        /\ c.base \in {"new", "forking"} => c.depth = 0
        /\ ctx[current].base # "forking" /\ c.at # "picked"
        /\ c.depth > 0 /\ c.base \notin {"new", "forking"} /\ c.at # "resume"
        /\ task' = task /\ current' = current /\ free' = free
    BY <2>1, <2>2, <2>4, CurrentFacts
  <2> QED
    BY <1>1, <2>1, <2>5, <2>6, LocalSafe
<1>4. tcb[current].preempt_count \in Int
  BY CurrentFacts, FieldTypes
<1> QED
  BY <1>2, <1>3, <1>4 DEF TaskPreemption

\* A context switch: the old task is parked in switch_to, the new one was.
LEMMA SwitchToSafe == SafeInv /\ SwitchTo => MemInv' /\ CtlInv'
<1> SUFFICES ASSUME SafeInv, SwitchTo PROVE MemInv' /\ CtlInv'
  OBVIOUS
<1> DEFINE c == Advanced(ctx[current], "resume", 0)
           n == task[ctx[current].next]
<1>1. /\ ctx[current] \in Context /\ ctx[current].depth > 0
      /\ ctx[current].at = "picked" /\ ctx' = [ctx EXCEPT ![current] = c]
      /\ "resume" \in Points /\ 0 \in Slots
      /\ current' = n /\ UNCHANGED <<task, tcb, free>>
  BY CurrentFacts, Basics DEF SwitchTo, In
<1>2. /\ c.at = "resume" /\ c.base = ctx[current].base
      /\ c.depth = ctx[current].depth
  BY <1>1, AdvancedFacts
<1>3. /\ ctx[current].next \in Slots /\ n \in Structs /\ InTable(n)
      /\ tcb[n].state = "RUNNING"
  <2>1. ctx[current].next \in Slots
    BY <1>1, ContextTypes
  <2>2. n # NULL
    BY <1>1, CurrentFacts DEF SafeInv, TypeInv, PickedOccupied
  <2> QED
    BY <1>1, <2>1, <2>2
       DEF InTable, SafeInv, TypeInv, TypeOK, CtlInv, PickedRunning
<1> HIDE DEF c
<1>4. ctx[current].base \notin {"new", "forking"} /\ ctx[current].base # "killing"
  BY <1>1, CurrentFacts
<1>5. \A s : InTable(s)' <=> InTable(s)
  BY <1>1 DEF InTable
<1>6. /\ current \in Structs /\ ctx'[current] = c /\ ctx \in [Structs -> Context]
      /\ \A s \in Structs \ {current} : ctx'[s] = ctx[s]
  BY <1>1, CurrentFacts
<1>7. MemInv'
  <2>1. \A s \in Structs : ctx'[s].base # "killing"
    BY <1>2, <1>4, <1>6 DEF SafeInv, MemInv, NoKilling
  <2>2. \E i \in Slots : task[i] = current'
    BY <1>1, <1>3
  <2> QED
    BY <1>1, <2>1, <2>2, MemUnchanged DEF SafeInv
<1>8. ContextShape'
  BY <1>1, <1>2, <1>6 DEF SafeInv, CtlInv, ContextShape
<1>9. Parked'
  BY <1>1, <1>2, <1>3, <1>5, <1>6 DEF SafeInv, CtlInv, Parked
<1>10. ASSUME NEW s \in Structs, InTable(s)
       PROVE  tcb'[s].preempt_count = 1 /\ Weight(ctx'[s]) = 1
  <2>1. tcb[s].preempt_count = Weight(ctx[s]) /\ tcb' = tcb
    BY <1>1, <1>10 DEF SafeInv, CtlInv, PreemptBalance, Weight
  <2>2. CASE s = current
    BY <1>1, <1>2, <1>6, <2>1, <2>2 DEF Weight
  <2>3. CASE s # current
    BY <1>6, <1>10, <2>1, <2>3 DEF SafeInv, CtlInv, Parked, Weight
  <2> QED
    BY <2>2, <2>3
<1>11. PreemptBalance'
  BY <1>1, <1>3, <1>5, <1>10 DEF PreemptBalance, Weight
<1>12. \A s \in Structs : InTable(s) => tcb[s].regs # "child"
  BY <1>4 DEF SafeInv, CtlInv, ChildHeld
<1>13. ChildHeld'
  BY <1>1, <1>5, <1>12 DEF ChildHeld
<1>14. PickedRunning'
  <2>1. ctx'[n].at # "picked"
    BY <1>2, <1>3, <1>6 DEF SafeInv, TypeInv, PickedOccupied
  <2> QED
    BY <1>1, <2>1 DEF SafeInv, CtlInv, PickedRunning
<1>15. ZombieParked'
  BY <1>1, <1>2, <1>3, <1>5, <1>6 DEF SafeInv, CtlInv, ZombieParked
<1> QED
  BY <1>7, <1>8, <1>9, <1>11, <1>13, <1>14, <1>15 DEF CtlInv

\* move_to_user_mode() takes a page nobody owns.
LEMMA MoveToUserSafe == SafeInv /\ MoveToUser => MemInv' /\ CtlInv'
<1> SUFFICES ASSUME SafeInv, MoveToUser PROVE MemInv' /\ CtlInv'
  OBVIOUS
<1>1. TypeInv' /\ MemInv'
  BY MoveToUserTypeInv, MemMove DEF SafeInv
<1> DEFINE c == ctx[current]
<1>2. /\ UNCHANGED <<task, ctx, current>> /\ ctx' = [ctx EXCEPT ![current] = c]
      /\ c.base = "body" /\ c.depth = 0
  BY CurrentFacts DEF MoveToUser, At
<1>3. PICK stack \in free :
        tcb' = [tcb EXCEPT ![current].stack = stack, ![current].regs = "user"]
  BY DEF MoveToUser
<1>4. /\ \A s \in Structs \ {current} : tcb'[s] = tcb[s]
      /\ tcb'[current].regs = "user" /\ tcb'[current].state = tcb[current].state
      /\ tcb'[current].preempt_count = tcb[current].preempt_count
  BY <1>3, CurrentFacts DEF TaskStruct
<1>5. /\ tcb'[current].preempt_count = Weight(c) /\ tcb[current].state # "ZOMBIE"
      /\ c.at = "none"
  BY <1>2, <1>4, CurrentFacts
<1> HIDE DEF c
<1>6. CtlInv'
  BY <1>2, <1>4, <1>5, CtlLocal DEF SafeInv, c
<1> QED
  BY <1>1, <1>6

\* exit_process() frees a page that only the exiting task owns.
LEMMA ExitSafe == SafeInv /\ Exit => MemInv' /\ CtlInv'
<1> SUFFICES ASSUME SafeInv, Exit PROVE MemInv' /\ CtlInv'
  OBVIOUS
<1>1. MemInv'
  BY ExitTypeInv, MemExit DEF SafeInv
<1> DEFINE c == Moved(ctx[current], "exiting", 0)
<1>2. /\ UNCHANGED <<task, current>> /\ ctx' = [ctx EXCEPT ![current] = c]
      /\ ctx[current].base = "body" /\ ctx[current].depth = 0
      /\ current # INIT_TASK
      /\ ctx[current] \in Context /\ "exiting" \in Bases /\ 0 \in Int
  BY CurrentFacts, Basics DEF Exit, At, Goto
<1>3. c.base = "exiting" /\ c.depth = ctx[current].depth /\ c.at = ctx[current].at
  BY <1>2, MovedFacts
<1> HIDE DEF c
<1>4. /\ \A s \in Structs \ {current} : tcb'[s] = tcb[s]
      /\ tcb'[current].regs = tcb[current].regs
      /\ tcb'[current].preempt_count = tcb[current].preempt_count
  BY CurrentFacts DEF Exit, TaskStruct
<1>5. c.at = "none" /\ c.depth = 0 /\ tcb'[current].preempt_count = Weight(c)
  BY <1>2, <1>3, <1>4, CurrentFacts DEF Weight
<1>6. CtlInv'
  BY <1>2, <1>3, <1>4, <1>5, CtlLocal DEF SafeInv
<1> QED
  BY <1>1, <1>6

\* sys_fork completes its child and leaves the disabled section.
LEMMA ForkEndSafe == SafeInv /\ ForkEnd => MemInv' /\ CtlInv'
<1> SUFFICES ASSUME SafeInv, ForkEnd PROVE MemInv' /\ CtlInv'
  OBVIOUS
<1> DEFINE child == task[ctx[current].arg]
           c == Moved(ctx[current], "body", 0)
<1>1. /\ UNCHANGED <<task, current, free>> /\ ctx' = [ctx EXCEPT ![current] = c]
      /\ ctx[current].base = "forking" /\ ctx[current].depth = 0
      /\ ctx[current] \in Context /\ "body" \in Bases /\ 0 \in Int
  BY CurrentFacts, Basics DEF ForkEnd, At, Goto
<1>2. c.base = "body" /\ c.depth = ctx[current].depth /\ c.at = ctx[current].at
  BY <1>1, MovedFacts
<1> HIDE DEF c
<1>3. /\ current \in Structs /\ InTable(current) /\ ctx'[current] = c
      /\ ctx \in [Structs -> Context] /\ tcb \in [Structs -> TaskStruct]
      /\ \A s \in Structs \ {current} : ctx'[s] = ctx[s]
      /\ c.at = "none" /\ c.depth = 0
  BY <1>1, <1>2, CurrentFacts
<1>4. /\ \A s \in Structs : /\ tcb'[s].stack = tcb[s].stack
                            /\ tcb'[s].state = tcb[s].state
                            /\ s # current => tcb'[s].preempt_count = tcb[s].preempt_count
      /\ tcb'[current].preempt_count = tcb[current].preempt_count - 1
      /\ \A s \in Structs : tcb'[s].regs = IF s = child THEN "forked" ELSE tcb[s].regs
  <2> DEFINE f == [tcb EXCEPT ![child].regs = "forked"]
  <2>1. /\ f \in [Structs -> TaskStruct]
        /\ \A s \in Structs : /\ f[s].stack = tcb[s].stack /\ f[s].state = tcb[s].state
                              /\ f[s].preempt_count = tcb[s].preempt_count
                              /\ f[s].regs = IF s = child THEN "forked" ELSE tcb[s].regs
    <3>1. CASE child \in Structs
      <4>1. f \in [Structs -> TaskStruct]
        BY <1>3, <3>1, FieldUpdates
      <4>2. \A s \in Structs : /\ f[s].stack = tcb[s].stack /\ f[s].state = tcb[s].state
                               /\ f[s].preempt_count = tcb[s].preempt_count
                               /\ f[s].regs = IF s = child THEN "forked" ELSE tcb[s].regs
        BY <1>3, <3>1 DEF TaskStruct
      <4> QED
        BY <4>1, <4>2
    <3>2. CASE child \notin Structs
      <4>1. f = tcb
        BY <1>3, <3>2
      <4> QED
        BY <1>3, <3>2, <4>1
    <3> QED
      BY <3>1, <3>2
  <2>2. tcb' = [f EXCEPT ![current].preempt_count = @ - 1]
    BY DEF ForkEnd
  <2> HIDE DEF f
  <2>3. tcb' = [f EXCEPT ![current].preempt_count = f[current].preempt_count - 1]
    BY <2>2
  <2> QED
    BY <1>3, <2>1, <2>3, CounterOnly
<1>5. \A s : InTable(s)' <=> InTable(s)
  BY <1>1 DEF InTable
<1>6. MemInv'
  <2>1. \A s \in Structs : ctx'[s].base # "killing"
    BY <1>2, <1>3 DEF SafeInv, MemInv, NoKilling
  <2>2. \E i \in Slots : task[i] = current'
    BY <1>1, <1>3 DEF InTable
  <2> QED
    BY <1>1, <1>4, <2>1, <2>2, MemUnchanged DEF SafeInv
<1>7. ContextShape' /\ Parked'
  BY <1>1, <1>2, <1>3, <1>5 DEF SafeInv, CtlInv, ContextShape, Parked
<1>8. PreemptBalance'
  BY <1>1, <1>2, <1>3, <1>4, <1>5, CurrentFacts
     DEF SafeInv, CtlInv, PreemptBalance, Weight
<1>9. ChildHeld'
  <2>1. \A s \in Structs : InTable(s) /\ tcb[s].regs = "child" => s = child
    BY DEF SafeInv, CtlInv, ChildHeld
  <2> QED
    BY <1>4, <1>5, <2>1 DEF ChildHeld
<1>10. PickedRunning'
  BY <1>1, <1>3, <1>4, Basics DEF SafeInv, CtlInv, PickedRunning
<1>11. ZombieParked'
  BY <1>1, <1>3, <1>4, <1>5, CurrentFacts DEF SafeInv, CtlInv, ZombieParked
<1> QED
  BY <1>6, <1>7, <1>8, <1>9, <1>10, <1>11 DEF CtlInv

\* copy_process: page p becomes a task that waits for its first switch, while the
\* running task goes on at c; `held' says that p is the child of a sys_fork.
LEMMA CtlCreate ==
    ASSUME SafeInv, TypeInv', NEW i \in Slots, NEW p \in free, AssignPID(i),
           task' = [task EXCEPT ![i] = p], current' = current,
           NEW c, ctx' = [[ctx EXCEPT ![current] = c] EXCEPT ![p] = Fresh],
           tcb'[p].state = "RUNNING", tcb'[p].preempt_count = 1,
           tcb'[p].regs = "child" => c.base = "forking" /\ c.arg = i,
           \A s \in Structs \ {p} :
               /\ tcb'[s].state = tcb[s].state /\ tcb'[s].regs = tcb[s].regs
               /\ s # current => tcb'[s].preempt_count = tcb[s].preempt_count,
           ctx[current].depth = 0, ctx[current].base \in {"boot", "body"},
           c.depth = 0, c.at = "none", c.base # "new",
           tcb'[current].preempt_count = Weight(c)
    PROVE  CtlInv'
<1>1. /\ p \in Structs /\ ~InTable(p) /\ p # current /\ p # INIT_TASK
      /\ task[i] = NULL /\ NULL \notin Structs
      /\ current \in Structs /\ InTable(current)
      /\ tcb[current].state # "ZOMBIE"
      /\ task \in [Slots -> Structs \cup {NULL}]
  <2>1. p \in Structs /\ p # INIT_TASK /\ task[i] = NULL
    BY Basics, SchedAssumption DEF SafeInv, TypeInv, TypeOK, AssignPID
  <2>2. ~InTable(p)
    BY <2>1 DEF SafeInv, MemInv, TableAllocated
  <2> QED
    BY <2>1, <2>2, CurrentFacts, Basics DEF SafeInv, TypeInv, TypeOK
<1>2. \A s \in Structs : InTable(s)' <=> InTable(s) \/ s = p
  BY <1>1 DEF InTable
<1>3. /\ ctx'[current] = c /\ ctx'[p] = Fresh
      /\ \A s \in Structs : s # current /\ s # p => ctx'[s] = ctx[s]
      /\ Fresh.base = "new" /\ Fresh.depth = 0 /\ Fresh.at = "none"
  BY <1>1, CurrentFacts, FreshTyped
<1>4. ContextShape' /\ Parked'
  <2>1. ContextShape'
    BY <1>1, <1>3, ZenonT(60) DEF SafeInv, CtlInv, ContextShape
  <2>2. Parked'
    BY <1>1, <1>2, <1>3 DEF SafeInv, CtlInv, Parked
  <2> QED
    BY <2>1, <2>2
<1>5. PreemptBalance'
  <2>1. ASSUME NEW s \in Structs, InTable(s)' \/ s = current'
        PROVE  tcb'[s].preempt_count = Weight(ctx'[s])
               /\ (s # current => tcb'[s].preempt_count = 1)
    <3>1. CASE s = p
      BY <1>1, <1>3, <3>1 DEF Weight
    <3>2. CASE s = current
      BY <1>3, <3>2
    <3>3. CASE s # p /\ s # current
      BY <1>2, <1>3, <2>1, <3>3 DEF SafeInv, CtlInv, PreemptBalance, Weight
    <3> QED
      BY <3>1, <3>2, <3>3
  <2> QED
    BY <2>1 DEF PreemptBalance, Weight
<1>6. ChildHeld'
  <2>1. \A s \in Structs : InTable(s) => tcb[s].regs # "child"
    BY DEF SafeInv, CtlInv, ChildHeld
  <2>2. task'[i] = p
    BY <1>1
  <2> QED
    BY <1>1, <1>2, <1>3, <2>1, <2>2 DEF ChildHeld
<1>7. PickedRunning'
  BY <1>1, <1>3, Basics DEF SafeInv, CtlInv, PickedRunning
<1>8. ZombieParked'
  BY <1>1, <1>2, <1>3, ZenonT(60) DEF SafeInv, CtlInv, ZombieParked
<1> QED
  BY <1>4, <1>5, <1>6, <1>7, <1>8 DEF CtlInv

\* A table overflow changes nothing but fault.
LEMMA OverflowSafe == SafeInv /\ TableOverflow => MemInv' /\ CtlInv'
<1> SUFFICES ASSUME SafeInv, TableOverflow PROVE MemInv' /\ CtlInv'
  OBVIOUS
<1>1. UNCHANGED <<task, tcb, ctx, current, nr_tasks, free>>
  BY DEF TableOverflow
<1>2. MemInv'
  BY <1>1 DEF SafeInv, MemInv, NoKilling, CurrentInTable, InTable, TableAllocated,
              TableInjective, StacksAllocated, StacksDistinct, HasStack, NoPageLeak, Alive
<1>3. CtlInv'
  BY <1>1 DEF SafeInv, CtlInv, ContextShape, Parked, PreemptBalance, ChildHeld,
              PickedRunning, ZombieParked, InTable
<1> QED
  BY <1>2, <1>3

\* A new kernel thread takes a page nobody owns and starts with preemption off.
LEMMA CreateThreadSafe == SafeInv /\ CreateThread => MemInv' /\ CtlInv'
<1> SUFFICES ASSUME SafeInv, CreateThread, ~TableOverflow PROVE MemInv' /\ CtlInv'
  BY OverflowSafe
<1> DEFINE left == ctx[current].arg - 1
           b == IF left = 0 THEN "body" ELSE "boot"
           c == Moved(ctx[current], b, left)
<1>1. PICK i \in Slots, p \in free :
        /\ AssignPID(i)
        /\ task' = [task EXCEPT ![i] = p]
        /\ tcb' = [tcb EXCEPT ![p] = ChildStruct(i, PF_KTHREAD, NULL)]
        /\ ctx' = [Goto(b, left) EXCEPT ![p] = Fresh]
        /\ free' = free \ {p}
        /\ current' = current
  BY DEF CreateThread
<1>2. /\ TypeInv' /\ ctx[current].base = "boot" /\ ctx[current].depth = 0
      /\ ctx[current] \in Context
  BY CreateThreadTypeInv, CurrentFacts DEF SafeInv, CreateThread, At
<1>3. left \in Int /\ b \in Bases /\ b \in {"boot", "body"}
  BY <1>2, ContextTypes, Basics
<1>4. ctx' = [[ctx EXCEPT ![current] = c] EXCEPT ![p] = Fresh]
  BY <1>1 DEF Goto
<1> HIDE DEF left, b
<1>5. c.base = b /\ c.depth = 0 /\ c.at = "none"
  BY <1>2, <1>3, MovedFacts, CurrentFacts
<1> HIDE DEF c
<1>6. /\ p \in Structs /\ p # current /\ NULL \notin Structs
      /\ free \subseteq Pages /\ NULL \notin free
  BY Basics, CurrentFacts DEF SafeInv, TypeInv, TypeOK, MemInv, TableAllocated
<1>7. /\ tcb'[p].state = "RUNNING" /\ tcb'[p].preempt_count = 1
      /\ tcb'[p].stack = NULL /\ tcb'[p].regs = "zero"
      /\ \A s \in Structs \ {p} : tcb'[s] = tcb[s]
  BY <1>1, <1>6, CurrentFacts DEF ChildStruct, FilledStruct, PF_KTHREAD
<1>8. \A s \in Structs : ctx'[s].base # "killing"
  BY <1>3, <1>4, <1>5, <1>6, CurrentFacts, FreshTyped DEF SafeInv, MemInv, NoKilling
<1>9. MemInv'
  <2>1. free' = free \ {p, NULL} /\ NULL \in (free \ {p}) \cup {NULL}
    BY <1>1, <1>6
  <2>2. \A s \in Structs \ {p} : /\ tcb'[s].state = tcb[s].state
                                 /\ tcb'[s].stack = tcb[s].stack
    BY <1>7
  <2>3. /\ TypeInv /\ MemInv /\ TypeInv' /\ AssignPID(i)
        /\ task' = [task EXCEPT ![i] = p] /\ current' = current
        /\ tcb'[p].state = "RUNNING" /\ tcb'[p].stack = NULL
    BY <1>1, <1>2, <1>7 DEF SafeInv
  <2> HIDE DEF SafeInv, CreateThread, TableOverflow
  <2>4. \A st \in (free \ {p}) \cup {NULL} :
          free' = free \ {p, st} /\ tcb'[p].stack = st => MemInv'
    BY <1>8, <2>2, <2>3, MemCreate
  <2> QED
    BY <2>1, <2>3, <2>4
<1>10. CtlInv'
  <2>1. tcb'[current].preempt_count = Weight(c)
    BY <1>2, <1>3, <1>5, <1>6, <1>7, CurrentFacts DEF Weight
  <2> QED
    BY <1>1, <1>2, <1>3, <1>4, <1>5, <1>7, <2>1, CtlCreate
<1> QED
  BY <1>9, <1>10

\* A forked child takes two pages nobody owns and is held back by its parent.
LEMMA ForkBeginSafe == SafeInv /\ ForkBegin => MemInv' /\ CtlInv'
<1> SUFFICES ASSUME SafeInv, ForkBegin, ~TableOverflow PROVE MemInv' /\ CtlInv'
  BY OverflowSafe
<1>1. PICK i \in Slots, stack \in free, p \in free :
        /\ p # stack
        /\ AssignPID(i)
        /\ task' = [task EXCEPT ![i] = p]
        /\ tcb' = [tcb EXCEPT ![current].preempt_count = @ + 1,
                              ![p] = ChildStruct(i, 0, stack)]
        /\ ctx' = [Goto("forking", i) EXCEPT ![p] = Fresh]
        /\ free' = free \ {p, stack}
        /\ current' = current
  BY DEF ForkBegin
<1> DEFINE c == Moved(ctx[current], "forking", i)
<1>2. /\ TypeInv' /\ ctx[current].base = "body" /\ ctx[current].depth = 0
      /\ ctx[current] \in Context /\ "forking" \in Bases /\ i \in Int
      /\ ctx[current].at = "none"
  BY ForkBeginTypeInv, CurrentFacts, Basics DEF SafeInv, ForkBegin, At
<1>3. ctx' = [[ctx EXCEPT ![current] = c] EXCEPT ![p] = Fresh]
  BY <1>1 DEF Goto
<1>4. c.base = "forking" /\ c.arg = i /\ c.depth = 0 /\ c.at = "none"
  BY <1>2, MovedFacts
<1> HIDE DEF c
<1>5. /\ p \in Structs /\ p # current /\ current \in Structs
      /\ tcb \in [Structs -> TaskStruct]
  BY Basics, CurrentFacts DEF SafeInv, TypeInv, TypeOK, MemInv, TableAllocated
<1>6. /\ tcb'[p].state = "RUNNING" /\ tcb'[p].preempt_count = 1
      /\ tcb'[p].stack = stack
      /\ \A s \in Structs \ {p} : /\ tcb'[s].state = tcb[s].state
                                  /\ tcb'[s].regs = tcb[s].regs
                                  /\ tcb'[s].stack = tcb[s].stack
                                  /\ s # current =>
                                       tcb'[s].preempt_count = tcb[s].preempt_count
      /\ tcb'[current].preempt_count = tcb[current].preempt_count + 1
  <2>1. tcb'[p] = ChildStruct(i, 0, stack)
    BY <1>1, <1>5
  <2>2. \A s \in Structs \ {p} :
          tcb'[s] = [tcb EXCEPT ![current].preempt_count = @ + 1][s]
    BY <1>1, <1>5
  <2> DEFINE f == [tcb EXCEPT ![current].preempt_count = @ + 1]
  <2>3. /\ \A s \in Structs :
              /\ f[s].state = tcb[s].state /\ f[s].regs = tcb[s].regs
              /\ f[s].stack = tcb[s].stack
              /\ s # current => f[s].preempt_count = tcb[s].preempt_count
        /\ f[current].preempt_count = tcb[current].preempt_count + 1
    BY <1>5 DEF TaskStruct
  <2>4. \A s \in Structs \ {p} : tcb'[s] = f[s]
    BY <2>2
  <2> HIDE DEF f
  <2>5. /\ tcb'[p].state = "RUNNING" /\ tcb'[p].preempt_count = 1
        /\ tcb'[p].stack = stack
    BY <2>1 DEF ChildStruct, FilledStruct
  <2>6. \A s \in Structs \ {p} :
          /\ tcb'[s].state = tcb[s].state
          /\ tcb'[s].regs = tcb[s].regs
          /\ tcb'[s].stack = tcb[s].stack
          /\ s # current => tcb'[s].preempt_count = tcb[s].preempt_count
    BY <2>3, <2>4
  <2>7. tcb'[current].preempt_count = tcb[current].preempt_count + 1
    BY <1>5, <2>3, <2>4
  <2> QED
    BY <2>5, <2>6, <2>7
<1>7. \A s \in Structs : ctx'[s].base # "killing"
  BY <1>3, <1>4, <1>5, CurrentFacts, FreshTyped DEF SafeInv, MemInv, NoKilling
<1>8. MemInv'
  BY <1>1, <1>2, <1>6, <1>7, MemCreate DEF SafeInv
<1>9. CtlInv'
  <2>1. tcb'[current].preempt_count = Weight(c)
    BY <1>2, <1>4, <1>6, CurrentFacts DEF Weight
  <2>2. tcb'[p].regs = "child" => c.base = "forking" /\ c.arg = i
    BY <1>4
  <2>3. \A s \in Structs \ {p} :
          /\ tcb'[s].state = tcb[s].state /\ tcb'[s].regs = tcb[s].regs
          /\ s # current => tcb'[s].preempt_count = tcb[s].preempt_count
    BY <1>6
  <2>4. /\ AssignPID(i) /\ task' = [task EXCEPT ![i] = p] /\ current' = current
        /\ tcb'[p].state = "RUNNING" /\ tcb'[p].preempt_count = 1
        /\ ctx[current].depth = 0 /\ ctx[current].base \in {"boot", "body"}
        /\ c.depth = 0 /\ c.at = "none" /\ c.base # "new"
    BY <1>1, <1>2, <1>4, <1>6
  <2> HIDE DEF SafeInv, ForkBegin, TableOverflow
  <2>5. /\ TypeInv' /\ tcb'[current].preempt_count = Weight(c)
        /\ ctx' = [[ctx EXCEPT ![current] = c] EXCEPT ![p] = Fresh]
    BY <1>2, <1>3, <2>1
  <2> QED
    BY ONLY SafeInv, i \in Slots, p \in free, <2>2, <2>3, <2>4, <2>5, CtlCreate
<1> QED
  BY <1>8, <1>9

\* Every step preserves the invariant, as long as no program calls kill().
LEMMA NextSafeInv ==
    ASSUME ~Kills
    PROVE  SafeInv /\ [Next]_vars => SafeInv'
<1> SUFFICES ASSUME SafeInv, [Next]_vars PROVE SafeInv'
  OBVIOUS
<1>1. TypeInv'
  BY NextTypeInv DEF SafeInv
<1>2. CASE CreateThread \/ ForkBegin \/ ForkEnd \/ MoveToUser \/ Exit
  BY <1>1, <1>2, CreateThreadSafe, ForkBeginSafe, ForkEndSafe, MoveToUserSafe, ExitSafe
     DEF SafeInv
<1>3. CASE ExitSchedule \/ Yield \/ Idle
  BY <1>1, <1>3, ScheduleSafe
     DEF SafeInv, ExitSchedule, Yield, Idle, KillZombies, At
<1>4. ~KillBegin /\ ~KillEnd
  BY CurrentFacts DEF KillBegin, KillEnd, At
<1>5. CASE EnterSched \/ Refill \/ Pick \/ SwitchTo \/ Resume \/ ScheduleTail
  BY <1>1, <1>5, EnterSchedSafe, RefillSafe, PickSafe, SwitchToSafe, ResumeSafe,
     ScheduleTailSafe DEF SafeInv
<1>6. CASE TimerIrq \/ UartIrq
  <2>1. tcb[current].counter \in Int /\ tcb[current].counter - 1 \in Int
    BY CurrentFacts, FieldTypes
  <2> QED
    BY <1>1, <1>6, <2>1, PreemptionSafe DEF SafeInv, TimerIrq, UartIrq
<1>7. CASE UNCHANGED vars
  BY <1>1, <1>7
     DEF vars, SafeInv, MemInv, NoKilling, CurrentInTable, InTable, TableAllocated,
         TableInjective, StacksAllocated, StacksDistinct, HasStack, NoPageLeak, Alive,
         CtlInv, ContextShape, Parked, PreemptBalance, ChildHeld, PickedRunning,
         ZombieParked
<1> QED
  BY <1>2, <1>3, <1>4, <1>5, <1>6, <1>7 DEF Next, Run, Undefined

\* SafeInv holds throughout.
LEMMA SafeInvariant ==
    ASSUME ~Kills
    PROVE  Spec => []SafeInv
<1>1. Init => SafeInv
  BY InitTypeInv, InitMemInv, InitCtlInv DEF SafeInv
<1>2. SafeInv /\ [Next]_vars => SafeInv'
  BY NextSafeInv
<1> QED
  BY <1>1, <1>2, PTL DEF Spec

-----------------------------------------------------------------------------
\* preempt_disable() and preempt_enable() pair up across every context switch,
\* and a task that is switched out cannot be rescheduled before it has left
\* _schedule() or schedule_tail().
THEOREM PreemptionBalanced ==
    ASSUME ~Kills
    PROVE  Spec => []PreemptBalance
<1>1. SafeInv => PreemptBalance
  BY DEF SafeInv, CtlInv
<1> QED
  BY <1>1, SafeInvariant, PTL

\* A forked child never runs on registers and a stack sys_fork has not finished.
THEOREM ForkIsComplete ==
    ASSUME ~Kills
    PROVE  Spec => []ForkedStackComplete
<1>1. SafeInv => ForkedStackComplete
  BY CurrentFacts DEF ForkedStackComplete
<1> QED
  BY <1>1, SafeInvariant, PTL

\* exit_process() does not return.
THEOREM ExitIsFinal ==
    ASSUME ~Kills
    PROVE  Spec => []ExitNeverReturns
<1>1. SafeInv => ExitNeverReturns
  BY DEF SafeInv, CtlInv, ZombieParked, ExitNeverReturns
<1> QED
  BY <1>1, SafeInvariant, PTL

\* Every page is free, a task_struct of the table or the user stack of a live task.
THEOREM NoPageIsLeaked ==
    ASSUME ~Kills
    PROVE  Spec => []NoPageLeak
<1>1. SafeInv => NoPageLeak
  BY DEF SafeInv, MemInv
<1> QED
  BY <1>1, SafeInvariant, PTL

\* A context switch goes to a RUNNING task of the table.
THEOREM SwitchesToRunning ==
    ASSUME ~Kills
    PROVE  Spec => SwitchToRunning
<1>1. SafeInv /\ [Next]_vars =>
        [current' # current => \E i \in Alive : task[i] = current']_vars
  <2> SUFFICES ASSUME SafeInv, Next, current' # current
               PROVE  \E i \in Alive : task[i] = current'
    BY SMTT(60) DEF vars
  <2>1. SwitchTo
    BY DEF Next, Run, CreateThread, TableOverflow, ForkBegin, ForkEnd, MoveToUser, Exit,
           ExitSchedule, Yield, Idle, Schedule, KillBegin, KillEnd, EnterSched, Refill,
           Pick, Resume, ScheduleTail, TimerIrq, UartIrq, Undefined, vars
  <2>2. /\ ctx[current].at = "picked" /\ ctx[current] \in Context
        /\ current \in Structs /\ current' = task[ctx[current].next]
    BY <2>1, CurrentFacts DEF SwitchTo, In
  <2>3. ctx[current].next \in Slots
    BY <2>2, ContextTypes
  <2>4. ctx[current].next \in Alive
    BY <2>2, <2>3
       DEF Alive, SafeInv, TypeInv, PickedOccupied, CtlInv, PickedRunning
  <2> QED
    BY <2>2, <2>4
<1> QED
  BY <1>1, SafeInvariant, PTL DEF Spec, SwitchToRunning

-----------------------------------------------------------------------------
(***************************************************************************)
(* The table and its count                                                 *)
(***************************************************************************)
Occupied == {i \in Slots : task[i] # NULL}

\* The table is finite.
LEMMA OccupiedFinite == IsFiniteSet(Occupied)
<1>1. IsFiniteSet(Slots)
  BY SchedAssumption, FS_Interval DEF Slots
<1>2. Occupied \subseteq Slots
  BY DEF Occupied
<1> QED
  BY <1>1, <1>2, FS_Subset

\* copy_process fills one slot.
LEMMA CountAdded ==
    ASSUME TypeOK, NEW i \in Slots, NEW p \in Structs, task[i] = NULL,
           task' = [task EXCEPT ![i] = p]
    PROVE  Cardinality(Occupied') = Cardinality(Occupied) + 1
<1>1. Occupied' = Occupied \cup {i} /\ i \notin Occupied
  BY Basics DEF Occupied, TypeOK
<1> QED
  BY <1>1, OccupiedFinite, FS_AddElement

\* sys_kill empties one.
LEMMA CountRemoved ==
    ASSUME TypeOK, NEW i \in Slots, task[i] # NULL, task' = [task EXCEPT ![i] = NULL]
    PROVE  Cardinality(Occupied') = Cardinality(Occupied) - 1
<1>1. Occupied' = Occupied \ {i} /\ i \in Occupied
  BY DEF Occupied, TypeOK
<1> QED
  BY <1>1, OccupiedFinite, FS_RemoveElement

CountExact == nr_tasks = Cardinality(Occupied)

-----------------------------------------------------------------------------
(***************************************************************************)
(* kill() without interrupts.  sys_kill has freed the task_struct of its   *)
(* victim and not yet emptied the slot; since nothing but the caller runs  *)
(* in between, the freed page is never used.  The invariant says where     *)
(* each task of the table stands, the victim aside (Settled): only the     *)
(* running task can be inside a system call.                               *)
(***************************************************************************)
Victim(s) == ctx[current].base = "killing" /\ task[ctx[current].arg] = s

\* sys_kill compares pids to leave its caller alone: that works if the pid is the slot.
PidIsSlot == \A i \in Slots : task[i] # NULL => tcb[task[i]].pid = i

VictimIsOther ==
    ctx[current].base = "killing" =>
        /\ ctx[current].arg \in Slots
        /\ task[ctx[current].arg] # NULL
        /\ task[ctx[current].arg] # current

Settled(s) ==
    /\ s \notin free
    /\ ctx[s].base # "freed"
    /\ ctx[s].at = "none" <=> ctx[s].depth = 0
    /\ ctx[s].depth > 0 => ctx[s].base = "body"
    /\ s # current => ctx[s].base = "new" \/ ctx[s].at = "resume"
    /\ tcb[s].state = "ZOMBIE" =>
         /\ ctx[s].base = "exiting" \/ ctx[s].depth > 0
         /\ s = current => ctx[s].at # "resume"

AllSettled == \A s \in Structs : InTable(s) /\ ~Victim(s) => Settled(s)

KillInv ==
    /\ TypeInv
    /\ CurrentInTable /\ TableInjective /\ PidIsSlot /\ VictimIsOther
    /\ AllSettled
    /\ StacksAllocated /\ StacksDistinct
    /\ PickedRunning
    /\ CountExact
    /\ NoDoubleFree

\* The initial state.
LEMMA InitKillInv == Init => KillInv
<1> SUFFICES ASSUME Init PROVE KillInv
  OBVIOUS
<1>1. /\ NULL \notin Structs /\ INIT_TASK \in Structs /\ 0 \in Slots
      /\ INIT_TASK \notin Pages
  BY Basics, SchedAssumption
<1>2. TypeInv /\ CurrentInTable /\ TableInjective /\ StacksAllocated /\ StacksDistinct
  BY InitTypeInv, InitMemInv DEF MemInv
<1>3. PickedRunning
  BY InitCtlInv DEF CtlInv
<1>4. \A s \in Structs : InTable(s) => s = INIT_TASK
  BY <1>1 DEF Init, InTable
<1>5. ctx[INIT_TASK] = Booting /\ tcb[INIT_TASK] = InitTask
  BY <1>1 DEF Init
<1>6. Booting.base = "boot" /\ Booting.at = "none" /\ Booting.depth = 0
  BY DEF Booting, Fresh
<1>7. PidIsSlot
  BY <1>5 DEF Init, PidIsSlot, InitTask
<1>8. VictimIsOther /\ AllSettled
  BY <1>1, <1>4, <1>5, <1>6 DEF Init, VictimIsOther, AllSettled, Settled, InitTask
<1>9. CountExact
  <2>1. Occupied = {0}
    BY <1>1 DEF Init, Occupied
  <2> QED
    BY <2>1, FS_Singleton DEF Init, CountExact
<1>10. NoDoubleFree
  BY DEF Init, NoDoubleFree
<1> QED
  BY <1>2, <1>3, <1>7, <1>8, <1>9, <1>10 DEF KillInv

\* What KillInv says about the running task.
LEMMA RunningFacts ==
    ASSUME KillInv
    PROVE  /\ current \in Structs /\ InTable(current) /\ Settled(current)
           /\ ctx \in [Structs -> Context] /\ tcb \in [Structs -> TaskStruct]
           /\ task \in [Slots -> Structs \cup {NULL}]
           /\ ctx[current] \in Context /\ free \subseteq Pages
  BY DEF KillInv, CurrentInTable, VictimIsOther, AllSettled, Victim, TypeInv, TypeOK

\* Steps of the running task, outside sys_kill, that leave the table and the pages alone.
LEMMA KillLocal ==
    ASSUME KillInv, TypeInv', ctx[current].base # "killing",
           UNCHANGED <<task, current, nr_tasks, free, fault>>,
           NEW c, ctx' = [ctx EXCEPT ![current] = c],
           c.base \notin {"killing", "freed"},
           c.at = "none" <=> c.depth = 0,
           c.depth > 0 => c.base = "body",
           c.at = "picked" =>
               task[c.next] \in Structs /\ tcb[task[c.next]].state = "RUNNING",
           tcb[current].state = "ZOMBIE" =>
               (c.base = "exiting" \/ c.depth > 0) /\ c.at # "resume",
           \A s \in Structs : /\ tcb'[s].stack = tcb[s].stack
                              /\ tcb'[s].state = tcb[s].state
                              /\ tcb'[s].pid = tcb[s].pid
    PROVE  KillInv'
<1>1. /\ current \in Structs /\ ctx \in [Structs -> Context] /\ Settled(current)
      /\ task \in [Slots -> Structs \cup {NULL}] /\ InTable(current)
  BY RunningFacts
<1>2. ctx'[current] = c /\ \A s \in Structs : s # current => ctx'[s] = ctx[s]
  BY <1>1
<1>3. \A s : InTable(s)' <=> InTable(s)
  BY DEF InTable
<1>4. CurrentInTable' /\ TableInjective'
  BY <1>3 DEF KillInv, CurrentInTable, TableInjective
<1>5. PidIsSlot'
  BY <1>1 DEF KillInv, PidIsSlot
<1>6. VictimIsOther' /\ \A s : ~Victim(s) /\ ~Victim(s)'
  BY <1>2 DEF VictimIsOther, Victim
<1>7. AllSettled'
  <2> SUFFICES ASSUME NEW s \in Structs, InTable(s) PROVE Settled(s)'
    BY <1>3 DEF AllSettled
  <2>1. Settled(s)
    BY <1>6 DEF KillInv, AllSettled
  <2> QED
    BY <1>2, <2>1 DEF Settled
<1>8. \A s \in Structs : HasStack(s)' <=> HasStack(s)
  BY <1>3 DEF HasStack
<1>9. StacksAllocated' /\ StacksDistinct'
  BY <1>3, <1>8 DEF KillInv, StacksAllocated, StacksDistinct
<1>10. PickedRunning'
  BY <1>2, Basics DEF KillInv, PickedRunning
<1>11. CountExact' /\ NoDoubleFree'
  BY DEF KillInv, CountExact, Occupied, NoDoubleFree
<1> QED
  BY <1>4, <1>5, <1>6, <1>7, <1>9, <1>10, <1>11 DEF KillInv

\* Assignments to fields other than state, stack and pid keep those.
LEMMA OwnersKept ==
    ASSUME NEW f \in [Structs -> TaskStruct], NEW s, NEW n
    PROVE  \A t \in Structs :
             /\ LET g == [f EXCEPT ![s].counter = n]
                IN  g[t].stack = f[t].stack /\ g[t].state = f[t].state /\ g[t].pid = f[t].pid
             /\ LET g == [f EXCEPT ![s].preempt_count = n]
                IN  g[t].stack = f[t].stack /\ g[t].state = f[t].state /\ g[t].pid = f[t].pid
             /\ LET g == [f EXCEPT ![s].regs = n]
                IN  g[t].stack = f[t].stack /\ g[t].state = f[t].state /\ g[t].pid = f[t].pid
             /\ LET g == [f EXCEPT ![s].flags = n]
                IN  g[t].stack = f[t].stack /\ g[t].state = f[t].state /\ g[t].pid = f[t].pid
  BY DEF TaskStruct

\* schedule(), wherever it is called from.
LEMMA ScheduleKill ==
    ASSUME KillInv, TypeInv', ctx[current].depth = 0, ctx[current].base \in {"body", "exiting"},
           Schedule, UNCHANGED <<task, nr_tasks, free>>
    PROVE  KillInv'
<1> DEFINE d == Moved(ctx[current], "body", 0)
           c == Call(d)
<1>1. /\ ctx[current] \in Context /\ "body" \in Bases /\ 0 \in Int
      /\ tcb \in [Structs -> TaskStruct]
  BY RunningFacts, Basics
<1>2. d \in Context /\ d.base = "body" /\ d.depth = ctx[current].depth
  BY <1>1, MovedFacts
<1>3. /\ ctx' = [ctx EXCEPT ![current] = c] /\ tcb' = [tcb EXCEPT ![current].counter = 0]
      /\ UNCHANGED <<current, fault>>
  BY DEF Schedule
<1> HIDE DEF d
<1>4. c.at = "entry" /\ c.base = "body" /\ c.depth = 1
  BY <1>1, <1>2, CallFacts
<1> HIDE DEF c
<1>5. \A s \in Structs : /\ tcb'[s].stack = tcb[s].stack /\ tcb'[s].state = tcb[s].state
                         /\ tcb'[s].pid = tcb[s].pid
  BY <1>1, <1>3, OwnersKept
<1>6. /\ ctx[current].base # "killing" /\ UNCHANGED <<task, current, nr_tasks, free, fault>>
      /\ c.base \notin {"killing", "freed"} /\ (c.at = "none" <=> c.depth = 0)
      /\ c.depth > 0 /\ c.at # "picked" /\ c.at # "resume"
  BY <1>3, <1>4
<1> QED
  BY <1>3, <1>4, <1>5, <1>6, KillLocal

\* preempt_disable() at the top of _schedule().
LEMMA EnterSchedKill ==
    ASSUME KillInv, TypeInv', EnterSched
    PROVE  KillInv'
<1> DEFINE c == Advanced(ctx[current], "sched", 0)
<1>1. /\ ctx[current] \in Context /\ "sched" \in Points /\ 0 \in Slots
      /\ ctx[current].depth > 0 /\ ctx[current].base = "body"
      /\ ctx[current].depth \in Nat /\ tcb \in [Structs -> TaskStruct]
  BY RunningFacts, Basics, ContextTypes DEF EnterSched, In, Settled
<1>2. c.at = "sched" /\ c.base = ctx[current].base /\ c.depth = ctx[current].depth
  BY <1>1, AdvancedFacts
<1>3. /\ ctx' = [ctx EXCEPT ![current] = c]
      /\ tcb' = [tcb EXCEPT ![current].preempt_count = @ + 1]
      /\ UNCHANGED <<task, current, nr_tasks, free, fault>>
  BY DEF EnterSched
<1> HIDE DEF c
<1>4. \A s \in Structs : /\ tcb'[s].stack = tcb[s].stack /\ tcb'[s].state = tcb[s].state
                         /\ tcb'[s].pid = tcb[s].pid
  BY <1>1, <1>3, OwnersKept
<1>5. (c.at = "none" <=> c.depth = 0) /\ c.depth > 0
  BY <1>1, <1>2
<1> QED
  BY <1>1, <1>2, <1>3, <1>4, <1>5, KillLocal

\* A new time slice.
LEMMA RefillKill ==
    ASSUME KillInv, TypeInv', Refill
    PROVE  KillInv'
<1> DEFINE c == ctx[current]
<1>1. /\ c \in Context /\ c.depth > 0 /\ c.base = "body" /\ c.at = "sched" /\ c.depth \in Nat
      /\ tcb \in [Structs -> TaskStruct] /\ ctx \in [Structs -> Context]
  BY RunningFacts, ContextTypes DEF Refill, In, Settled
<1>2. ctx' = [ctx EXCEPT ![current] = c] /\ UNCHANGED <<task, current, nr_tasks, free, fault>>
  BY <1>1 DEF Refill
<1>3. \A s \in Structs : /\ tcb'[s].stack = tcb[s].stack /\ tcb'[s].state = tcb[s].state
                         /\ tcb'[s].pid = tcb[s].pid
  BY <1>1 DEF Refill, TaskStruct
<1>4. (c.at = "none" <=> c.depth = 0) /\ ctx[current].base # "killing"
  BY <1>1
<1> HIDE DEF c
<1> QED
  BY <1>1, <1>2, <1>3, <1>4, KillLocal

\* A scan picks a RUNNING task of the table, and none is being killed.
LEMMA PickKill ==
    ASSUME KillInv, TypeInv', Pick
    PROVE  KillInv'
<1>1. PICK i \in Slots \cup {NextDefault} :
        /\ IF i \in Slots /\ Best(i)
           THEN tcb[task[i]].counter # 0
           ELSE i = NextDefault /\ \A j \in Slots : ~Best(j)
        /\ ctx' = [ctx EXCEPT ![current] = Advanced(@, "picked", i)]
  BY DEF Pick
<1>2. i \in Slots /\ task[i] \in Structs /\ tcb[task[i]].state = "RUNNING"
  <2>1. 0 \in Slots /\ task[0] = INIT_TASK /\ INIT_TASK \in Structs
    BY Basics DEF KillInv, TypeInv, IdleInTable
  <2>2. tcb[INIT_TASK].state = "RUNNING"
    BY DEF KillInv, PickedRunning
  <2>3. CASE i \in Slots /\ Best(i)
    BY <2>3 DEF Best, Runnable, KillInv, TypeInv, TypeOK
  <2>4. CASE i = NextDefault
    BY <2>1, <2>2, <2>4 DEF NextDefault
  <2> QED
    BY <1>1, <2>3, <2>4
<1> DEFINE c == Advanced(ctx[current], "picked", i)
<1>3. /\ ctx[current] \in Context /\ "picked" \in Points
      /\ ctx[current].depth > 0 /\ ctx[current].base = "body" /\ ctx[current].depth \in Nat
  BY RunningFacts, Basics, ContextTypes DEF Pick, In, Settled
<1>4. /\ c.at = "picked" /\ c.base = ctx[current].base /\ c.next = i
      /\ c.depth = ctx[current].depth
  BY <1>2, <1>3, AdvancedFacts
<1>5. ctx' = [ctx EXCEPT ![current] = c] /\ UNCHANGED <<task, tcb, current, nr_tasks, free, fault>>
  BY <1>1 DEF Pick
<1> HIDE DEF c
<1>6. (c.at = "none" <=> c.depth = 0) /\ c.depth > 0
  BY <1>3, <1>4
<1> QED
  BY <1>2, <1>3, <1>4, <1>5, <1>6, KillLocal

\* The end of _schedule().
LEMMA ResumeKill ==
    ASSUME KillInv, TypeInv', Resume
    PROVE  KillInv'
<1> DEFINE c == Return(ctx[current])
<1>1. /\ ctx[current] \in Context /\ ctx[current].depth > 0 /\ ctx[current].depth \in Nat
      /\ ctx[current].base = "body" /\ tcb[current].state # "ZOMBIE"
      /\ tcb \in [Structs -> TaskStruct]
  BY RunningFacts, ContextTypes DEF Resume, In, Settled
<1>2. /\ c.at = IF ctx[current].depth = 1 THEN "none" ELSE "entry"
      /\ c.base = ctx[current].base /\ c.depth = ctx[current].depth - 1
  BY <1>1, ReturnFacts
<1>3. /\ ctx' = [ctx EXCEPT ![current] = c]
      /\ tcb' = [tcb EXCEPT ![current].preempt_count = @ - 1]
      /\ UNCHANGED <<task, current, nr_tasks, free, fault>>
  BY DEF Resume
<1> HIDE DEF c
<1>4. \A s \in Structs : /\ tcb'[s].stack = tcb[s].stack /\ tcb'[s].state = tcb[s].state
                         /\ tcb'[s].pid = tcb[s].pid
  BY <1>1, <1>3, OwnersKept
<1>5. (c.at = "none" <=> c.depth = 0) /\ c.at # "picked"
  BY <1>1, <1>2
<1> QED
  BY <1>1, <1>2, <1>3, <1>4, <1>5, KillLocal

\* schedule_tail()
LEMMA ScheduleTailKill ==
    ASSUME KillInv, TypeInv', ScheduleTail
    PROVE  KillInv'
<1> DEFINE c == Moved(ctx[current], "body", 0)
<1>1. /\ ctx[current] \in Context /\ ctx[current].depth = 0 /\ ctx[current].base = "new"
      /\ tcb[current].state # "ZOMBIE" /\ ctx[current].at = "none"
      /\ "body" \in Bases /\ 0 \in Int /\ tcb \in [Structs -> TaskStruct]
  BY RunningFacts, Basics DEF ScheduleTail, At, Settled
<1>2. c.base = "body" /\ c.depth = 0 /\ c.at = "none"
  BY <1>1, MovedFacts
<1>3. /\ ctx' = [ctx EXCEPT ![current] = c]
      /\ tcb' = [tcb EXCEPT ![current].preempt_count = @ - 1]
      /\ UNCHANGED <<task, current, nr_tasks, free, fault>>
  BY DEF ScheduleTail, Goto
<1> HIDE DEF c
<1>4. \A s \in Structs : /\ tcb'[s].stack = tcb[s].stack /\ tcb'[s].state = tcb[s].state
                         /\ tcb'[s].pid = tcb[s].pid
  BY <1>1, <1>3, OwnersKept
<1> QED
  BY <1>1, <1>2, <1>3, <1>4, KillLocal

\* The second half of sys_fork.
LEMMA ForkEndKill ==
    ASSUME KillInv, TypeInv', ForkEnd
    PROVE  KillInv'
<1> DEFINE child == task[ctx[current].arg]
           c == Moved(ctx[current], "body", 0)
           f == [tcb EXCEPT ![child].regs = "forked"]
<1>1. /\ ctx[current] \in Context /\ ctx[current].depth = 0 /\ ctx[current].base = "forking"
      /\ tcb[current].state # "ZOMBIE" /\ ctx[current].at = "none"
      /\ "body" \in Bases /\ 0 \in Int /\ tcb \in [Structs -> TaskStruct]
  BY RunningFacts, Basics DEF ForkEnd, At, Settled
<1>2. c.base = "body" /\ c.depth = 0 /\ c.at = "none"
  BY <1>1, MovedFacts, SMTT(60)
<1>3. /\ ctx' = [ctx EXCEPT ![current] = c]
      /\ tcb' = [f EXCEPT ![current].preempt_count = @ - 1]
      /\ UNCHANGED <<task, current, nr_tasks, free, fault>>
  BY DEF ForkEnd, Goto
<1> HIDE DEF c
<1>4. /\ f \in [Structs -> TaskStruct]
      /\ \A s \in Structs : /\ f[s].stack = tcb[s].stack /\ f[s].state = tcb[s].state
                            /\ f[s].pid = tcb[s].pid
  <2>1. f \in [Structs -> TaskStruct]
    <3>1. CASE child \in Structs
      BY <1>1, <3>1, FieldUpdates
    <3>2. CASE child \notin Structs
      BY <1>1, <3>2
    <3> QED
      BY <3>1, <3>2
  <2> QED
    BY <1>1, <2>1, OwnersKept
<1> HIDE DEF f, child
<1>5. \A s \in Structs : /\ tcb'[s].stack = tcb[s].stack /\ tcb'[s].state = tcb[s].state
                         /\ tcb'[s].pid = tcb[s].pid
  BY <1>3, <1>4, OwnersKept
<1> QED
  BY <1>1, <1>2, <1>3, <1>5, KillLocal

\* copy_process: page p becomes the task of slot i, with user stack `stack' or none,
\* while the running task goes on at c.
LEMMA CreateKill ==
    ASSUME KillInv, TypeInv', NEW i \in Slots, NEW p \in free, AssignPID(i),
           ctx[current].base # "killing",
           task' = [task EXCEPT ![i] = p], nr_tasks' = nr_tasks + 1,
           UNCHANGED <<current, fault>>,
           NEW stack \in (free \ {p}) \cup {NULL},
           free' = free \ {p, stack},
           tcb'[p].state = "RUNNING", tcb'[p].stack = stack, tcb'[p].pid = i,
           \A s \in Structs \ {p} : /\ tcb'[s].state = tcb[s].state
                                    /\ tcb'[s].stack = tcb[s].stack
                                    /\ tcb'[s].pid = tcb[s].pid,
           NEW c, ctx' = [[ctx EXCEPT ![current] = c] EXCEPT ![p] = Fresh],
           c.base \in {"boot", "body", "forking"}, c.depth = 0, c.at = "none",
           tcb[current].state # "ZOMBIE"
    PROVE  KillInv'
<1>1. \A s : ~Victim(s)
  BY DEF Victim
<1>2. /\ p \in Structs /\ p # NULL /\ p \in Pages /\ task[i] = NULL
      /\ NULL \notin Structs /\ task \in [Slots -> Structs \cup {NULL}]
      /\ free \subseteq Pages /\ NULL \notin free /\ current \in Structs
      /\ ctx \in [Structs -> Context]
  BY RunningFacts, Basics DEF AssignPID
<1>3. \A s \in Structs : InTable(s) => Settled(s) /\ s \notin free
  BY <1>1 DEF KillInv, AllSettled, Settled
<1>4. ~InTable(p) /\ p # current /\ p # INIT_TASK
  BY <1>2, <1>3, RunningFacts, SchedAssumption
<1>5. \A s \in Structs : InTable(s)' <=> InTable(s) \/ s = p
  BY <1>2 DEF InTable
<1>6. /\ ctx'[current] = c /\ ctx'[p] = Fresh
      /\ \A s \in Structs : s # current /\ s # p => ctx'[s] = ctx[s]
  BY <1>2, <1>4
<1>7. CurrentInTable' /\ TableInjective'
  BY <1>2, <1>4, <1>5 DEF KillInv, CurrentInTable, TableInjective, InTable
<1>8. PidIsSlot'
  <2> SUFFICES ASSUME NEW j \in Slots, task'[j] # NULL PROVE tcb'[task'[j]].pid = j
    BY DEF PidIsSlot
  <2>1. CASE j = i
    BY <1>2, <2>1
  <2>2. CASE j # i
    <3>1. task'[j] = task[j] /\ task[j] \in Structs /\ task[j] # p
      BY <1>2, <1>4, <2>2 DEF InTable
    <3> QED
      BY <3>1 DEF KillInv, PidIsSlot
  <2> QED
    BY <2>1, <2>2
<1>9. VictimIsOther' /\ \A s : ~Victim(s)'
  BY <1>6 DEF VictimIsOther, Victim
<1>10. AllSettled'
  <2> SUFFICES ASSUME NEW s \in Structs, InTable(s)' PROVE Settled(s)'
    BY DEF AllSettled
  <2>1. CASE s = p
    BY <1>4, <1>6, <2>1, FreshTyped DEF Settled, Fresh
  <2>2. CASE s = current
    BY <1>3, <1>4, <1>5, <1>6, <2>2 DEF Settled
  <2>3. CASE s # p /\ s # current
    BY <1>3, <1>5, <1>6, <2>3, ZenonT(60) DEF Settled
  <2> QED
    BY <2>1, <2>2, <2>3
<1>11. \A s \in Structs \ {p} : HasStack(s)' <=> HasStack(s)
  BY <1>5 DEF HasStack
<1>12. \A s \in Structs : HasStack(s) => tcb[s].stack \notin free /\ ~InTable(tcb[s].stack)
                                         /\ tcb[s].stack \in Structs
  BY Basics DEF KillInv, StacksAllocated, HasStack, TypeInv, TypeOK, TaskStruct
<1>13. stack # NULL => stack \in Structs /\ ~InTable(stack) /\ stack # p
  BY <1>2, <1>3, Basics
<1>14. StacksAllocated'
  BY <1>2, <1>5, <1>11, <1>12, <1>13 DEF StacksAllocated, HasStack
<1>15. StacksDistinct'
  BY <1>2, <1>11, <1>12, <1>13 DEF KillInv, StacksDistinct, HasStack
<1>16. PickedRunning'
  BY <1>4, <1>6, Basics DEF KillInv, PickedRunning
<1>17. CountExact'
  <2>1. Cardinality(Occupied') = Cardinality(Occupied) + 1
    BY <1>2, CountAdded DEF KillInv, TypeInv
  <2> QED
    BY <2>1 DEF KillInv, CountExact
<1>18. NoDoubleFree'
  BY DEF KillInv, NoDoubleFree
<1> QED
  BY <1>7, <1>8, <1>9, <1>10, <1>14, <1>15, <1>16, <1>17, <1>18 DEF KillInv

\* A table overflow changes nothing but fault.
LEMMA OverflowKill ==
    ASSUME KillInv, TypeInv', TableOverflow
    PROVE  KillInv'
<1>1. UNCHANGED <<task, tcb, ctx, current, nr_tasks, free>> /\ fault' = "table_overflow"
  BY DEF TableOverflow
<1> QED
  BY <1>1 DEF KillInv, CurrentInTable, InTable, TableInjective, PidIsSlot, VictimIsOther,
              AllSettled, Settled, Victim, StacksAllocated, StacksDistinct, HasStack,
              PickedRunning, CountExact, Occupied, NoDoubleFree

\* A new kernel thread.
LEMMA CreateThreadKill ==
    ASSUME KillInv, TypeInv', CreateThread
    PROVE  KillInv'
<1> SUFFICES ASSUME ~TableOverflow PROVE KillInv'
  BY OverflowKill
<1> DEFINE left == ctx[current].arg - 1
           b == IF left = 0 THEN "body" ELSE "boot"
           c == Moved(ctx[current], b, left)
<1>1. PICK i \in Slots, p \in free :
        /\ AssignPID(i)
        /\ task' = [task EXCEPT ![i] = p]
        /\ tcb' = [tcb EXCEPT ![p] = ChildStruct(i, PF_KTHREAD, NULL)]
        /\ ctx' = [Goto(b, left) EXCEPT ![p] = Fresh]
        /\ free' = free \ {p} /\ nr_tasks' = nr_tasks + 1
        /\ current' = current /\ fault' = fault
  BY DEF CreateThread
<1>2. /\ ctx[current].base = "boot" /\ ctx[current].depth = 0 /\ ctx[current].at = "none"
      /\ ctx[current] \in Context /\ tcb[current].state # "ZOMBIE"
  BY RunningFacts DEF CreateThread, At, Settled
<1>3. left \in Int /\ b \in Bases /\ b \in {"boot", "body"}
  BY <1>2, ContextTypes, Basics
<1>4. ctx' = [[ctx EXCEPT ![current] = c] EXCEPT ![p] = Fresh]
  BY <1>1 DEF Goto
<1> HIDE DEF left, b
<1>5. c.base \in {"boot", "body", "forking"} /\ c.depth = 0 /\ c.at = "none"
  BY <1>2, <1>3, MovedFacts
<1> HIDE DEF c
<1>6. p \in Structs /\ free \subseteq Pages /\ NULL \notin free /\ tcb \in [Structs -> TaskStruct]
  BY Basics, RunningFacts
<1>7. /\ tcb'[p].state = "RUNNING" /\ tcb'[p].stack = NULL /\ tcb'[p].pid = i
      /\ \A s \in Structs \ {p} : /\ tcb'[s].state = tcb[s].state /\ tcb'[s].stack = tcb[s].stack
                                  /\ tcb'[s].pid = tcb[s].pid
  BY <1>1, <1>6 DEF ChildStruct, FilledStruct
<1>8. PICK st \in (free \ {p}) \cup {NULL} : st = NULL
  OBVIOUS
<1>9. free' = free \ {p, st} /\ tcb'[p].stack = st
  BY <1>1, <1>6, <1>7, <1>8
<1>10. /\ ctx[current].base # "killing" /\ UNCHANGED <<current, fault>>
       /\ AssignPID(i) /\ task' = [task EXCEPT ![i] = p] /\ nr_tasks' = nr_tasks + 1
       /\ tcb'[p].state = "RUNNING" /\ tcb'[p].pid = i /\ tcb[current].state # "ZOMBIE"
  BY <1>1, <1>2, <1>7
<1>11. \A s \in Structs \ {p} : /\ tcb'[s].state = tcb[s].state
                                 /\ tcb'[s].stack = tcb[s].stack /\ tcb'[s].pid = tcb[s].pid
  BY <1>7
<1> QED
  BY ONLY KillInv, TypeInv', i \in Slots, p \in free, st \in (free \ {p}) \cup {NULL},
     <1>4, <1>5, <1>9, <1>10, <1>11, CreateKill

\* The first half of sys_fork.
LEMMA ForkBeginKill ==
    ASSUME KillInv, TypeInv', ForkBegin
    PROVE  KillInv'
<1> SUFFICES ASSUME ~TableOverflow PROVE KillInv'
  BY OverflowKill
<1> DEFINE f == [tcb EXCEPT ![current].preempt_count = @ + 1]
<1>1. PICK i \in Slots, stack \in free, p \in free :
        /\ p # stack
        /\ AssignPID(i)
        /\ task' = [task EXCEPT ![i] = p]
        /\ tcb' = [f EXCEPT ![p] = ChildStruct(i, 0, stack)]
        /\ ctx' = [Goto("forking", i) EXCEPT ![p] = Fresh]
        /\ free' = free \ {p, stack} /\ nr_tasks' = nr_tasks + 1
        /\ current' = current /\ fault' = fault
  BY DEF ForkBegin
<1> DEFINE c == Moved(ctx[current], "forking", i)
<1>2. /\ ctx[current].base = "body" /\ ctx[current].depth = 0 /\ ctx[current].at = "none"
      /\ ctx[current] \in Context /\ tcb[current].state # "ZOMBIE"
      /\ "forking" \in Bases /\ i \in Int
  BY RunningFacts, Basics DEF ForkBegin, At, Settled
<1>3. ctx' = [[ctx EXCEPT ![current] = c] EXCEPT ![p] = Fresh]
  BY <1>1 DEF Goto
<1>4. c.base \in {"boot", "body", "forking"} /\ c.depth = 0 /\ c.at = "none"
  BY <1>2, MovedFacts
<1> HIDE DEF c
<1>5. p \in Structs /\ current \in Structs /\ tcb \in [Structs -> TaskStruct]
  BY Basics, RunningFacts
<1>6. /\ f \in [Structs -> TaskStruct]
      /\ \A s \in Structs : /\ f[s].state = tcb[s].state /\ f[s].stack = tcb[s].stack
                            /\ f[s].pid = tcb[s].pid
  <2>1. f \in [Structs -> TaskStruct]
    BY <1>5, CountUpdates
  <2>2. f = [tcb EXCEPT ![current].preempt_count = tcb[current].preempt_count + 1]
    OBVIOUS
  <2> QED
    BY <1>5, <2>1, <2>2, OwnersKept
<1> HIDE DEF f
<1>7. /\ tcb'[p].state = "RUNNING" /\ tcb'[p].stack = stack /\ tcb'[p].pid = i
      /\ \A s \in Structs \ {p} : /\ tcb'[s].state = tcb[s].state /\ tcb'[s].stack = tcb[s].stack
                                  /\ tcb'[s].pid = tcb[s].pid
  BY <1>1, <1>5, <1>6 DEF ChildStruct, FilledStruct
<1>8. stack \in (free \ {p}) \cup {NULL} /\ ctx[current].base # "killing" /\ UNCHANGED <<current, fault>>
  BY <1>1, <1>2
<1> QED
  BY <1>1, <1>2, <1>3, <1>4, <1>7, <1>8, CreateKill

\* A task in its own code has not exited, and nobody is being killed.
LEMMA BodyFacts ==
    ASSUME KillInv, At("body")
    PROVE  /\ tcb[current].state # "ZOMBIE" /\ ctx[current].at = "none"
           /\ ctx[current].base = "body" /\ ctx[current].depth = 0
           /\ \A s : ~Victim(s)
           /\ \A s \in Structs : InTable(s) => Settled(s) /\ s \notin free
           /\ tcb[current].stack # NULL => HasStack(current)
<1>1. ctx[current].base = "body" /\ ctx[current].depth = 0
  BY DEF At
<1>2. \A s : ~Victim(s)
  BY <1>1 DEF Victim
<1>3. \A s \in Structs : InTable(s) => Settled(s) /\ s \notin free
  BY <1>2 DEF KillInv, AllSettled, Settled
<1>4. tcb[current].state # "ZOMBIE" /\ ctx[current].at = "none" /\ InTable(current)
  BY <1>1, RunningFacts DEF Settled
<1> QED
  BY <1>1, <1>2, <1>3, <1>4 DEF HasStack

\* move_to_user_mode takes a page that no task has.
LEMMA MoveToUserKill ==
    ASSUME KillInv, TypeInv', MoveToUser
    PROVE  KillInv'
<1>1. PICK stack \in free :
        /\ tcb' = [tcb EXCEPT ![current].stack = stack, ![current].regs = "user"]
        /\ free' = free \ {stack}
  BY DEF MoveToUser
<1>2. /\ UNCHANGED <<task, ctx, current, nr_tasks, fault>> /\ At("body")
      /\ tcb[current].stack = NULL /\ current \in Structs /\ stack \in Structs
      /\ stack # NULL /\ tcb \in [Structs -> TaskStruct]
      /\ task \in [Slots -> Structs \cup {NULL}]
  BY RunningFacts, Basics DEF MoveToUser, User
<1>3. /\ tcb'[current].stack = stack
      /\ \A s \in Structs : tcb'[s].state = tcb[s].state /\ tcb'[s].pid = tcb[s].pid
      /\ \A s \in Structs \ {current} : tcb'[s] = tcb[s]
  BY <1>1, <1>2 DEF TaskStruct
<1>4. \A s : /\ InTable(s)' <=> InTable(s)
             /\ Victim(s)' <=> Victim(s)
  BY <1>2 DEF InTable, Victim
<1>5. CurrentInTable' /\ TableInjective' /\ VictimIsOther'
  BY <1>2, <1>4 DEF KillInv, CurrentInTable, TableInjective, VictimIsOther
<1>6. PidIsSlot'
  BY <1>2, <1>3 DEF KillInv, PidIsSlot
<1>7. AllSettled'
  BY <1>1, <1>2, <1>3, <1>4 DEF KillInv, AllSettled, Settled
<1>8. \A s \in Structs \ {current} : HasStack(s)' <=> HasStack(s)
  BY <1>3, <1>4 DEF HasStack
<1>9. ~InTable(stack)
  BY <1>2, BodyFacts
<1>10. StacksAllocated'
  BY <1>1, <1>2, <1>3, <1>4, <1>8, <1>9 DEF KillInv, StacksAllocated
<1>11. StacksDistinct'
  BY <1>2, <1>3, <1>8 DEF KillInv, StacksDistinct, StacksAllocated
<1>12. PickedRunning'
  <2>1. ctx[current].at = "none"
    BY <1>2, BodyFacts
  <2> QED
    BY <1>2, <1>3, <2>1, Basics DEF KillInv, PickedRunning
<1>13. CountExact' /\ NoDoubleFree'
  BY <1>2 DEF KillInv, CountExact, Occupied, NoDoubleFree
<1> QED
  BY <1>5, <1>6, <1>7, <1>10, <1>11, <1>12, <1>13 DEF KillInv

\* exit_process gives back a page that is allocated.
LEMMA ExitKill ==
    ASSUME KillInv, TypeInv', Exit
    PROVE  KillInv'
<1> DEFINE c == Moved(ctx[current], "exiting", 0)
<1>1. /\ UNCHANGED <<task, current, nr_tasks>> /\ current \in Structs /\ current # INIT_TASK
      /\ free' = free \cup ExitedStack(current)
      /\ tcb' = [tcb EXCEPT ![current].state = "ZOMBIE"]
      /\ ctx' = [ctx EXCEPT ![current] = c]
      /\ fault' = IF ExitedStack(current) \cap free = {} THEN fault ELSE "double_free"
      /\ tcb \in [Structs -> TaskStruct] /\ task \in [Slots -> Structs \cup {NULL}]
      /\ ctx \in [Structs -> Context] /\ At("body")
  BY RunningFacts DEF Exit, Goto
<1>2. /\ tcb[current].state # "ZOMBIE" /\ ctx[current].at = "none"
      /\ ctx[current].base = "body" /\ ctx[current].depth = 0
      /\ \A s : ~Victim(s)
      /\ \A s \in Structs : InTable(s) => Settled(s) /\ s \notin free
      /\ tcb[current].stack # NULL => HasStack(current)
  BY <1>1, BodyFacts
<1>3. c.base = "exiting" /\ c.at = "none" /\ c.depth = 0
  <2>1. ctx[current] \in Context /\ "exiting" \in Bases /\ 0 \in Int
    BY RunningFacts, Basics
  <2> QED
    BY <1>2, <2>1, MovedFacts
<1> HIDE DEF c
<1>4. ctx'[current] = c /\ \A s \in Structs : s # current => ctx'[s] = ctx[s]
  BY <1>1
<1>5. /\ tcb'[current].state = "ZOMBIE"
      /\ \A s \in Structs : tcb'[s].stack = tcb[s].stack /\ tcb'[s].pid = tcb[s].pid
      /\ \A s \in Structs \ {current} : tcb'[s] = tcb[s]
  BY <1>1 DEF TaskStruct
<1>6. \A s : InTable(s)' <=> InTable(s)
  BY <1>1 DEF InTable
<1>7. CurrentInTable' /\ TableInjective'
  BY <1>1, <1>6 DEF KillInv, CurrentInTable, TableInjective
<1>8. PidIsSlot'
  BY <1>1, <1>5 DEF KillInv, PidIsSlot
<1>9. VictimIsOther' /\ \A s : ~Victim(s)'
  BY <1>1, <1>3, <1>4 DEF VictimIsOther, Victim
<1>10. \A q : q \in ExitedStack(current) <=> q = tcb[current].stack /\ q # NULL
  BY DEF ExitedStack
<1>11. \A q \in ExitedStack(current) : q \notin free /\ ~InTable(q)
  BY <1>1, <1>2, <1>10 DEF KillInv, StacksAllocated
<1>12. AllSettled'
  <2> SUFFICES ASSUME NEW s \in Structs, InTable(s) PROVE Settled(s)'
    BY <1>6 DEF AllSettled
  <2>1. Settled(s) /\ s \notin free'
    BY <1>1, <1>2, <1>11
  <2>2. CASE s = current
    BY <1>1, <1>3, <1>4, <2>1, <2>2 DEF Settled
  <2>3. CASE s # current
    BY <1>1, <1>4, <1>5, <2>1, <2>3 DEF Settled
  <2> QED
    BY <2>2, <2>3
<1>13. \A s \in Structs : HasStack(s)' <=> HasStack(s) /\ s # current
  BY <1>5, <1>6 DEF HasStack
<1>14. StacksAllocated'
  BY <1>1, <1>2, <1>5, <1>6, <1>10, <1>13 DEF KillInv, StacksAllocated, StacksDistinct
<1>15. StacksDistinct'
  BY <1>5, <1>13 DEF KillInv, StacksDistinct
<1>16. PickedRunning'
  BY <1>1, <1>3, <1>4, <1>5, Basics DEF KillInv, PickedRunning
<1>17. CountExact' /\ NoDoubleFree'
  <2>1. fault' = fault
    BY <1>1, <1>11
  <2> QED
    BY <1>1, <2>1 DEF KillInv, CountExact, Occupied, NoDoubleFree
<1> QED
  BY <1>7, <1>8, <1>9, <1>12, <1>14, <1>15, <1>16, <1>17 DEF KillInv

\* A context switch, to a task that has not exited and is not being killed.
LEMMA SwitchToKill ==
    ASSUME KillInv, TypeInv', SwitchTo
    PROVE  KillInv'
<1> DEFINE c == Advanced(ctx[current], "resume", 0)
           n == task[ctx[current].next]
<1>1. /\ ctx[current] \in Context /\ ctx[current].depth > 0 /\ ctx[current].at = "picked"
      /\ ctx' = [ctx EXCEPT ![current] = c] /\ "resume" \in Points /\ 0 \in Slots
      /\ current' = n /\ UNCHANGED <<task, tcb, nr_tasks, free, fault>>
      /\ ctx[current].base = "body" /\ current \in Structs /\ ctx \in [Structs -> Context]
      /\ Settled(current) /\ ctx[current].depth \in Nat
  BY RunningFacts, Basics, ContextTypes DEF SwitchTo, In, Settled
<1>2. c.at = "resume" /\ c.base = "body" /\ c.depth = ctx[current].depth
  BY <1>1, AdvancedFacts
<1>3. n \in Structs /\ InTable(n) /\ tcb[n].state = "RUNNING"
  <2>1. ctx[current].next \in Slots
    BY <1>1, ContextTypes
  <2>2. n # NULL
    BY <1>1 DEF KillInv, TypeInv, PickedOccupied
  <2> QED
    BY <1>1, <2>1, <2>2 DEF InTable, KillInv, TypeInv, TypeOK, PickedRunning
<1> HIDE DEF c, n
<1>4. \A s : InTable(s)' <=> InTable(s)
  BY <1>1 DEF InTable
<1>5. ctx'[current] = c /\ \A s \in Structs : s # current => ctx'[s] = ctx[s]
  BY <1>1
<1>6. \A s \in Structs : InTable(s) => Settled(s)
  BY <1>1 DEF KillInv, AllSettled, Victim
<1>7. /\ ctx'[n].at \in {"resume", "none"} /\ ctx'[n].base # "killing"
  <2>1. CASE n = current
    BY <1>2, <1>5, <2>1
  <2>2. CASE n # current
    <3>1. Settled(n) /\ ctx'[n] = ctx[n] /\ ctx[n] \in Context
      BY <1>1, <1>3, <1>5, <1>6, <2>2
    <3>2. ctx[n].depth \in Nat
      BY <3>1, ContextTypes
    <3> QED
      BY <2>2, <3>1, <3>2 DEF Settled
  <2> QED
    BY <2>1, <2>2
<1>8. CurrentInTable' /\ TableInjective'
  BY <1>1, <1>3, <1>4 DEF KillInv, CurrentInTable, TableInjective
<1>9. PidIsSlot' /\ VictimIsOther'
  BY <1>1, <1>7 DEF KillInv, PidIsSlot, VictimIsOther
<1>10. AllSettled'
  <2> SUFFICES ASSUME NEW s \in Structs, InTable(s) PROVE Settled(s)'
    BY <1>4 DEF AllSettled
  <2>1. Settled(s)
    BY <1>6
  <2>2. CASE s = current
    BY <1>1, <1>2, <1>3, <1>5, <2>1, <2>2 DEF Settled
  <2>3. CASE s # current
    BY <1>1, <1>3, <1>5, <2>1, <2>3 DEF Settled
  <2> QED
    BY <2>2, <2>3
<1>11. StacksAllocated' /\ StacksDistinct'
  <2>1. \A s \in Structs : HasStack(s)' <=> HasStack(s)
    BY <1>1, <1>4 DEF HasStack
  <2> QED
    BY <1>1, <1>4, <2>1 DEF KillInv, StacksAllocated, StacksDistinct
<1>12. PickedRunning'
  BY <1>1, <1>7 DEF KillInv, PickedRunning
<1>13. CountExact' /\ NoDoubleFree'
  BY <1>1 DEF KillInv, CountExact, Occupied, NoDoubleFree
<1> QED
  BY <1>8, <1>9, <1>10, <1>11, <1>12, <1>13 DEF KillInv

\* The first half of sys_kill: the victim is another task, and its page is allocated.
LEMMA KillBeginKill ==
    ASSUME KillInv, TypeInv', KillBegin
    PROVE  KillInv'
<1>1. PICK pid \in Killable(current) :
        \/ /\ task[pid] = NULL
           /\ fault' = "null_kill"
           /\ UNCHANGED <<tcb, ctx, free>>
        \/ /\ task[pid] # NULL
           /\ fault' = IF ({task[pid]} \cup KilledStack(task[pid])) \cap free = {}
                       THEN fault ELSE "double_free"
           /\ free' = free \cup {task[pid]} \cup KilledStack(task[pid])
           /\ tcb' = [tcb EXCEPT ![task[pid]].flags = 0]
           /\ ctx' = [Goto("killing", pid) EXCEPT ![task[pid]] = Freed]
  BY DEF KillBegin
<1>2. /\ UNCHANGED <<task, current, nr_tasks>> /\ At("body")
      /\ current \in Structs /\ ctx \in [Structs -> Context] /\ tcb \in [Structs -> TaskStruct]
      /\ task \in [Slots -> Structs \cup {NULL}] /\ InTable(current)
      /\ ctx[current] \in Context /\ Settled(current)
  BY RunningFacts DEF KillBegin
<1>3. \A s : InTable(s)' <=> InTable(s)
  BY <1>2 DEF InTable
<1>4. CASE task[pid] = NULL
  <2>1. UNCHANGED <<task, tcb, ctx, current, nr_tasks, free>> /\ fault' = "null_kill"
    BY <1>1, <1>2, <1>4
  <2> QED
    BY <2>1 DEF KillInv, CurrentInTable, InTable, TableInjective, PidIsSlot, VictimIsOther,
                AllSettled, Settled, Victim, StacksAllocated, StacksDistinct, HasStack,
                PickedRunning, CountExact, Occupied, NoDoubleFree
<1>5. CASE task[pid] # NULL
  <2> DEFINE p == task[pid]
             c == Moved(ctx[current], "killing", pid)
  <2>1. pid \in Slots /\ pid # 0 /\ pid # tcb[current].pid /\ pid \in Int
    BY Basics DEF Killable
  <2>2. p \in Structs /\ InTable(p) /\ p # NULL
    BY <1>2, <1>5, <2>1 DEF InTable
  <2>3. p # current
    BY <1>5, <2>1 DEF KillInv, PidIsSlot
  <2>4. /\ tcb[current].state # "ZOMBIE" /\ ctx[current].at = "none" /\ ctx[current].depth = 0
        /\ \A s : ~Victim(s)
        /\ \A s \in Structs : InTable(s) => Settled(s) /\ s \notin free
    BY <1>2, BodyFacts
  <2>5. fault' = fault /\ free' = free \cup {p}
    BY <1>1, <1>5, <2>2, <2>4 DEF KilledStack
  <2>6. /\ c.base = "killing" /\ c.arg = pid /\ c.at = "none" /\ c.depth = 0
        /\ ctx' = [[ctx EXCEPT ![current] = c] EXCEPT ![p] = Freed]
    <3>1. "killing" \in Bases
      BY Basics
    <3>2. c.base = "killing" /\ c.arg = pid /\ c.at = "none" /\ c.depth = 0
      BY <1>2, <2>1, <2>4, <3>1, MovedFacts
    <3>3. ctx' = [[ctx EXCEPT ![current] = c] EXCEPT ![p] = Freed]
      BY <1>1, <1>5 DEF Goto
    <3> QED
      BY <3>2, <3>3
  <2>7. \A s \in Structs : /\ tcb'[s].stack = tcb[s].stack /\ tcb'[s].state = tcb[s].state
                           /\ tcb'[s].pid = tcb[s].pid
    <3>1. tcb' = [tcb EXCEPT ![p].flags = 0]
      BY <1>1, <1>5
    <3> HIDE DEF p
    <3> QED
      BY <1>2, <3>1, OwnersKept
  <2>8. p = task[pid]
    OBVIOUS
  <2> HIDE DEF c, p
  <2>9. ctx'[current] = c /\ \A s \in Structs : s # current /\ s # p => ctx'[s] = ctx[s]
    BY <1>2, <2>2, <2>3, <2>6
  <2>10. CurrentInTable' /\ TableInjective'
    BY <1>2, <1>3 DEF KillInv, CurrentInTable, TableInjective
  <2>11. PidIsSlot'
    BY <1>2, <2>7 DEF KillInv, PidIsSlot
  <2>12. VictimIsOther' /\ \A s : Victim(s)' <=> s = p
    BY <1>2, <2>1, <2>2, <2>3, <2>6, <2>8, <2>9 DEF VictimIsOther, Victim
  <2>13. AllSettled'
    <3> SUFFICES ASSUME NEW s \in Structs, InTable(s), s # p PROVE Settled(s)'
      BY <1>3, <2>12 DEF AllSettled
    <3>1. Settled(s) /\ s \notin free'
      BY <2>4, <2>5
    <3>2. CASE s = current
      BY <1>2, <2>4, <2>6, <2>7, <2>9, <3>1, <3>2 DEF Settled
    <3>3. CASE s # current
      BY <1>2, <2>7, <2>9, <3>1, <3>3 DEF Settled
    <3> QED
      BY <3>2, <3>3
  <2>14. \A s \in Structs : HasStack(s)' <=> HasStack(s)
    BY <1>3, <2>7 DEF HasStack
  <2>15. StacksAllocated'
    BY <1>3, <2>2, <2>5, <2>7, <2>14 DEF KillInv, StacksAllocated
  <2>16. StacksDistinct'
    BY <2>7, <2>14 DEF KillInv, StacksDistinct
  <2>17. PickedRunning'
    BY <1>2, <2>6, <2>7, <2>9, Basics DEF KillInv, PickedRunning
  <2>18. CountExact' /\ NoDoubleFree'
    BY <1>2, <2>5 DEF KillInv, CountExact, Occupied, NoDoubleFree
  <2> QED
    BY <2>10, <2>11, <2>12, <2>13, <2>15, <2>16, <2>17, <2>18 DEF KillInv
<1> QED
  BY <1>4, <1>5

\* The second half: the slot of the victim is emptied before anything else runs.
LEMMA KillEndKill ==
    ASSUME KillInv, TypeInv', KillEnd
    PROVE  KillInv'
<1> DEFINE i == ctx[current].arg
           c == Moved(ctx[current], "body", 0)
<1>1. /\ task' = [task EXCEPT ![i] = NULL] /\ nr_tasks' = nr_tasks - 1
      /\ ctx' = [ctx EXCEPT ![current] = c] /\ UNCHANGED <<tcb, current, free, fault>>
      /\ ctx[current].base = "killing" /\ ctx[current].depth = 0
  BY DEF KillEnd, At, Goto
<1>2. /\ current \in Structs /\ ctx \in [Structs -> Context] /\ ctx[current] \in Context
      /\ task \in [Slots -> Structs \cup {NULL}] /\ InTable(current) /\ Settled(current)
      /\ NULL \notin Structs
  BY RunningFacts, Basics
<1>3. i \in Slots /\ task[i] # NULL /\ task[i] # current /\ task[i] \in Structs
  BY <1>1, <1>2 DEF KillInv, VictimIsOther
<1>4. /\ c.base = "body" /\ c.depth = 0 /\ c.at = "none"
      /\ tcb[current].state # "ZOMBIE"
  <2>1. "body" \in Bases /\ 0 \in Int
    BY Basics
  <2>2. ctx[current].at = "none" /\ tcb[current].state # "ZOMBIE"
    BY <1>1, <1>2 DEF Settled
  <2> QED
    BY <1>1, <1>2, <2>1, <2>2, MovedFacts
<1>5. \A s \in Structs : Victim(s) <=> s = task[i]
  BY <1>1 DEF Victim
<1> HIDE DEF c, i
<1>6. ctx'[current] = c /\ \A s \in Structs : s # current => ctx'[s] = ctx[s]
  BY <1>1, <1>2
<1>7. \A j \in Slots : task[j] = task[i] => j = i
  BY <1>3 DEF KillInv, TableInjective
<1>8. \A s \in Structs : InTable(s)' <=> InTable(s) /\ s # task[i]
  BY <1>1, <1>2, <1>3, <1>7 DEF InTable
<1>9. CurrentInTable'
  BY <1>1, <1>2, <1>3, <1>8 DEF CurrentInTable
<1>10. TableInjective' /\ PidIsSlot'
  BY <1>1, <1>2, <1>3 DEF KillInv, TableInjective, PidIsSlot
<1>11. VictimIsOther' /\ \A s : ~Victim(s)'
  BY <1>1, <1>4, <1>6 DEF VictimIsOther, Victim
<1>12. AllSettled'
  <2> SUFFICES ASSUME NEW s \in Structs, InTable(s), s # task[i] PROVE Settled(s)'
    BY <1>8 DEF AllSettled
  <2>1. Settled(s)
    BY <1>5 DEF KillInv, AllSettled
  <2>2. CASE s = current
    BY <1>1, <1>4, <1>6, <2>1, <2>2 DEF Settled
  <2>3. CASE s # current
    BY <1>1, <1>6, <2>1, <2>3 DEF Settled
  <2> QED
    BY <2>2, <2>3
<1>13. \A s \in Structs : HasStack(s)' => HasStack(s)
  BY <1>1, <1>8 DEF HasStack
<1>14. \A s : InTable(s)' => InTable(s) \/ s = NULL
  BY <1>1, <1>2, <1>3 DEF InTable
<1>15. StacksAllocated' /\ StacksDistinct'
  BY <1>1, <1>13, <1>14 DEF KillInv, StacksAllocated, StacksDistinct, HasStack
<1>16. PickedRunning'
  BY <1>1, <1>4, <1>6 DEF KillInv, PickedRunning
<1>17. CountExact' /\ NoDoubleFree'
  <2>1. Cardinality(Occupied') = Cardinality(Occupied) - 1
    BY <1>1, <1>3, CountRemoved DEF KillInv, TypeInv
  <2> QED
    BY <1>1, <2>1 DEF KillInv, CountExact, NoDoubleFree
<1> QED
  BY <1>9, <1>10, <1>11, <1>12, <1>15, <1>16, <1>17 DEF KillInv

\* Every step preserves the invariant, as long as no interrupt comes.
LEMMA NextKillInv ==
    ASSUME Irqs = {}
    PROVE  KillInv /\ [Next]_vars => KillInv'
<1> SUFFICES ASSUME KillInv, [Next]_vars PROVE KillInv'
  OBVIOUS
<1>1. TypeInv'
  BY NextTypeInv DEF KillInv
<1>2. CASE CreateThread \/ ForkBegin \/ ForkEnd \/ MoveToUser \/ Exit
  BY <1>1, <1>2, CreateThreadKill, ForkBeginKill, ForkEndKill, MoveToUserKill, ExitKill
<1>3. CASE ExitSchedule \/ Yield \/ Idle
  BY <1>1, <1>3, ScheduleKill DEF ExitSchedule, Yield, Idle, KillZombies, At
<1>4. CASE KillBegin \/ KillEnd
  BY <1>1, <1>4, KillBeginKill, KillEndKill
<1>5. CASE EnterSched \/ Refill \/ Pick \/ SwitchTo \/ Resume \/ ScheduleTail
  BY <1>1, <1>5, EnterSchedKill, RefillKill, PickKill, SwitchToKill, ResumeKill,
     ScheduleTailKill
<1>6. ~TimerIrq /\ ~UartIrq
  BY DEF TimerIrq, UartIrq
<1>7. CASE UNCHANGED vars
  BY <1>1, <1>7
     DEF vars, KillInv, CurrentInTable, InTable, TableInjective, PidIsSlot, VictimIsOther,
         AllSettled, Settled, Victim, StacksAllocated, StacksDistinct, HasStack,
         PickedRunning, CountExact, Occupied, NoDoubleFree
<1> QED
  BY <1>2, <1>3, <1>4, <1>5, <1>6, <1>7 DEF Next, Run, Undefined

\* KillInv holds throughout.
LEMMA KillInvariant ==
    ASSUME Irqs = {}
    PROVE  Spec => []KillInv
<1>1. KillInv /\ [Next]_vars => KillInv'
  BY NextKillInv
<1> QED
  BY <1>1, InitKillInv, PTL DEF Spec

-----------------------------------------------------------------------------
(***************************************************************************)
(* Interrupts without kill(): what SafeInv leaves out.                     *)
(***************************************************************************)
TableLive == \A s \in Structs : InTable(s) => ctx[s].base # "freed"

QuietInv == SafeInv /\ TableLive /\ CountExact /\ NoDoubleFree

\* The initial state.
LEMMA InitQuietInv == Init => QuietInv
<1> SUFFICES ASSUME Init PROVE QuietInv
  OBVIOUS
<1>1. KillInv
  BY InitKillInv
<1>2. \A s : ~Victim(s)
  <2>1. ctx[INIT_TASK] = Booting /\ current = INIT_TASK /\ Booting.base = "boot"
    BY Basics DEF Init, Booting, Fresh
  <2> QED
    BY <2>1 DEF Victim
<1>3. TableLive
  BY <1>1, <1>2 DEF KillInv, AllSettled, Settled, TableLive
<1> QED
  BY <1>1, <1>3, InitTypeInv, InitMemInv, InitCtlInv DEF QuietInv, SafeInv, KillInv

\* A step that fills no slot and gives back no page.
LEMMA QuietLocal ==
    ASSUME QuietInv, SafeInv', UNCHANGED <<task, nr_tasks>>, fault' # "double_free",
           NEW c, ctx' = [ctx EXCEPT ![current] = c], c.base # "freed"
    PROVE  QuietInv'
<1>1. current \in Structs /\ ctx \in [Structs -> Context]
  BY CurrentFacts DEF QuietInv
<1>2. TableLive'
  BY <1>1 DEF QuietInv, TableLive, InTable
<1>3. CountExact' /\ NoDoubleFree'
  BY DEF QuietInv, CountExact, Occupied, NoDoubleFree
<1> QED
  BY <1>2, <1>3 DEF QuietInv

\* copy_process fills one slot, with a page whose context is fresh.
LEMMA QuietCreate ==
    ASSUME QuietInv, SafeInv', NEW i \in Slots, NEW p \in free, AssignPID(i),
           task' = [task EXCEPT ![i] = p], nr_tasks' = nr_tasks + 1, fault' = fault,
           NEW c, ctx' = [[ctx EXCEPT ![current] = c] EXCEPT ![p] = Fresh], c.base # "freed"
    PROVE  QuietInv'
<1>1. /\ current \in Structs /\ ctx \in [Structs -> Context] /\ p \in Structs
      /\ task \in [Slots -> Structs \cup {NULL}] /\ task[i] = NULL /\ TypeOK
  BY CurrentFacts, Basics DEF QuietInv, SafeInv, TypeInv, TypeOK, AssignPID
<1>2. Fresh.base # "freed"
  BY DEF Fresh
<1>3. TableLive'
  <2>1. \A s \in Structs : InTable(s)' => InTable(s) \/ s = p
    BY <1>1 DEF InTable
  <2> QED
    BY <1>1, <1>2, <2>1 DEF QuietInv, TableLive
<1>4. CountExact' /\ NoDoubleFree'
  BY <1>1, CountAdded DEF QuietInv, CountExact, NoDoubleFree
<1> QED
  BY <1>3, <1>4 DEF QuietInv

\* Every step preserves it, as long as no program calls kill().
LEMMA NextQuietInv ==
    ASSUME ~Kills
    PROVE  QuietInv /\ [Next]_vars => QuietInv'
<1> SUFFICES ASSUME QuietInv, [Next]_vars PROVE QuietInv'
  OBVIOUS
<1>1. SafeInv'
  BY NextSafeInv DEF QuietInv
<1>2. /\ current \in Structs /\ ctx[current] \in Context /\ ctx \in [Structs -> Context]
      /\ ctx[current].base # "freed" /\ fault # "double_free"
      /\ tcb[current].state = "ZOMBIE" => ctx[current].base = "exiting" \/ ctx[current].depth > 0
  BY CurrentFacts DEF QuietInv, TableLive, NoDoubleFree
<1>3. \A b \in Bases, n \in Int : Moved(ctx[current], b, n).base = b
  BY <1>2, MovedFacts
<1>4. CASE UNCHANGED <<task, tcb, ctx, current, nr_tasks, free>> /\ fault' # "double_free"
  BY <1>1, <1>4 DEF QuietInv, TableLive, InTable, CountExact, Occupied, NoDoubleFree
<1>5. CASE CreateThread
  <2> DEFINE left == ctx[current].arg - 1
             b == IF left = 0 THEN "body" ELSE "boot"
             c == Moved(ctx[current], b, left)
  <2>1. CASE TableOverflow
    BY <1>4, <2>1 DEF TableOverflow
  <2>2. CASE ~TableOverflow
    <3>1. PICK i \in Slots, p \in free :
            /\ AssignPID(i) /\ task' = [task EXCEPT ![i] = p]
            /\ ctx' = [[ctx EXCEPT ![current] = c] EXCEPT ![p] = Fresh]
            /\ nr_tasks' = nr_tasks + 1 /\ fault' = fault
      BY <1>5, <2>2 DEF CreateThread, Goto
    <3>2. left \in Int /\ b \in Bases /\ b # "freed"
      BY <1>2, ContextTypes, Basics
    <3> HIDE DEF left, b
    <3>3. c.base # "freed"
      BY <1>3, <3>2
    <3> HIDE DEF c
    <3> QED
      BY <1>1, <3>1, <3>3, QuietCreate
  <2> QED
    BY <2>1, <2>2
<1>6. CASE ForkBegin
  <2>1. CASE TableOverflow
    BY <1>4, <2>1 DEF TableOverflow
  <2>2. CASE ~TableOverflow
    <3>1. PICK i \in Slots, p \in free :
            /\ AssignPID(i) /\ task' = [task EXCEPT ![i] = p]
            /\ ctx' = [[ctx EXCEPT ![current] = Moved(ctx[current], "forking", i)] EXCEPT ![p] = Fresh]
            /\ nr_tasks' = nr_tasks + 1 /\ fault' = fault
      BY <1>6, <2>2 DEF ForkBegin, Goto
    <3>2. Moved(ctx[current], "forking", i).base # "freed"
      BY <1>3, Basics
    <3> QED
      BY <1>1, <3>1, <3>2, QuietCreate
  <2> QED
    BY <2>1, <2>2
<1>7. CASE ForkEnd \/ ScheduleTail
  <2>1. ctx' = [ctx EXCEPT ![current] = Moved(ctx[current], "body", 0)]
        /\ UNCHANGED <<task, nr_tasks, fault>>
    BY <1>7 DEF ForkEnd, ScheduleTail, Goto
  <2>2. Moved(ctx[current], "body", 0).base # "freed"
    BY <1>3, Basics
  <2> QED
    BY <1>1, <1>2, <2>1, <2>2, QuietLocal
<1>8. CASE MoveToUser
  <2>1. UNCHANGED <<task, ctx, nr_tasks, fault>> /\ ctx' = [ctx EXCEPT ![current] = ctx[current]]
    BY <1>2, <1>8 DEF MoveToUser
  <2> QED
    BY <1>1, <1>2, <2>1, QuietLocal
<1>9. CASE Exit
  <2>1. /\ ctx' = [ctx EXCEPT ![current] = Moved(ctx[current], "exiting", 0)]
        /\ UNCHANGED <<task, nr_tasks>> /\ At("body")
        /\ fault' = IF ExitedStack(current) \cap free = {} THEN fault ELSE "double_free"
    BY <1>9 DEF Exit, Goto
  <2>2. Moved(ctx[current], "exiting", 0).base # "freed"
    BY <1>3, Basics
  <2>3. ExitedStack(current) \cap free = {}
    <3>1. tcb[current].stack # NULL => HasStack(current)
      BY <1>2, <2>1, CurrentFacts DEF HasStack, At, QuietInv
    <3> QED
      BY <1>2, <3>1 DEF QuietInv, SafeInv, MemInv, StacksAllocated, ExitedStack
  <2> QED
    BY <1>1, <1>2, <2>1, <2>2, <2>3, QuietLocal
<1>10. CASE ExitSchedule \/ Yield \/ Idle
  <2> DEFINE d == Moved(ctx[current], "body", 0)
  <2>1. ctx' = [ctx EXCEPT ![current] = Call(d)] /\ UNCHANGED <<task, nr_tasks, fault>>
    BY <1>10 DEF ExitSchedule, Yield, Idle, KillZombies, Schedule
  <2>2. d \in Context /\ d.base = "body"
    BY <1>2, MovedFacts, Basics
  <2> HIDE DEF d
  <2>3. Call(d).base # "freed"
    BY <2>2, CallFacts
  <2> QED
    BY <1>1, <1>2, <2>1, <2>3, QuietLocal
<1>11. ~KillBegin /\ ~KillEnd
  BY CurrentFacts DEF QuietInv, KillBegin, KillEnd, At
<1>12. CASE EnterSched \/ Refill \/ Pick \/ SwitchTo \/ Resume
  <2>1. /\ UNCHANGED <<task, nr_tasks, fault>>
        /\ \/ \E a \in Points, n \in Slots :
                ctx' = [ctx EXCEPT ![current] = Advanced(ctx[current], a, n)]
           \/ ctx' = [ctx EXCEPT ![current] = ctx[current]]
           \/ ctx[current].depth > 0 /\ ctx' = [ctx EXCEPT ![current] = Return(ctx[current])]
    BY <1>2, <1>12, Basics DEF EnterSched, Refill, Pick, SwitchTo, Resume, NextDefault, In
  <2>2. /\ \A a \in Points, n \in Slots : Advanced(ctx[current], a, n).base # "freed"
        /\ ctx[current].depth > 0 => Return(ctx[current]).base # "freed"
    BY <1>2, AdvancedFacts, ReturnFacts
  <2>3. PICK c : ctx' = [ctx EXCEPT ![current] = c] /\ c.base # "freed"
    BY <1>2, <2>1, <2>2
  <2> QED
    BY <1>1, <1>2, <2>1, <2>3, QuietLocal
<1>13. CASE TimerIrq \/ UartIrq
  <2>1. /\ UNCHANGED <<task, nr_tasks, fault>>
        /\ \/ ctx' = [ctx EXCEPT ![current] = Call(ctx[current])]
           \/ ctx' = [ctx EXCEPT ![current] = ctx[current]]
    BY <1>2, <1>13 DEF TimerIrq, UartIrq, TaskPreemption
  <2>2. Call(ctx[current]).base # "freed"
    BY <1>2, CallFacts
  <2>3. PICK c : ctx' = [ctx EXCEPT ![current] = c] /\ c.base # "freed"
    BY <1>2, <2>1, <2>2
  <2> QED
    BY <1>1, <1>2, <2>1, <2>3, QuietLocal
<1>14. CASE UNCHANGED vars
  BY <1>2, <1>4, <1>14 DEF vars
<1> QED
  BY <1>5, <1>6, <1>7, <1>8, <1>9, <1>10, <1>11, <1>12, <1>13, <1>14
     DEF Next, Run, Undefined

\* It holds throughout.
LEMMA QuietInvariant ==
    ASSUME ~Kills
    PROVE  Spec => []QuietInv
<1>1. QuietInv /\ [Next]_vars => QuietInv'
  BY NextQuietInv
<1> QED
  BY <1>1, InitQuietInv, PTL DEF Spec

-----------------------------------------------------------------------------
(***************************************************************************)
(* sys_kill needs interrupts off, and nothing else: the theorems hold with *)
(* kill() and without interrupts, and with interrupts and without kill().  *)
(***************************************************************************)
\* The CPU never runs on a task_struct that has been given back.
THEOREM NeverRunsFreed ==
    ASSUME ~Kills \/ Irqs = {}
    PROVE  Spec => []NoRunAfterFree
<1>1. KillInv => NoRunAfterFree
  BY RunningFacts DEF Settled, NoRunAfterFree
<1>2. QuietInv => NoRunAfterFree
  BY CurrentFacts DEF QuietInv, TableLive, NoRunAfterFree
<1>3. ASSUME Irqs = {} PROVE Spec => []NoRunAfterFree
  <2>1. Spec => []KillInv
    BY <1>3, KillInvariant
  <2> QED
    BY <1>1, <2>1, PTL
<1>4. ASSUME ~Kills PROVE Spec => []NoRunAfterFree
  <2>1. Spec => []QuietInv
    BY <1>4, QuietInvariant
  <2> QED
    BY <1>2, <2>1, PTL
<1> QED
  BY <1>3, <1>4

\* No page is given back twice, in any order of exit() and kill().
THEOREM NeverFreesTwice ==
    ASSUME ~Kills \/ Irqs = {}
    PROVE  Spec => []NoDoubleFree
<1>1. KillInv => NoDoubleFree
  BY DEF KillInv
<1>2. QuietInv => NoDoubleFree
  BY DEF QuietInv
<1>3. ASSUME Irqs = {} PROVE Spec => []NoDoubleFree
  <2>1. Spec => []KillInv
    BY <1>3, KillInvariant
  <2> QED
    BY <1>1, <2>1, PTL
<1>4. ASSUME ~Kills PROVE Spec => []NoDoubleFree
  <2>1. Spec => []QuietInv
    BY <1>4, QuietInvariant
  <2> QED
    BY <1>2, <2>1, PTL
<1> QED
  BY <1>3, <1>4

\* nr_tasks counts the tasks of the table.
THEOREM NrTasksCounts ==
    ASSUME ~Kills \/ Irqs = {}
    PROVE  Spec => []NrTasksExact
<1>1. KillInv => NrTasksExact
  BY DEF KillInv, CountExact, Occupied, NrTasksExact
<1>2. QuietInv => NrTasksExact
  BY DEF QuietInv, CountExact, Occupied, NrTasksExact
<1>3. ASSUME Irqs = {} PROVE Spec => []NrTasksExact
  <2>1. Spec => []KillInv
    BY <1>3, KillInvariant
  <2> QED
    BY <1>1, <2>1, PTL
<1>4. ASSUME ~Kills PROVE Spec => []NrTasksExact
  <2>1. Spec => []QuietInv
    BY <1>4, QuietInvariant
  <2> QED
    BY <1>2, <2>1, PTL
<1> QED
  BY <1>3, <1>4

\* Stacks that are allocated and distinct belong to one task each.
LEMMA StacksFollow ==
    ASSUME TypeOK, TableInjective, StacksAllocated, StacksDistinct
    PROVE  StacksOwned
<1> SUFFICES ASSUME NEW i \in Alive, NEW j \in Alive, User(task[i])
             PROVE  /\ tcb[task[i]].stack \notin free
                    /\ tcb[task[i]].stack # task[j]
                    /\ i # j => tcb[task[i]].stack # tcb[task[j]].stack
  BY DEF StacksOwned
<1>1. /\ i \in Slots /\ j \in Slots /\ task[i] \in Structs /\ task[j] \in Structs
      /\ task[i] # NULL /\ task[j] # NULL
      /\ InTable(task[i]) /\ InTable(task[j])
  BY DEF Alive, InTable, TypeOK
<1>2. HasStack(task[i])
  BY <1>1 DEF HasStack, Alive, User
<1>3. i # j => task[i] # task[j]
  BY <1>1 DEF TableInjective
<1>4. tcb[task[j]].stack # NULL => HasStack(task[j])
  BY <1>1 DEF HasStack, Alive
<1>5. tcb[task[i]].stack \notin free /\ ~InTable(tcb[task[i]].stack)
  BY <1>1, <1>2 DEF StacksAllocated
<1>6. i # j => tcb[task[i]].stack # tcb[task[j]].stack
  BY <1>1, <1>2, <1>3, <1>4 DEF StacksDistinct, HasStack
<1> QED
  BY <1>1, <1>5, <1>6

\* No user stack of a task that has not exited is free, shared, or used as a
\* task_struct, in any order of fork, exit and kill.
THEOREM StacksAreOwned ==
    ASSUME ~Kills \/ Irqs = {}
    PROVE  Spec => []StacksOwned
<1>1. KillInv => StacksOwned
  BY StacksFollow DEF KillInv, TypeInv
<1>2. SafeInv => StacksOwned
  BY StacksFollow DEF SafeInv, TypeInv, MemInv
<1>3. ASSUME Irqs = {} PROVE Spec => []StacksOwned
  <2>1. Spec => []KillInv
    BY <1>3, KillInvariant
  <2> QED
    BY <1>1, <2>1, PTL
<1>4. ASSUME ~Kills PROVE Spec => []StacksOwned
  <2>1. Spec => []SafeInv
    BY <1>4, SafeInvariant
  <2> QED
    BY <1>2, <2>1, PTL
<1> QED
  BY <1>3, <1>4
=============================================================================
