-------------------------------- MODULE Timer --------------------------------
(***************************************************************************)
(* The timeouts of src/timer.c: a list of timer events multiplexed on the  *)
(* core timer of src/timer.S, the timer half of irq_exc_router             *)
(* (src/exception.c), and the switches of the timer in src/command.c and   *)
(* src/sys.c.                                                              *)
(*                                                                         *)
(* Time is the counter cntpct_el0; the timer asserts its interrupt while   *)
(* it is on and the counter has reached cval.  The events count in whole   *)
(* seconds, in unsigned words.                                             *)
(***************************************************************************)
EXTENDS Integers, Sequences, SequencesExt

CONSTANTS
    FREQ,             \* cntfrq_el0: counts in a second
    PERIOD,           \* counts between the ticks of the scheduler (FREQ >> 5)
    WORD,             \* the modulus of a uint64_t
    TVAL,             \* the modulus of cntp_tval_el0, which has 32 bits
    Durations,        \* the seconds add_timer is called with: the help text
                      \* of setTimeout asks for less than 45, to fit in TVAL
    Garbage,          \* the words that may stand in the memory behind timer_list
    MaxCount,         \* bound: the counter
    MaxEvents,        \* bound: timer events registered
    MaxSwitches,      \* bound: times the timer is switched on or off
    MaxAdd,           \* bound: counts that go by inside add_timer
    MaxLatency        \* bound: counts by which an interrupt is delayed

ASSUME TimerAssumption ==
    /\ FREQ \in Nat \ {0}
    /\ PERIOD \in Nat \ {0}
    /\ WORD \in Nat \ {0}
    /\ TVAL \in Nat \ {0} /\ WORD % TVAL = 0
    /\ Durations \subseteq Nat
    /\ Garbage \subseteq 0 .. WORD - 1
    /\ MaxCount \in Nat
    /\ MaxEvents \in Nat
    /\ MaxSwitches \in Nat
    /\ MaxAdd \in Nat
    /\ MaxLatency \in Nat
    /\ \A d \in Durations :
         2 * (d + MaxCount) < WORD /\ 2 * FREQ * d < TVAL
    /\ 2 * (FREQ + MaxLatency) <= TVAL   \* a late event is in TVAL's negative half

VARIABLES
    cnt,                            \* cntpct_el0
    on,                             \* cntp_ctl_el0 and the interrupt's mask
    cval,                           \* when the timer expires
    timer_list,
    isTimerMultiplexingEventIRQ,
    pc,                             \* where add_timer stands
    new,                            \* the event add_timer is adding
    added,                          \* events registered so far
    switches,                       \* times the timer has been switched so far
    last,                           \* the event whose callback ran last, and when
    fault,                          \* the handler ran with an empty list
    disturbed                       \* history: what has upset the events since the
                                    \* list was last empty when one was added

vars == <<cnt, on, cval, timer_list, isTimerMultiplexingEventIRQ,
          pc, new, added, switches, last, fault, disturbed>>

(***************************************************************************)
(* disturbed, which the code does not keep, says what a timeout may blame: *)
(*   "irq"     its handler has run inside add_timer, whose disable_irq()   *)
(*             and enable_irq() are commented out;                         *)
(*   "switch"  the core timer was switched on or off meanwhile;            *)
(*   "second"  a second of the system time has ended inside add_timer.     *)
(***************************************************************************)
Disturbances == {"irq", "switch", "second"}

get_system_time == cnt \div FREQ

\* Mutant: the words are unbounded.
NoWrap(x) == x

\* uint64_t arithmetic
Wrap(x) == x % WORD

\* Counts until the timer expires once cntp_tval_el0 is written with word x: the
\* register takes the low bits of it, as a signed number.
Tval(x) == LET low == x % TVAL IN IF 2 * low < TVAL THEN low ELSE low - TVAL

(***************************************************************************)
(* struct timer_event.  at is the count when it was registered, which the  *)
(* code does not keep: it keeps the second.                                *)
(***************************************************************************)
TimerEvent(d) ==
    [registerTime |-> get_system_time, prevUpdatedTime |-> get_system_time,
     duration |-> d, remainingTime |-> d, at |-> cnt]

NoEvent == [registerTime |-> 0, prevUpdatedTime |-> 0, duration |-> 0,
            remainingTime |-> 0, at |-> 0]

\* main(): core_timer_enable() before anything else.
Init ==
    /\ cnt = 0
    /\ on = TRUE /\ cval = PERIOD
    /\ timer_list = <<>>
    /\ isTimerMultiplexingEventIRQ = 0
    /\ pc = "idle"
    /\ new = NoEvent
    /\ added = 0 /\ switches = 0
    /\ last = [event |-> NoEvent, count |-> 0, disturbed |-> {}]
    /\ fault = FALSE
    /\ disturbed = {}

-----------------------------------------------------------------------------
\* Mutant: prevUpdatedTime is not moved on.
UpdatedOnce(e, now) ==
    [e EXCEPT !.remainingTime = Wrap(@ - Wrap(now - e.prevUpdatedTime))]

Updated(e, now) ==
    [e EXCEPT !.remainingTime = Wrap(@ - Wrap(now - e.prevUpdatedTime)),
              !.prevUpdatedTime = now]

UpdateTimerEvents(list, now) ==
    [i \in DOMAIN list |-> Updated(list[i], now)]

\* Mutant: every new event goes to the head.
AddAtHead(list, e) == <<e>> \o list

\* AddNewTimerEvents: before the first event that has more time left.
AddNewTimerEvents(list, e) ==
    LET Later == {i \in DOMAIN list : e.remainingTime < list[i].remainingTime}
    IN  IF Later = {} THEN Append(list, e)
        ELSE InsertAt(list, CHOOSE i \in Later : \A j \in Later : i <= j, e)

\* Mutant: the timer is set for the last event of the list.
ArmLast(list) == cnt + Tval(Wrap(FREQ * list[Len(list)].remainingTime))

\* setNextTimerEventInterrupt: when the interrupt for list is due.
NextTimeout(list) == cnt + Tval(Wrap(FREQ * Head(list).remainingTime))

(***************************************************************************)
(* add_timer, in four steps between which interrupts are taken.            *)
(***************************************************************************)
Pending == on /\ cnt >= cval

\* kmalloc, get_system_time and InitalizeNewTimerEvent
AddBegin ==
    /\ pc = "idle" /\ ~Pending /\ added < MaxEvents
    /\ \E d \in Durations : new' = TimerEvent(d)
    /\ pc' = "flag"
    /\ added' = added + 1
    /\ disturbed' = IF timer_list = <<>> THEN {} ELSE disturbed
    /\ UNCHANGED <<cnt, on, cval, timer_list, isTimerMultiplexingEventIRQ, switches, last, fault>>

AddFlag ==
    /\ pc = "flag"
    /\ isTimerMultiplexingEventIRQ' = 1
    /\ pc' = "list"
    /\ UNCHANGED <<cnt, on, cval, timer_list, new, added, switches, last, fault, disturbed>>

AddList ==
    /\ pc = "list"
    /\ timer_list' =
         AddNewTimerEvents(UpdateTimerEvents(timer_list, new.registerTime), new)
    /\ pc' = "arm"
    /\ UNCHANGED <<cnt, on, cval, isTimerMultiplexingEventIRQ, new, added, switches,
                   last, fault, disturbed>>

\* setNextTimerEventInterrupt, on whatever the list is by now: if the handler has
\* emptied it, remainingTime is some word of the memory behind timer_list.
AddArm ==
    /\ pc = "arm"
    /\ on' = TRUE
    /\ IF timer_list = <<>>
       THEN \E x \in Garbage : cval' = cnt + Tval(Wrap(FREQ * x))
       ELSE cval' = NextTimeout(timer_list)
    /\ pc' = "idle" /\ new' = NoEvent
    /\ UNCHANGED <<cnt, timer_list, isTimerMultiplexingEventIRQ, added, switches, last,
                   fault, disturbed>>

-----------------------------------------------------------------------------
(***************************************************************************)
(* The timer interrupt, taken when IRQs are on.                            *)
(***************************************************************************)
\* Mutant: the interrupt stays routed to the events.
StayMultiplexing(list) == 1

\* isTimerMultiplexingEventIRQ after an event has been taken off list.
Multiplexing(list) == IF list = <<>> THEN 0 ELSE isTimerMultiplexingEventIRQ

timerEvents_irq_handler ==
    /\ isTimerMultiplexingEventIRQ = 1
    /\ disturbed' = IF pc = "idle" THEN disturbed ELSE disturbed \cup {"irq"}
    /\ IF timer_list = <<>>
       THEN /\ fault' = TRUE
            /\ UNCHANGED <<on, cval, timer_list, isTimerMultiplexingEventIRQ, last>>
       ELSE LET list == UpdateTimerEvents(timer_list, get_system_time)
                rest == Tail(list)
            IN  /\ last' = [event |-> Head(list), count |-> cnt, disturbed |-> disturbed']
                /\ timer_list' = rest
                /\ isTimerMultiplexingEventIRQ' = Multiplexing(rest)
                /\ on' = (rest # <<>>)
                /\ cval' = IF rest = <<>> THEN cval ELSE NextTimeout(rest)
                /\ UNCHANGED fault

\* The tick of the scheduler: see Sched.
core_timer_handler ==
    /\ isTimerMultiplexingEventIRQ = 0
    /\ cval' = cnt + PERIOD
    /\ UNCHANGED <<on, timer_list, isTimerMultiplexingEventIRQ, last, fault, disturbed>>

TimerIrq ==
    /\ Pending
    /\ timerEvents_irq_handler \/ core_timer_handler
    /\ UNCHANGED <<cnt, pc, new, added, switches>>

\* The commands coreTimerOn and coreTimerOff, and the system calls of that name,
\* which another task may make while one is in add_timer.
CoreTimerSwitch ==
    /\ switches < MaxSwitches
    /\ switches' = switches + 1
    /\ \/ on' = TRUE /\ cval' = cnt + PERIOD
       \/ on' = FALSE /\ UNCHANGED cval
    /\ disturbed' = disturbed \cup {"switch"}
    /\ UNCHANGED <<cnt, timer_list, isTimerMultiplexingEventIRQ, pc, new, added,
                   last, fault>>

\* Time goes by: MaxAdd counts at most in add_timer, which prints the whole list,
\* and MaxLatency past the moment an interrupt is due.
Count ==
    /\ cnt < MaxCount
    /\ pc # "idle" => cnt < new.at + MaxAdd
    /\ Pending => cnt < cval + MaxLatency
    /\ cnt' = cnt + 1
    /\ disturbed' = IF pc # "idle" /\ cnt + 1 >= FREQ * (new.registerTime + 1)
                    THEN disturbed \cup {"second"} ELSE disturbed
    /\ UNCHANGED <<on, cval, timer_list, isTimerMultiplexingEventIRQ,
                   pc, new, added, switches, last, fault>>

\* The end of what is modelled: the bound on the counter, or undefined behaviour.
End == (cnt = MaxCount \/ fault) /\ UNCHANGED vars

Next ==
    \/ ~fault /\ (AddBegin \/ AddFlag \/ AddList \/ AddArm
                  \/ TimerIrq \/ CoreTimerSwitch \/ Count)
    \/ End

Spec == Init /\ [][Next]_vars

-----------------------------------------------------------------------------
(***************************************************************************)
(* Properties                                                              *)
(***************************************************************************)
\* The second in which event e is due.
Due(e) == e.registerTime + e.duration

\* Counts by which the code may be late beyond the second it rounds off.
Slack == MaxAdd + MaxLatency

\* Every variable keeps its type.
TypeOK ==
    LET Event == [registerTime : Nat, prevUpdatedTime : Nat, duration : Durations \cup {0},
                  remainingTime : 0 .. WORD - 1, at : Nat]
    IN  /\ cnt \in 0 .. MaxCount
        /\ on \in BOOLEAN /\ cval \in Int
        /\ timer_list \in Seq(Event)
        /\ isTimerMultiplexingEventIRQ \in {0, 1}
        /\ pc \in {"idle", "flag", "list", "arm"}
        /\ new \in Event
        /\ added \in 0 .. MaxEvents /\ switches \in 0 .. MaxSwitches
        /\ last \in [event : Event, count : Nat, disturbed : SUBSET Disturbances]
        /\ fault \in BOOLEAN
        /\ disturbed \subseteq Disturbances

\* While nothing has disturbed it, timer_list is sorted by the time the events
\* are due ("So timer_list is always sorted"); and whatever happens, each event's
\* remaining time is counted from its own prevUpdatedTime, although the words wrap
\* when an interrupt is late.
ListInDueOrder ==
    /\ disturbed = {} =>
         \A i, j \in DOMAIN timer_list :
           i < j => Due(timer_list[i]) <= Due(timer_list[j])
    /\ \A i \in DOMAIN timer_list :
         Wrap(timer_list[i].prevUpdatedTime + timer_list[i].remainingTime)
           = Wrap(Due(timer_list[i]))

\* While events are pending the timer is on, its interrupt goes to the events,
\* and it expires before the first of them is more than a second late, as long as
\* nothing has disturbed it: coreTimerOff with events pending leaves it off.
ArmedForHead ==
    pc = "idle" /\ timer_list # <<>> /\ disturbed = {} =>
      /\ isTimerMultiplexingEventIRQ = 1
      /\ on
      /\ cval < FREQ * (Due(Head(timer_list)) + 1) + Slack

\* The callback of event l.event ran after its duration, to the second the code
\* counts in: not a second early.
InTime(l) == l.count > l.event.at + FREQ * (l.event.duration - 1)

\* No timeout fires early ("prints [MESSAGE] after [SECONDS]") unless its handler
\* has run inside an add_timer or somebody has switched the timer while events
\* were pending: coreTimerOn then fires the first of them with the next tick.
NotEarly ==
    last.disturbed \subseteq {"second"} => InTime(last)

\* Nothing in the code lets those two cases fire events early on purpose: the
\* comment in add_timer calls the critical section essential.
NeverEarly == InTime(last)

OnTime(l) == l.count < l.event.at + FREQ * (l.event.duration + 1) + Slack

\* Nor does one fire more than a second late, however many events were added
\* meanwhile, if nothing has disturbed them.
NotLate ==
    last.disturbed = {} => OnTime(last)

\* What would be left to claim if a second may also end inside add_timer.
NotLateAcrossSecond ==
    last.disturbed \subseteq {"second"} => OnTime(last)

\* The interrupt goes to the events of an empty list, whose head the handler would
\* call, at one point only: between the flag and the insertion in add_timer.
HandlerFindsEvent ==
    fault \/ (isTimerMultiplexingEventIRQ = 1 /\ timer_list = <<>>) => pc = "list"
=============================================================================
