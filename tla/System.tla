------------------------------- MODULE System -------------------------------
(***************************************************************************)
(* The machine from power-on: the bootloader, and the kernel it has        *)
(* loaded, of which three activities are followed: the library functions,  *)
(* which the shell and the system calls rest on, the system calls of a     *)
(* user task, and tasks that use the mailbox.  They share no state with    *)
(* one another, and the kernel's scheduler, allocators, timers and console *)
(* are in Sched, Kmalloc, Timer and Console.                               *)
(***************************************************************************)
EXTENDS Syscall, Bootloader, Mailbox, Lists

CONSTANTS
    Texts,         \* strings
    Numbers,       \* numbers to convert
    Formats,       \* sequences of printf directives with numbers
    TextFormats,   \* sequences of printf directives that start with a string
    Names,         \* names of files
    Lines,         \* what is typed before a new line
    Archives,      \* archives
    Initramfs      \* those that a user task finds

\* Strings have no NUL in them, a line ends at a new line, archives are made by cpio,
\* and printf is given the arguments that its format calls for.
ASSUME SystemAssumption ==
    /\ \A s \in Texts : s \in Seq(1 .. 255 \ {Space})
    /\ \A s \in Names \cup Programs : s \in Seq(1 .. 255)
    /\ \A s \in Lines : s \in Seq(1 .. 255 \ {LF, CR})
    /\ Numbers \subseteq Nat
    /\ \A a \in Archives \cup Initramfs : Packed(a)
    /\ \A ds \in Formats \cup TextFormats :
         ds \in Seq(ToSet(ds)) /\ \A d \in ToSet(ds) : IsDirective(d)

VARIABLES
    phase,         \* "boot", "kernel", "library", "user" or "mailbox"
    input          \* what a library function is called with

vars == <<phase, input, bvars, svars, mvars>>

Init ==
    /\ phase = "boot" /\ input = [kind |-> "none"]
    /\ BootInit
    /\ SyscallInit(Archive(<<>>, CPIO_HEADER_MAGIC))
    /\ MboxInit

Boot(A) == phase = "boot" /\ A /\ UNCHANGED <<phase, input, svars, mvars>>

Booting ==
    \/ Boot(Type) \/ Boot(StartScript) \/ Boot(Send) \/ Boot(BootStep) \/ Boot(BootPoll)

\* Every kernel that is complete is the same one (KernelComplete); it is followed
\* from the boot with the fewest characters typed.
KernelStarts ==
    /\ phase = "boot" /\ bpc = "jump"
    /\ started /\ lost = {} /\ typed = Len(LOADKERNEL) + 1
    /\ phase' = "kernel"
    /\ UNCHANGED <<input, bvars, svars, mvars>>

-----------------------------------------------------------------------------
Calls(in) ==
    /\ phase' = "library" /\ input' = in
    /\ UNCHANGED <<bvars, svars, mvars>>

CallStrings ==
    \E a, b \in Texts, n \in 0 .. 4 : Calls([kind |-> "texts", a |-> a, b |-> b, n |-> n])

CallNumbers == \E x \in Numbers, d \in 0 .. 4 : Calls([kind |-> "number", x |-> x, d |-> d])

CallPrintf ==
    \/ \E ds \in Formats : Calls([kind |-> "format", ds |-> ds, sep |-> <<>>])
    \/ \E ds \in TextFormats : Calls([kind |-> "format", ds |-> ds, sep |-> <<97>>])

CallTimeout == \E msg \in Texts, s \in Numbers : Calls([kind |-> "timeout", msg |-> msg, s |-> s])

CallCpio == \E a \in Archives, name \in Names : Calls([kind |-> "file", a |-> a, name |-> name])

CallLists ==
    \E s \in DistinctLists, n \in 1 .. Nodes, at, stale \in Node :
      Calls([kind |-> "list", s |-> s, n |-> n, at |-> at, h |-> Built(s, stale)])

CallShell == \E keys \in Lines : Calls([kind |-> "line", keys |-> keys])

Library ==
    /\ phase = "kernel"
    /\ CallStrings \/ CallNumbers \/ CallPrintf \/ CallTimeout \/ CallCpio
       \/ CallShell \/ CallLists

\* The firmware has loaded an archive, and main() has entered user mode.
UserStarts ==
    /\ phase = "kernel" /\ phase' = "user"
    /\ archive' \in Initramfs
    /\ UNCHANGED <<stack, regs, image, status, asked, calls, input, bvars, mvars>>

User == phase = "user" /\ SyscallNext /\ UNCHANGED <<phase, input, bvars, mvars>>

MailboxStarts ==
    /\ phase = "kernel" /\ phase' = "mailbox"
    /\ UNCHANGED <<input, bvars, svars, mvars>>

UseMailbox == phase = "mailbox" /\ MboxNext /\ UNCHANGED <<phase, input, bvars, svars>>

\* A broken kernel, err_hang, or a machine with nothing left to do.
Rest ==
    /\ phase = "boot" => bpc \in {"jump", "fault"}
    /\ UNCHANGED vars

Next ==
    \/ Booting \/ KernelStarts
    \/ Library \/ UserStarts \/ User \/ MailboxStarts \/ UseMailbox
    \/ Rest

\* kernel2Uart.py sends what it has to send, and the processor goes on.
Fairness == WF_vars(Boot(Send)) /\ WF_vars(Boot(BootStep))

Spec == Init /\ [][Next]_vars /\ Fairness

-----------------------------------------------------------------------------
(***************************************************************************)
(* Properties                                                              *)
(***************************************************************************)
\* Every variable keeps its type: the command line stays in its buffer, what has
\* arrived in the FIFO of the receiver, sp in the user stack.  The digits of a size
\* may go past buff[] of command_loadkernel, which nothing limits (ReadSize).
SystemTypeOK == BootTypeOK /\ SyscallTypeOK /\ MboxTypeOK

\* string.c and math.c: comparisons, copies and conversions are right for every
\* string and number, and setTimeout splits its argument as the user means it.
StringsRight ==
    /\ input.kind = "texts" => ComparesRight(input.a, input.b, input.n)
    /\ input.kind = "number" => ConvertsRight(input.x, input.d)
    /\ input.kind = "timeout" => SplitsRight(input.msg, input.s)

\* list.h: the lists of the kernel are the sequences that the other modules take
\* them for, and wake_up wakes every task of a queue and empties it.
LinksRight == input.kind = "list" => ListsRight(input.h, input.s, input.n, input.at)

\* printf.c: every format is rendered as its directives say, for every value of a
\* word, the smallest negative one included, and within bf[].  The exception is a
\* negative number in a field that is filled up with zeros: "%05d" of -5 gives
\* 000-5 (printf.h:24: "Zero padding and field width are also supported").
PrintfRight == input.kind = "format" => FormatsRight(input.ds, input.sep)

\* cpio.c and the commands that use it: a name finds the first file that has it and
\* all of its bytes, whatever the sizes and the padding of the files before it, and
\* `cat' prints them behind the names it has passed; a line of fewer keys than the
\* buffer holds runs the command and has the argument that it shows, with its
\* erased characters.
LookupRight ==
    /\ input.kind = "file" =>
         FindsRight(input.a, input.name) /\ PrintsRight(input.a, input.name)
    /\ input.kind = "line" => ObeysLine(input.keys)
=============================================================================
