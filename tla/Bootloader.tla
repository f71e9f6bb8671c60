----------------------------- MODULE Bootloader -----------------------------
(***************************************************************************)
(* The bootloader (bootloader/src), and the other end of its serial line:  *)
(* a user who types, and bootloader/kernel2Uart.py, which sends the length *)
(* of the kernel in decimal, a line feed, and the kernel's bytes.  There   *)
(* is no flow control: what arrives at a full receiver is lost.            *)
(*                                                                         *)
(* What is printed is left out, except for the echo of the command line:   *)
(* screen is the characters sent and not rubbed out.                       *)
(***************************************************************************)
EXTENDS Strings

CONSTANTS
    MAX_BUFFER_LEN,    \* 128
    FifoDepth,         \* the receiver's FIFO
    Keys,              \* the characters the user types
    MaxTyped,          \* bound: how many of them
    HELP, HELLO, REBOOT, LOADKERNEL,   \* the command names
    Image              \* the bytes of the kernel to load

ASSUME BootloaderAssumption ==
    /\ MAX_BUFFER_LEN \in Nat \ {0} /\ FifoDepth \in Nat \ {0} /\ MaxTyped \in Nat
    /\ Keys \subseteq 0 .. 255
    /\ Image \in Seq(0 .. 255)
    /\ {HELP, HELLO, REBOOT, LOADKERNEL} \subseteq Seq(1 .. 255)

VARIABLES
    bpc,       \* "shell", "size", "load", "jump", "reset" or "fault"
    rx,        \* the receiver
    buffer,    \* the command line, and its length
    counter,
    screen,    \* what is left of its echo
    over,      \* it has been longer than its buffer
    buff,      \* command_loadkernel: what has been read of the size, which
               \* may be more than there is room for
    temp,      \* ... the bytes still to be read
    kernel,    \* ... the memory at 0x80000
    typed,     \* characters typed
    host,      \* what kernel2Uart.py has still to send
    started,   \* it has been started
    lost       \* what of it was lost: "size", "image"

line == <<buffer, counter, screen, over>>
loading == <<buff, temp, kernel>>
script == <<host, started, lost>>
bvars == <<bpc, rx, line, loading, typed, script>>

\* The receiver after uart_init, which clears it.
uart_init == <<>>

\* The line with which shell_start begins.
EmptyBuffer == strset(Copies(MAX_BUFFER_LEN, NUL), 0, MAX_BUFFER_LEN)

BootInit ==
    /\ bpc = "shell"
    /\ rx = uart_init
    /\ buffer = EmptyBuffer
    /\ counter = 0 /\ screen = <<>> /\ over = FALSE
    /\ buff = <<>> /\ temp = 0 /\ kernel = <<>>
    /\ typed = 0
    /\ host = <<>> /\ started = FALSE /\ lost = {}

-----------------------------------------------------------------------------
(***************************************************************************)
(* The serial line                                                         *)
(***************************************************************************)
Arrives(c) == rx' = IF Len(rx) < FifoDepth THEN Append(rx, c) ELSE rx

Type ==
    /\ typed < MaxTyped /\ ~started /\ bpc \notin {"jump", "fault"}
    /\ \E c \in Keys : Arrives(c)
    /\ typed' = typed + 1
    /\ UNCHANGED <<bpc, line, loading, script>>

\* The user has read "Loading kernel size..." and types no more.
StartScript ==
    /\ bpc = "size" /\ buff = <<>> /\ rx = <<>> /\ ~started
    /\ started' = TRUE
    /\ host' = itoa(Len(Image), 1) \o <<LF>> \o Image
    /\ UNCHANGED <<bpc, rx, line, loading, typed, lost>>

Send ==
    /\ host # <<>>
    /\ Arrives(Head(host))
    /\ host' = Tail(host)
    /\ lost' = IF Len(rx) < FifoDepth THEN lost
               ELSE lost \cup {IF Len(host) > Len(Image) THEN "size" ELSE "image"}
    /\ UNCHANGED <<bpc, line, loading, typed, started>>

\* uart_getc waits for a character, takes it from the receiver and returns it.
Received == rx # <<>> /\ rx' = Tail(rx)

uart_getc == IF Head(rx) = CR THEN LF ELSE Head(rx)

-----------------------------------------------------------------------------
(***************************************************************************)
(* shell_start: a character is read, echoed and put on the line.           *)
(***************************************************************************)
DELETE == 127

boot_parse(c) ==
    CASE c = DELETE -> "BACK_SPACE"
      [] c >= 128 -> "UNKNOWN"
      [] c \in {LF, CR} -> "NEW_LINE"
      [] OTHER -> "REGULAR_INPUT"

uart_send(c) == screen' = Append(screen, c)

\* uart_puts("\b \b")
RubOut == screen' = Front(screen)

\* Mutant: the counter is not moved.
EraseEcho ==
    IF counter > 0
    THEN RubOut /\ UNCHANGED counter
    ELSE UNCHANGED <<counter, screen>>

Erase ==
    IF counter > 0
    THEN counter' = counter - 1 /\ RubOut
    ELSE UNCHANGED <<counter, screen>>

\* Mutant: the character is stored whether there is room for it or not.
StoreAnyway(c) ==
    /\ uart_send(c)
    /\ buffer' = IF counter < MAX_BUFFER_LEN THEN [buffer EXCEPT ![counter + 1] = c]
                 ELSE Append(buffer, c)
    /\ counter' = counter + 1
    /\ UNCHANGED over

\* The echo comes first, and also for a character that finds no room.
Store(c) ==
    /\ uart_send(c)
    /\ IF counter < MAX_BUFFER_LEN
       THEN /\ buffer' = [buffer EXCEPT ![counter + 1] = c]
            /\ counter' = counter + 1
            /\ UNCHANGED over
       ELSE over' = TRUE /\ UNCHANGED <<buffer, counter>>

\* Where the bootloader goes with the line that is in text; help, hello and
\* command_not_found print something and come back.
Command(text) ==
    CASE strcmp(text, HELP) = 0 -> "shell"
      [] strcmp(text, HELLO) = 0 -> "shell"
      [] strcmp(text, REBOOT) = 0 -> "reset"
      [] strcmp(text, LOADKERNEL) = 0 -> "size"
      [] OTHER -> "shell"

\* The end of the line: it is too long, or it is a command.  The line is cleared
\* when the command has come back.
Enter ==
    LET text == [buffer EXCEPT ![counter + 1] = NUL]
    IN  /\ bpc' = IF counter = MAX_BUFFER_LEN THEN "shell" ELSE Command(text)
        /\ IF bpc' = "shell"
           THEN /\ buffer' = strset(buffer, NUL, MAX_BUFFER_LEN)
                /\ counter' = 0 /\ screen' = <<>> /\ over' = FALSE
           ELSE buffer' = text /\ UNCHANGED <<counter, screen, over>>

boot_controller ==
    /\ bpc = "shell" /\ Received
    /\ LET c == uart_getc
       IN  \/ boot_parse(c) = "UNKNOWN" /\ UNCHANGED <<bpc, line>>
           \/ boot_parse(c) = "BACK_SPACE" /\ Erase /\ UNCHANGED <<bpc, buffer, over>>
           \/ boot_parse(c) = "REGULAR_INPUT" /\ Store(c) /\ UNCHANGED bpc
           \/ boot_parse(c) = "NEW_LINE" /\ Enter
    /\ UNCHANGED <<loading, typed, script>>

\* command_reboot: the watchdog resets the machine, and main() runs again.
Reboot ==
    /\ bpc = "reset"
    /\ bpc' = "shell" /\ rx' = uart_init
    /\ buffer' = EmptyBuffer /\ counter' = 0
    /\ screen' = <<>> /\ over' = FALSE
    /\ UNCHANGED <<loading, typed, script>>

-----------------------------------------------------------------------------
(***************************************************************************)
(* command_loadkernel                                                      *)
(***************************************************************************)
\* Mutant: the loop stops one byte early.
OneByteShort(digits) == atoi(digits) - 1

\* Mutant: the loop waits for one byte more.
OneByteMore(digits) == atoi(digits) + 1

\* kernel_size
KernelSize(digits) == atoi(digits)

\* buff[count_digit] = char_recv, for which there is no limit: from the element
\* MAX_BUFFER_LEN on it is a store to what lies behind buff[].  The loader goes on
\* if nothing there is in use; if something is, anything may happen ("fault").
StoreDigit(goes) ==
    \/ bpc' = goes
    \/ Len(buff) >= MAX_BUFFER_LEN /\ bpc' = "fault"

\* The loop that reads the size up to a line feed, on which a NUL is put.
ReadSize ==
    /\ bpc = "size" /\ Received
    /\ IF uart_getc = LF
       THEN StoreDigit("load") /\ temp' = KernelSize(buff) /\ UNCHANGED buff
       ELSE StoreDigit("size") /\ buff' = Append(buff, uart_getc) /\ UNCHANGED temp
    /\ UNCHANGED <<kernel, line, typed, script>>

\* The loop that reads the kernel.
ReadKernel ==
    /\ bpc = "load" /\ temp # 0 /\ Received
    /\ kernel' = Append(kernel, uart_getc)
    /\ temp' = temp - 1
    /\ UNCHANGED <<bpc, line, buff, typed, script>>

\* The branch to 0x80000.
Jump ==
    /\ bpc = "load" /\ temp = 0
    /\ bpc' = "jump"
    /\ UNCHANGED <<rx, line, loading, typed, script>>

BootStep == boot_controller \/ Reboot \/ ReadSize \/ ReadKernel \/ Jump

\* The receiver is empty: uart_getc polls.
BootPoll ==
    /\ bpc \in {"shell", "size", "load"} /\ rx = <<>>
    /\ UNCHANGED bvars

BootNext == Type \/ StartScript \/ Send \/ BootStep \/ BootPoll

\* The bootloader by itself.  Every step of System is one of its steps or leaves
\* its variables unchanged.
BootSpec == BootInit /\ [][BootNext]_bvars

-----------------------------------------------------------------------------
(***************************************************************************)
(* Properties                                                              *)
(***************************************************************************)
BootTypeOK ==
    /\ bpc \in {"shell", "size", "load", "jump", "reset", "fault"}
    /\ rx \in Seq(0 .. 255) /\ Len(rx) <= FifoDepth
    /\ buffer \in [1 .. MAX_BUFFER_LEN -> 0 .. 255]
    /\ counter \in 0 .. MAX_BUFFER_LEN
    /\ screen \in Seq(0 .. 255) /\ over \in BOOLEAN
    /\ buff \in Seq(0 .. 255)
    /\ temp \in Int /\ kernel \in Seq(0 .. 255)
    /\ typed \in 0 .. MaxTyped
    /\ host \in Seq(0 .. 255) /\ started \in BOOLEAN
    /\ lost \subseteq {"size", "image"}

\* The command that runs is the one on the screen: unless more was typed than the
\* line holds, the echo, with its erased characters, is the line, and reboot and
\* loadKernel are run only if they are what it shows.
LineShown ==
    ~over =>
      /\ screen = Start(buffer, counter)
      /\ bpc = "reset" => screen = REBOOT
      /\ bpc \in {"size", "load", "jump"} => screen = LOADKERNEL

\* The kernel as uart_getc passes it on.
Translated == [i \in DOMAIN Image |-> IF Image[i] = CR THEN LF ELSE Image[i]]

\* If the size has arrived, the bootloader jumps to a complete kernel only: a
\* kernel of which a byte was lost is never entered, nor one of which a byte is
\* still to come.
KernelComplete ==
    bpc = "jump" /\ started /\ "size" \notin lost =>
      lost = {} /\ host = <<>> /\ kernel = Translated

\* A kernel that arrives without a loss is entered.
LoadFinishes == started ~> (bpc = "jump" \/ lost # {})

\* loadKernel loads the kernel it is sent (bootloader/src/command.c:23: "load new
\* kernel to 0x80000").
KernelIntact ==
    bpc = "jump" /\ started /\ lost = {} => kernel = Image
=============================================================================
