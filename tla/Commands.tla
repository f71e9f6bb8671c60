------------------------------ MODULE Commands ------------------------------
(***************************************************************************)
(* The command line of the kernel's shell (parse and command_controller of *)
(* src/shell.c), and the commands of src/command.c that have an argument.  *)
(* The echo of the line is in Console.                                     *)
(***************************************************************************)
EXTENDS Cpio

CONSTANTS
    LineLen,       \* MAX_BUFFER_LEN of the kernel (256)
    LONGWORD       \* 2 to the width of uint64_t

ASSUME CommandsAssumption == LineLen \in Nat \ {0} /\ LONGWORD \in Nat \ {0}

BACK_SPACE == 127

parse(c) ==
    CASE c = BACK_SPACE -> "BACK_SPACE"
      [] c >= 128 -> "UNKNOWN"
      [] c \in {LF, CR} -> "NEW_LINE"
      [] OTHER -> "REGULAR_INPUT"

EmptyLine == [buffer |-> Copies(LineLen, NUL), counter |-> 0]

\* The line after a character other than a new line.  What a backspace takes off
\* the line stays in the buffer.
Edited(line, c) ==
    CASE parse(c) = "BACK_SPACE" /\ line.counter > 0 ->
           [line EXCEPT !.counter = @ - 1]
      [] parse(c) = "REGULAR_INPUT" /\ line.counter < LineLen ->
           [buffer |-> [line.buffer EXCEPT ![line.counter + 1] = c],
            counter |-> line.counter + 1]
      [] OTHER -> line

\* buffer + n
From(buffer, n) == SubSeq(buffer, n + 1, Len(buffer))

\* The commands that are compared with strcmp.
Exact ==
    [help |-> <<104, 101, 108, 112>>,
     hello |-> <<104, 101, 108, 108, 111>>,
     reboot |-> <<114, 101, 98, 111, 111, 116>>,
     ls |-> <<108, 115>>,
     ma |-> <<109, 97>>,
     cpio_svc |-> <<99, 112, 105, 111, 95, 115, 118, 99>>,
     currentEL |-> <<99, 117, 114, 114, 101, 110, 116, 69, 76>>,
     coreTimerOn |-> <<99, 111, 114, 101, 84, 105, 109, 101, 114, 79, 110>>,
     coreTimerOff |-> <<99, 111, 114, 101, 84, 105, 109, 101, 114, 79, 102, 102>>]

cat == <<99, 97, 116, 32>>
setTimeout == <<115, 101, 116, 84, 105, 109, 101, 111, 117, 116, 32>>

\* The message and the seconds that are given to add_timer, and what is left of
\* the buffer: the first space is overwritten.
coomand_setTimeout(buf) ==
    LET text == CString(buf)
        i == FirstUpTo(Len(text), LAMBDA j : At(text, j) = Space)
        seconds == From(text, i + 1)
        duration[k \in 0 .. Len(seconds)] ==
          IF k = 0 THEN 0 ELSE (duration[k - 1] * 10 + seconds[k] - Zero) % LONGWORD
    IN  [msg |-> Start(text, i),
         duration |-> IF i = Len(text) THEN 0 ELSE duration[Len(seconds)]]

\* What is printed: the lines of cpio_get_file, and the file, if it is there.
Printed(a, f) ==
    IF f.result = NULL THEN [lines |-> f.printed, exists |-> FALSE]
    ELSE [lines |-> f.printed, exists |-> TRUE,
          text |-> Append([i \in 1 .. f.size |-> Content(a, f)[i] % 256], LF)]

command_getCpioFile(a, buf) == Printed(a, cpio_get_file(a, buf, 0))

command_cpio_ls(a) == cpio_ls(a)

\* The command that a terminated buffer runs.
Runs(buffer) ==
    LET same == {n \in DOMAIN Exact : strcmp(buffer, Exact[n]) = 0}
    IN  CASE same # {} -> [command |-> CHOOSE n \in same : TRUE, arg |-> <<>>]
          [] strncmp(buffer, cat, 3) = 0 ->
               [command |-> "cat", arg |-> CString(From(buffer, 4))]
          [] strncmp(buffer, setTimeout, 10) = 0 ->
               [command |-> "setTimeout", arg |-> CString(From(buffer, 11))]
          [] OTHER -> [command |-> "not_found", arg |-> CString(buffer)]

\* A new line after keys.
command_controller(keys) ==
    LET after[i \in 0 .. Len(keys)] == IF i = 0 THEN EmptyLine ELSE Edited(after[i - 1], keys[i])
        line == after[Len(keys)]
    IN  IF line.counter = LineLen THEN [command |-> "too_long", arg |-> <<>>]
        ELSE Runs([line.buffer EXCEPT ![line.counter + 1] = NUL])

-----------------------------------------------------------------------------
(***************************************************************************)
(* What the user sees and means                                            *)
(***************************************************************************)
\* The text after a character more: a backspace erases one, and what is not ASCII
\* does not count.
Shows(text, c) ==
    CASE c >= 128 -> text
      [] c = BACK_SPACE -> IF text = <<>> THEN text ELSE Front(text)
      [] OTHER -> Append(text, c)

Visible(keys) ==
    LET text[i \in 0 .. Len(keys)] == IF i = 0 THEN <<>> ELSE Shows(text[i - 1], keys[i])
    IN  text[Len(keys)]

\* A line runs the command that it shows, with the argument that it shows, as
\* long as the argument is there: erased text is not part of it.
ObeysLine(keys) ==
    LET text == Visible(keys)
        run == command_controller(keys)
    IN  Len(keys) < LineLen =>
          /\ (run.command \in DOMAIN Exact) = (text \in Range(Exact))
          /\ run.command \in DOMAIN Exact => text = Exact[run.command]
          /\ Start(text, 4) = cat => run = [command |-> "cat", arg |-> From(text, 4)]
          /\ Start(text, 11) = setTimeout =>
               run = [command |-> "setTimeout", arg |-> From(text, 11)]

\* "setTimeout MESSAGE SECONDS" is split at the space, as long as the seconds fit
\* in a uint64_t.
SplitsRight(msg, seconds) ==
    coomand_setTimeout(msg \o <<Space>> \o itoa(seconds, 1))
      = [msg |-> msg, duration |-> seconds % LONGWORD]

\* `cat' prints a line for every entry up to the first file of that name, and then
\* that file and nothing else; without such a file, a line for every entry and one
\* for the trailer, or for what is there instead of it.  `ls' prints every name.
PrintsRight(a, name) ==
    LET names == [i \in DOMAIN a.files |-> a.files[i].name]
        out == command_getCpioFile(a, name)
    IN  /\ IF Named(a.files, name) = {}
           THEN /\ ~out.exists
                /\ out.lines \in {Append(names, CPIO_FOOTER_MAGIC), Append(names, Unset)}
           ELSE out = [lines |-> SubSeq(names, 1, Min(Named(a.files, name))), exists |-> TRUE,
                       text |-> Append(FirstNamed(a.files, name).data, LF)]
        /\ command_cpio_ls(a) = names
=============================================================================
