------------------------------ MODULE Syscall -------------------------------
(***************************************************************************)
(* The system calls of a user task that work on its memory and registers   *)
(* (src/sys.c), and their dispatch by number (el0_svc of src/entry.S).     *)
(* fork, exit and kill are in Sched, malloc in Kmalloc, the core timer in  *)
(* Timer and the mailbox in Mailbox.                                       *)
(*                                                                         *)
(* The user stack is one page of Words words of 8 bytes; sp and argv count *)
(* words from its start.  A pointer in memory is the number of a word of   *)
(* the stack, from 1 on since 0 is NULL, or the address of a byte of the   *)
(* program at LoadAddress; every other one points to memory that exec()    *)
(* does not write.                                                         *)
(***************************************************************************)
EXTENDS Commands

CONSTANTS
    Words,         \* words of the user stack (512)
    Pid,           \* current->pid
    Programs,      \* the names the user gives to exec()
    Arguments,     \* the pointers of the argv[] it gives
    MaxCalls       \* bound: system calls made

ASSUME SyscallAssumption ==
    /\ Words \in Nat \ {0} /\ Words % 2 = 0
    /\ \A args \in Arguments : args \in Seq(Nat \ {0}) /\ Len(args) < Words
    /\ MaxCalls \in Nat /\ Pid \in Nat

VARIABLES
    archive,       \* the archive at INITRAMFS_ADDR
    stack,         \* the user stack
    regs,          \* task_pt_regs: x0, x1, sp, pc
    image,         \* the memory at 0x10A0000
    status,        \* "user", or "hang": in err_hang for ever
    asked,         \* the last call and its arguments
    calls          \* how many there were

svars == <<archive, stack, regs, image, status, asked, calls>>

LoadAddress == 17432576

Word == 0 .. Words - 1

SyscallInit(a) ==
    /\ archive = a
    /\ stack = [w \in Word |-> NULL]
    /\ regs = [x0 |-> 0, x1 |-> 0, sp |-> Words, pc |-> 0]
    /\ image = <<>>
    /\ status = "user"
    /\ asked = [call |-> "none"]
    /\ calls = 0

-----------------------------------------------------------------------------
(***************************************************************************)
(* Dispatch                                                                *)
(***************************************************************************)
__NR_syscalls == 11

\* The numbers that the wrappers of src/sys.S put in x8.
Number ==
    [getpid |-> 0, uartread |-> 1, uartwrite |-> 2, exec |-> 3, fork |-> 4, exit |-> 5,
     mbox_call |-> 6, kill |-> 7, malloc |-> 8, clone |-> 9,
     coreTimer_on |-> 10, coreTimer_off |-> 11, write |-> 12]

sys_call_table ==
    <<"sys_gitPID", "sys_uart_read", "sys_uart_write", "sys_exec", "sys_fork", "sys_exit",
      "sys_mbox_call", "sys_kill", "sys_malloc", "sys_clone", "sys_coreTimer_on",
      "sys_coreTimer_off", "sys_write">>

\* The user makes a call, and el0_svc takes it to a function.
Svc(call, function) ==
    /\ status = "user" /\ calls < MaxCalls
    /\ Number[call] < __NR_syscalls
    /\ sys_call_table[Number[call] + 1] = function
    /\ calls' = calls + 1

\* ret_from_syscall stores the result.
Returns(v) == regs' = [regs EXCEPT !.x0 = v]

\* ni_sys: the number is not below the limit.
NotImplemented ==
    /\ status = "user" /\ calls < MaxCalls
    /\ \E call \in DOMAIN Number :
         Number[call] >= __NR_syscalls /\ asked' = [call |-> call]
    /\ status' = "hang"
    /\ calls' = calls + 1
    /\ UNCHANGED <<archive, stack, regs, image>>

-----------------------------------------------------------------------------
(***************************************************************************)
(* The calls                                                               *)
(***************************************************************************)
sys_gitPID ==
    /\ Svc("getpid", "sys_gitPID") /\ Returns(Pid)
    /\ asked' = [call |-> "getpid"]
    /\ UNCHANGED <<archive, stack, image, status>>

sys_clone ==
    /\ Svc("clone", "sys_clone") /\ Returns(0)
    /\ asked' = [call |-> "clone"]
    /\ UNCHANGED <<archive, stack, image, status>>

\* The stack after characters have been read to at, and a NUL after the last, one
\* to a word here; uart_getc turns a carriage return into a line feed.
Filled(at, input) ==
    [w \in Word |->
       CASE w \in at .. at + Len(input) - 1 ->
              IF input[w - at + 1] = CR THEN LF ELSE input[w - at + 1]
         [] w = at + Len(input) -> NUL
         [] OTHER -> stack[w]]

sys_uart_read(at, input) ==
    /\ Svc("uartread", "sys_uart_read") /\ Returns(Len(input))
    /\ stack' = Filled(at, input)
    /\ asked' = [call |-> "uartread"]
    /\ UNCHANGED <<archive, image, status>>

sys_uart_write(size) ==
    /\ Svc("uartwrite", "sys_uart_write") /\ Returns(size)
    /\ asked' = [call |-> "uartwrite"]
    /\ UNCHANGED <<archive, stack, image, status>>

\* The user has put argv[], with its null pointer, on its stack at a word.
WithArgv(at, args) ==
    [w \in Word |-> IF w \in at .. at + Len(args) - 1 THEN args[w - at + 1]
                    ELSE IF w = at + Len(args) THEN NULL ELSE stack[w]]

\* The loop that counts argv[] up to its null pointer.
ArgcCount(stk, argv) ==
    CHOOSE n \in 0 .. Words - argv : stk[argv + n] = NULL /\ \A i \in 0 .. n - 1 : stk[argv + i] # NULL

\* The sp of a task whose stack has argc pointers on it, 16-byte aligned.
StackPointer(argc) == Words - (argc + (argc % 2))

\* Mutant: the pointers are copied without a backup, from the first to the last.
CopiedInPlace(stk, argv, argc, sp) ==
    FoldLeft(LAMBDA s, i : [s EXCEPT ![sp + i - 1] = s[argv + i - 1]],
             stk, [i \in 1 .. argc |-> i])

\* The two copying loops, by way of backup.
CopiedArgv(stk, argv, argc, sp) ==
    LET backup == [i \in 0 .. argc - 1 |-> stk[argv + i]]
    IN  [w \in Word |-> IF w \in sp .. sp + argc - 1 THEN backup[w - sp] ELSE stk[w]]

\* The string at a pointer, a character to a word on the stack.
StringAt(stk, img, p) ==
    IF p \in 1 .. Words THEN CString([i \in 1 .. Words + 1 - p |-> stk[p + i - 2]])
    ELSE IF p \in LoadAddress .. LoadAddress + Len(img) - 1
    THEN CString(From(img, p - LoadAddress))
    ELSE <<p>>

sys_exec(name, at, args) ==
    LET stk == WithArgv(at, args)
        argc == ArgcCount(stk, at)
        sp == StackPointer(argc)
    IN  /\ Svc("exec", "sys_exec")
        /\ image' = cpio_move_file(archive, name, image)
        /\ stack' = CopiedArgv(stk, at, argc, sp)
        /\ regs' = [x0 |-> argc, x1 |-> sp, sp |-> sp, pc |-> LoadAddress]
        /\ asked' = [call |-> "exec", name |-> name, args |-> args,
                     strings |-> [i \in 1 .. Len(args) |-> StringAt(stk, image, args[i])]]
        /\ UNCHANGED <<archive, status>>

Inputs == BoundedSeq({CR, 97}, 2)

SyscallNext ==
    \/ sys_gitPID \/ sys_clone \/ NotImplemented
    \/ \E at \in Word : \E input \in Inputs : at + Len(input) < Words /\ sys_uart_read(at, input)
    \/ \E size \in 0 .. 1 : sys_uart_write(size)
    \/ \E name \in Programs, at \in Word : \E args \in Arguments :
         at + Len(args) < Words /\ sys_exec(name, at, args)

-----------------------------------------------------------------------------
(***************************************************************************)
(* Properties                                                              *)
(***************************************************************************)
SyscallTypeOK ==
    /\ stack \in [Word -> Nat]
    /\ regs \in [x0 : Nat, x1 : Nat, sp : 0 .. Words, pc : {0, LoadAddress}]
    /\ image \in Seq({Foreign} \cup 0 .. 255)
    /\ status \in {"user", "hang"}
    /\ calls \in 0 .. MaxCalls

Executed == asked.call = "exec" /\ status = "user"

\* argc, the pointers in order from sp on, and sp inside the stack and aligned.
ArgumentsPassed ==
    Executed =>
      LET argc == Len(asked.args)
      IN  /\ regs = [x0 |-> argc, x1 |-> regs.sp, sp |-> regs.sp, pc |-> LoadAddress]
          /\ regs.sp % 2 = 0 /\ regs.sp + argc <= Words
          /\ \A i \in 1 .. argc : stack[regs.sp + i - 1] = asked.args[i]

\* If the file exists, all of its bytes at the address it was linked for.
ImageLoaded ==
    Executed =>
      LET data == FirstNamed(archive.files, asked.name).data
      IN  Named(archive.files, asked.name) # {} => Start(image, Len(data)) = data

\* A string is lost if the new argv[] is put on it or the new program, of size bytes:
\* such are the arguments of rootfs/argv_test, which are part of the old program.
Spared(p, string, size) ==
    IF p \in 1 .. Words THEN p + Len(string) <= regs.sp
    ELSE p \notin LoadAddress .. LoadAddress + size - 1

\* Every other argument is the string that it was.
StringsKept ==
    Executed /\ Named(archive.files, asked.name) # {} =>
      LET size == Len(FirstNamed(archive.files, asked.name).data)
      IN  \A i \in 1 .. Len(asked.args) :
            Spared(asked.args[i], asked.strings[i], size) =>
              StringAt(stack, image, asked.args[i]) = asked.strings[i]

\* A new program finds itself in memory, whatever was loaded there before, and the
\* pointers of its arguments, wherever on the stack the old one had put them and
\* however the two places overlap.  The strings they point to are there still, but
\* for those in memory that the program or its argv[] is put on.
ExecRight == ArgumentsPassed /\ ImageLoaded /\ StringsKept
=============================================================================
