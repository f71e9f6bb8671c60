------------------------------ MODULE MCSystem ------------------------------
(***************************************************************************)
(* System with small inputs.  In the bootloader the commands have names of *)
(* one or two characters; the kernel to load has carriage returns and line *)
(* feeds in it, and its size has two digits.                               *)
(***************************************************************************)
EXTENDS System

MCHELP == <<104>>
MCHELLO == <<104, 104>>
MCREBOOT == <<114>>
MCLOADKERNEL == <<108>>
MCImage == <<77, 13, 10, 0, 49, 255, 127, 13, 32, 1>>

MCTexts == BoundedSeq({48, 97, 98}, 3)

MCNumbers == 0 .. 12 \cup {19, 99, 100, 101, 255, 256, 300, 999, 1000, 9999, 10000}

Directive(convs, widths, args) ==
    [conv : convs, zero : BOOLEAN, width : widths, arg : args]

Numeric == {Unsigned, Decimal, LowerX, UpperX}

MCFormats ==
    {<<d>> : d \in Directive(Numeric, {0, 3, 12}, 0 .. 255)}
      \cup {<<d, e>> : d \in Directive({Char}, {0}, {37, 65}),
                       e \in Directive(Numeric, {0, 12}, {0, 128, 255})}

MCTextFormats ==
    {<<d, e>> : d \in Directive({String}, {0, 3}, {<<>>, <<97, 98>>}),
                e \in Directive(Numeric, {0, 12}, {0, 128, 255})}

\* "", "l", "cat", "cat " or "setTimeout ", and four more keys.
MCLines ==
    {h \o t : h \in {<<>>, <<108>>, Start(cat, 3), cat, setTimeout},
              t \in BoundedSeq({Space, 49, 97, 115, BACK_SPACE, 200}, 4)}

MCNames == {<<>>, <<97>>, <<97, 98>>, <<97, 98, 99>>, <<98>>}

MCFiles == [name : {<<97>>, <<97, 98>>, <<97, 98, 99>>}, data : {<<>>, <<65>>, <<1, 2, 3, 4, 5>>}]

MCArchives ==
    {Archive(fs, magic) : fs \in BoundedSeq(MCFiles, 2),
                          magic \in {CPIO_HEADER_MAGIC, Copies(6, Zero)}}

MCInitramfs ==
    {Archive(fs, CPIO_HEADER_MAGIC) :
       fs \in {<<>>, <<[name |-> <<97>>, data |-> <<1, 2, 3, 4, 5>>],
                      [name |-> <<97, 98>>, data |-> <<65>>]>>}}

MCPrograms == {<<97>>, <<97, 98>>, <<98>>}

\* Pointers into the stack, into the program and elsewhere.
MCArguments ==
    {<<>>, <<2>>, <<LoadAddress + 1, 99>>, <<LoadAddress, LoadAddress + 3>>,
     <<98, 1, LoadAddress + 4>>}
=============================================================================
