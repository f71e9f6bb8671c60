------------------------------- MODULE Printf -------------------------------
(***************************************************************************)
(* src/printf.c, as it is built: PRINTF_LONG_SUPPORT is not defined.  The  *)
(* loops are recursive functions of the variables they change, the output  *)
(* is the sequence of characters given to putf.                            *)
(***************************************************************************)
EXTENDS Strings

CONSTANTS
    WORD,          \* 2 to the width of int (32 in the build)
    BF             \* the size of tfp_format's bf[] (12)

\* bf[] has room for a sign, the decimal digits of a word and a NUL.
ASSUME PrintfAssumption ==
    /\ WORD \in Nat \ {0, 1}
    /\ BF \in Nat /\ BF >= 3
    /\ WORD <= pow(10, BF - 2)

Percent == 37

\* The conversions, by the codes of their characters: X c d s u x.
UpperX == 88
Char == 99
Decimal == 100
String == 115
Unsigned == 117
LowerX == 120
Numbered == {Unsigned, Decimal, LowerX, UpperX}

DigitChar(dgt, uc) ==
    IF dgt < 10 THEN Zero + dgt ELSE (IF uc THEN 65 ELSE 97) - 10 + dgt

\* The rounds of the first loop of ui2a, which multiplies d by base; they are no
\* more than num, and neither d nor d * base is more than num.
Rounds(num, base) == FirstUpTo(num, LAMBDA k : num \div pow(base, k) < base)

\* A round of the second loop, on num, d and what is written of bf.
WriteDigit(s, base, uc) ==
    IF s.d = 0 THEN s
    ELSE LET dgt == s.num \div s.d
             d == s.d \div base
         IN  [num |-> s.num % s.d,
              d |-> d,
              bf |-> IF s.bf # <<>> \/ dgt > 0 \/ d = 0 THEN Append(s.bf, DigitChar(dgt, uc))
                     ELSE s.bf]

ui2a(num, base, uc) ==
    LET loop[i \in 0 .. Rounds(num, base) + 1] ==
          IF i = 0 THEN [num |-> num, d |-> pow(base, Rounds(num, base)), bf |-> <<>>]
          ELSE WriteDigit(loop[i - 1], base, uc)
    IN  loop[Rounds(num, base) + 1].bf

\* Mutant: the negation is not taken modulo the word.
NegateLost(num) == IF num < 0 THEN <<45>> \o ui2a((-num) % (WORD \div 2), 10, FALSE)
                   ELSE ui2a(num, 10, FALSE)

\* -INT_MIN is INT_MIN, which ui2a takes for the unsigned number it should be.
i2a(num) == IF num < 0 THEN <<45>> \o ui2a((-num) % WORD, 10, FALSE)
            ELSE ui2a(num, 10, FALSE)

a2d(ch) ==
    CASE ch \in Digits -> ch - Zero
      [] ch \in 97 .. 102 -> ch - 97 + 10
      [] ch \in 65 .. 70 -> ch - 65 + 10
      [] OTHER -> -1

\* a2i from position p on: the number, and where it ends.
a2i(fmt, p, base) ==
    LET n == FirstUpTo(Len(fmt), LAMBDA j : LET digit == a2d(At(fmt, p + j))
                                            IN  digit < 0 \/ digit > base)
        num[j \in 0 .. n] ==
          IF j = 0 THEN 0 ELSE num[j - 1] * base + a2d(At(fmt, p + j - 1))
    IN  <<num[n], p + n>>

putchw(n, z, bf) ==
    Copies(n - Len(bf), IF z THEN Zero ELSE Space) \o bf

\* va_arg(va, unsigned int) and va_arg(va, int) of an argument.
AsUnsigned(v) == v % WORD
AsInt(v) == IF v % WORD < WORD \div 2 THEN v % WORD ELSE (v % WORD) - WORD

\* What is written to bf[] for a number.
Numeral(conv, v) ==
    CASE conv = Unsigned -> ui2a(AsUnsigned(v), 10, FALSE)
      [] conv = Decimal -> i2a(AsInt(v))
      [] OTHER -> ui2a(AsUnsigned(v), 16, conv = UpperX)

\* A round of the loop of tfp_format, on the position i in fmt, the number k of the
\* next argument and the output.
Puts(s, i, k, text) == [i |-> i, k |-> k, out |-> s.out \o text]

FormatRound(fmt, va, s) ==
    LET c == At(fmt, s.i)
        lz == At(fmt, s.i + 1) = Zero
        j == IF lz THEN s.i + 2 ELSE s.i + 1
        width == IF At(fmt, j) \in Digits THEN a2i(fmt, j, 10) ELSE <<0, j>>
        w == width[1]
        p == width[2]
        ch == At(fmt, p)
        k == s.k
    IN  CASE c = NUL -> s
          [] c \notin {NUL, Percent} -> Puts(s, s.i + 1, k, <<c>>)
          [] OTHER ->
               CASE ch = NUL -> Puts(s, p, k, <<>>)
                 [] ch \in Numbered -> Puts(s, p + 1, k + 1, putchw(w, lz, Numeral(ch, va[k])))
                 [] ch = Char -> Puts(s, p + 1, k + 1, <<va[k] % 256>>)
                 [] ch = String -> Puts(s, p + 1, k + 1, putchw(w, FALSE, va[k]))
                 [] ch = Percent -> Puts(s, p + 1, k, <<Percent>>)
                 [] OTHER -> Puts(s, p + 1, k, <<>>)

\* The loop takes no more rounds than fmt has characters.
tfp_format(fmt, va) ==
    LET state[r \in 0 .. Len(fmt)] ==
          IF r = 0 THEN [i |-> 0, k |-> 1, out |-> <<>>]
          ELSE FormatRound(fmt, va, state[r - 1])
    IN  state[Len(fmt)].out

\* tfp_printf: stdout_putf is putc, that is uart_send.
tfp_printf(fmt, va) == tfp_format(fmt, va)

\* The buffer of tfp_sprintf: putcp, and a NUL.
tfp_sprintf(fmt, va) == Append(tfp_format(fmt, va), NUL)

-----------------------------------------------------------------------------
(***************************************************************************)
(* What printf is for: a format is a sequence of items, each a character   *)
(* or a directive [conv, zero, width, arg].                                *)
(***************************************************************************)
\* A directive and an argument that goes with it; a width is an int.
IsDirective(d) ==
    /\ d.conv \in Numbered \cup {String, Char}
    /\ d.zero \in BOOLEAN
    /\ d.width \in 0 .. WORD \div 2 - 1
    /\ d.conv \in Numbered => d.arg \in Int
    /\ d.conv = String => d.arg \in Seq(1 .. 255)
    /\ d.conv = Char => d.arg \in 1 .. 255

\* How many digits n has, and the digits.
NrDigits(n, base) ==
    CHOOSE k \in 1 .. n + 1 : n < pow(base, k) /\ \A j \in 1 .. k - 1 : n >= pow(base, j)

Positional(n, base, uc) ==
    LET k == NrDigits(n, base)
    IN  [i \in 1 .. k |-> DigitChar((n \div pow(base, k - i)) % base, uc)]

Text(d) ==
    LET v == IF d.conv \in {String, Char} THEN 0 ELSE d.arg IN
    CASE d.conv = Unsigned -> Positional(v % WORD, 10, FALSE)
      [] d.conv \in {LowerX, UpperX} -> Positional(v % WORD, 16, d.conv = UpperX)
      [] d.conv = Decimal ->
           IF AsInt(v) < 0 THEN <<45>> \o Positional(-AsInt(v), 10, FALSE)
           ELSE Positional(AsInt(v), 10, FALSE)
      [] d.conv = String -> d.arg
      [] d.conv = Char -> <<d.arg>>

\* A negative number that is filled with zeros: they go behind its sign.
SignedFill(d) == d.conv = Decimal /\ d.zero /\ AsInt(d.arg) < 0

Missing(d) == IF d.conv = Char THEN 0 ELSE d.width - Len(Text(d))

Rendered(d) ==
    IF SignedFill(d)
    THEN <<45>> \o Copies(Missing(d), Zero) \o Positional(-AsInt(d.arg), 10, FALSE)
    ELSE LET fill == IF d.zero /\ d.conv \notin {String, Char} THEN Zero ELSE Space
         IN  Copies(Missing(d), fill) \o Text(d)

Written(d) ==
    <<Percent>> \o (IF d.zero THEN <<Zero>> ELSE <<>>)
      \o (IF d.width = 0 THEN <<>> ELSE Positional(d.width, 10, FALSE))
      \o <<d.conv>>

\* What printf.c does not get right: putchw puts the zeros in front of the sign.
FillBeforeSign(d) == SignedFill(d) /\ Missing(d) > 0

\* The output for a format with directives ds and a character between them is
\* the rendering of the arguments in order, unless a negative number is to be
\* filled with zeros; and no number overruns bf[].
FormatsRight(ds, sep) ==
    LET fmt == FlattenSeq([i \in DOMAIN ds |-> Written(ds[i]) \o sep])
        va == [i \in DOMAIN ds |-> ds[i].arg]
    IN  /\ (\A d \in ToSet(ds) : ~FillBeforeSign(d)) =>
             /\ tfp_printf(fmt, va) = FlattenSeq([i \in DOMAIN ds |-> Rendered(ds[i]) \o sep])
             /\ CString(tfp_sprintf(fmt, va)) = tfp_printf(fmt, va)
        /\ \A d \in ToSet(ds) :
             d.conv \notin {String, Char} => Len(Numeral(d.conv, d.arg)) + 1 <= BF
=============================================================================
