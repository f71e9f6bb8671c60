------------------------------ MODULE Strings ------------------------------
(***************************************************************************)
(* The string and number helpers of src/string.c and src/math.c.  A string *)
(* is the sequence of its characters' codes; what follows it in memory is  *)
(* taken to be the terminating NUL, so that a buffer with NULs in it ends  *)
(* at the first one.                                                       *)
(***************************************************************************)
EXTENDS Integers, Sequences, SequencesExt

NUL == 0
LF == 10
CR == 13
Space == 32
Zero == 48
Digits == Zero .. Zero + 9

\* The C expression s[i].
At(s, i) == IF i < Len(s) THEN s[i + 1] ELSE NUL

\* The first of the numbers from 0 to n that satisfies P, n if none before does.
FirstUpTo(n, P(_)) == CHOOSE i \in 0 .. n : (i = n \/ P(i)) /\ \A j \in 0 .. i - 1 : ~P(j)

strlen(s) == FirstUpTo(Len(s), LAMBDA i : At(s, i) = NUL)

\* What a pointer to s denotes as a string.
CString(s) == SubSeq(s, 1, strlen(s))

\* The first n characters of s, all of them if it has no more.
Start(s, n) == SubSeq(s, 1, IF n < Len(s) THEN n ELSE Len(s))

strcmp(s1, s2) ==
    LET i == FirstUpTo(strlen(s1), LAMBDA j : At(s1, j) # At(s2, j))
    IN  At(s1, i) - At(s2, i)

strncmp(a, b, n) ==
    LET i == FirstUpTo(n, LAMBDA j : At(a, j) # At(b, j) \/ At(a, j) = NUL)
    IN  IF i = n THEN 0 ELSE At(a, i) - At(b, i)

\* The buffer s1 after strset(s1, c, size).
strset(s1, c, size) ==
    [i \in DOMAIN s1 |-> IF i <= size THEN c ELSE s1[i]]

\* dest after strcpy(dest, src).
strcpy(dest, src) ==
    LET n == strlen(src)
    IN  [i \in 1 .. IF Len(dest) > n THEN Len(dest) ELSE n + 1 |->
           IF i <= n + 1 THEN At(src, i - 1) ELSE dest[i]]

\* n times the character c, none if n is negative.
Copies(n, c) == [i \in 1 .. IF n > 0 THEN n ELSE 0 |-> c]

-----------------------------------------------------------------------------
\* One round of the loop of reverse().
Exchange(s, i) ==
    [s EXCEPT ![Len(s) - i] = s[i + 1], ![i + 1] = s[Len(s) - i]]

\* Mutant: the exchange is always with the first character, as in the
\* bootloader's copy of this function.
ReverseWithFirst(s) ==
    FoldLeft(LAMBDA t, i : [t EXCEPT ![Len(t) - i + 1] = t[1], ![1] = t[Len(t) - i + 1]],
             s, [i \in 1 .. Len(s) \div 2 |-> i])

reverse(s) ==
    LET t[i \in 0 .. Len(s) \div 2] == IF i = 0 THEN s ELSE Exchange(t[i - 1], i - 1)
    IN  t[Len(s) \div 2]

\* The digits of x >= 0, the last one first: the first loop of itoa().
LowDigits(x) ==
    LET low[y \in 0 .. x] ==
          IF y = 0 THEN <<>> ELSE <<Zero + (y % 10)>> \o low[y \div 10]
    IN  low[x]

itoa(x, d) ==
    LET low == LowDigits(x)
    IN  reverse(low \o Copies(d - Len(low), Zero))

atoi(str) ==
    LET res[i \in 0 .. strlen(str)] == IF i = 0 THEN 0 ELSE res[i - 1] * 10 + str[i] - Zero
    IN  res[strlen(str)]

pow(base, exponent) ==
    LET result[i \in 0 .. exponent] == IF i = 0 THEN 1 ELSE result[i - 1] * base
    IN  result[exponent]

-----------------------------------------------------------------------------
(***************************************************************************)
(* What the helpers are for                                                *)
(***************************************************************************)
\* a is before b in the order of a dictionary.
Before(a, b) ==
    \E i \in 0 .. Len(a) : Start(a, i) = Start(b, i) /\ At(a, i) < At(b, i)

\* strcmp and strncmp order two strings, and a string copied over another one
\* is that string, whatever is left of the other.
ComparesRight(a, b, n) ==
    /\ strcmp(a, b) = 0 <=> a = b
    /\ strcmp(a, b) < 0 <=> Before(a, b)
    /\ strncmp(a, b, n) = 0 <=> Start(a, n) = Start(b, n)
    /\ strncmp(a, b, n) < 0 <=> Before(Start(a, n), Start(b, n))
    /\ CString(strcpy(b, a)) = a
    /\ CString(strset(b, NUL, Len(b))) = <<>>

\* itoa writes the digits of a number in order, filled up to d of them, and atoi
\* reads it back.
ConvertsRight(x, d) ==
    LET s == itoa(x, d) IN
    /\ ToSet(s) \subseteq Digits
    /\ Len(s) >= d
    /\ Len(s) > d => s[1] # Zero
    /\ x < pow(10, Len(s))
    /\ atoi(s) = x
    /\ reverse(s) = Reverse(s)
=============================================================================
