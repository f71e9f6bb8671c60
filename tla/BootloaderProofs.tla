-------------------------- MODULE BootloaderProofs --------------------------
EXTENDS Bootloader, NumberFacts, SequenceTheorems, TLAPS
(***************************************************************************)
(* The bootloader and the strings that it and the kernel's library rest    *)
(* on, for every depth of the receive FIFO, every length of the line       *)
(* buffer and every image:                                                 *)
(*   - strcmp, strncmp, strcpy, itoa, atoi, pow and reverse do what they   *)
(*     are for, on all strings and numbers (Comparisons, Conversions);     *)
(*   - the command that runs is the one on the screen (LineInv);           *)
(*   - what is jumped to is the whole image, in order, since the size that *)
(*     was written by itoa is read by atoi (LoadInv);                      *)
(*   - every variable keeps its type, and no index leaves its buffer       *)
(*     (BootTypeInv).                                                      *)
(* LineInv and LoadInv do not need each other.                             *)
(***************************************************************************)

-----------------------------------------------------------------------------
(***************************************************************************)
(* The command line.  What is on the screen is the line as long as it      *)
(* fits; after that there is more on the screen, so that there is always   *)
(* something to rub out.                                                   *)
(***************************************************************************)
Byte == 0 .. 255

\* The characters of a string, which NUL is not.
Code == 1 .. 255

LineTypes ==
    /\ buffer \in [1 .. MAX_BUFFER_LEN -> Byte]
    /\ counter \in 0 .. MAX_BUFFER_LEN
    /\ screen \in Seq(Byte) /\ over \in BOOLEAN
    /\ Len(screen) >= counter

\* Only the user has sent anything, and a key has no code NUL.
UserTypes ==
    /\ bpc \in {"shell", "reset"} => ~started
    /\ ~started => rx \in Seq(Code) /\ host = <<>>

\* The screen shows the line.
Shown ==
    ~over => /\ Len(screen) = counter
             /\ \A i \in 1 .. counter : screen[i] = buffer[i] /\ screen[i] # NUL

\* The command that was obeyed was on the screen.
Obeyed ==
    ~over => /\ bpc = "reset" => screen = REBOOT
             /\ bpc \in {"size", "load", "jump"} => screen = LOADKERNEL

LineInv == LineTypes /\ UserTypes /\ Shown /\ Obeyed

-----------------------------------------------------------------------------
(***************************************************************************)
(* strcmp                                                                  *)
(***************************************************************************)
\* Sequences with the same characters are the same.
LEMMA SameCharacters ==
    ASSUME NEW S, NEW T, NEW s \in Seq(S), NEW t \in Seq(T), Len(s) = Len(t),
           \A i \in 1 .. Len(s) : s[i] = t[i]
    PROVE  s = t
<1>1. s \in [1 .. Len(s) -> S] /\ t \in [1 .. Len(s) -> T]
  OBVIOUS
<1> QED
  BY <1>1

\* The two parts of a sequence before and after a place.
LEMMA Parts ==
    ASSUME NEW S, NEW s \in Seq(S), NEW a \in 0 .. Len(s), NEW b \in 0 .. Len(s)
    PROVE  /\ SubSeq(s, 1, a) \in Seq(S) /\ Len(SubSeq(s, 1, a)) = a
           /\ \A i \in 1 .. a : SubSeq(s, 1, a)[i] = s[i]
           /\ SubSeq(s, b + 1, Len(s)) \in Seq(S) /\ Len(SubSeq(s, b + 1, Len(s))) = Len(s) - b
           /\ \A i \in 1 .. Len(s) - b : SubSeq(s, b + 1, Len(s))[i] = s[b + i]
<1>1. Len(s) \in Nat /\ \A i \in 1 .. Len(s) : s[i] \in S
  OBVIOUS
<1>2. /\ SubSeq(s, 1, a) \in Seq(S) /\ Len(SubSeq(s, 1, a)) = IF 1 <= a THEN a - 1 + 1 ELSE 0
      /\ \A i \in 1 .. a - 1 + 1 : SubSeq(s, 1, a)[i] = s[1 + i - 1]
  <2>1. 1 \in Int /\ a \in Int /\ \A i \in 1 .. a : s[i] \in S
    BY <1>1
  <2> QED
    BY <2>1, SubSeqProperties
<1>3. PICK c \in Int : c = b + 1
  OBVIOUS
<1>4. /\ SubSeq(s, c, Len(s)) \in Seq(S)
      /\ Len(SubSeq(s, c, Len(s))) = IF c <= Len(s) THEN Len(s) - c + 1 ELSE 0
      /\ \A i \in 1 .. Len(s) - c + 1 : SubSeq(s, c, Len(s))[i] = s[c + i - 1]
  <2>1. c \in Int /\ Len(s) \in Int /\ \A i \in c .. Len(s) : s[i] \in S
    BY <1>1, <1>3
  <2> QED
    BY <2>1, SubSeqProperties
<1>5. /\ SubSeq(s, 1, a) \in Seq(S) /\ Len(SubSeq(s, 1, a)) = a
      /\ \A i \in 1 .. a : SubSeq(s, 1, a)[i] = s[i]
  BY <1>2
<1>6. /\ Len(SubSeq(s, c, Len(s))) = Len(s) - b
      /\ \A i \in 1 .. Len(s) - b : SubSeq(s, c, Len(s))[i] = s[b + i]
  BY <1>1, <1>3, <1>4
<1> QED
  BY <1>3, <1>4, <1>5, <1>6

\* One sequence after another.
LEMMA Concatenated ==
    ASSUME NEW S, NEW x \in Seq(S), NEW y \in Seq(S)
    PROVE  /\ x \o y \in Seq(S) /\ Len(x \o y) = Len(x) + Len(y)
           /\ \A i \in 1 .. Len(x) + Len(y) :
                (x \o y)[i] = IF i <= Len(x) THEN x[i] ELSE y[i - Len(x)]
  BY ConcatProperties

\* All but the last character.
LEMMA FrontFacts ==
    ASSUME NEW S, NEW s \in Seq(S), Len(s) # 0
    PROVE  /\ Front(s) \in Seq(S) /\ Len(Front(s)) = Len(s) - 1
           /\ \A i \in 1 .. Len(s) - 1 : Front(s)[i] = s[i]
<1>1. PICK m \in Nat : m = Len(s) - 1
  OBVIOUS
<1>2. Front(s) = SubSeq(s, 1, m)
  BY <1>1 DEF Front
<1>3. \A i \in 1 .. m : s[i] \in S
  BY <1>1
<1>4. /\ SubSeq(s, 1, m) \in Seq(S)
      /\ Len(SubSeq(s, 1, m)) = IF 1 <= m THEN m - 1 + 1 ELSE 0
      /\ \A i \in 1 .. m - 1 + 1 : SubSeq(s, 1, m)[i] = s[1 + i - 1]
  BY ONLY m \in Nat, <1>3, SubSeqProperties
<1>5. /\ Len(Front(s)) = m /\ \A i \in 1 .. m : Front(s)[i] = s[i]
  BY <1>2, <1>4
<1> QED
  BY <1>1, <1>2, <1>4, <1>5

\* The character before which strlen() stops.
LEMMA StrlenFirst ==
    ASSUME NEW m \in Nat, NEW k \in 0 .. m - 1, NEW text \in [1 .. m -> Byte],
           text[k + 1] = NUL, \A i \in 1 .. k : text[i] # NUL
    PROVE  strlen(text) = k
<1>1. Len(text) = m
  OBVIOUS
<1>2. \A i \in 0 .. m - 1 : At(text, i) = text[i + 1]
  BY <1>1 DEF At
<1>3. At(text, k) = NUL /\ \A j \in 0 .. k - 1 : At(text, j) # NUL
  BY <1>2
<1> DEFINE Stops(i) == (i = m \/ At(text, i) = NUL) /\ \A j \in 0 .. i - 1 : ~(At(text, j) = NUL)
<1>4. strlen(text) = CHOOSE i \in 0 .. m : Stops(i)
  BY <1>1 DEF strlen, FirstUpTo
<1>5. k \in 0 .. m /\ Stops(k)
  BY <1>3
<1>6. ASSUME NEW i \in 0 .. m, Stops(i) PROVE i = k
  <2>1. ~(i < k)
    BY <1>3, <1>6
  <2>2. ~(k < i)
    BY <1>3, <1>6
  <2> QED
    BY <2>1, <2>2
<1> HIDE DEF Stops
<1> QED
  BY <1>4, <1>5, <1>6

\* strcmp() finds two strings equal only if they are.
LEMMA StrcmpEqual ==
    ASSUME NEW m \in Nat, NEW k \in 0 .. m - 1, NEW text \in [1 .. m -> Byte],
           text[k + 1] = NUL, \A i \in 1 .. k : text[i] # NUL,
           NEW name \in Seq(Code), strcmp(text, name) = 0
    PROVE  Len(name) = k /\ \A i \in 1 .. k : name[i] = text[i]
<1>1. Len(text) = m /\ Len(name) \in Nat /\ strlen(text) = k
  BY StrlenFirst
<1>2. \A i \in 0 .. m - 1 : At(text, i) = text[i + 1]
  BY <1>1 DEF At
<1>3. \A i \in Nat : /\ i < Len(name) => /\ At(name, i) = name[i + 1]
                                           /\ name[i + 1] \in Int /\ name[i + 1] # NUL
                     /\ i >= Len(name) => At(name, i) = NUL
  <2> SUFFICES ASSUME NEW i \in Nat
               PROVE  /\ i < Len(name) => /\ At(name, i) = name[i + 1]
                                          /\ name[i + 1] \in Int /\ name[i + 1] # NUL
                      /\ i >= Len(name) => At(name, i) = NUL
    OBVIOUS
  <2>1. i < Len(name) => name[i + 1] \in Code
    BY <1>1
  <2>2. \A c \in Code : c \in Int /\ c # NUL
    BY DEF Code, NUL
  <2> QED
    BY <1>1, <2>1, <2>2 DEF At
<1> DEFINE Stops(i) == /\ i = k \/ At(text, i) # At(name, i)
                       /\ \A j \in 0 .. i - 1 : ~(At(text, j) # At(name, j))
<1>4. PICK x : /\ x = CHOOSE i \in 0 .. k : Stops(i)
               /\ At(text, x) - At(name, x) = 0
  BY <1>1 DEF strcmp, FirstUpTo
<1>5. \E i \in 0 .. k : Stops(i)
  <2> DEFINE T == {i \in 0 .. k : i = k \/ At(text, i) # At(name, i)}
  <2>1. T \in SUBSET Nat /\ k \in T
    OBVIOUS
  <2>2. PICK i \in T : \A j \in T : i <= j
    <3> HIDE DEF T
    <3> QED
      BY <2>1, LeastNumber
  <2>3. i \in 0 .. k /\ (i = k \/ At(text, i) # At(name, i))
    OBVIOUS
  <2>4. ASSUME NEW j \in 0 .. i - 1 PROVE ~(At(text, j) # At(name, j))
    <3>1. j \in 0 .. k /\ j \notin T
      BY <2>2, <2>3
    <3> QED
      BY <3>1
  <2> QED
    BY <2>3, <2>4
<1>6. x \in 0 .. k /\ Stops(x)
  <2> HIDE DEF Stops
  <2> QED
    BY <1>4, <1>5
<1>7. At(text, x) = At(name, x)
  <2>1. At(text, x) \in Int /\ At(name, x) \in Int
    <3>1. text[x + 1] \in Byte /\ x \in Nat /\ x \in 0 .. m - 1 /\ Len(name) \in Nat
      BY <1>1, <1>6
    <3>2. At(text, x) \in Int
      BY <1>2, <3>1 DEF Byte
    <3>3. At(name, x) \in Int
      BY <1>3, <3>1 DEF NUL
    <3> QED
      BY <3>2, <3>3
  <2> QED
    BY <1>4, <2>1
<1>8. x = k /\ \A j \in 0 .. k - 1 : At(text, j) = At(name, j)
  BY <1>6, <1>7
<1>9. Len(name) <= k
  BY <1>1, <1>2, <1>3, <1>7, <1>8
<1>10. \A j \in 0 .. k - 1 : j < Len(name) /\ text[j + 1] = name[j + 1]
  <2> SUFFICES ASSUME NEW j \in 0 .. k - 1
               PROVE  j < Len(name) /\ text[j + 1] = name[j + 1]
    OBVIOUS
  <2>1. j \in 0 .. m - 1 /\ j \in Nat /\ j + 1 \in 1 .. k
    OBVIOUS
  <2>2. At(name, j) = text[j + 1] /\ text[j + 1] # NUL
    BY <1>2, <1>8, <2>1
  <2> QED
    BY <1>1, <1>3, <2>1, <2>2
<1>11. Len(name) = k
  BY <1>1, <1>9, <1>10
<1>12. ASSUME NEW i \in 1 .. k PROVE name[i] = text[i]
  <2>1. i - 1 \in 0 .. k - 1 /\ (i - 1) + 1 = i
    OBVIOUS
  <2> QED
    BY <1>10, <2>1
<1> QED
  BY <1>11, <1>12

-----------------------------------------------------------------------------
(***************************************************************************)
(* Comparisons and copies                                                  *)
(***************************************************************************)
\* A loop that looks for the first number in X, up to n, stops at one number.
LEMMA StopsOnce ==
    ASSUME NEW n \in Nat, NEW X
    PROVE  \E k \in 0 .. n :
             /\ k = n \/ k \in X
             /\ \A j \in 0 .. k - 1 : j \notin X
             /\ \A i \in 0 .. n : (i = n \/ i \in X) /\ (\A j \in 0 .. i - 1 : j \notin X) => i = k
<1> DEFINE T == {i \in 0 .. n : i = n \/ i \in X}
<1>1. T \in SUBSET Nat /\ n \in T
  OBVIOUS
<1>2. PICK k \in T : \A j \in T : k <= j
  <2> HIDE DEF T
  <2> QED
    BY <1>1, LeastNumber
<1>3. k \in 0 .. n /\ (k = n \/ k \in X)
  OBVIOUS
<1>4. \A j \in 0 .. k - 1 : j \notin X
  <2> SUFFICES ASSUME NEW j \in 0 .. k - 1, j \in X PROVE FALSE
    OBVIOUS
  <2>1. j \in 0 .. n /\ ~(k <= j)
    BY <1>3
  <2>2. j \in T
    BY <2>1
  <2> HIDE DEF T
  <2> QED
    BY <1>2, <2>1, <2>2
<1>5. ASSUME NEW i \in 0 .. n, i = n \/ i \in X, \A j \in 0 .. i - 1 : j \notin X
      PROVE  i = k
  <2>1. ~(i < k)
    <3>1. i \in T
      BY <1>5
    <3> HIDE DEF T
    <3> QED
      BY <1>2, <1>3, <3>1
  <2>2. ~(k < i)
    <3> SUFFICES ASSUME k < i PROVE FALSE
      OBVIOUS
    <3>1. k \in 0 .. i - 1 /\ k # n
      BY <1>3
    <3> QED
      BY <1>3, <1>5, <3>1
  <2> QED
    BY <1>3, <2>1, <2>2
<1> QED
  BY <1>3, <1>4, <1>5

\* The characters of a string, and the NUL behind it.
LEMMA Characters ==
    ASSUME NEW a \in Seq(Code)
    PROVE  /\ Len(a) \in Nat
           /\ \A i \in 1 .. Len(a) : a[i] \in Code
           /\ \A i \in Nat : /\ At(a, i) \in Int
                             /\ i < Len(a) => At(a, i) = a[i + 1] /\ At(a, i) # NUL /\ At(a, i) > NUL
                             /\ i >= Len(a) => At(a, i) = NUL
<1>1. Len(a) \in Nat /\ \A i \in 1 .. Len(a) : a[i] \in Code
  OBVIOUS
<1>2. ASSUME NEW i \in Nat
      PROVE  /\ At(a, i) \in Int
             /\ i < Len(a) => At(a, i) = a[i + 1] /\ At(a, i) # NUL /\ At(a, i) > NUL
             /\ i >= Len(a) => At(a, i) = NUL
  <2>1. CASE i < Len(a)
    <3>1. i + 1 \in 1 .. Len(a)
      BY <1>1, <2>1
    <3>2. At(a, i) = a[i + 1] /\ a[i + 1] \in Code
      BY <1>1, <2>1, <3>1 DEF At
    <3>3. a[i + 1] \in Int /\ a[i + 1] # NUL /\ a[i + 1] > NUL
      <4>1. \A d \in Code : d \in Int /\ d # NUL /\ d > NUL
        BY DEF Code, NUL
      <4> QED
        BY <3>2, <4>1
    <3>4. ~(i >= Len(a))
      BY <1>1, <2>1
    <3> QED
      BY <3>2, <3>3, <3>4
  <2>2. CASE ~(i < Len(a))
    BY <1>1, <2>2 DEF At, NUL
  <2> QED
    BY <2>1, <2>2
<1> QED
  BY <1>1, <1>2

LEMMA StringLength ==
    ASSUME NEW a \in Seq(Code)
    PROVE  strlen(a) = Len(a)
<1>1. Len(a) \in Nat /\ \A i \in 0 .. Len(a) - 1 : At(a, i) # NUL
  BY Characters
<1>2. PICK k \in 0 .. Len(a) : k = Len(a)
  BY <1>1
<1>3. \A i \in 0 .. Len(a) :
        ((i = Len(a) \/ At(a, i) = NUL) /\ \A j \in 0 .. i - 1 : ~(At(a, j) = NUL)) <=> i = k
  BY <1>1, <1>2
<1>4. strlen(a) = CHOOSE i \in 0 .. Len(a) :
                    (i = Len(a) \/ At(a, i) = NUL) /\ \A j \in 0 .. i - 1 : ~(At(a, j) = NUL)
  BY DEF strlen, FirstUpTo
<1> QED
  BY <1>2, <1>3, <1>4

\* The first k characters are the same.
Agree(a, b, k) == \A j \in 0 .. k - 1 : At(a, j) = At(b, j)

LEMMA StartFacts ==
    ASSUME NEW a \in Seq(Code), NEW k \in Nat
    PROVE  /\ Start(a, k) \in Seq(Code)
           /\ Len(Start(a, k)) = IF k < Len(a) THEN k ELSE Len(a)
           /\ \A j \in Nat : At(Start(a, k), j) = IF j < k THEN At(a, j) ELSE NUL
<1> DEFINE m == IF k < Len(a) THEN k ELSE Len(a)
           s == SubSeq(a, 1, m)
<1>1. Len(a) \in Nat /\ m \in 0 .. Len(a)
  OBVIOUS
<1>2. s \in Seq(Code) /\ Len(s) = m /\ \A i \in 1 .. m : s[i] = a[i]
  <2> HIDE DEF m
  <2> QED
    BY <1>1, Parts
<1>3. Start(a, k) = s
  BY DEF Start
<1> HIDE DEF s
<1>4. ASSUME NEW j \in Nat PROVE At(s, j) = IF j < k THEN At(a, j) ELSE NUL
  <2>1. CASE j < m
    <3>1. j + 1 \in 1 .. m /\ j < k /\ j < Len(a)
      BY <1>1, <2>1
    <3> QED
      BY <1>2, <2>1, <3>1 DEF At
  <2>2. CASE ~(j < m)
    BY <1>1, <1>2, <2>2 DEF At
  <2> QED
    BY <2>1, <2>2
<1> QED
  BY <1>2, <1>3, <1>4

\* A string agrees with one that is the same, and with no other up to its end.
LEMMA AgreeAll ==
    ASSUME NEW a \in Seq(Code), NEW b \in Seq(Code)
    PROVE  a = b <=> Agree(a, b, Len(a)) /\ At(b, Len(a)) = NUL
<1>1. Len(a) \in Nat /\ Len(b) \in Nat
  OBVIOUS
<1>2. ASSUME a = b PROVE Agree(a, b, Len(a)) /\ At(b, Len(a)) = NUL
  <2>1. At(a, Len(a)) = NUL
    BY <1>1 DEF At
  <2> QED
    BY <1>2, <2>1 DEF Agree
<1>3. ASSUME Agree(a, b, Len(a)), At(b, Len(a)) = NUL PROVE a = b
  <2>1. Len(b) <= Len(a)
    BY <1>1, <1>3, Characters
  <2>2. ~(Len(b) < Len(a))
    <3> SUFFICES ASSUME Len(b) < Len(a) PROVE FALSE
      OBVIOUS
    <3>1. At(b, Len(b)) = NUL /\ At(a, Len(b)) # NUL
      BY <1>1, Characters
    <3>2. Len(b) \in 0 .. Len(a) - 1
      BY <1>1
    <3> QED
      BY <1>3, <3>1, <3>2 DEF Agree
  <2>3. Len(a) = Len(b)
    BY <1>1, <2>1, <2>2
  <2>4. ASSUME NEW i \in 1 .. Len(a) PROVE a[i] = b[i]
    <3>1. PICK j \in 0 .. Len(a) - 1 : i = j + 1
      <4>1. i - 1 \in 0 .. Len(a) - 1 /\ i = (i - 1) + 1
        BY <1>1
      <4> QED
        BY ONLY <4>1
    <3>2. j \in Nat /\ j < Len(a) /\ j < Len(b)
      BY <1>1, <2>3
    <3>3. At(a, j) = a[j + 1] /\ At(b, j) = b[j + 1]
      BY <3>2 DEF At
    <3>4. At(a, j) = At(b, j)
      BY <1>3 DEF Agree
    <3> QED
      BY <3>1, <3>3, <3>4
  <2> QED
    BY <2>3, <2>4, SameCharacters
<1> QED
  BY <1>2, <1>3

LEMMA AgreeStart ==
    ASSUME NEW a \in Seq(Code), NEW b \in Seq(Code), NEW k \in 0 .. Len(a)
    PROVE  Start(a, k) = Start(b, k) <=> Agree(a, b, k)
<1>1. k \in Nat /\ Len(a) \in Nat /\ Len(b) \in Nat
  OBVIOUS
<1> DEFINE x == Start(a, k)
           y == Start(b, k)
<1>2. /\ x \in Seq(Code) /\ Len(x) = k
      /\ \A j \in Nat : At(x, j) = IF j < k THEN At(a, j) ELSE NUL
  <2>1. /\ Start(a, k) \in Seq(Code) /\ Len(Start(a, k)) = IF k < Len(a) THEN k ELSE Len(a)
        /\ \A j \in Nat : At(Start(a, k), j) = IF j < k THEN At(a, j) ELSE NUL
    BY <1>1, StartFacts
  <2> QED
    BY <1>1, <2>1
<1>3. /\ y \in Seq(Code)
      /\ \A j \in Nat : At(y, j) = IF j < k THEN At(b, j) ELSE NUL
  BY <1>1, StartFacts
<1> HIDE DEF x, y
<1>4. x = y <=> Agree(x, y, Len(x)) /\ At(y, Len(x)) = NUL
  BY <1>2, <1>3, AgreeAll
<1>5. At(y, k) = NUL
  BY <1>1, <1>3
<1>6. Agree(x, y, k) <=> Agree(a, b, k)
  <2>1. \A j \in 0 .. k - 1 : j \in Nat /\ j < k
    BY <1>1
  <2>2. \A j \in 0 .. k - 1 : At(x, j) = At(a, j) /\ At(y, j) = At(b, j)
    BY <1>2, <1>3, <2>1
  <2> QED
    BY <2>2 DEF Agree
<1> QED
  BY <1>2, <1>4, <1>5, <1>6 DEF x, y

\* strcmp() compares the characters at the first place at which two strings differ
\* or the first of them ends.
LEMMA FirstDifference ==
    ASSUME NEW a \in Seq(Code), NEW b \in Seq(Code)
    PROVE  \E i \in 0 .. Len(a) :
             /\ strcmp(a, b) = At(a, i) - At(b, i)
             /\ i = Len(a) \/ At(a, i) # At(b, i)
             /\ Agree(a, b, i)
             /\ \A k \in 0 .. Len(a) : Agree(a, b, k) /\ At(a, k) # At(b, k) => k = i
<1> DEFINE n == Len(a)
           X == {j \in 0 .. n : At(a, j) # At(b, j)}
<1>1. n \in Nat /\ strlen(a) = n
  BY StringLength
<1>2. PICK i \in 0 .. n :
        /\ i = n \/ i \in X
        /\ \A j \in 0 .. i - 1 : j \notin X
        /\ \A k \in 0 .. n : (k = n \/ k \in X) /\ (\A j \in 0 .. k - 1 : j \notin X) => k = i
  <2> HIDE DEF n, X
  <2> QED
    BY <1>1, StopsOnce
<1>3. \A k \in 0 .. n : \A j \in 0 .. k - 1 : j \in 0 .. n
  BY <1>1
<1>4. \A j \in 0 .. n : j \notin X <=> ~(At(a, j) # At(b, j))
  OBVIOUS
<1>5. \A k \in 0 .. n : (\A j \in 0 .. k - 1 : j \notin X) <=> Agree(a, b, k)
  <2> HIDE DEF X
  <2> QED
    BY <1>3, <1>4 DEF Agree
<1> DEFINE Stops(k) == /\ k = n \/ At(a, k) # At(b, k)
                       /\ \A j \in 0 .. k - 1 : ~(At(a, j) # At(b, j))
<1>6. strcmp(a, b) = LET k == CHOOSE k \in 0 .. n : Stops(k) IN At(a, k) - At(b, k)
  BY <1>1 DEF strcmp, FirstUpTo
<1>7. \A k \in 0 .. n : Stops(k) <=> k = i
  <2>1. \A k \in 0 .. n : Stops(k) <=> (k = n \/ k \in X) /\ (\A j \in 0 .. k - 1 : j \notin X)
    <3> HIDE DEF X
    <3> QED
      BY <1>3, <1>4
  <2> HIDE DEF X, Stops
  <2> QED
    BY <1>2, <2>1
<1>8. (CHOOSE k \in 0 .. n : Stops(k)) = i
  <2> HIDE DEF Stops
  <2> QED
    BY <1>2, <1>7
<1>9. strcmp(a, b) = At(a, i) - At(b, i)
  BY <1>6, <1>8
<1>10. (i = n \/ At(a, i) # At(b, i)) /\ Agree(a, b, i)
  BY <1>2, <1>5
<1>11. \A k \in 0 .. n : Agree(a, b, k) /\ At(a, k) # At(b, k) => k = i
  BY <1>2, <1>5
<1> QED
  BY <1>9, <1>10, <1>11

\* strcmp() orders strings.
LEMMA StrcmpOrders ==
    ASSUME NEW a \in Seq(Code), NEW b \in Seq(Code)
    PROVE  /\ strcmp(a, b) = 0 <=> a = b
           /\ strcmp(a, b) < 0 <=> Before(a, b)
<1>1. PICK i \in 0 .. Len(a) :
        /\ strcmp(a, b) = At(a, i) - At(b, i)
        /\ i = Len(a) \/ At(a, i) # At(b, i)
        /\ Agree(a, b, i)
        /\ \A k \in 0 .. Len(a) : Agree(a, b, k) /\ At(a, k) # At(b, k) => k = i
  BY FirstDifference
<1>2. /\ Len(a) \in Nat /\ i \in Nat /\ At(a, i) \in Int /\ At(b, i) \in Int
      /\ At(a, Len(a)) = NUL
  BY Characters
<1>3. strcmp(a, b) = 0 <=> At(a, i) = At(b, i)
  BY <1>1, <1>2
<1>4. strcmp(a, b) < 0 <=> At(a, i) < At(b, i)
  BY <1>1, <1>2
<1>5. At(a, i) = At(b, i) <=> a = b
  <2>1. ASSUME At(a, i) = At(b, i) PROVE a = b
    <3>1. i = Len(a) /\ At(b, Len(a)) = NUL /\ Agree(a, b, Len(a))
      BY <1>1, <1>2, <2>1
    <3> QED
      BY <3>1, AgreeAll
  <2> QED
    BY <2>1
<1>6. At(a, i) < At(b, i) => Before(a, b)
  <2> SUFFICES ASSUME At(a, i) < At(b, i) PROVE Before(a, b)
    OBVIOUS
  <2>1. Start(a, i) = Start(b, i)
    BY <1>1, AgreeStart
  <2> QED
    BY <2>1 DEF Before
<1>7. Before(a, b) => At(a, i) < At(b, i)
  <2> SUFFICES ASSUME Before(a, b) PROVE At(a, i) < At(b, i)
    OBVIOUS
  <2>1. PICK k \in 0 .. Len(a) : Start(a, k) = Start(b, k) /\ At(a, k) < At(b, k)
    BY DEF Before
  <2>2. Agree(a, b, k)
    BY <2>1, AgreeStart
  <2>3. k \in Nat /\ At(a, k) \in Int /\ At(b, k) \in Int
    BY <1>2, Characters
  <2>4. At(a, k) # At(b, k)
    BY <2>1, <2>3
  <2> QED
    BY <1>1, <2>1, <2>2, <2>4
<1> QED
  BY <1>3, <1>4, <1>5, <1>6, <1>7

\* strncmp() is strcmp() of the first n characters.
LEMMA StrncmpStart ==
    ASSUME NEW a \in Seq(Code), NEW b \in Seq(Code), NEW n \in Nat
    PROVE  strncmp(a, b, n) = strcmp(Start(a, n), Start(b, n))
<1> DEFINE x == Start(a, n)
           y == Start(b, n)
           m == Len(x)
           X == {j \in 0 .. n : At(a, j) # At(b, j) \/ At(a, j) = NUL}
           Stops(k) == /\ k = n \/ (At(a, k) # At(b, k) \/ At(a, k) = NUL)
                       /\ \A j \in 0 .. k - 1 : ~(At(a, j) # At(b, j) \/ At(a, j) = NUL)
<1>1. /\ x \in Seq(Code) /\ m = IF n < Len(a) THEN n ELSE Len(a)
      /\ \A j \in Nat : At(x, j) = IF j < n THEN At(a, j) ELSE NUL
  BY StartFacts
<1>2. /\ y \in Seq(Code)
      /\ \A j \in Nat : At(y, j) = IF j < n THEN At(b, j) ELSE NUL
  BY StartFacts
<1>3. PICK i \in 0 .. m :
        /\ strcmp(x, y) = At(x, i) - At(y, i)
        /\ i = m \/ At(x, i) # At(y, i)
        /\ Agree(x, y, i)
        /\ \A k \in 0 .. m : Agree(x, y, k) /\ At(x, k) # At(y, k) => k = i
  <2> HIDE DEF x, y
  <2> QED
    BY <1>1, <1>2, FirstDifference
<1>4. /\ Len(a) \in Nat /\ m \in Nat /\ m <= n /\ m <= Len(a) /\ i \in Nat /\ i <= n
      /\ m = n \/ (m = Len(a) /\ m < n)
  <2>1. Len(a) \in Nat
    OBVIOUS
  <2> HIDE DEF m
  <2> QED
    BY <1>1, <1>3, <2>1
<1>5. \A j \in Nat : (j < Len(a) => At(a, j) # NUL) /\ (j >= Len(a) => At(a, j) = NUL)
  BY Characters
<1> HIDE DEF x, y, m
<1>6. i = n \/ (At(a, i) # At(b, i) \/ At(a, i) = NUL)
  <2>1. CASE i = n
    BY <2>1
  <2>2. CASE i # n
    <3>1. i < n /\ At(x, i) = At(a, i) /\ At(y, i) = At(b, i)
      BY <1>1, <1>2, <1>4, <2>2
    <3>2. CASE i = m
      <4>1. i >= Len(a)
        BY <1>4, <3>1, <3>2
      <4> QED
        BY <1>4, <1>5, <4>1
    <3>3. CASE At(x, i) # At(y, i)
      BY <3>1, <3>3
    <3> QED
      BY <1>3, <3>2, <3>3
  <2> QED
    BY <2>1, <2>2
<1>7. \A j \in 0 .. i - 1 : ~(At(a, j) # At(b, j) \/ At(a, j) = NUL)
  <2> SUFFICES ASSUME NEW j \in 0 .. i - 1
               PROVE  At(a, j) = At(b, j) /\ At(a, j) # NUL
    OBVIOUS
  <2>1. j \in Nat /\ j < n /\ j < Len(a)
    BY <1>3, <1>4
  <2>2. At(x, j) = At(y, j)
    BY <1>3 DEF Agree
  <2> QED
    BY <1>1, <1>2, <1>5, <2>1, <2>2
<1>8. i \in 0 .. n /\ Stops(i)
  <2>1. i \in 0 .. n
    BY <1>4
  <2> QED
    BY <1>6, <1>7, <2>1
<1>9. ASSUME NEW k \in 0 .. n, Stops(k) PROVE k = i
  <2>1. ~(k < i)
    <3> SUFFICES ASSUME k < i PROVE FALSE
      OBVIOUS
    <3>1. k \in 0 .. i - 1 /\ k # n
      BY <1>4
    <3> QED
      BY <1>7, <1>9, <3>1
  <2>2. ~(i < k)
    <3> SUFFICES ASSUME i < k PROVE FALSE
      OBVIOUS
    <3>1. i \in 0 .. k - 1 /\ i # n
      BY <1>4
    <3> QED
      BY <1>6, <1>9, <3>1
  <2> QED
    BY <1>4, <2>1, <2>2
<1>10. (CHOOSE k \in 0 .. n : Stops(k)) = i
  <2> HIDE DEF Stops
  <2> QED
    BY <1>8, <1>9
<1>11. strncmp(a, b, n) = LET k == CHOOSE k \in 0 .. n : Stops(k)
                          IN  IF k = n THEN 0 ELSE At(a, k) - At(b, k)
  BY DEF strncmp, FirstUpTo
<1>12. strncmp(a, b, n) = IF i = n THEN 0 ELSE At(a, i) - At(b, i)
  <2> HIDE DEF Stops
  <2> QED
    BY <1>10, <1>11
<1>13. CASE i = n
  <2>1. At(x, i) = NUL /\ At(y, i) = NUL
    BY <1>1, <1>2, <1>4, <1>13
  <2> QED
    BY <1>3, <1>12, <1>13, <2>1 DEF NUL, x, y
<1>14. CASE i # n
  <2>1. At(x, i) = At(a, i) /\ At(y, i) = At(b, i)
    BY <1>1, <1>2, <1>4, <1>14
  <2> QED
    BY <1>3, <1>12, <1>14, <2>1 DEF x, y
<1> QED
  BY <1>13, <1>14

\* A string that is copied over another one ends where it ended.
LEMMA StrcpyCopies ==
    ASSUME NEW a \in Seq(Code), NEW b \in Seq(Code)
    PROVE  CString(strcpy(b, a)) = a
<1> DEFINE n == Len(a)
           m == IF Len(b) > n THEN Len(b) ELSE n + 1
           c == [i \in 1 .. m |-> IF i <= n + 1 THEN At(a, i - 1) ELSE b[i]]
<1>1. n \in Nat /\ Len(b) \in Nat /\ strlen(a) = n /\ m \in Nat /\ n \in 0 .. m - 1
  BY StringLength
<1>2. strcpy(b, a) = c
  BY <1>1 DEF strcpy
<1>3. \A i \in 1 .. n + 1 : i - 1 \in Nat
  BY <1>1
<1>4. \A i \in 1 .. n : At(a, i - 1) = a[i] /\ a[i] \in Code
  <2> SUFFICES ASSUME NEW i \in 1 .. n PROVE At(a, i - 1) = a[i] /\ a[i] \in Code
    OBVIOUS
  <2>1. i - 1 < Len(a) /\ (i - 1) + 1 = i
    BY <1>1
  <2> QED
    BY <2>1 DEF At
<1>5. At(a, (n + 1) - 1) = NUL
  BY <1>1 DEF At
<1>6. \A d \in Code : d \in Byte /\ d # NUL
  BY DEF Code, Byte, NUL
<1>7. ASSUME NEW i \in 1 .. m PROVE (IF i <= n + 1 THEN At(a, i - 1) ELSE b[i]) \in Byte
  <2>1. CASE i \in 1 .. n
    BY <1>1, <1>4, <1>6, <2>1
  <2>2. CASE i = n + 1
    BY <1>1, <1>5, <2>2 DEF Byte, NUL
  <2>3. CASE i > n + 1
    <3>1. i \in 1 .. Len(b)
      BY <1>1, <2>3
    <3>2. b[i] \in Code
      BY <3>1
    <3> QED
      BY <1>1, <1>6, <2>3, <3>2
  <2> QED
    BY <1>1, <2>1, <2>2, <2>3
<1>8. c \in [1 .. m -> Byte]
  BY <1>7
<1>9. c[n + 1] = NUL /\ \A i \in 1 .. n : c[i] = a[i] /\ c[i] # NUL
  <2>1. n + 1 \in 1 .. m /\ \A i \in 1 .. n : i \in 1 .. m /\ i <= n + 1
    BY <1>1
  <2> HIDE DEF m, n
  <2> QED
    BY <1>1, <1>4, <1>5, <1>6, <2>1
<1> HIDE DEF c, m
<1>10. strlen(c) = n
  <2> HIDE DEF n
  <2> QED
    BY <1>1, <1>8, <1>9, StrlenFirst
<1>11. c \in Seq(Byte) /\ Len(c) = m
  BY <1>1, <1>8
<1>12. /\ SubSeq(c, 1, n) \in Seq(Byte) /\ Len(SubSeq(c, 1, n)) = n
       /\ \A i \in 1 .. n : SubSeq(c, 1, n)[i] = c[i]
  <2>1. n \in 0 .. Len(c)
    BY <1>1, <1>11
  <2> HIDE DEF n
  <2> QED
    BY <1>11, <2>1, Parts
<1>13. SubSeq(c, 1, n) = a
  <2>1. \A i \in 1 .. n : SubSeq(c, 1, n)[i] = a[i]
    BY <1>9, <1>12
  <2>2. PICK w : w = SubSeq(c, 1, n)
    OBVIOUS
  <2>3. w \in Seq(Byte) /\ Len(w) = Len(a) /\ \A i \in 1 .. Len(w) : w[i] = a[i]
    BY <1>12, <2>1, <2>2
  <2>4. w = a
    BY ONLY a \in Seq(Code), <2>3, SameCharacters
  <2> QED
    BY <2>2, <2>4
<1> QED
  BY <1>2, <1>10, <1>13 DEF CString

\* A string that is cleared is empty.
LEMMA StrsetClears ==
    ASSUME NEW b \in Seq(Code)
    PROVE  CString(strset(b, NUL, Len(b))) = <<>>
<1> DEFINE n == Len(b)
           c == [i \in 1 .. n |-> NUL]
<1>1. n \in Nat /\ strset(b, NUL, n) = c
  BY DEF strset
<1>2. Len(c) = n /\ \A i \in Nat : At(c, i) = NUL
  BY <1>1 DEF At
<1> HIDE DEF c, n
<1>3. strlen(c) = 0
  <2> DEFINE Stops(i) == (i = n \/ At(c, i) = NUL) /\ \A j \in 0 .. i - 1 : ~(At(c, j) = NUL)
  <2>1. strlen(c) = CHOOSE i \in 0 .. n : Stops(i)
    BY <1>2 DEF strlen, FirstUpTo
  <2>2. 0 \in 0 .. n /\ Stops(0)
    BY <1>1, <1>2
  <2>3. ASSUME NEW i \in 0 .. n, Stops(i) PROVE i = 0
    <3>1. i # 0 => 0 \in 0 .. i - 1
      BY <1>1
    <3> QED
      BY <1>2, <2>3, <3>1
  <2> HIDE DEF Stops
  <2> QED
    BY <2>1, <2>2, <2>3
<1>4. SubSeq(c, 1, 0) = <<>>
  BY SubSeqEmpty
<1> QED
  BY <1>1, <1>3, <1>4 DEF CString, n

\* The comparisons and copies, for all strings.
LEMMA Comparisons ==
    ASSUME NEW a \in Seq(Code), NEW b \in Seq(Code), NEW n \in Nat
    PROVE  ComparesRight(a, b, n)
<1> DEFINE x == Start(a, n)
           y == Start(b, n)
<1>1. x \in Seq(Code) /\ y \in Seq(Code)
  BY StartFacts
<1>2. (strcmp(a, b) = 0 <=> a = b) /\ (strcmp(a, b) < 0 <=> Before(a, b))
  BY StrcmpOrders
<1>3. (strcmp(x, y) = 0 <=> x = y) /\ (strcmp(x, y) < 0 <=> Before(x, y))
  <2> HIDE DEF x, y
  <2> QED
    BY <1>1, StrcmpOrders
<1>4. strncmp(a, b, n) = strcmp(x, y)
  BY StrncmpStart
<1>5. CString(strcpy(b, a)) = a /\ CString(strset(b, NUL, Len(b))) = <<>>
  BY StrcpyCopies, StrsetClears
<1> HIDE DEF x, y
<1> QED
  BY <1>2, <1>3, <1>4, <1>5 DEF ComparesRight, x, y

-----------------------------------------------------------------------------
(***************************************************************************)
(* itoa and atoi.  The numbers q that itoa divides by ten, one after the   *)
(* other, are the numbers that atoi builds up again, the last one first.   *)
(***************************************************************************)
\* The digits l, the last one first, are those of y, of which q are the quotients.
Quotients(q, l, y) ==
    /\ q \in [0 .. Len(l) -> Nat]
    /\ q[0] = y /\ q[Len(l)] = 0
    /\ \A k \in 1 .. Len(l) : q[k] = q[k - 1] \div 10 /\ l[k] = Zero + (q[k - 1] % 10)

Denotes(l, y) == l \in Seq(Digits) /\ \E q : Quotients(q, l, y)

\* ... and the first of them is not zero.
DenotesExactly(l, y) ==
    /\ l \in Seq(Digits)
    /\ \E q : Quotients(q, l, y) /\ \A k \in 0 .. Len(l) - 1 : q[k] # 0

\* The loop of itoa() on the numbers up to x.
LowLoop(low, x) ==
    low = [y \in 0 .. x |->
             IF y = 0 THEN <<>> ELSE <<Zero + (y % 10)>> \o low[y \div 10]]

\* A number is more than a tenth of it.
LEMMA Tenth ==
    ASSUME NEW y \in Nat \ {0}
    PROVE  y \div 10 \in Nat /\ y \div 10 < y /\ y % 10 \in 0 .. 9 /\ y = 10 * (y \div 10) + (y % 10)
  BY SMT

LEMMA LowLoopExists ==
    ASSUME NEW x \in Nat
    PROVE  \E low : LowLoop(low, x)
<1> DEFINE X == {m \in 0 .. x : \E low : LowLoop(low, m)}
<1>1. 0 \in X
  <2> DEFINE f == [y \in 0 .. 0 |-> <<>>]
  <2>1. f = [y \in 0 .. 0 |-> IF y = 0 THEN <<>> ELSE <<Zero + (y % 10)>> \o f[y \div 10]]
    OBVIOUS
  <2> HIDE DEF f
  <2>2. LowLoop(f, 0)
    BY <2>1 DEF LowLoop
  <2> QED
    BY <2>2
<1>2. ASSUME NEW m \in 0 .. x - 1, m \in X PROVE m + 1 \in X
  <2>1. PICK f : LowLoop(f, m)
    BY <1>2
  <2> DEFINE g == [y \in 0 .. m + 1 |->
                     IF y = m + 1 THEN <<Zero + (y % 10)>> \o f[y \div 10] ELSE f[y]]
  <2>2. ASSUME NEW y \in 0 .. m + 1
        PROVE  g[y] = IF y = 0 THEN <<>> ELSE <<Zero + (y % 10)>> \o g[y \div 10]
    <3>1. m \in Nat
      OBVIOUS
    <3>2. CASE y = 0
      <4>1. 0 \in 0 .. m /\ g[0] = f[0] /\ f[0] = <<>>
        BY <2>1, <3>1 DEF LowLoop
      <4> QED
        BY <3>2, <4>1
    <3>3. CASE y # 0
      <4>1. y \div 10 \in 0 .. m
        <5>1. y \div 10 \in Nat /\ y \div 10 < y
          BY <3>3, Tenth
        <5> QED
          BY <3>1, <5>1
      <4>2. PICK z \in 0 .. m : z = y \div 10
        BY <4>1
      <4>3. z \in 0 .. m + 1 /\ z # m + 1
        BY <3>1
      <4>4. g[z] = f[z]
        BY <4>3
      <4>5. CASE y = m + 1
        <5>1. g[y] = <<Zero + (y % 10)>> \o f[y \div 10]
          BY <4>5
        <5> QED
          BY <3>3, <4>2, <4>4, <5>1
      <4>6. CASE y # m + 1
        <5>1. y \in 0 .. m /\ g[y] = f[y]
          BY <3>1, <4>6
        <5>2. f[y] = <<Zero + (y % 10)>> \o f[y \div 10]
          BY <2>1, <3>3, <5>1 DEF LowLoop
        <5> QED
          BY <3>3, <4>2, <4>4, <5>1, <5>2
      <4> QED
        BY <4>5, <4>6
    <3> QED
      BY <3>2, <3>3
  <2>3. LowLoop(g, m + 1)
    <3>1. DOMAIN g = 0 .. m + 1 /\ g = [y \in 0 .. m + 1 |-> g[y]]
      OBVIOUS
    <3> HIDE DEF g
    <3> QED
      BY <2>2, <3>1 DEF LowLoop
  <2> HIDE DEF g
  <2>4. m + 1 \in 0 .. x
    OBVIOUS
  <2> QED
    BY <2>3, <2>4
<1>3. \A m \in 0 .. x : m \in X
  <2> HIDE DEF X
  <2> QED
    BY <1>1, <1>2, Reaches
<1> QED
  BY <1>3

\* One digit more.
LEMMA DigitAdded ==
    ASSUME NEW y \in Nat \ {0}, NEW l, DenotesExactly(l, y \div 10)
    PROVE  DenotesExactly(<<Zero + (y % 10)>> \o l, y)
<1> DEFINE c == Zero + (y % 10)
           m == <<c>> \o l
           n == Len(l)
<1>1. l \in Seq(Digits) /\ n \in Nat
  BY DEF DenotesExactly
<1>2. PICK q : Quotients(q, l, y \div 10) /\ \A k \in 0 .. n - 1 : q[k] # 0
  BY DEF DenotesExactly
<1>3. c \in Digits
  BY Tenth DEF Digits, Zero
<1>4. m \in Seq(Digits) /\ Len(m) = n + 1 /\ m[1] = c /\ \A k \in 2 .. n + 1 : m[k] = l[k - 1]
  <2> DEFINE one == <<c>>
  <2> HIDE DEF c
  <2>1. one \in Seq(Digits) /\ Len(one) = 1 /\ one[1] = c
    BY <1>3
  <2> HIDE DEF one
  <2>2. /\ one \o l \in Seq(Digits) /\ Len(one \o l) = Len(one) + Len(l)
        /\ \A i \in 1 .. Len(one) + Len(l) :
             (one \o l)[i] = IF i <= Len(one) THEN one[i] ELSE l[i - Len(one)]
    BY ONLY <1>1, <2>1, Concatenated
  <2>3. /\ Len(one \o l) = n + 1 /\ (one \o l)[1] = c
        /\ \A k \in 2 .. n + 1 : (one \o l)[k] = l[k - 1]
    BY <1>1, <2>1, <2>2
  <2> QED
    BY <2>2, <2>3 DEF one
<1> DEFINE p == [k \in 0 .. n + 1 |-> IF k = 0 THEN y ELSE q[k - 1]]
<1>5. /\ q \in [0 .. n -> Nat] /\ q[0] = y \div 10 /\ q[n] = 0
      /\ \A k \in 1 .. n : q[k] = q[k - 1] \div 10 /\ l[k] = Zero + (q[k - 1] % 10)
  BY <1>2 DEF Quotients
<1> HIDE DEF m, n
<1>6. p \in [0 .. n + 1 -> Nat] /\ p[0] = y /\ \A k \in 1 .. n + 1 : p[k] = q[k - 1]
  BY <1>1, <1>5
<1> HIDE DEF p
<1>7. p[n + 1] = 0
  BY <1>1, <1>5, <1>6
<1>8. ASSUME NEW k \in 1 .. n + 1
      PROVE  p[k] = p[k - 1] \div 10 /\ m[k] = Zero + (p[k - 1] % 10)
  <2>1. CASE k = 1
    BY <1>1, <1>4, <1>5, <1>6, <2>1
  <2>2. CASE k # 1
    <3>1. PICK j \in 1 .. n : k = j + 1
      <4>1. k - 1 \in 1 .. n /\ k = (k - 1) + 1
        BY <1>1, <2>2
      <4> QED
        BY ONLY <4>1
    <3>2. /\ k \in 2 .. n + 1 /\ k - 1 = j /\ j \in 1 .. n + 1
      BY <1>1, <3>1
    <3>3. p[k] = q[j] /\ p[k - 1] = q[j - 1] /\ m[k] = l[j]
      BY <1>4, <1>6, <3>2
    <3> QED
      BY <1>5, <3>3
  <2> QED
    BY <2>1, <2>2
<1>9. ASSUME NEW k \in 0 .. n PROVE p[k] # 0
  <2>1. CASE k = 0
    BY <1>6, <2>1
  <2>2. CASE k # 0
    <3>1. k \in 1 .. n + 1 /\ k - 1 \in 0 .. n - 1
      BY <1>1, <2>2
    <3> QED
      BY <1>2, <1>6, <3>1
  <2> QED
    BY <2>1, <2>2
<1>10. Len(m) = n + 1 /\ Len(m) - 1 = n
  BY <1>1, <1>4
<1>11. Quotients(p, m, y)
  BY <1>6, <1>7, <1>8, <1>10 DEF Quotients
<1> QED
  BY <1>4, <1>9, <1>10, <1>11 DEF DenotesExactly, m

\* The first loop of itoa() writes the digits of its number, and no zero before
\* the first.
LEMMA LowDigitsDenote ==
    ASSUME NEW x \in Nat
    PROVE  DenotesExactly(LowDigits(x), x)
<1> DEFINE low == CHOOSE f : LowLoop(f, x)
           X == {m \in 0 .. x : \A y \in 0 .. m : DenotesExactly(low[y], y)}
<1>1. LowDigits(x) = low[x]
  BY DEF LowDigits, LowLoop
<1>2. LowLoop(low, x)
  BY LowLoopExists
<1> HIDE DEF low
<1>3. \A y \in 0 .. x : low[y] = IF y = 0 THEN <<>> ELSE <<Zero + (y % 10)>> \o low[y \div 10]
  BY <1>2 DEF LowLoop
<1>4. DenotesExactly(low[0], 0)
  <2>0. 0 \in 0 .. x
    OBVIOUS
  <2>1. low[0] = <<>>
    BY <1>3, <2>0
  <2> DEFINE q == [k \in 0 .. 0 |-> 0]
  <2>2. <<>> \in Seq(Digits) /\ Len(<<>>) = 0
    OBVIOUS
  <2>3. q \in [0 .. 0 -> Nat] /\ q[0] = 0
    OBVIOUS
  <2> HIDE DEF q
  <2>4. Quotients(q, <<>>, 0)
    BY <2>2, <2>3 DEF Quotients
  <2> QED
    BY <2>1, <2>2, <2>4 DEF DenotesExactly
<1>5. ASSUME NEW m \in 0 .. x - 1, m \in X PROVE m + 1 \in X
  <2>1. m + 1 \in 0 .. x /\ m + 1 \in Nat \ {0} /\ \A y \in 0 .. m + 1 : y \in 0 .. m \/ y = m + 1
    OBVIOUS
  <2>2. PICK z \in Nat \ {0} : z = m + 1
    BY <2>1
  <2>3. z \div 10 \in 0 .. m
    <3>1. z \div 10 \in Nat /\ z \div 10 < z
      BY Tenth
    <3> QED
      BY <2>2, <3>1
  <2>4. DenotesExactly(low[z \div 10], z \div 10)
    BY <1>5, <2>3
  <2>5. DenotesExactly(<<Zero + (z % 10)>> \o low[z \div 10], z)
    BY <2>4, DigitAdded
  <2>6. low[z] = <<Zero + (z % 10)>> \o low[z \div 10]
    BY <1>3, <2>1, <2>2
  <2>7. DenotesExactly(low[z], z)
    BY <2>5, <2>6
  <2> QED
    BY <1>5, <2>1, <2>2, <2>7
<1>6. \A m \in 0 .. x : m \in X
  <2>1. 0 \in X
    BY <1>4
  <2> HIDE DEF X
  <2> QED
    BY <1>5, <2>1, Reaches
<1> QED
  BY <1>1, <1>6

\* Leading zeros change nothing.
LEMMA ZerosAdded ==
    ASSUME NEW y \in Nat, NEW l, Denotes(l, y), NEW k \in Int
    PROVE  /\ Denotes(l \o Copies(k, Zero), y)
           /\ Len(l \o Copies(k, Zero)) = IF k > 0 THEN Len(l) + k ELSE Len(l)
<1> DEFINE z == Copies(k, Zero)
           m == IF k > 0 THEN k ELSE 0
           n == Len(l)
           s == l \o z
<1>1. l \in Seq(Digits) /\ n \in Nat /\ m \in Nat
  BY DEF Denotes
<1>2. PICK q : Quotients(q, l, y)
  BY DEF Denotes
<1>3. z \in Seq(Digits) /\ Len(z) = m /\ \A i \in 1 .. m : z[i] = Zero
  BY DEF Copies, Digits, Zero
<1>4. /\ s \in Seq(Digits) /\ Len(s) = n + m
      /\ \A i \in 1 .. n : s[i] = l[i]
      /\ \A i \in n + 1 .. n + m : s[i] = Zero
  <2> HIDE DEF z, m
  <2>1. /\ s \in Seq(Digits) /\ Len(s) = Len(l) + Len(z)
        /\ \A i \in 1 .. Len(l) + Len(z) : s[i] = IF i <= Len(l) THEN l[i] ELSE z[i - Len(l)]
    BY <1>1, <1>3, Concatenated
  <2> HIDE DEF s
  <2> QED
    BY <1>1, <1>3, <2>1
<1> DEFINE p == [i \in 0 .. n + m |-> IF i <= n THEN q[i] ELSE 0]
<1>5. /\ q \in [0 .. n -> Nat] /\ q[0] = y /\ q[n] = 0
      /\ \A i \in 1 .. n : q[i] = q[i - 1] \div 10 /\ l[i] = Zero + (q[i - 1] % 10)
  BY <1>2 DEF Quotients
<1> HIDE DEF z, m, n, s
<1>6. /\ p \in [0 .. n + m -> Nat]
      /\ \A i \in 0 .. n : p[i] = q[i]
      /\ \A i \in n .. n + m : p[i] = 0
  BY <1>1, <1>5
<1> HIDE DEF p
<1>7. p[0] = y /\ p[n + m] = 0
  BY <1>1, <1>5, <1>6
<1>8. ASSUME NEW i \in 1 .. n + m
      PROVE  p[i] = p[i - 1] \div 10 /\ s[i] = Zero + (p[i - 1] % 10)
  <2>1. CASE i \in 1 .. n
    <3>1. i - 1 \in 0 .. n /\ i \in 0 .. n
      BY <1>1, <2>1
    <3> QED
      BY <1>4, <1>5, <1>6, <2>1, <3>1
  <2>2. CASE i \notin 1 .. n
    <3>1. i - 1 \in n .. n + m /\ i \in n .. n + m /\ i \in n + 1 .. n + m
      BY <1>1, <2>2
    <3>2. p[i - 1] = 0 /\ p[i] = 0 /\ s[i] = Zero
      BY <1>4, <1>6, <3>1
    <3>3. 0 \div 10 = 0 /\ Zero + (0 % 10) = Zero
      BY DEF Zero
    <3> QED
      BY <3>2, <3>3
  <2> QED
    BY <2>1, <2>2
<1>9. Quotients(p, s, y)
  BY <1>4, <1>6, <1>7, <1>8 DEF Quotients
<1>10. Denotes(s, y)
  BY <1>4, <1>9 DEF Denotes
<1>11. Len(s) = IF k > 0 THEN n + k ELSE n
  BY <1>1, <1>4 DEF m
<1> QED
  BY <1>10, <1>11 DEF s, z, n

-----------------------------------------------------------------------------
(***************************************************************************)
(* reverse                                                                 *)
(***************************************************************************)
\* The loop of reverse() on s.
TurnLoop(t, s) ==
    t = [i \in 0 .. Len(s) \div 2 |-> IF i = 0 THEN s ELSE Exchange(t[i - 1], i - 1)]

\* The rounds stay away from one another.
LEMMA HalfWay ==
    ASSUME NEW n \in Nat
    PROVE  n \div 2 \in Nat /\ 2 * (n \div 2) <= n /\ n <= 2 * (n \div 2) + 1
  BY SMT

\* One round.
LEMMA ExchangeFacts ==
    ASSUME NEW S, NEW n \in Nat, NEW t \in [1 .. n -> S], NEW i \in 0 .. (n \div 2) - 1
    PROVE  /\ Exchange(t, i) \in [1 .. n -> S]
           /\ Exchange(t, i)[i + 1] = t[n - i] /\ Exchange(t, i)[n - i] = t[i + 1]
           /\ \A j \in 1 .. n : j # i + 1 /\ j # n - i => Exchange(t, i)[j] = t[j]
<1>1. i + 1 \in 1 .. n /\ n - i \in 1 .. n /\ n - i # i + 1
  BY HalfWay
<1>2. Len(t) = n
  OBVIOUS
<1> QED
  BY <1>1, <1>2 DEF Exchange

LEMMA TurnLoopExists ==
    ASSUME NEW S, NEW s \in Seq(S)
    PROVE  \E t : TurnLoop(t, s)
<1> DEFINE n == Len(s)
           T == [1 .. n -> S]
           step == [i \in 1 .. n \div 2 |-> [w \in T |-> Exchange(w, i - 1)]]
<1>1. n \in Nat /\ n \div 2 \in Nat /\ s \in T
  BY HalfWay
<1>2. \A i \in 1 .. n \div 2, w \in T : Exchange(w, i - 1) \in T
  <2>1. \A i \in 1 .. n \div 2 : i - 1 \in 0 .. (n \div 2) - 1
    BY <1>1
  <2> HIDE DEF n
  <2> QED
    BY <1>1, <2>1, ExchangeFacts
<1> HIDE DEF n, T
<1>3. step \in Steps(n \div 2, T)
  BY <1>2 DEF Steps
<1>4. PICK f : Loop(f, n \div 2, T, s, step)
  <2> HIDE DEF step
  <2> QED
    BY <1>1, <1>3, Iterates
<1>5. ASSUME NEW i \in 0 .. n \div 2
      PROVE  f[i] = IF i = 0 THEN s ELSE Exchange(f[i - 1], i - 1)
  <2>1. CASE i = 0
    BY <1>4, <2>1 DEF Loop
  <2>2. CASE i # 0
    <3>1. i \in 1 .. n \div 2 /\ i - 1 \in 0 .. n \div 2
      BY <1>1, <2>2
    <3>2. f[i - 1] \in T /\ f[i] = step[i][f[i - 1]]
      BY <1>4, <3>1 DEF Loop
    <3> QED
      BY <2>2, <3>1, <3>2
  <2> QED
    BY <2>1, <2>2
<1>6. f = [i \in 0 .. n \div 2 |-> IF i = 0 THEN s ELSE Exchange(f[i - 1], i - 1)]
  BY <1>4, <1>5 DEF Loop
<1> QED
  BY <1>6 DEF TurnLoop, n

\* After i rounds the first i characters and the last i are in their places.
Turned(t, s, n, i) ==
    \A j \in 1 .. n : t[j] = IF j <= i \/ j > n - i THEN s[n + 1 - j] ELSE s[j]

LEMMA TurnRound ==
    ASSUME NEW S, NEW n \in Nat, NEW s, NEW t \in [1 .. n -> S],
           NEW i \in 0 .. (n \div 2) - 1, Turned(t, s, n, i)
    PROVE  Exchange(t, i) \in [1 .. n -> S] /\ Turned(Exchange(t, i), s, n, i + 1)
<1> DEFINE u == Exchange(t, i)
<1>1. n \in Nat /\ i + 1 <= n - (i + 1)
  <2>1. PICK m \in Nat : m = n \div 2
    BY HalfWay
  <2>2. 2 * m <= n /\ i \in 0 .. m - 1
    BY <2>1, HalfWay
  <2> QED
    BY <2>2
<1>2. /\ u \in [1 .. n -> S] /\ u[i + 1] = t[n - i] /\ u[n - i] = t[i + 1]
      /\ \A j \in 1 .. n : j # i + 1 /\ j # n - i => u[j] = t[j]
  <2>1. i + 1 \in 1 .. n /\ n - i \in 1 .. n /\ n - i # i + 1
    BY <1>1
  <2>2. Len(t) = n
    OBVIOUS
  <2> QED
    BY <2>1, <2>2 DEF Exchange
<1>3. \A j \in 1 .. n : t[j] = IF j <= i \/ j > n - i THEN s[n + 1 - j] ELSE s[j]
  BY DEF Turned
<1> HIDE DEF u
<1>4. ASSUME NEW j \in 1 .. n
      PROVE  u[j] = IF j <= i + 1 \/ j > n - (i + 1) THEN s[n + 1 - j] ELSE s[j]
  <2>1. CASE j = i + 1
    <3>1. n - i \in 1 .. n /\ ~(n - i <= i) /\ ~(n - i > n - i) /\ n + 1 - j = n - i
      BY <1>1, <2>1
    <3>2. u[j] = s[n - i]
      BY <1>2, <1>3, <2>1, <3>1
    <3> QED
      BY <1>1, <2>1, <3>1, <3>2
  <2>2. CASE j = n - i
    <3>1. i + 1 \in 1 .. n /\ ~(i + 1 <= i) /\ ~(i + 1 > n - i) /\ n + 1 - j = i + 1 /\ j > n - (i + 1)
      BY <1>1, <2>2
    <3>2. u[j] = s[i + 1]
      BY <1>2, <1>3, <2>2, <3>1
    <3> QED
      BY <3>1, <3>2
  <2>3. CASE j # i + 1 /\ j # n - i
    <3>1. u[j] = t[j]
      BY <1>2, <2>3
    <3>2. /\ j <= i + 1 <=> j <= i
          /\ j > n - (i + 1) <=> j > n - i
      BY <1>1, <2>3
    <3> QED
      BY <1>3, <3>1, <3>2
  <2> QED
    BY <2>1, <2>2, <2>3
<1> QED
  BY <1>2, <1>4 DEF Turned, u

\* reverse() turns every string round.
LEMMA ReverseTurns ==
    ASSUME NEW S, NEW s \in Seq(S)
    PROVE  reverse(s) = Reverse(s)
<1> DEFINE n == Len(s)
           h == n \div 2
           t == CHOOSE f : TurnLoop(f, s)
           X == {i \in 0 .. h : t[i] \in [1 .. n -> S] /\ Turned(t[i], s, n, i)}
<1>1. n \in Nat /\ h \in Nat /\ 2 * h <= n /\ n <= 2 * h + 1
  BY HalfWay
<1>2. reverse(s) = t[h]
  BY DEF reverse, TurnLoop
<1>3. TurnLoop(t, s)
  BY TurnLoopExists
<1> HIDE DEF t
<1>4. /\ t[0] = s /\ \A i \in 0 .. h - 1 : t[i + 1] = Exchange(t[i], i)
  <2>1. \A i \in 0 .. h : t[i] = IF i = 0 THEN s ELSE Exchange(t[i - 1], i - 1)
    BY <1>3 DEF TurnLoop
  <2> HIDE DEF h
  <2>2. \A i \in 0 .. h - 1 : i + 1 \in 0 .. h /\ i + 1 # 0 /\ (i + 1) - 1 = i
    BY <1>1
  <2>3. t[0] = s
    BY <1>1, <2>1
  <2>4. ASSUME NEW i \in 0 .. h - 1 PROVE t[i + 1] = Exchange(t[i], i)
    BY <2>1, <2>2
  <2> QED
    BY <2>3, <2>4
<1>5. 0 \in X
  <2>1. s \in [1 .. n -> S]
    OBVIOUS
  <2>2. Turned(s, s, n, 0)
    BY <1>1 DEF Turned
  <2>3. 0 \in 0 .. h
    BY <1>1
  <2> QED
    BY <1>4, <2>1, <2>2, <2>3
<1>6. ASSUME NEW i \in 0 .. h - 1, i \in X PROVE i + 1 \in X
  <2>1. t[i] \in [1 .. n -> S] /\ Turned(t[i], s, n, i)
    BY <1>6
  <2> HIDE DEF n
  <2>2. Exchange(t[i], i) \in [1 .. n -> S] /\ Turned(Exchange(t[i], i), s, n, i + 1)
    BY <1>1, <2>1, TurnRound
  <2>3. i + 1 \in 0 .. h
    <3> HIDE DEF h
    <3> QED
      BY <1>1
  <2> QED
    BY <1>4, <2>2, <2>3
<1>7. h \in X
  <2> HIDE DEF X, h
  <2>1. \A i \in 0 .. h : i \in X
    BY <1>1, <1>5, <1>6, Reaches
  <2> QED
    BY <1>1, <2>1
<1>8. t[h] \in [1 .. n -> S] /\ Turned(t[h], s, n, h)
  BY <1>7
<1> HIDE DEF h
<1>9. ASSUME NEW j \in 1 .. n PROVE t[h][j] = s[n - j + 1]
  <2>1. t[h][j] = IF j <= h \/ j > n - h THEN s[n + 1 - j] ELSE s[j]
    BY <1>8 DEF Turned
  <2>2. n + 1 - j = n - j + 1 /\ (~(j <= h \/ j > n - h) => j = n + 1 - j)
    BY <1>1
  <2> QED
    BY <2>1, <2>2
<1>10. t[h] = [j \in 1 .. n |-> s[(n - j) + 1]]
  BY <1>8, <1>9
<1> QED
  BY <1>2, <1>10 DEF Reverse

-----------------------------------------------------------------------------
(***************************************************************************)
(* atoi and pow                                                            *)
(***************************************************************************)
\* A string of digits ends after the last of them.
LEMMA DigitsLength ==
    ASSUME NEW s \in Seq(Digits)
    PROVE  strlen(s) = Len(s)
<1>1. Len(s) \in Nat /\ \A i \in 0 .. Len(s) - 1 : At(s, i) # NUL
  BY DEF At, NUL, Digits, Zero
<1>2. PICK k \in 0 .. Len(s) : k = Len(s)
  BY <1>1
<1>3. \A i \in 0 .. Len(s) :
        ((i = Len(s) \/ At(s, i) = NUL) /\ \A j \in 0 .. i - 1 : ~(At(s, j) = NUL)) <=> i = k
  BY <1>1, <1>2
<1>4. strlen(s) = CHOOSE i \in 0 .. Len(s) :
                    (i = Len(s) \/ At(s, i) = NUL) /\ \A j \in 0 .. i - 1 : ~(At(s, j) = NUL)
  BY DEF strlen, FirstUpTo
<1> QED
  BY <1>2, <1>3, <1>4

\* The loop of atoi() on str.
AtoiLoop(res, str) ==
    res = [i \in 0 .. strlen(str) |-> IF i = 0 THEN 0 ELSE res[i - 1] * 10 + str[i] - Zero]

LEMMA AtoiLoopExists ==
    ASSUME NEW str \in Seq(Digits)
    PROVE  \E res : AtoiLoop(res, str)
<1> DEFINE n == Len(str)
           step == [i \in 1 .. n |-> [w \in Int |-> w * 10 + str[i] - Zero]]
<1>1. n \in Nat /\ strlen(str) = n /\ 0 \in Int
  BY DigitsLength
<1>2. \A i \in 1 .. n, w \in Int : w * 10 + str[i] - Zero \in Int
  <2>1. \A i \in 1 .. n : str[i] \in Int /\ Zero \in Int
    BY DEF Digits, Zero
  <2> HIDE DEF n
  <2> QED
    BY <2>1
<1> HIDE DEF n
<1>3. step \in Steps(n, Int)
  BY <1>2 DEF Steps
<1>4. PICK f : Loop(f, n, Int, 0, step)
  <2> HIDE DEF step
  <2> QED
    BY <1>1, <1>3, Iterates
<1>5. ASSUME NEW i \in 0 .. n
      PROVE  f[i] = IF i = 0 THEN 0 ELSE f[i - 1] * 10 + str[i] - Zero
  <2>1. CASE i = 0
    BY <1>4, <2>1 DEF Loop
  <2>2. CASE i # 0
    <3>1. i \in 1 .. n /\ i - 1 \in 0 .. n
      BY <1>1, <2>2
    <3>2. f[i - 1] \in Int /\ f[i] = step[i][f[i - 1]]
      BY <1>4, <3>1 DEF Loop
    <3> QED
      BY <2>2, <3>1, <3>2
  <2> QED
    BY <2>1, <2>2
<1>6. f = [i \in 0 .. n |-> IF i = 0 THEN 0 ELSE f[i - 1] * 10 + str[i] - Zero]
  BY <1>4, <1>5 DEF Loop
<1> QED
  BY <1>1, <1>6 DEF AtoiLoop

\* Digits in the other order.
LEMMA ReversedDigits ==
    ASSUME NEW l \in Seq(Digits)
    PROVE  /\ Reverse(l) \in Seq(Digits) /\ Len(Reverse(l)) = Len(l)
           /\ \A i \in 1 .. Len(l) : Reverse(l)[i] = l[Len(l) - i + 1]
<1>1. PICK n \in Nat : n = Len(l)
  OBVIOUS
<1>2. \A i \in 1 .. n : (n - i) + 1 \in 1 .. n /\ l[(n - i) + 1] \in Digits
  BY <1>1
<1>3. Reverse(l) = [i \in 1 .. n |-> l[(n - i) + 1]]
  BY <1>1 DEF Reverse
<1> QED
  BY <1>1, <1>2, <1>3

\* atoi() reads what itoa() has written: after i digits it has the number of which
\* those that follow are still to be divided off.
LEMMA AtoiReads ==
    ASSUME NEW y \in Nat, NEW l, Denotes(l, y)
    PROVE  atoi(Reverse(l)) = y
<1> DEFINE n == Len(l)
           s == Reverse(l)
           res == CHOOSE f : AtoiLoop(f, s)
<1>1. l \in Seq(Digits) /\ n \in Nat
  BY DEF Denotes
<1>2. s \in Seq(Digits) /\ Len(s) = n /\ \A i \in 1 .. n : s[i] = l[n - i + 1]
  BY <1>1, ReversedDigits
<1>3. PICK q : /\ q \in [0 .. n -> Nat] /\ q[0] = y /\ q[n] = 0
               /\ \A k \in 1 .. n : q[k] = q[k - 1] \div 10 /\ l[k] = Zero + (q[k - 1] % 10)
  BY DEF Denotes, Quotients
<1> DEFINE X == {i \in 0 .. n : res[i] = q[n - i]}
<1>4. strlen(s) = n
  BY <1>2, DigitsLength
<1>5. atoi(s) = res[n]
  BY <1>4 DEF atoi, AtoiLoop
<1>6. AtoiLoop(res, s)
  BY <1>2, AtoiLoopExists
<1> HIDE DEF res, n, s
<1>7. \A i \in 0 .. n : res[i] = IF i = 0 THEN 0 ELSE res[i - 1] * 10 + s[i] - Zero
  BY <1>4, <1>6 DEF AtoiLoop
<1>8. 0 \in X
  <2>1. 0 \in 0 .. n /\ n - 0 = n
    BY <1>1
  <2>2. res[0] = 0
    BY <1>7, <2>1
  <2> QED
    BY <1>3, <2>1, <2>2
<1>9. ASSUME NEW i \in 0 .. n - 1, i \in X PROVE i + 1 \in X
  <2>1. PICK k \in 1 .. n : k = n - i
    BY <1>1
  <2>2. /\ i + 1 \in 0 .. n /\ i + 1 \in 1 .. n /\ i + 1 # 0 /\ (i + 1) - 1 = i
        /\ n - (i + 1) + 1 = k /\ n - (i + 1) = k - 1 /\ k - 1 \in 0 .. n
    BY <1>1, <2>1
  <2>3. res[i] = q[k]
    BY <1>9, <2>1
  <2>4. s[i + 1] = Zero + (q[k - 1] % 10)
    <3>1. s[i + 1] = l[k]
      <4>1. s[i + 1] = l[n - (i + 1) + 1]
        BY ONLY <1>2, <2>2
      <4> QED
        BY ONLY <2>2, <4>1
    <3> QED
      BY ONLY k \in 1 .. n, <1>3, <3>1
  <2>5. q[k] = q[k - 1] \div 10 /\ q[k - 1] \in Nat
    BY <1>3, <2>2
  <2>6. res[i + 1] = q[k] * 10 + s[i + 1] - Zero
    BY <1>7, <2>2, <2>3
  <2>7. q[k - 1] = 10 * (q[k - 1] \div 10) + (q[k - 1] % 10) /\ q[k - 1] % 10 \in Int /\ q[k - 1] \div 10 \in Int
    <3>1. PICK a \in Int : a = q[k - 1]
      BY <2>5
    <3>2. 10 \in Nat \ {0}
      OBVIOUS
    <3>3. a % 10 \in 0 .. 10 - 1 /\ a \div 10 \in Int /\ a = 10 * (a \div 10) + (a % 10)
      BY ONLY a \in Int, <3>2, DivMod
    <3> QED
      BY <3>1, <3>3
  <2>8. res[i + 1] = q[k - 1]
    BY <2>4, <2>5, <2>6, <2>7 DEF Zero
  <2> QED
    BY <2>2, <2>8
<1>10. n \in X
  <2> HIDE DEF X
  <2>1. \A i \in 0 .. n : i \in X
    BY <1>1, <1>8, <1>9, Reaches
  <2> QED
    BY <1>1, <2>1
<1>11. n - n = 0
  BY <1>1
<1> QED
  BY <1>3, <1>5, <1>10, <1>11 DEF s

\* What itoa() writes are the digits of its number, the first one first, and zeros
\* before them only to fill up to d digits.
LEMMA ItoaWrites ==
    ASSUME NEW x \in Nat, NEW d \in Nat
    PROVE  \E l : /\ Denotes(l, x) /\ itoa(x, d) = Reverse(l)
                  /\ Len(l) >= d
                  /\ Len(l) > d => DenotesExactly(l, x)
<1> DEFINE low == LowDigits(x)
           k == d - Len(low)
           l == low \o Copies(k, Zero)
<1>1. DenotesExactly(low, x)
  BY LowDigitsDenote
<1>2. Denotes(low, x) /\ low \in Seq(Digits) /\ Len(low) \in Nat
  BY <1>1 DEF Denotes, DenotesExactly
<1>3. itoa(x, d) = reverse(l)
  BY DEF itoa
<1> HIDE DEF low
<1>4. k \in Int
  BY <1>2
<1>5. Denotes(l, x) /\ Len(l) = IF k > 0 THEN Len(low) + k ELSE Len(low)
  <2> HIDE DEF k
  <2> QED
    BY <1>2, <1>4, ZerosAdded
<1>6. l \in Seq(Digits)
  BY <1>5 DEF Denotes
<1>7. itoa(x, d) = Reverse(l)
  <2> HIDE DEF l
  <2> QED
    BY <1>3, <1>6, ReverseTurns
<1>8. ASSUME ~(k > 0) PROVE l = low
  <2>1. Copies(k, Zero) = <<>>
    <3>1. \A i \in 1 .. 0 : FALSE
      OBVIOUS
    <3> QED
      BY <1>4, <1>8, <3>1 DEF Copies
  <2> QED
    BY <1>2, <2>1, ConcatEmptySeq
<1>9. Len(l) >= d /\ (Len(l) > d => ~(k > 0))
  BY <1>2, <1>5
<1>10. Len(l) > d => DenotesExactly(l, x)
  BY <1>1, <1>8, <1>9
<1> HIDE DEF l
<1> QED
  BY <1>5, <1>7, <1>9, <1>10

\* The loop of pow().
PowLoop(result, base, n) ==
    result = [i \in 0 .. n |-> IF i = 0 THEN 1 ELSE result[i - 1] * base]

LEMMA PowLoopExists ==
    ASSUME NEW base \in Nat, NEW n \in Nat
    PROVE  \E result : PowLoop(result, base, n) /\ \A i \in 0 .. n : result[i] \in Nat
<1> DEFINE step == [i \in 1 .. n |-> [w \in Nat |-> w * base]]
<1>1. step \in Steps(n, Nat) /\ 1 \in Nat
  BY DEF Steps
<1>2. PICK f : Loop(f, n, Nat, 1, step)
  <2> HIDE DEF step
  <2> QED
    BY <1>1, Iterates
<1>3. ASSUME NEW i \in 0 .. n
      PROVE  f[i] \in Nat /\ f[i] = IF i = 0 THEN 1 ELSE f[i - 1] * base
  <2>1. CASE i = 0
    BY <1>2, <2>1 DEF Loop
  <2>2. CASE i # 0
    <3>1. i \in 1 .. n /\ i - 1 \in 0 .. n
      BY <2>2
    <3>2. f[i - 1] \in Nat /\ f[i] \in Nat /\ f[i] = step[i][f[i - 1]]
      BY <1>2, <3>1 DEF Loop
    <3> QED
      BY <2>2, <3>1, <3>2
  <2> QED
    BY <2>1, <2>2
<1>4. f = [i \in 0 .. n |-> IF i = 0 THEN 1 ELSE f[i - 1] * base]
  BY <1>2, <1>3 DEF Loop
<1> QED
  BY <1>3, <1>4 DEF PowLoop

\* A number of n digits is below 10^n, as pow() computes it.
LEMMA PowExceeds ==
    ASSUME NEW y \in Nat, NEW l, Denotes(l, y)
    PROVE  y < pow(10, Len(l))
<1> DEFINE n == Len(l)
           result == CHOOSE f : PowLoop(f, 10, n)
<1>1. l \in Seq(Digits) /\ n \in Nat
  BY DEF Denotes
<1>2. PICK q : /\ q \in [0 .. n -> Nat] /\ q[0] = y /\ q[n] = 0
               /\ \A k \in 1 .. n : q[k] = q[k - 1] \div 10 /\ l[k] = Zero + (q[k - 1] % 10)
  BY DEF Denotes, Quotients
<1> DEFINE X == {i \in 0 .. n : result[i] \in Nat /\ q[n - i] < result[i]}
<1>3. pow(10, n) = result[n]
  BY DEF pow, PowLoop
<1>4. PowLoop(result, 10, n)
  <2> HIDE DEF n
  <2>1. 10 \in Nat
    OBVIOUS
  <2> QED
    BY <1>1, <2>1, PowLoopExists
<1> HIDE DEF n, result
<1>5. \A i \in 0 .. n : result[i] = IF i = 0 THEN 1 ELSE result[i - 1] * 10
  BY <1>4 DEF PowLoop
<1>6. 0 \in X
  <2>1. 0 \in 0 .. n /\ n - 0 = n
    BY <1>1
  <2>2. result[0] = 1
    BY <1>5, <2>1
  <2> QED
    BY <1>2, <2>1, <2>2
<1>7. ASSUME NEW i \in 0 .. n - 1, i \in X PROVE i + 1 \in X
  <2>1. PICK k \in 1 .. n : k = n - i
    BY <1>1
  <2>2. /\ i + 1 \in 0 .. n /\ i + 1 # 0 /\ (i + 1) - 1 = i
        /\ n - (i + 1) = k - 1 /\ k - 1 \in 0 .. n
    BY <1>1, <2>1
  <2>3. PICK r \in Nat : r = result[i] /\ q[k] < r
    BY <1>7, <2>1
  <2>4. result[i + 1] = r * 10
    BY <1>5, <2>2, <2>3
  <2>5. PICK a \in Nat : a = q[k - 1] /\ q[k] = a \div 10
    BY <1>2, <2>2
  <2>6. a < r * 10
    <3>1. a \in Int /\ 10 \in Nat \ {0}
      OBVIOUS
    <3>2. a % 10 \in 0 .. 10 - 1 /\ a \div 10 \in Int /\ a = 10 * (a \div 10) + (a % 10)
      BY ONLY <3>1, DivMod
    <3>3. a \div 10 < r
      BY <2>3, <2>5
    <3> QED
      BY <3>2, <3>3
  <2>7. result[i + 1] \in Nat /\ q[n - (i + 1)] < result[i + 1]
    BY <2>2, <2>4, <2>5, <2>6
  <2> QED
    BY <2>2, <2>7
<1>8. n \in X
  <2> HIDE DEF X
  <2>1. \A i \in 0 .. n : i \in X
    BY <1>1, <1>6, <1>7, Reaches
  <2> QED
    BY <1>1, <2>1
<1>9. n - n = 0
  BY <1>1
<1> QED
  BY <1>2, <1>3, <1>8, <1>9 DEF n

\* itoa(), atoi() and reverse() convert every number, and fill it up to every
\* number of digits.
LEMMA Conversions ==
    ASSUME NEW x \in Nat, NEW d \in Nat
    PROVE  ConvertsRight(x, d)
<1>1. PICK l : /\ Denotes(l, x) /\ itoa(x, d) = Reverse(l)
               /\ Len(l) >= d /\ (Len(l) > d => DenotesExactly(l, x))
  BY ItoaWrites
<1> DEFINE s == Reverse(l)
           n == Len(l)
<1>2. l \in Seq(Digits) /\ n \in Nat
  BY <1>1 DEF Denotes
<1>3. s \in Seq(Digits) /\ Len(s) = n /\ \A i \in 1 .. n : s[i] = l[n - i + 1]
  BY <1>2, ReversedDigits
<1>4. atoi(s) = x
  BY <1>1, AtoiReads
<1>5. x < pow(10, n)
  BY <1>1, PowExceeds
<1> HIDE DEF s
<1>6. reverse(s) = Reverse(s)
  BY <1>3, ReverseTurns
<1>7. ToSet(s) \subseteq Digits
  BY <1>3 DEF ToSet
<1>8. n > d => s[1] # Zero
  <2> SUFFICES ASSUME n > d PROVE s[1] # Zero
    OBVIOUS
  <2>1. PICK q : Quotients(q, l, x) /\ \A k \in 0 .. n - 1 : q[k] # 0
    BY <1>1 DEF DenotesExactly
  <2>2. n \in 1 .. n /\ n - 1 \in 0 .. n - 1 /\ n - 1 \in 0 .. n /\ n - 1 + 1 = n /\ 1 \in 1 .. n
    BY <1>2
  <2>3. q[n - 1] \in Nat /\ q[n] = 0 /\ q[n] = q[n - 1] \div 10 /\ l[n] = Zero + (q[n - 1] % 10)
    BY <2>1, <2>2 DEF Quotients
  <2>4. PICK a \in Nat : a = q[n - 1]
    BY <2>3
  <2>5. a # 0 /\ a \div 10 = 0 /\ l[n] = Zero + (a % 10)
    BY <2>1, <2>2, <2>3, <2>4
  <2>6. a % 10 # 0 /\ a % 10 \in Int
    <3>1. a \in Int /\ 10 \in Nat \ {0}
      OBVIOUS
    <3>2. a % 10 \in 0 .. 10 - 1 /\ a \div 10 \in Int /\ a = 10 * (a \div 10) + (a % 10)
      BY ONLY <3>1, DivMod
    <3> QED
      BY <2>5, <3>2
  <2>7. s[1] = l[n]
    BY <1>3, <2>2
  <2> QED
    BY <2>5, <2>6, <2>7 DEF Zero
<1>9. itoa(x, d) = s
  BY <1>1 DEF s
<1> QED
  BY <1>1, <1>3, <1>4, <1>5, <1>6, <1>7, <1>8, <1>9 DEF ConvertsRight

-----------------------------------------------------------------------------
(***************************************************************************)
(* Every step keeps the line and the screen together.                      *)
(***************************************************************************)
\* The line with which the shell starts.
LEMMA EmptyBufferType == EmptyBuffer \in [1 .. MAX_BUFFER_LEN -> Byte]
  BY BootloaderAssumption DEF EmptyBuffer, strset, Copies, Byte, NUL

\* An empty line on an empty screen.
LEMMA FreshLine ==
    ASSUME buffer \in [1 .. MAX_BUFFER_LEN -> Byte], counter = 0, screen = <<>>, over = FALSE,
           bpc = "shell"
    PROVE  LineTypes /\ Shown /\ Obeyed
<1>1. <<>> \in Seq(Byte) /\ Len(<<>>) = 0 /\ 0 \in 0 .. MAX_BUFFER_LEN
  BY BootloaderAssumption
<1>2. LineTypes
  <2>1. (over \in BOOLEAN)
    OBVIOUS
  <2>2. (screen \in Seq(Byte) /\ Len(screen) >= counter /\ counter \in 0 .. MAX_BUFFER_LEN)
    BY <1>1
  <2> QED
    BY <2>1, <2>2 DEF LineTypes
<1>3. Shown
  BY <1>1 DEF Shown
<1>4. Obeyed
  BY DEF Obeyed
<1> QED
  BY <1>2, <1>3, <1>4

\* The same of the line after a step.
LEMMA FreshLineNext ==
    ASSUME buffer' \in [1 .. MAX_BUFFER_LEN -> Byte], counter' = 0, screen' = <<>>, over' = FALSE,
           bpc' = "shell"
    PROVE  LineTypes' /\ Shown' /\ Obeyed'
<1>1. <<>> \in Seq(Byte) /\ Len(<<>>) = 0 /\ 0 \in 0 .. MAX_BUFFER_LEN
  BY BootloaderAssumption
<1>2. LineTypes'
  <2>1. (over \in BOOLEAN)'
    OBVIOUS
  <2>2. (screen \in Seq(Byte) /\ Len(screen) >= counter /\ counter \in 0 .. MAX_BUFFER_LEN)'
    BY <1>1
  <2> QED
    BY <2>1, <2>2 DEF LineTypes
<1>3. Shown'
  BY <1>1 DEF Shown
<1>4. Obeyed'
  BY DEF Obeyed
<1> QED
  BY <1>2, <1>3, <1>4

LEMMA InitLineInv == BootInit => LineInv
<1> SUFFICES ASSUME BootInit PROVE LineInv
  OBVIOUS
<1>1. LineTypes /\ Shown /\ Obeyed
  BY EmptyBufferType, FreshLine DEF BootInit
<1>2. UserTypes
  BY DEF BootInit, uart_init, UserTypes
<1> QED
  BY <1>1, <1>2 DEF LineInv

\* What arrives and what is sent.
LEMMA SerialLine ==
    ASSUME LineInv, NUL \notin Keys, Type \/ StartScript \/ Send \/ BootPoll
    PROVE  LineInv'
<1>1. UNCHANGED <<bpc, line>>
  BY DEF Type, StartScript, Send, BootPoll, bvars
<1>2. LineTypes' /\ Shown' /\ Obeyed'
  BY <1>1 DEF LineInv, LineTypes, Shown, Obeyed, line
<1>3. UserTypes'
  <2>1. CASE Type
    <3>1. PICK c \in Keys : Arrives(c)
      BY <2>1 DEF Type
    <3>2. c \in Code
      BY BootloaderAssumption DEF NUL, Code
    <3>3. rx \in Seq(Code) => rx' \in Seq(Code)
      BY <3>1, <3>2 DEF Arrives
    <3> QED
      BY <2>1, <3>3 DEF Type, LineInv, UserTypes, script
  <2>2. CASE StartScript
    BY <2>2 DEF StartScript, LineInv, UserTypes
  <2>3. CASE Send
    BY <2>3 DEF Send, LineInv, UserTypes
  <2>4. CASE BootPoll
    BY <2>4 DEF BootPoll, LineInv, UserTypes, bvars, script
  <2> QED
    BY <2>1, <2>2, <2>3, <2>4
<1> QED
  BY <1>2, <1>3 DEF LineInv

\* The loop of the loader does not touch the line.
LEMMA LoaderLine ==
    ASSUME LineInv, ReadSize \/ ReadKernel \/ Jump
    PROVE  LineInv'
<1>1. /\ UNCHANGED line /\ UNCHANGED script
      /\ bpc \in {"size", "load"} /\ bpc' \in {"size", "load", "jump", "fault"}
      /\ rx' = rx \/ (rx # <<>> /\ rx' = Tail(rx))
  BY DEF ReadSize, StoreDigit, ReadKernel, Jump, Received
<1>2. LineTypes' /\ Shown' /\ Obeyed'
  BY <1>1 DEF LineInv, LineTypes, Shown, Obeyed, line
<1>3. rx \in Seq(Code) => rx' \in Seq(Code)
  BY <1>1
<1>4. UserTypes'
  BY <1>1, <1>3 DEF LineInv, UserTypes, script
<1> QED
  BY <1>2, <1>4 DEF LineInv

\* The machine is reset.
LEMMA RebootLine ==
    ASSUME LineInv, Reboot
    PROVE  LineInv'
<1>1. /\ buffer' \in [1 .. MAX_BUFFER_LEN -> Byte]
      /\ counter' = 0 /\ screen' = <<>> /\ over' = FALSE /\ bpc' = "shell"
  BY EmptyBufferType DEF Reboot
<1>2. UserTypes'
  BY DEF Reboot, uart_init, script, LineInv, UserTypes
<1> QED
  BY <1>1, <1>2, FreshLineNext DEF LineInv

\* A backspace.
LEMMA EraseLine ==
    ASSUME LineInv, Erase, UNCHANGED <<bpc, buffer, over>>, bpc = "shell", UserTypes'
    PROVE  LineInv'
<1> USE BootloaderAssumption DEF LineInv
<1>1. CASE counter > 0
  <2>1. /\ counter' = counter - 1 /\ screen' = Front(screen)
        /\ Len(screen) \in Nat \ {0}
    BY <1>1 DEF Erase, RubOut, LineTypes
  <2>2. /\ screen' \in Seq(Byte) /\ Len(screen') = Len(screen) - 1
        /\ \A i \in 1 .. Len(screen) - 1 : screen'[i] = screen[i]
    <3>1. screen \in Seq(Byte)
      BY DEF LineTypes
    <3> QED
      BY <2>1, <3>1, FrontFacts
  <2>3. LineTypes'
    BY <1>1, <2>1, <2>2 DEF LineTypes
  <2>4. Shown'
    <3>1. ASSUME ~over
          PROVE  /\ Len(screen') = counter'
                 /\ \A i \in 1 .. counter' : screen'[i] = buffer[i] /\ screen'[i] # NUL
      <4>1. /\ Len(screen) = counter /\ counter \in Nat
            /\ \A i \in 1 .. counter : screen[i] = buffer[i] /\ screen[i] # NUL
        BY <3>1 DEF Shown, LineTypes
      <4>2. \A i \in 1 .. counter - 1 : i \in 1 .. counter
        BY <4>1
      <4> QED
        BY <2>1, <2>2, <4>1, <4>2
    <3> QED
      BY <3>1 DEF Shown
  <2> QED
    BY <2>3, <2>4 DEF Obeyed
<1>2. CASE ~(counter > 0)
  BY <1>2 DEF Erase, LineTypes, Shown, Obeyed
<1> QED
  BY <1>1, <1>2

\* A character.
LEMMA StoreLine ==
    ASSUME LineInv, NEW c \in Code, Store(c), UNCHANGED bpc, bpc = "shell", UserTypes'
    PROVE  LineInv'
<1> USE BootloaderAssumption DEF LineInv
<1>0. c \in Byte /\ c # NUL
  BY DEF Code, Byte, NUL
<1>1. /\ screen' = Append(screen, c) /\ screen \in Seq(Byte) /\ c \in Byte /\ c # NUL
      /\ Len(screen) \in Nat
  BY <1>0 DEF Store, uart_send, LineTypes
<1>2. /\ screen' \in Seq(Byte) /\ Len(screen') = Len(screen) + 1
      /\ screen'[Len(screen) + 1] = c
      /\ \A i \in 1 .. Len(screen) : screen'[i] = screen[i]
  BY <1>1
<1>3. CASE counter < MAX_BUFFER_LEN
  <2>1. /\ buffer' = [buffer EXCEPT ![counter + 1] = c] /\ counter' = counter + 1
        /\ over' = over
    BY <1>3 DEF Store
  <2>2. LineTypes'
    BY <1>1, <1>2, <1>3, <2>1 DEF LineTypes
  <2>3. Shown'
    <3> SUFFICES ASSUME ~over PROVE (Len(screen) = counter)' /\ \A i \in 1 .. counter + 1 :
                                      screen'[i] = buffer'[i] /\ screen'[i] # NUL
      BY <2>1 DEF Shown
    <3>1. Len(screen) = counter /\ counter \in Nat /\ counter + 1 \in 1 .. MAX_BUFFER_LEN
      BY <1>3 DEF Shown, LineTypes
    <3>2. ASSUME NEW i \in 1 .. counter + 1
          PROVE  screen'[i] = buffer'[i] /\ screen'[i] # NUL
      <4>1. CASE i = counter + 1
        BY <1>1, <1>2, <2>1, <3>1, <4>1 DEF LineTypes
      <4>2. CASE i \in 1 .. counter
        BY <1>2, <2>1, <3>1, <4>2 DEF Shown, LineTypes
      <4> QED
        BY <3>1, <3>2, <4>1, <4>2
    <3> QED
      BY <1>2, <2>1, <3>1, <3>2
  <2> QED
    BY <2>2, <2>3 DEF Obeyed
<1>4. CASE ~(counter < MAX_BUFFER_LEN)
  BY <1>2, <1>4 DEF Store, LineTypes, Shown, Obeyed
<1> QED
  BY <1>3, <1>4

\* The end of the line.  The command that is found is what the screen shows.
LEMMA EnterLine ==
    ASSUME LineInv, Enter, bpc = "shell", UserTypes'
    PROVE  LineInv'
<1> USE BootloaderAssumption
<1> DEFINE text == [buffer EXCEPT ![counter + 1] = NUL]
<1>0. LineTypes /\ Shown
  BY DEF LineInv
<1>1. CASE bpc' = "shell"
  <2>1. /\ buffer' = strset(buffer, NUL, MAX_BUFFER_LEN)
        /\ counter' = 0 /\ screen' = <<>> /\ over' = FALSE
    BY <1>1 DEF Enter
  <2>2. buffer' \in [1 .. MAX_BUFFER_LEN -> Byte]
    BY <1>0, <2>1 DEF strset, LineTypes, Byte, NUL
  <2> QED
    BY <1>1, <2>1, <2>2, FreshLineNext DEF LineInv
<1>2. CASE bpc' # "shell"
  <2>1. /\ counter # MAX_BUFFER_LEN /\ bpc' = Command(text) /\ buffer' = text
        /\ UNCHANGED <<counter, screen, over>>
    BY <1>2 DEF Enter
  <2>2. /\ counter \in 0 .. MAX_BUFFER_LEN - 1 /\ counter + 1 \in 1 .. MAX_BUFFER_LEN
        /\ text \in [1 .. MAX_BUFFER_LEN -> Byte] /\ text[counter + 1] = NUL
        /\ \A i \in 1 .. counter : text[i] = buffer[i]
    BY <1>0, <2>1, SMTT(60) DEF LineTypes, Byte, NUL
  <2> HIDE DEF text
  <2>3. LineTypes'
    BY <1>0, <2>1, <2>2 DEF LineTypes
  <2>4. Shown'
    BY <1>0, <2>1, <2>2 DEF Shown
  <2>5. \/ bpc' = "reset" /\ strcmp(text, REBOOT) = 0
        \/ bpc' = "size" /\ strcmp(text, LOADKERNEL) = 0
    BY <1>2, <2>1 DEF Command
  <2>6. ASSUME ~over, NEW name \in Seq(Code), strcmp(text, name) = 0
        PROVE  screen = name
    <3>1. Len(screen) = counter /\ \A i \in 1 .. counter : screen[i] = text[i] /\ text[i] # NUL
      <4>1. Len(screen) = counter /\ \A i \in 1 .. counter : screen[i] = buffer[i] /\ screen[i] # NUL
        BY <1>0, <2>6 DEF Shown
      <4>2. ASSUME NEW i \in 1 .. counter PROVE text[i] = buffer[i]
        BY ONLY <2>2, <4>2
      <4> QED
        BY ONLY <4>1, <4>2, Zenon
    <3>3. screen \in Seq(Byte) /\ name \in Seq(Code) /\ MAX_BUFFER_LEN \in Nat
      BY <1>0 DEF LineTypes
    <3>2. Len(name) = counter /\ \A i \in 1 .. counter : name[i] = text[i]
      <4>1. /\ MAX_BUFFER_LEN \in Nat /\ counter \in 0 .. MAX_BUFFER_LEN - 1
            /\ text \in [1 .. MAX_BUFFER_LEN -> Byte] /\ text[counter + 1] = NUL
            /\ name \in Seq(Code) /\ strcmp(text, name) = 0
        BY ONLY <2>2, <2>6, <3>3, Zenon
      <4>2. \A i \in 1 .. counter : text[i] # NUL
        BY ONLY <3>1, Zenon
      <4> QED
        BY ONLY <4>1, <4>2, StrcmpEqual, Zenon
    <3>4. DOMAIN screen = 1 .. counter /\ DOMAIN name = 1 .. counter
      BY <3>1, <3>2, <3>3
    <3> QED
      BY ONLY <3>1, <3>2, <3>3, <3>4, SameCharacters
  <2>7. Obeyed'
    <3>1. REBOOT \in Seq(Code) /\ LOADKERNEL \in Seq(Code)
      BY DEF Code
    <3> QED
      BY <2>1, <2>5, <2>6, <3>1 DEF Obeyed
  <2> QED
    BY <2>3, <2>4, <2>7 DEF LineInv
<1> QED
  BY <1>1, <1>2

\* The shell takes a character.
LEMMA ControllerLine ==
    ASSUME LineInv, boot_controller
    PROVE  LineInv'
<1> DEFINE c == uart_getc
<1>1. bpc = "shell" /\ rx # <<>> /\ rx' = Tail(rx) /\ UNCHANGED script
  BY DEF boot_controller, Received
<1>2. ~started /\ rx \in Seq(Code) /\ host = <<>>
  BY <1>1 DEF LineInv, UserTypes
<1>3. Head(rx) \in Code /\ rx' \in Seq(Code)
  BY <1>1, <1>2
<1>4. c \in Code
  BY <1>3 DEF uart_getc, LF, Code
<1>5. UserTypes'
  BY <1>1, <1>2, <1>3 DEF UserTypes, script
<1> HIDE DEF c
<1>6. CASE UNCHANGED <<bpc, line>>
  BY <1>5, <1>6 DEF LineInv, LineTypes, Shown, Obeyed, line
<1>7. CASE Erase /\ UNCHANGED <<bpc, buffer, over>>
  BY <1>1, <1>5, <1>7, EraseLine
<1>8. CASE Store(c) /\ UNCHANGED bpc
  BY <1>1, <1>4, <1>5, <1>8, StoreLine
<1>9. CASE Enter
  BY <1>1, <1>5, <1>9, EnterLine
<1> QED
  BY <1>6, <1>7, <1>8, <1>9 DEF boot_controller, c

\* Every step keeps the invariant of the line.
LEMMA NextLineInv ==
    ASSUME NUL \notin Keys
    PROVE  LineInv /\ [BootNext]_bvars => LineInv'
<1> SUFFICES ASSUME LineInv, [BootNext]_bvars PROVE LineInv'
  OBVIOUS
<1>1. CASE UNCHANGED bvars
  BY <1>1 DEF LineInv, LineTypes, UserTypes, Shown, Obeyed, bvars, line, script
<1> QED
  BY <1>1, SerialLine, LoaderLine, RebootLine, ControllerLine DEF BootNext, BootStep

\* The command that runs is the one the screen shows, whatever was typed and erased,
\* as long as no more was typed than the line holds (the rest is echoed but not
\* stored, bootloader/src/shell.c:69), and as long as NUL is not a key (strcmp would
\* end there, and the screen would not show it).
THEOREM CommandShown ==
    ASSUME NUL \notin Keys
    PROVE  BootSpec => []LineShown
<1>1. LineInv => LineShown
  <2> SUFFICES ASSUME LineInv, ~over PROVE screen = Start(buffer, counter)
    BY DEF LineShown, LineInv, Obeyed
  <2>1. /\ buffer \in Seq(Byte) /\ Len(buffer) = MAX_BUFFER_LEN
        /\ counter \in 0 .. MAX_BUFFER_LEN /\ screen \in Seq(Byte)
    BY BootloaderAssumption DEF LineInv, LineTypes
  <2>2. Start(buffer, counter) = SubSeq(buffer, 1, counter)
    BY <2>1, BootloaderAssumption DEF Start
  <2>3. /\ SubSeq(buffer, 1, counter) \in Seq(Byte) /\ Len(SubSeq(buffer, 1, counter)) = counter
        /\ \A i \in 1 .. counter : SubSeq(buffer, 1, counter)[i] = buffer[i]
    BY <2>1, BootloaderAssumption
  <2>4. Len(screen) = counter /\ \A i \in 1 .. counter : screen[i] = buffer[i]
    BY DEF LineInv, Shown
  <2>5. PICK s \in Seq(Byte) : s = SubSeq(buffer, 1, counter)
    BY <2>3
  <2>6. DOMAIN s = 1 .. counter /\ DOMAIN screen = 1 .. counter
    BY <2>1, <2>3, <2>4, <2>5
  <2>7. screen = s
    BY ONLY <2>1, <2>3, <2>4, <2>5, <2>6, SameCharacters
  <2> QED
    BY <2>2, <2>5, <2>7
<1> QED
  BY <1>1, InitLineInv, NextLineInv, PTL DEF BootSpec

-----------------------------------------------------------------------------
(***************************************************************************)
(* The kernel.  What kernel2Uart.py sends is the stream of the size, a     *)
(* line feed and the image.                                                *)
(***************************************************************************)
SizeText == itoa(Len(Image), 1)

\* The length of the stream up to and with the line feed, and of all of it.
SizeEnd == Len(SizeText) + 1
StreamEnd == SizeEnd + Len(Image)

Stream == SizeText \o <<LF>> \o Image

\* What has been read of the stream.
Consumed == IF bpc = "size" THEN Len(buff) ELSE SizeEnd + Len(kernel)

\* What is still to come, in the receiver or in the script.
Unread == Len(rx) + Len(host)

LoadTypes ==
    /\ rx \in Seq(Byte) /\ buff \in Seq(Byte) /\ kernel \in Seq(Byte) /\ host \in Seq(Byte)
    /\ lost \subseteq {"size", "image"}

Untouched ==
    /\ bpc \in {"shell", "reset"} => buff = <<>> /\ ~started
    /\ bpc \in {"shell", "reset", "size"} => kernel = <<>>
    /\ ~started => host = <<>> /\ lost = {}

HostSends ==
    /\ Len(host) <= StreamEnd
    /\ \A i \in 1 .. Len(host) : host[i] = Stream[StreamEnd - Len(host) + i]

\* As long as nothing of it is lost the stream is contiguous; what is lost of the
\* image is missing at the end.
Contiguous ==
    /\ lost = {} => Unread = StreamEnd - Consumed
    /\ lost # {} => Unread < StreamEnd - Consumed /\ Len(rx) >= SizeEnd - Consumed
    /\ \A i \in 1 .. Len(rx) :
         lost = {} \/ Consumed + i <= SizeEnd => rx[i] = Stream[Consumed + i]

SizeRead ==
    bpc = "size" => /\ Len(buff) < SizeEnd
                    /\ \A i \in 1 .. Len(buff) : buff[i] = SizeText[i]

KernelRead ==
    bpc \in {"load", "jump"} =>
      /\ temp = Len(Image) - Len(kernel)
      /\ lost = {} => \A i \in 1 .. Len(kernel) : kernel[i] = Translated[i]
      /\ bpc = "jump" => temp = 0

Loading == HostSends /\ Contiguous /\ SizeRead /\ KernelRead

LoadInv ==
    /\ LoadTypes /\ Untouched
    /\ started /\ "size" \notin lost /\ bpc # "fault" =>
         Loading

\* The digits that itoa() writes can be read back by atoi().
SizeReadable == SizeText \in Seq(Digits) /\ atoi(SizeText) = Len(Image)

LEMMA SizeIsReadable == SizeReadable
<1>1. Len(Image) \in Nat /\ 1 \in Nat
  BY BootloaderAssumption
<1>2. PICK l : Denotes(l, Len(Image)) /\ itoa(Len(Image), 1) = Reverse(l)
  BY <1>1, ItoaWrites
<1>3. l \in Seq(Digits)
  BY <1>2 DEF Denotes
<1>4. Reverse(l) \in Seq(Digits) /\ atoi(Reverse(l)) = Len(Image)
  BY <1>1, <1>2, <1>3, ReversedDigits, AtoiReads
<1> QED
  BY <1>2, <1>4 DEF SizeReadable, SizeText

\* Where the parts of the stream are.
LEMMA StreamFacts ==
    /\ SizeEnd \in Nat \ {0} /\ Len(Image) \in Nat /\ StreamEnd \in Nat
    /\ SizeEnd = Len(SizeText) + 1 /\ StreamEnd = SizeEnd + Len(Image)
    /\ Stream \in Seq(Byte) /\ Len(Stream) = StreamEnd
    /\ \A i \in 1 .. SizeEnd - 1 : Stream[i] = SizeText[i] /\ SizeText[i] \in Digits
    /\ Stream[SizeEnd] = LF
    /\ \A i \in 1 .. Len(Image) : Stream[SizeEnd + i] = Image[i] /\ Image[i] \in Byte
<1>1. PICK m \in Nat : m = Len(SizeText)
  BY SizeIsReadable DEF SizeReadable
<1>2. Image \in Seq(Byte) /\ Len(Image) \in Nat
  BY BootloaderAssumption DEF Byte
<1>3. SizeText \in Seq(Byte) /\ \A i \in 1 .. m : SizeText[i] \in Digits
  <2>1. \A i \in 1 .. m : SizeText[i] \in Digits
    BY <1>1, SizeIsReadable DEF SizeReadable
  <2>2. \A c \in Digits : c \in Byte
    BY DEF Digits, Byte, Zero
  <2>3. SizeText \in [1 .. m -> Digits]
    BY <1>1, SizeIsReadable DEF SizeReadable
  <2>4. SizeText \in [1 .. m -> Byte]
    BY <2>2, <2>3
  <2> QED
    BY <1>1, <2>1, <2>4
<1>4. <<LF>> \in Seq(Byte) /\ Len(<<LF>>) = 1 /\ <<LF>>[1] = LF
  <2>1. LF \in Byte
    BY DEF LF, Byte
  <2> QED
    BY <2>1
<1>5. PICK a \in Seq(Byte) : a = SizeText \o <<LF>>
  BY <1>3, <1>4, ConcatProperties
<1>6. /\ Len(a) = m + 1
      /\ \A i \in 1 .. m : a[i] = SizeText[i]
      /\ a[m + 1] = LF
  BY <1>1, <1>3, <1>4, <1>5
<1>7. PICK b \in Seq(Byte) : b = a \o Image
  BY <1>2, <1>5, ConcatProperties
<1>8. /\ Len(b) = m + 1 + Len(Image)
      /\ \A i \in 1 .. m + 1 : b[i] = a[i]
      /\ \A i \in 1 .. Len(Image) : b[m + 1 + i] = Image[i]
  <2>1. /\ Len(b) = Len(a) + Len(Image)
        /\ \A i \in 1 .. Len(a) : b[i] = a[i]
        /\ \A i \in 1 .. Len(Image) : b[Len(a) + i] = Image[i]
    BY <1>2, <1>5, <1>7
  <2> QED
    BY <1>6, <2>1
<1>9. Stream = b
  BY <1>5, <1>7 DEF Stream
<1>10. SizeEnd = m + 1 /\ StreamEnd = m + 1 + Len(Image)
  BY <1>1 DEF SizeEnd, StreamEnd
<1>11. \A i \in 1 .. m : b[i] = SizeText[i]
  BY <1>6, <1>8
<1>12. b[m + 1] = LF
  BY <1>6, <1>8
<1>13. \A i \in 1 .. Len(Image) : Image[i] \in Byte
  BY <1>2
<1> QED
  BY <1>1, <1>2, <1>3, <1>7, <1>8, <1>9, <1>10, <1>11, <1>12, <1>13

LEMMA InitLoadInv == BootInit => LoadInv
<1> SUFFICES ASSUME BootInit PROVE LoadInv
  OBVIOUS
<1>1. <<>> \in Seq(Byte)
  OBVIOUS
<1>2. LoadTypes
  BY <1>1 DEF BootInit, uart_init, LoadTypes
<1>3. Untouched
  BY DEF BootInit, Untouched
<1>4. started = FALSE
  BY DEF BootInit
<1> QED
  BY <1>2, <1>3, <1>4 DEF LoadInv

\* Nothing has been sent: there is nothing to show of the stream.
LEMMA BeforeScript ==
    ASSUME LoadInv, ~started, rx' \in Seq(Byte), UNCHANGED <<script, buff, kernel>>,
           bpc' = bpc \/ (bpc \in {"shell", "reset"} /\ bpc' \in {"shell", "reset", "size"})
    PROVE  LoadInv'
<1>1. LoadTypes' /\ started' = started
  BY DEF LoadInv, LoadTypes, script
<1>2. Untouched'
  BY DEF LoadInv, Untouched, script
<1> QED
  BY <1>1, <1>2 DEF LoadInv

LEMMA TypeLoad ==
    ASSUME LoadInv, Type
    PROVE  LoadInv'
<1>1. ~started /\ UNCHANGED <<script, buff, kernel>> /\ bpc' = bpc
  BY DEF Type, loading
<1>2. rx' \in Seq(Byte)
  <2>1. PICK c \in Keys : Arrives(c)
    BY DEF Type
  <2>2. c \in Byte
    BY BootloaderAssumption DEF Byte
  <2> QED
    BY <2>1, <2>2 DEF Arrives, LoadInv, LoadTypes
<1> QED
  BY <1>1, <1>2, BeforeScript

\* The shell takes a character, or the machine is reset.
LEMMA ShellLoad ==
    ASSUME LoadInv, boot_controller \/ Reboot
    PROVE  LoadInv'
<1>1. /\ bpc \in {"shell", "reset"} /\ UNCHANGED <<script, buff, kernel>>
      /\ rx' = <<>> \/ (rx # <<>> /\ rx' = Tail(rx))
  BY DEF boot_controller, Reboot, Received, loading, uart_init
<1>2. bpc' \in {"shell", "reset", "size"}
  BY <1>1 DEF boot_controller, Reboot, Enter, Command
<1>3. ~started
  BY <1>1 DEF LoadInv, Untouched
<1>4. rx \in Seq(Byte)
  BY DEF LoadInv, LoadTypes
<1>5. rx' \in Seq(Byte)
  <2>1. CASE rx' = <<>>
    BY <2>1
  <2>2. CASE rx # <<>> /\ rx' = Tail(rx)
    BY <1>4, <2>2
  <2> QED
    BY <1>1, <2>1, <2>2
<1> QED
  BY <1>1, <1>2, <1>3, <1>5, BeforeScript

\* The script starts with the whole stream ahead.
LEMMA StartLoad ==
    ASSUME LoadInv, StartScript
    PROVE  LoadInv'
<1>1. /\ bpc = "size" /\ bpc' = "size" /\ ~started /\ started'
      /\ buff = <<>> /\ buff' = <<>> /\ rx = <<>> /\ rx' = <<>>
      /\ kernel' = kernel /\ lost' = lost
  BY DEF StartScript, loading
<1>2. host' = Stream
  BY DEF StartScript, Stream, SizeText
<1>3. kernel = <<>> /\ lost = {}
  BY <1>1 DEF LoadInv, Untouched
<1>4. Len(<<>>) = 0 /\ <<>> \in Seq(Byte)
  OBVIOUS
<1>5. LoadTypes'
  BY <1>1, <1>2, <1>3, <1>4, StreamFacts DEF LoadTypes
<1>6. Untouched'
  BY <1>1, <1>3 DEF Untouched
<1>7. HostSends'
  BY <1>2, StreamFacts DEF HostSends, StreamEnd, SizeEnd
<1>8. Contiguous'
  <2>1. Unread' = StreamEnd /\ Consumed' = 0
    BY <1>1, <1>2, <1>4, StreamFacts DEF Unread, Consumed
  <2> QED
    BY <1>1, <1>3, <1>4, <2>1, StreamFacts DEF Contiguous, StreamEnd, SizeEnd
<1>9. SizeRead' /\ KernelRead'
  BY <1>1, <1>4, StreamFacts DEF SizeRead, KernelRead, SizeEnd
<1> QED
  BY <1>5, <1>6, <1>7, <1>8, <1>9 DEF LoadInv, Loading

\* The types of the numbers that the invariant relates.
LEMMA LoadNumbers ==
    ASSUME LoadInv
    PROVE  /\ rx \in Seq(Byte) /\ host \in Seq(Byte) /\ buff \in Seq(Byte) /\ kernel \in Seq(Byte)
           /\ Len(rx) \in Nat /\ Len(host) \in Nat /\ Len(buff) \in Nat /\ Len(kernel) \in Nat
           /\ Consumed \in Nat /\ Unread = Len(rx) + Len(host)
  BY StreamFacts DEF LoadInv, LoadTypes, Consumed, Unread

\* What is taken from the front of a queue.
LEMMA QueueTail ==
    ASSUME NEW S, NEW q \in Seq(S), q # <<>>
    PROVE  /\ Len(q) \in Nat \ {0} /\ Head(q) = q[1] /\ Head(q) \in S
           /\ Tail(q) \in Seq(S) /\ Len(Tail(q)) = Len(q) - 1
           /\ \A i \in 1 .. Len(q) - 1 : Tail(q)[i] = q[i + 1]
  OBVIOUS

\* A byte of the stream arrives, or is lost at a full receiver.
LEMMA SendLoad ==
    ASSUME LoadInv, Send
    PROVE  LoadInv'
<1>b. /\ rx \in Seq(Byte) /\ host \in Seq(Byte) /\ Len(rx) \in Nat /\ Len(host) \in Nat
      /\ Consumed \in Nat /\ Unread = Len(rx) + Len(host)
  BY LoadNumbers
<1>c. /\ SizeEnd \in Nat \ {0} /\ Len(Image) \in Nat /\ StreamEnd \in Nat
      /\ StreamEnd = SizeEnd + Len(Image)
  BY StreamFacts
<1> USE <1>b, <1>c
<1>0. /\ host # <<>> /\ host' = Tail(host) /\ Arrives(Head(host))
      /\ lost' = IF Len(rx) < FifoDepth THEN lost
                 ELSE lost \cup {IF Len(host) > Len(Image) THEN "size" ELSE "image"}
      /\ UNCHANGED <<bpc, buff, temp, kernel, started>>
  BY DEF Send, loading
<1>1. /\ Len(host) \in Nat \ {0} /\ Head(host) = host[1] /\ Head(host) \in Byte
      /\ host' \in Seq(Byte) /\ Len(host') = Len(host) - 1
      /\ \A i \in 1 .. Len(host) - 1 : host'[i] = host[i + 1]
  BY <1>0, QueueTail
<1>2. rx' \in Seq(Byte)
  BY <1>0, <1>1 DEF Arrives
<1>3. LoadTypes'
  BY <1>0, <1>1, <1>2 DEF LoadInv, LoadTypes
<1>4. started
  BY <1>0 DEF LoadInv, Untouched
<1>5. Untouched'
  BY <1>0, <1>4 DEF LoadInv, Untouched
<1>6. ASSUME "size" \notin lost', bpc # "fault" PROVE Loading'
  <2>1. Loading
    BY <1>0, <1>4, <1>6 DEF LoadInv
  <2>2. Consumed' = Consumed
    BY <1>0 DEF Consumed, SizeEnd, SizeText
  <2>3. HostSends'
    <3>1. /\ Len(host) <= StreamEnd
          /\ \A i \in 1 .. Len(host) : host[i] = Stream[StreamEnd - Len(host) + i]
      BY <2>1 DEF Loading, HostSends
    <3>2. ASSUME NEW i \in 1 .. Len(host')
          PROVE  host'[i] = Stream[StreamEnd - Len(host') + i]
      <4>1. i + 1 \in 1 .. Len(host) /\ i \in 1 .. Len(host) - 1
        BY <1>1
      <4>2. StreamEnd - Len(host) + (i + 1) = StreamEnd - Len(host') + i
        BY <1>1, <4>1
      <4>3. host[i + 1] = Stream[StreamEnd - Len(host) + (i + 1)]
        BY <3>1, <4>1
      <4> QED
        BY <1>1, <4>1, <4>2, <4>3
    <3> QED
      <4>1. Len(host') <= StreamEnd
        BY <1>1, <3>1
      <4> QED
        BY <3>2, <4>1 DEF HostSends
  <2>4. Contiguous'
    <3>1. /\ lost = {} => Unread = StreamEnd - Consumed
          /\ lost # {} => Unread < StreamEnd - Consumed /\ Len(rx) >= SizeEnd - Consumed
          /\ \A i \in 1 .. Len(rx) :
               lost = {} \/ Consumed + i <= SizeEnd => rx[i] = Stream[Consumed + i]
      BY <2>1 DEF Loading, Contiguous
    <3>2. host[1] = Stream[StreamEnd - Len(host) + 1]
      <4>1. 1 \in 1 .. Len(host)
        BY <1>1
      <4> QED
        BY <2>1, <4>1 DEF Loading, HostSends
    <3>3. CASE Len(rx) < FifoDepth
      <4>1. rx' = Append(rx, Head(host)) /\ lost' = lost
        BY <1>0, <3>3 DEF Arrives
      <4>2. /\ Len(rx') = Len(rx) + 1 /\ rx'[Len(rx) + 1] = host[1]
            /\ \A i \in 1 .. Len(rx) : rx'[i] = rx[i]
        BY <1>1, <4>1
      <4>3. Unread' = Unread
        BY <1>1, <4>2 DEF Unread
      <4>4. ASSUME NEW i \in 1 .. Len(rx'), lost = {} \/ Consumed + i <= SizeEnd
            PROVE  rx'[i] = Stream[Consumed + i]
        <5>1. CASE i \in 1 .. Len(rx)
          BY <3>1, <4>2, <4>4, <5>1
        <5>2. CASE i = Len(rx) + 1
          <6>1. lost = {}
            BY <3>1, <4>4, <5>2
          <6>2. Consumed + i = StreamEnd - Len(host) + 1
            <7>1. Unread = StreamEnd - Consumed
              BY ONLY <3>1, <6>1
            <7> QED
              BY ONLY <1>b, <1>c, <5>2, <7>1, SMTT(60)
          <6> QED
            BY <3>2, <4>2, <5>2, <6>2
        <5> QED
          BY <4>2, <5>1, <5>2
      <4>5. lost' # {} => Len(rx') >= SizeEnd - Consumed
        BY <3>1, <4>1, <4>2
      <4> QED
        BY <2>2, <3>1, <4>1, <4>3, <4>4, <4>5 DEF Contiguous
    <3>4. CASE ~(Len(rx) < FifoDepth)
      <4>1. rx' = rx /\ lost' # {} /\ Len(host) <= Len(Image)
        BY <1>0, <1>6, <3>4 DEF Arrives
      <4>2. Unread' = Unread - 1
        BY <1>1, <4>1 DEF Unread
      <4>3. Unread' < StreamEnd - Consumed /\ Len(rx) >= SizeEnd - Consumed
        BY <3>1, <4>1, <4>2
      <4> QED
        BY <2>2, <3>1, <4>1, <4>3 DEF Contiguous
    <3> QED
      BY <3>3, <3>4
  <2>5. SizeRead'
    BY <1>0, <2>1 DEF Loading, SizeRead, SizeEnd, SizeText
  <2>6. KernelRead'
    <3>1. lost' = {} => lost = {}
      BY <1>0
    <3> QED
      BY <1>0, <2>1, <3>1 DEF Loading, KernelRead, Translated
  <2> QED
    BY <2>3, <2>4, <2>5, <2>6 DEF Loading
<1> QED
  BY <1>0, <1>3, <1>5, <1>6 DEF LoadInv

\* The loader has taken the first byte of the receiver.
LEMMA TakeLoad ==
    ASSUME LoadInv, Loading, rx # <<>>, rx' = Tail(rx), UNCHANGED <<host, lost>>,
           Consumed' = Consumed + 1
    PROVE  /\ HostSends' /\ Contiguous'
           /\ lost = {} \/ Consumed < SizeEnd => Head(rx) = Stream[Consumed + 1]
           /\ rx' \in Seq(Byte) /\ Head(rx) \in Byte
           /\ Consumed < StreamEnd
<1>b. /\ rx \in Seq(Byte) /\ host \in Seq(Byte) /\ Len(rx) \in Nat /\ Len(host) \in Nat
      /\ Consumed \in Nat /\ Unread = Len(rx) + Len(host)
  BY LoadNumbers
<1>c. /\ SizeEnd \in Nat \ {0} /\ Len(Image) \in Nat /\ StreamEnd \in Nat
      /\ StreamEnd = SizeEnd + Len(Image)
  BY StreamFacts
<1> USE <1>b, <1>c
<1>1. /\ Len(rx) \in Nat \ {0} /\ Head(rx) = rx[1] /\ Head(rx) \in Byte
      /\ rx' \in Seq(Byte) /\ Len(rx') = Len(rx) - 1
      /\ \A i \in 1 .. Len(rx) - 1 : rx'[i] = rx[i + 1]
  BY QueueTail
<1>2. /\ lost = {} => Unread = StreamEnd - Consumed
      /\ lost # {} => Unread < StreamEnd - Consumed /\ Len(rx) >= SizeEnd - Consumed
      /\ \A i \in 1 .. Len(rx) :
           lost = {} \/ Consumed + i <= SizeEnd => rx[i] = Stream[Consumed + i]
  BY DEF Loading, Contiguous
<1>3. HostSends'
  BY DEF Loading, HostSends
<1>4. Unread' = Unread - 1
  BY <1>1 DEF Unread
<1>5. ASSUME NEW i \in 1 .. Len(rx'), lost = {} \/ Consumed + 1 + i <= SizeEnd
      PROVE  rx'[i] = Stream[Consumed + 1 + i]
  <2>1. i + 1 \in 1 .. Len(rx) /\ i \in 1 .. Len(rx) - 1
    BY <1>1
  <2>2. Consumed + (i + 1) = Consumed + 1 + i
    BY <2>1
  <2>3. rx[i + 1] = Stream[Consumed + (i + 1)]
    BY <1>2, <1>5, <2>1, <2>2
  <2> QED
    BY <1>1, <2>1, <2>2, <2>3
<1>6. /\ lost = {} => Unread' = StreamEnd - (Consumed + 1)
      /\ lost # {} => Unread' < StreamEnd - (Consumed + 1) /\ Len(rx') >= SizeEnd - (Consumed + 1)
  BY <1>1, <1>2, <1>4
<1>7. Contiguous'
  BY <1>5, <1>6 DEF Contiguous
<1>8. lost = {} \/ Consumed < SizeEnd => Head(rx) = Stream[Consumed + 1]
  BY <1>1, <1>2
<1>9. Consumed < StreamEnd
  BY <1>1, <1>2
<1> QED
  BY <1>1, <1>3, <1>7, <1>8, <1>9

\* The size is read, digit by digit, up to the line feed.
LEMMA ReadSizeLoad ==
    ASSUME LoadInv, ReadSize
    PROVE  LoadInv'
<1> DEFINE c == uart_getc
<1>b. /\ rx \in Seq(Byte) /\ buff \in Seq(Byte) /\ kernel \in Seq(Byte)
      /\ Len(buff) \in Nat /\ Len(kernel) \in Nat /\ Consumed \in Nat
  BY LoadNumbers
<1>c. /\ SizeEnd \in Nat \ {0} /\ Len(Image) \in Nat /\ SizeEnd = Len(SizeText) + 1
      /\ \A i \in 1 .. SizeEnd - 1 : Stream[i] = SizeText[i] /\ SizeText[i] \in Digits
      /\ Stream[SizeEnd] = LF
  BY StreamFacts
<1>1. /\ bpc = "size" /\ rx # <<>> /\ rx' = Tail(rx) /\ kernel' = kernel
      /\ UNCHANGED <<host, started, lost>>
      /\ \/ bpc' = "fault" /\ buff' \in {buff, Append(buff, c)}
         \/ c = LF /\ bpc' = "load" /\ temp' = KernelSize(buff) /\ UNCHANGED buff
         \/ c # LF /\ buff' = Append(buff, c) /\ UNCHANGED <<bpc, temp>>
  BY DEF ReadSize, StoreDigit, Received, script
<1>2. kernel = <<>> /\ Len(kernel) = 0
  BY <1>1 DEF LoadInv, Untouched
<1>3. Head(rx) \in Byte /\ rx' \in Seq(Byte)
  BY <1>1, <1>b, QueueTail
<1>4. c \in Byte
  BY <1>3 DEF uart_getc, LF, Byte
<1>5. c = IF Head(rx) = CR THEN LF ELSE Head(rx)
  BY DEF uart_getc
<1> HIDE DEF c
<1>6. LoadTypes'
  <2>1. buff' = buff \/ buff' = Append(buff, c)
    BY <1>1
  <2>2. buff' \in Seq(Byte)
    BY <1>4, <1>b, <2>1
  <2>3. LoadTypes
    BY DEF LoadInv
  <2> QED
    BY <1>1, <1>3, <2>2, <2>3 DEF LoadTypes
<1>7. Untouched'
  BY <1>1, <1>2 DEF LoadInv, Untouched
<1>8. ASSUME started, "size" \notin lost, bpc' # "fault" PROVE Loading'
  <2>1. Loading /\ Consumed = Len(buff)
    BY <1>1, <1>8 DEF LoadInv, Consumed
  <2>2. Len(buff) < SizeEnd /\ \A i \in 1 .. Len(buff) : buff[i] = SizeText[i]
    BY <1>1, <2>1 DEF Loading, SizeRead
  <2>3. CASE c # LF /\ buff' = Append(buff, c) /\ UNCHANGED <<bpc, temp>>
    <3>1. /\ Len(buff') = Len(buff) + 1 /\ buff'[Len(buff) + 1] = c
          /\ \A i \in 1 .. Len(buff) : buff'[i] = buff[i]
      BY <1>4, <1>b, <2>3
    <3>2. Consumed' = Consumed + 1
      BY <1>1, <2>1, <2>3, <3>1 DEF Consumed
    <3>3. HostSends' /\ Contiguous' /\ Head(rx) = Stream[Len(buff) + 1]
      BY <1>1, <2>1, <2>2, <3>2, TakeLoad
    <3>4. Len(buff) + 1 # SizeEnd
      BY <1>5, <1>c, <2>3, <3>3 DEF LF, CR
    <3>5. Len(buff) + 1 \in 1 .. SizeEnd - 1
      BY <1>b, <1>c, <2>2, <3>4
    <3>6. Head(rx) = SizeText[Len(buff) + 1] /\ Head(rx) # CR
      <4>1. Head(rx) = SizeText[Len(buff) + 1] /\ Head(rx) \in Digits
        BY ONLY <1>c, <3>3, <3>5, Zenon
      <4>2. CR \notin Digits
        BY DEF Digits, Zero, CR
      <4> QED
        BY ONLY <4>1, <4>2
    <3>7. c = SizeText[Len(buff) + 1]
      BY <1>5, <3>6
    <3>8. SizeRead'
      <4>1. \A i \in 1 .. Len(buff') : i \in 1 .. Len(buff) \/ i = Len(buff) + 1
        BY <1>b, <3>1
      <4>2. \A i \in 1 .. Len(buff') : buff'[i] = SizeText[i]
        BY <2>2, <3>1, <3>7, <4>1
      <4>3. Len(buff') < SizeEnd
        BY <1>b, <1>c, <3>1, <3>5
      <4> QED
        BY <4>2, <4>3 DEF SizeRead
    <3>9. KernelRead'
      BY <1>1, <2>3 DEF KernelRead
    <3> QED
      BY <3>3, <3>8, <3>9 DEF Loading
  <2>4. CASE c = LF /\ bpc' = "load" /\ temp' = KernelSize(buff) /\ UNCHANGED buff
    <3>1. Len(buff) + 1 = SizeEnd
      <4>1. ASSUME Len(buff) + 1 # SizeEnd PROVE FALSE
        <5>1. Len(buff) + 1 \in 1 .. SizeEnd - 1
          BY <1>b, <1>c, <2>2, <4>1
        <5>2. Head(rx) = Stream[Len(buff) + 1]
          <6>1. rx[1] = Stream[Consumed + 1]
            <7>1. /\ 1 \in 1 .. Len(rx) /\ Consumed + 1 <= SizeEnd
              BY <1>1, <1>b, <1>c, <2>1, <2>2, QueueTail
            <7> QED
              BY <2>1, <7>1 DEF Loading, Contiguous
          <6> QED
            BY <1>1, <1>b, <2>1, <6>1, QueueTail
        <5>3. Head(rx) \in Digits
          BY <1>c, <5>1, <5>2
        <5> QED
          BY <1>5, <2>4, <5>3 DEF Digits, Zero, LF, CR
      <4> QED
        BY <4>1
    <3>2. Consumed' = Consumed + 1
      <4>1. Consumed' = SizeEnd + 0
        BY <1>1, <1>2, <2>4 DEF Consumed
      <4> QED
        BY <1>b, <1>c, <2>1, <3>1, <4>1
    <3>3. HostSends' /\ Contiguous'
      BY <1>1, <2>1, <3>2, TakeLoad
    <3>4. buff = SizeText
      <4>1. SizeText \in Seq(Digits) /\ Len(buff) = Len(SizeText)
        BY <1>b, <1>c, <3>1, SizeIsReadable DEF SizeReadable
      <4> QED
        BY ONLY <1>b, <2>2, <4>1, SameCharacters
    <3>5. temp' = Len(Image)
      BY <2>4, <3>4, SizeIsReadable DEF KernelSize, SizeReadable
    <3>6. KernelRead'
      BY <1>1, <1>2, <1>c, <2>4, <3>5 DEF KernelRead
    <3>7. SizeRead'
      BY <2>4 DEF SizeRead
    <3> QED
      BY <3>3, <3>6, <3>7 DEF Loading
  <2> QED
    BY <1>1, <1>8, <2>3, <2>4
<1> QED
  BY <1>1, <1>6, <1>7, <1>8 DEF LoadInv

\* The bytes of the kernel are read in order, unless one was lost.
LEMMA ReadKernelLoad ==
    ASSUME LoadInv, ReadKernel
    PROVE  LoadInv'
<1> DEFINE c == uart_getc
<1>b. /\ rx \in Seq(Byte) /\ kernel \in Seq(Byte)
      /\ Len(kernel) \in Nat /\ Consumed \in Nat
  BY LoadNumbers
<1>c. /\ SizeEnd \in Nat \ {0} /\ Len(Image) \in Nat /\ StreamEnd = SizeEnd + Len(Image)
      /\ \A i \in 1 .. Len(Image) : Stream[SizeEnd + i] = Image[i] /\ Image[i] \in Byte
  BY StreamFacts
<1>1. /\ bpc = "load" /\ bpc' = "load" /\ rx # <<>> /\ rx' = Tail(rx)
      /\ kernel' = Append(kernel, c) /\ temp' = temp - 1 /\ buff' = buff
      /\ UNCHANGED <<host, started, lost>>
  BY DEF ReadKernel, Received, script
<1>3. Head(rx) \in Byte /\ rx' \in Seq(Byte)
  BY <1>1, <1>b, QueueTail
<1>4. c \in Byte
  BY <1>3 DEF uart_getc, LF, Byte
<1>5. c = IF Head(rx) = CR THEN LF ELSE Head(rx)
  BY DEF uart_getc
<1> HIDE DEF c
<1>6. LoadTypes'
  BY <1>1, <1>3, <1>4, <1>b DEF LoadInv, LoadTypes
<1>7. Untouched'
  BY <1>1 DEF LoadInv, Untouched
<1>8. ASSUME started, "size" \notin lost PROVE Loading'
  <2>1. Loading /\ Consumed = SizeEnd + Len(kernel)
    BY <1>1, <1>8 DEF LoadInv, Consumed
  <2>2. /\ temp = Len(Image) - Len(kernel)
        /\ lost = {} => \A i \in 1 .. Len(kernel) : kernel[i] = Translated[i]
    BY <1>1, <2>1 DEF Loading, KernelRead
  <2>3. /\ Len(kernel') = Len(kernel) + 1 /\ kernel'[Len(kernel) + 1] = c
        /\ \A i \in 1 .. Len(kernel) : kernel'[i] = kernel[i]
    BY <1>1, <1>4, <1>b
  <2>4. Consumed' = Consumed + 1
    <3>1. Consumed' = SizeEnd + (Len(kernel) + 1)
      BY <1>1, <2>3 DEF Consumed
    <3> QED
      BY <1>b, <1>c, <2>1, <3>1
  <2>5. /\ HostSends' /\ Contiguous' /\ Consumed < StreamEnd
        /\ lost = {} => Head(rx) = Stream[Consumed + 1]
    BY <1>1, <2>1, <2>4, TakeLoad
  <2>6. Len(kernel) + 1 \in 1 .. Len(Image)
    BY <1>b, <1>c, <2>1, <2>5
  <2>7. ASSUME lost = {} PROVE c = Translated[Len(kernel) + 1]
    <3>1. Consumed + 1 = SizeEnd + (Len(kernel) + 1)
      BY <1>b, <1>c, <2>1
    <3>2. Head(rx) = Image[Len(kernel) + 1]
      BY <1>c, <2>5, <2>6, <2>7, <3>1
    <3>3. Len(kernel) + 1 \in DOMAIN Image
      BY <2>6, BootloaderAssumption
    <3> QED
      BY <1>5, <3>2, <3>3 DEF Translated
  <2>8. KernelRead'
    <3>1. temp' = Len(Image) - Len(kernel')
      BY <1>1, <1>b, <1>c, <2>2, <2>3
    <3>2. ASSUME lost = {}, NEW i \in 1 .. Len(kernel') PROVE kernel'[i] = Translated[i]
      <4>1. i \in 1 .. Len(kernel) \/ i = Len(kernel) + 1
        BY <1>b, <2>3
      <4> QED
        BY <2>2, <2>3, <2>7, <3>2, <4>1
    <3> QED
      BY <1>1, <3>1, <3>2 DEF KernelRead
  <2>9. SizeRead'
    BY <1>1 DEF SizeRead
  <2> QED
    BY <2>5, <2>8, <2>9 DEF Loading
<1> QED
  BY <1>1, <1>6, <1>7, <1>8 DEF LoadInv

\* The kernel is entered.
LEMMA JumpLoad ==
    ASSUME LoadInv, Jump
    PROVE  LoadInv'
<1>1. /\ bpc = "load" /\ temp = 0 /\ bpc' = "jump"
      /\ UNCHANGED <<rx, buff, temp, kernel, host, started, lost>>
  BY DEF Jump, loading, script
<1>2. LoadTypes' /\ Untouched'
  BY <1>1 DEF LoadInv, LoadTypes, Untouched
<1>3. ASSUME Loading PROVE Loading'
  <2>1. Consumed' = Consumed /\ Unread' = Unread
    BY <1>1 DEF Consumed, Unread
  <2>2. HostSends' /\ Contiguous'
    BY <1>1, <1>3, <2>1 DEF Loading, HostSends, Contiguous
  <2>3. SizeRead' /\ KernelRead'
    BY <1>1, <1>3 DEF Loading, SizeRead, KernelRead
  <2> QED
    BY <2>2, <2>3 DEF Loading
<1> QED
  BY <1>1, <1>2, <1>3 DEF LoadInv

\* Every step keeps the invariant of the loader.
LEMMA NextLoadInv == LoadInv /\ [BootNext]_bvars => LoadInv'
<1> SUFFICES ASSUME LoadInv, [BootNext]_bvars PROVE LoadInv'
  OBVIOUS
<1>1. CASE UNCHANGED bvars
  <2>1. UNCHANGED <<bpc, rx, buff, temp, kernel, host, started, lost>>
    BY <1>1 DEF bvars, loading, script
  <2> QED
    BY <2>1 DEF LoadInv, LoadTypes, Untouched, Loading, HostSends, Contiguous, SizeRead,
                KernelRead, Consumed, Unread
<1>2. CASE BootPoll
  BY <1>1, <1>2 DEF BootPoll
<1> QED
  BY <1>1, <1>2, TypeLoad, StartLoad, SendLoad, ShellLoad, ReadSizeLoad, ReadKernelLoad, JumpLoad
     DEF BootNext, BootStep

\* If the size has arrived, the kernel that is entered has arrived completely and
\* in order, although the receiver loses what finds it full: for every image and
\* every depth of the FIFO.
THEOREM EntersCompleteKernel == BootSpec => []KernelComplete
<1>1. LoadInv => KernelComplete
  <2> SUFFICES ASSUME LoadInv, bpc = "jump", started, "size" \notin lost
               PROVE  lost = {} /\ host = <<>> /\ kernel = Translated
    BY DEF KernelComplete
  <2>1. Loading /\ Consumed = SizeEnd + Len(kernel)
    BY DEF LoadInv, Consumed
  <2>2. /\ host \in Seq(Byte) /\ kernel \in Seq(Byte)
        /\ Len(rx) \in Nat /\ Len(host) \in Nat /\ Len(kernel) \in Nat
        /\ Unread = Len(rx) + Len(host)
    BY LoadNumbers
  <2>3. /\ SizeEnd \in Nat \ {0} /\ Len(Image) \in Nat /\ StreamEnd = SizeEnd + Len(Image)
    BY StreamFacts
  <2>4. /\ Len(kernel) = Len(Image)
        /\ lost = {} => \A i \in 1 .. Len(kernel) : kernel[i] = Translated[i]
    BY <2>1, <2>2, <2>3 DEF Loading, KernelRead
  <2>5. /\ lost = {} => Unread = StreamEnd - Consumed
        /\ lost # {} => Unread < StreamEnd - Consumed
    BY <2>1 DEF Loading, Contiguous
  <2>6. lost = {} /\ Unread = 0
    BY <2>1, <2>2, <2>3, <2>4, <2>5
  <2>7. host = <<>>
    BY <2>2, <2>6
  <2>8. kernel = Translated
    <3>1. DOMAIN Image = 1 .. Len(Image)
      BY BootloaderAssumption
    <3>2. kernel \in [1 .. Len(Image) -> Byte]
      BY <2>2, <2>4
    <3>3. DOMAIN Translated = 1 .. Len(Image)
      BY <3>1 DEF Translated
    <3>4. Translated = [i \in 1 .. Len(Image) |-> Translated[i]]
      BY <3>1 DEF Translated
    <3>5. \A i \in 1 .. Len(Image) : kernel[i] = Translated[i]
      BY <2>4, <2>6
    <3> QED
      BY <3>2, <3>4, <3>5
  <2> QED
    BY <2>6, <2>7, <2>8
<1> QED
  BY <1>1, InitLoadInv, NextLoadInv, PTL DEF BootSpec

-----------------------------------------------------------------------------
(***************************************************************************)
(* Types.  The size that was read need not be a number: atoi() is given    *)
(* what the user has typed.                                                *)
(***************************************************************************)
\* strlen() stays within its string.
LEMMA StrlenRange ==
    ASSUME NEW s \in Seq(Byte)
    PROVE  strlen(s) \in 0 .. Len(s)
<1> DEFINE n == Len(s)
           X == {i \in 0 .. n : At(s, i) = NUL}
           Stops(i) == (i = n \/ At(s, i) = NUL) /\ \A j \in 0 .. i - 1 : ~(At(s, j) = NUL)
<1>1. n \in Nat
  OBVIOUS
<1>2. PICK k \in 0 .. n : (k = n \/ k \in X) /\ \A j \in 0 .. k - 1 : j \notin X
  <2> HIDE DEF n, X
  <2> QED
    BY <1>1, StopsOnce
<1>3. \A j \in 0 .. k - 1 : j \in 0 .. n
  BY <1>1
<1>4. Stops(k)
  BY <1>2, <1>3
<1>5. strlen(s) = CHOOSE i \in 0 .. n : Stops(i)
  BY DEF strlen, FirstUpTo
<1> HIDE DEF Stops
<1> QED
  BY <1>4, <1>5

\* atoi() of any string is a number.
LEMMA AtoiType ==
    ASSUME NEW str \in Seq(Byte)
    PROVE  atoi(str) \in Int
<1> DEFINE n == strlen(str)
           step == [i \in 1 .. n |-> [w \in Int |-> w * 10 + str[i] - Zero]]
           res == CHOOSE f : AtoiLoop(f, str)
           X == {i \in 0 .. n : res[i] \in Int}
<1>1. n \in Nat /\ 0 \in Int /\ n <= Len(str)
  BY StrlenRange
<1>2. \A i \in 1 .. n : str[i] \in Int /\ Zero \in Int
  <2> HIDE DEF n
  <2>1. \A i \in 1 .. n : i \in 1 .. Len(str)
    BY <1>1
  <2>2. \A i \in 1 .. Len(str) : str[i] \in Byte
    OBVIOUS
  <2>3. \A i \in 1 .. n : str[i] \in Int
    <3>1. \A x \in Byte : x \in Int
      BY DEF Byte
    <3> QED
      BY <2>1, <2>2, <3>1
  <2> QED
    BY <2>3 DEF Zero
<1>3. atoi(str) = res[n]
  BY DEF atoi, AtoiLoop
<1> HIDE DEF n
<1>4. \A i \in 1 .. n, w \in Int : w * 10 + str[i] - Zero \in Int
  BY <1>2
<1>5. step \in Steps(n, Int)
  BY <1>4 DEF Steps
<1>6. PICK f : Loop(f, n, Int, 0, step)
  <2> HIDE DEF step
  <2> QED
    BY <1>1, <1>5, Iterates
<1>7. ASSUME NEW i \in 0 .. n
      PROVE  f[i] = IF i = 0 THEN 0 ELSE f[i - 1] * 10 + str[i] - Zero
  <2>1. CASE i = 0
    BY <1>6, <2>1 DEF Loop
  <2>2. CASE i # 0
    <3>1. i \in 1 .. n /\ i - 1 \in 0 .. n
      BY <1>1, <2>2
    <3>2. f[i - 1] \in Int /\ f[i] = step[i][f[i - 1]]
      BY <1>6, <3>1 DEF Loop
    <3> QED
      BY <2>2, <3>1, <3>2
  <2> QED
    BY <2>1, <2>2
<1>8. AtoiLoop(f, str)
  <2>1. f = [i \in 0 .. n |-> IF i = 0 THEN 0 ELSE f[i - 1] * 10 + str[i] - Zero]
    BY <1>6, <1>7 DEF Loop
  <2> QED
    BY <2>1 DEF AtoiLoop, n
<1>9. AtoiLoop(res, str)
  BY <1>8
<1> HIDE DEF res
<1>10. \A i \in 0 .. n : res[i] = IF i = 0 THEN 0 ELSE res[i - 1] * 10 + str[i] - Zero
  BY <1>9 DEF AtoiLoop, n
<1>11. 0 \in X
  <2>1. 0 \in 0 .. n
    BY <1>1
  <2> QED
    BY <1>10, <2>1
<1>12. ASSUME NEW i \in 0 .. n - 1, i \in X PROVE i + 1 \in X
  <2>1. i + 1 \in 0 .. n /\ i + 1 \in 1 .. n /\ i + 1 # 0 /\ (i + 1) - 1 = i
    BY <1>1
  <2>2. res[i + 1] = res[i] * 10 + str[i + 1] - Zero
    BY <1>10, <2>1
  <2>3. res[i] \in Int
    BY <1>12
  <2>4. res[i + 1] \in Int
    BY <1>4, <2>1, <2>2, <2>3
  <2> QED
    BY <2>1, <2>4
<1>13. \A i \in 0 .. n : i \in X
  <2> HIDE DEF X
  <2> QED
    BY <1>1, <1>11, <1>12, Reaches
<1>14. n \in 0 .. n
  BY <1>1
<1> QED
  BY <1>3, <1>13, <1>14

\* The types, part by part; there is always something on the screen to rub out.
PcType == bpc \in {"shell", "size", "load", "jump", "reset", "fault"}
FifoType == Len(rx) <= FifoDepth
SizeType == temp \in Int
HostType == typed \in 0 .. MaxTyped /\ started \in BOOLEAN

BootTypeInv == PcType /\ FifoType /\ LineTypes /\ SizeType /\ HostType /\ LoadTypes

LEMMA BootTypeParts == BootTypeInv => BootTypeOK
<1> SUFFICES ASSUME BootTypeInv PROVE BootTypeOK
  OBVIOUS
<1>1. /\ bpc \in {"shell", "size", "load", "jump", "reset", "fault"}
      /\ rx \in Seq(0 .. 255) /\ Len(rx) <= FifoDepth
  BY DEF BootTypeInv, PcType, FifoType, LoadTypes, Byte
<1>2. /\ buffer \in [1 .. MAX_BUFFER_LEN -> 0 .. 255]
      /\ counter \in 0 .. MAX_BUFFER_LEN
      /\ screen \in Seq(0 .. 255) /\ over \in BOOLEAN
  BY DEF BootTypeInv, LineTypes, Byte
<1>3. /\ buff \in Seq(0 .. 255)
      /\ temp \in Int /\ kernel \in Seq(0 .. 255)
      /\ typed \in 0 .. MaxTyped
      /\ host \in Seq(0 .. 255) /\ started \in BOOLEAN
      /\ lost \subseteq {"size", "image"}
  BY DEF BootTypeInv, SizeType, HostType, LoadTypes, Byte
<1> QED
  BY <1>1, <1>2, <1>3, Zenon DEF BootTypeOK

LEMMA InitBootTypes == BootInit => BootTypeInv
<1> SUFFICES ASSUME BootInit PROVE BootTypeInv
  OBVIOUS
<1>1. <<>> \in Seq(Byte) /\ Len(<<>>) = 0 /\ FifoDepth \in Nat /\ MAX_BUFFER_LEN \in Nat
      /\ MaxTyped \in Nat
  BY BootloaderAssumption
<1>2. PcType
  BY DEF BootInit, PcType
<1>3. FifoType /\ LoadTypes
  BY <1>1 DEF BootInit, uart_init, FifoType, LoadTypes
<1>4. LineTypes
  BY EmptyBufferType, FreshLine DEF BootInit
<1>5. SizeType
  BY <1>1 DEF BootInit, SizeType
<1>6. HostType
  <2>1. typed \in 0 .. MaxTyped
    BY <1>1 DEF BootInit
  <2>2. started \in BOOLEAN
    BY DEF BootInit
  <2> QED
    BY <2>1, <2>2, Zenon DEF HostType
<1> QED
  BY <1>2, <1>3, <1>4, <1>5, <1>6 DEF BootTypeInv

\* What arrives is stored when there is room for it.
LEMMA ArrivesType ==
    ASSUME BootTypeInv, NEW c \in Byte, Arrives(c)
    PROVE  rx' \in Seq(Byte) /\ FifoType'
<1>1. rx \in Seq(Byte) /\ Len(rx) <= FifoDepth /\ Len(rx) \in Nat /\ FifoDepth \in Nat
  BY BootloaderAssumption DEF BootTypeInv, LoadTypes, FifoType
<1>2. CASE Len(rx) < FifoDepth
  <2>1. rx' = Append(rx, c)
    BY <1>2 DEF Arrives
  <2>2. Append(rx, c) \in Seq(Byte) /\ Len(Append(rx, c)) = Len(rx) + 1
    BY <1>1
  <2> QED
    BY <1>1, <1>2, <2>1, <2>2 DEF FifoType
<1>3. CASE ~(Len(rx) < FifoDepth)
  BY <1>1, <1>3 DEF Arrives, FifoType
<1> QED
  BY <1>2, <1>3

\* What the user and kernel2Uart.py do.
LEMMA SerialTypes ==
    ASSUME BootTypeInv, Type \/ StartScript \/ Send \/ BootPoll
    PROVE  BootTypeInv'
<1>1. CASE Type
  <2>1. PICK c \in Keys : Arrives(c)
    BY <1>1 DEF Type
  <2>2. c \in Byte
    BY <2>1, BootloaderAssumption DEF Byte
  <2>3. rx' \in Seq(Byte) /\ FifoType'
    BY <2>1, <2>2, ArrivesType
  <2>4. typed' \in 0 .. MaxTyped /\ started' = started
    BY <1>1, BootloaderAssumption DEF Type, script, BootTypeInv, HostType
  <2>5. UNCHANGED <<bpc, line, loading, host, lost>>
    BY <1>1 DEF Type, script
  <2> QED
    BY <2>3, <2>4, <2>5 DEF BootTypeInv, PcType, LineTypes, SizeType, HostType, LoadTypes, line, loading
<1>2. CASE StartScript
  <2>1. host' \in Seq(Byte)
    BY <1>2, StreamFacts DEF StartScript, Stream, SizeText
  <2>2. started' = TRUE /\ UNCHANGED <<bpc, rx, line, loading, typed, lost>>
    BY <1>2 DEF StartScript
  <2> QED
    BY <2>1, <2>2
    DEF BootTypeInv, PcType, FifoType, LineTypes, SizeType, HostType, LoadTypes, line, loading
<1>3. CASE Send
  <2>1. host \in Seq(Byte) /\ host # <<>> /\ Arrives(Head(host)) /\ host' = Tail(host)
    BY <1>3 DEF Send, BootTypeInv, LoadTypes
  <2>2. Head(host) \in Byte /\ Tail(host) \in Seq(Byte)
    BY <2>1
  <2>3. rx' \in Seq(Byte) /\ FifoType'
    BY <2>1, <2>2, ArrivesType
  <2>4. lost' \subseteq {"size", "image"}
    BY <1>3 DEF Send, BootTypeInv, LoadTypes
  <2>5. UNCHANGED <<bpc, line, loading, typed, started>>
    BY <1>3 DEF Send
  <2>6. host' \in Seq(Byte)
    BY <2>1, <2>2
  <2> QED
    BY <2>3, <2>4, <2>5, <2>6 DEF BootTypeInv, PcType, LineTypes, SizeType, HostType, LoadTypes, line, loading
<1>4. CASE BootPoll
  <2>1. UNCHANGED <<bpc, rx, line, loading, typed, script>>
    BY <1>4 DEF BootPoll, bvars
  <2> QED
    BY <2>1
    DEF BootTypeInv, PcType, FifoType, LineTypes, SizeType, HostType, LoadTypes, line, loading, script
<1> QED
  BY <1>1, <1>2, <1>3, <1>4

\* What a character from the receiver is.
LEMMA ReceivedTypes ==
    ASSUME BootTypeInv, Received
    PROVE  rx' \in Seq(Byte) /\ FifoType' /\ uart_getc \in Byte
<1>1. rx \in Seq(Byte) /\ Len(rx) <= FifoDepth /\ rx # <<>> /\ rx' = Tail(rx) /\ FifoDepth \in Nat
  BY BootloaderAssumption DEF Received, BootTypeInv, LoadTypes, FifoType
<1>2. /\ Tail(rx) \in Seq(Byte) /\ Len(Tail(rx)) = Len(rx) - 1 /\ Len(rx) \in Nat
      /\ Head(rx) \in Byte
  BY <1>1
<1>3. uart_getc \in Byte
  BY <1>2 DEF uart_getc, LF, Byte
<1> QED
  BY <1>1, <1>2, <1>3 DEF FifoType

LEMMA LoaderTypes ==
    ASSUME BootTypeInv, ReadSize \/ ReadKernel \/ Jump
    PROVE  BootTypeInv'
<1>1. CASE ReadSize
  <2>1. rx' \in Seq(Byte) /\ FifoType' /\ uart_getc \in Byte
    BY <1>1, ReceivedTypes DEF ReadSize
  <2>2. UNCHANGED <<line, kernel, typed, host, started, lost>>
    BY <1>1 DEF ReadSize, script
  <2>3. buff \in Seq(Byte)
    BY DEF BootTypeInv, LoadTypes
  <2>4. KernelSize(buff) \in Int
    BY <2>3, AtoiType DEF KernelSize
  <2>5. buff' = buff \/ buff' = Append(buff, uart_getc)
    BY <1>1 DEF ReadSize, StoreDigit
  <2>6. buff' \in Seq(Byte)
    BY <2>1, <2>3, <2>5
  <2>7. temp' \in Int /\ bpc' \in {"size", "load", "fault"}
    BY <1>1, <2>4 DEF ReadSize, StoreDigit, BootTypeInv, SizeType
  <2> QED
    BY <2>1, <2>2, <2>6, <2>7 DEF BootTypeInv, PcType, LineTypes, SizeType, HostType, LoadTypes, line
<1>2. CASE ReadKernel
  <2>1. rx' \in Seq(Byte) /\ FifoType' /\ uart_getc \in Byte
    BY <1>2, ReceivedTypes DEF ReadKernel
  <2>2. UNCHANGED <<bpc, line, buff, typed, host, started, lost>>
    BY <1>2 DEF ReadKernel, script
  <2>3. kernel \in Seq(Byte) /\ temp \in Int
    BY DEF BootTypeInv, LoadTypes, SizeType
  <2>4. kernel' \in Seq(Byte) /\ temp' \in Int
    BY <1>2, <2>1, <2>3 DEF ReadKernel
  <2> QED
    BY <2>1, <2>2, <2>4 DEF BootTypeInv, PcType, LineTypes, SizeType, HostType, LoadTypes, line
<1>3. CASE Jump
  <2>1. bpc' = "jump" /\ UNCHANGED <<rx, line, loading, typed, script>>
    BY <1>3 DEF Jump
  <2> QED
    BY <2>1
    DEF BootTypeInv, PcType, FifoType, LineTypes, SizeType, HostType, LoadTypes, line, loading, script
<1> QED
  BY <1>1, <1>2, <1>3

\* The line stays in its buffer.
LEMMA ControllerTypes ==
    ASSUME BootTypeInv, boot_controller
    PROVE  LineTypes' /\ PcType'
<1> DEFINE c == uart_getc
<1>0. /\ MAX_BUFFER_LEN \in Nat /\ counter \in 0 .. MAX_BUFFER_LEN
      /\ screen \in Seq(Byte) /\ Len(screen) \in Nat /\ Len(screen) >= counter
      /\ buffer \in [1 .. MAX_BUFFER_LEN -> Byte] /\ over \in BOOLEAN
  BY BootloaderAssumption DEF BootTypeInv, LineTypes
<1>1. PcType /\ LineTypes /\ NUL \in Byte
  BY DEF BootTypeInv, NUL, Byte
<1>2. c \in Byte
  BY ReceivedTypes DEF boot_controller
<1>3. \/ UNCHANGED <<bpc, line>>
      \/ Erase /\ UNCHANGED <<bpc, buffer, over>>
      \/ Store(c) /\ UNCHANGED bpc
      \/ Enter
  BY DEF boot_controller
<1> HIDE DEF c
<1>4. CASE UNCHANGED <<bpc, line>>
  BY <1>1, <1>4 DEF line, PcType, LineTypes
<1>5. CASE Erase /\ UNCHANGED <<bpc, buffer, over>>
  <2>1. counter' \in 0 .. MAX_BUFFER_LEN /\ screen' \in Seq(Byte) /\ Len(screen') >= counter'
    <3>1. CASE counter > 0
      <4>1. Len(screen) # 0
        BY <1>0, <3>1
      <4>2. Front(screen) \in Seq(Byte) /\ Len(Front(screen)) = Len(screen) - 1
        BY <1>0, <4>1, FrontFacts
      <4>3. counter' = counter - 1 /\ screen' = Front(screen)
        BY <1>5, <3>1 DEF Erase, RubOut
      <4> QED
        BY <1>0, <3>1, <4>2, <4>3
    <3>2. CASE ~(counter > 0)
      BY <1>0, <1>5, <3>2 DEF Erase
    <3> QED
      BY <3>1, <3>2
  <2>2. UNCHANGED <<bpc, buffer, over>>
    BY <1>5
  <2> QED
    BY <1>1, <2>1, <2>2 DEF PcType, LineTypes
<1>6. CASE Store(c) /\ UNCHANGED bpc
  <2>1. screen' = Append(screen, c)
    BY <1>6 DEF Store, uart_send
  <2>2. screen' \in Seq(Byte) /\ Len(screen') = Len(screen) + 1
    BY <1>0, <1>2, <2>1
  <2>3. CASE counter < MAX_BUFFER_LEN
    <3>1. buffer' = [buffer EXCEPT ![counter + 1] = c] /\ counter' = counter + 1 /\ over' = over
      BY <1>6, <2>3 DEF Store
    <3>2. buffer' \in [1 .. MAX_BUFFER_LEN -> Byte]
      BY <1>0, <1>2, <3>1
    <3>3. counter' \in 0 .. MAX_BUFFER_LEN /\ Len(screen') >= counter'
      BY <1>0, <2>2, <2>3, <3>1
    <3>4. over' = over /\ bpc' = bpc
      BY <1>6, <3>1
    <3> QED
      BY <1>1, <2>2, <3>2, <3>3, <3>4 DEF PcType, LineTypes
  <2>4. CASE ~(counter < MAX_BUFFER_LEN)
    <3>1. over' = TRUE /\ UNCHANGED <<buffer, counter>>
      BY <1>6, <2>4 DEF Store
    <3>2. Len(screen') >= counter'
      BY <1>0, <2>2, <3>1
    <3>3. bpc' = bpc
      BY <1>6
    <3> QED
      BY <1>1, <2>2, <3>1, <3>2, <3>3 DEF PcType, LineTypes
  <2> QED
    BY <2>3, <2>4
<1>7. CASE Enter
  <2> DEFINE text == [buffer EXCEPT ![counter + 1] = NUL]
  <2>1. text \in [1 .. MAX_BUFFER_LEN -> Byte]
    BY <1>0, <1>1
  <2>2. Command(text) \in {"shell", "size", "reset"}
    <3> HIDE DEF text
    <3> QED
      BY DEF Command
  <2>3. bpc' = IF counter = MAX_BUFFER_LEN THEN "shell" ELSE Command(text)
    BY <1>7 DEF Enter
  <2>4. CASE bpc' = "shell"
    <3>1. /\ buffer' = strset(buffer, NUL, MAX_BUFFER_LEN)
          /\ counter' = 0 /\ screen' = <<>> /\ over' = FALSE
      BY <1>7, <2>4 DEF Enter
    <3>2. strset(buffer, NUL, MAX_BUFFER_LEN) \in [1 .. MAX_BUFFER_LEN -> Byte]
      BY <1>0, <1>1 DEF strset
    <3>3. LineTypes'
      BY <2>4, <3>1, <3>2, FreshLineNext
    <3> QED
      BY <2>4, <3>3 DEF PcType
  <2>5. CASE bpc' # "shell"
    <3>1. buffer' = text /\ UNCHANGED <<counter, screen, over>>
      BY <1>7, <2>5 DEF Enter
    <3> HIDE DEF text
    <3>2. bpc' \in {"shell", "size", "reset"}
      BY <2>2, <2>3
    <3> QED
      BY <1>1, <2>1, <3>1, <3>2 DEF PcType, LineTypes
  <2> QED
    BY <2>4, <2>5
<1> QED
  BY <1>3, <1>4, <1>5, <1>6, <1>7

\* What the shell does.
LEMMA ShellTypes ==
    ASSUME BootTypeInv, boot_controller \/ Reboot
    PROVE  BootTypeInv'
<1>1. UNCHANGED <<loading, typed, script>>
  BY DEF boot_controller, Reboot
<1>2. PcType' /\ FifoType' /\ LineTypes' /\ rx' \in Seq(Byte)
  <2>1. CASE Reboot
    <3>1. /\ bpc' = "shell" /\ rx' = <<>> /\ buffer' = EmptyBuffer /\ counter' = 0
          /\ screen' = <<>> /\ over' = FALSE
      BY <2>1 DEF Reboot, uart_init
    <3>2. <<>> \in Seq(Byte) /\ Len(<<>>) = 0 /\ FifoDepth \in Nat /\ MAX_BUFFER_LEN \in Nat
      BY BootloaderAssumption
    <3>3. PcType' /\ FifoType' /\ rx' \in Seq(Byte)
      BY <3>1, <3>2 DEF PcType, FifoType
    <3>4. LineTypes'
      BY <3>1, EmptyBufferType, FreshLineNext
    <3> QED
      BY <3>3, <3>4
  <2>2. CASE boot_controller
    BY <2>2, ControllerTypes, ReceivedTypes DEF boot_controller
  <2> QED
    BY <2>1, <2>2
<1> QED
  BY <1>1, <1>2 DEF BootTypeInv, SizeType, HostType, LoadTypes, loading, script

\* Whatever is typed, every variable of the bootloader keeps its type, and what is
\* stored of the command line stays in its buffer.  The size is not kept in its
\* own: command_loadkernel has no limit for buff[] (ReadSize).
THEOREM BootTypeCorrect == BootSpec => []BootTypeOK
<1>1. BootTypeInv /\ [BootNext]_bvars => BootTypeInv'
  <2> SUFFICES ASSUME BootTypeInv, [BootNext]_bvars PROVE BootTypeInv'
    OBVIOUS
  <2>1. CASE UNCHANGED bvars
    BY <2>1
    DEF bvars, BootTypeInv, PcType, FifoType, LineTypes, SizeType, HostType, LoadTypes, line, loading, script
  <2> QED
    BY <2>1, SerialTypes, LoaderTypes, ShellTypes DEF BootNext, BootStep
<1> QED
  BY <1>1, InitBootTypes, BootTypeParts, PTL DEF BootSpec
=============================================================================
