---------------------------- MODULE TimerProofs ----------------------------
(***************************************************************************)
(* Theorems about the timeouts of Timer, for every frequency of the        *)
(* counter, every set of durations and any number of events, with          *)
(* interrupts inside add_timer and the timer switched at any moment.       *)
(***************************************************************************)
EXTENDS Timer, NumberFacts, SequenceTheorems, TLAPS

Event == [registerTime : Nat, prevUpdatedTime : Nat, duration : Durations \cup {0},
          remainingTime : 0 .. WORD - 1, at : Nat]

-----------------------------------------------------------------------------
(***************************************************************************)
(* The words of timer.c                                                    *)
(***************************************************************************)
\* The constants, as the lemmas use them.
LEMMA Bounds ==
    /\ FREQ \in Nat \ {0} /\ PERIOD \in Nat \ {0} /\ WORD \in Nat \ {0} /\ TVAL \in Nat \ {0}
    /\ MaxCount \in Nat /\ MaxEvents \in Nat /\ MaxAdd \in Nat /\ MaxLatency \in Nat
    /\ \A d \in Durations : d \in Nat /\ d + MaxCount < WORD /\ 2 * (FREQ * d) < TVAL
    /\ 2 * (FREQ + MaxLatency) <= TVAL
    /\ \E w \in Int : WORD = TVAL * w
<1>1. \E w \in Int : WORD = TVAL * w
  <2>1. WORD \in Int /\ TVAL \in Nat \ {0} /\ WORD % TVAL = 0
    BY TimerAssumption
  <2>2. WORD = TVAL * (WORD \div TVAL) + 0 /\ WORD \div TVAL \in Int
    BY <2>1, DivMod
  <2> QED
    BY <2>1, <2>2
<1>2. \A d \in Durations : d \in Nat /\ d + MaxCount < WORD /\ 2 * (FREQ * d) < TVAL
  <2> SUFFICES ASSUME NEW d \in Durations
               PROVE  d \in Nat /\ d + MaxCount < WORD /\ 2 * (FREQ * d) < TVAL
    OBVIOUS
  <2>1. /\ d \in Nat /\ FREQ \in Nat /\ MaxCount \in Nat
        /\ 2 * (d + MaxCount) < WORD /\ 2 * FREQ * d < TVAL
    BY TimerAssumption
  <2>2. 2 * FREQ * d = 2 * (FREQ * d)
    BY <2>1
  <2> QED
    BY <2>1, <2>2, TimerAssumption
<1> QED
  BY <1>1, <1>2, TimerAssumption

\* A word is a word.
LEMMA WrapType ==
    ASSUME NEW x \in Int
    PROVE  Wrap(x) \in 0 .. WORD - 1
  BY Bounds, DivMod DEF Wrap

\* A number that fits is kept.
LEMMA WrapSmall ==
    ASSUME NEW x \in 0 .. WORD - 1
    PROVE  Wrap(x) = x
<1>1. x = WORD * 0 + x /\ x \in Int
  BY Bounds
<1> QED
  BY <1>1, Bounds, ModUnique DEF Wrap

\* A word differs from the number by a multiple of the modulus.
LEMMA WrapMultiple ==
    ASSUME NEW x \in Int
    PROVE  \E k \in Int : Wrap(x) = x + WORD * k
<1>0. WORD \in Nat \ {0}
  BY Bounds
<1>1. /\ x \div WORD \in Int /\ x = WORD * (x \div WORD) + (x % WORD)
      /\ x % WORD \in 0 .. WORD - 1
  BY <1>0, DivMod
<1>2. PICK q \in Int : q = x \div WORD
  BY <1>1
<1>3. WORD * (-q) = -(WORD * q) /\ -q \in Int /\ WORD * q \in Int
  BY <1>0
<1>4. x % WORD = x + WORD * (-q)
  BY <1>0, <1>1, <1>2, <1>3
<1> QED
  BY <1>3, <1>4 DEF Wrap

\* The difference of two words.
LEMMA WrapMinus ==
    ASSUME NEW x \in Int, NEW y \in Int
    PROVE  Wrap(Wrap(x) - Wrap(y)) = Wrap(x - y)
<1>1. PICK j \in Int : Wrap(x) = x + WORD * j
  BY WrapMultiple
<1>2. PICK k \in Int : Wrap(y) = y + WORD * k
  BY WrapMultiple
<1>3. PICK a \in Int, i \in Int : a = x - y /\ i = j - k
  OBVIOUS
<1>4. WORD * i = WORD * j - WORD * k /\ WORD * j \in Int /\ WORD * k \in Int
  BY <1>3, Bounds
<1>5. Wrap(x) - Wrap(y) = a + WORD * i
  BY <1>1, <1>2, <1>3, <1>4
<1>6. (a + WORD * i) % WORD = a % WORD
  BY Bounds, ModShift
<1> QED
  BY <1>3, <1>5, <1>6 DEF Wrap

\* The sum of a number and a word.
LEMMA WrapPlus ==
    ASSUME NEW x \in Int, NEW y \in Int
    PROVE  Wrap(x + Wrap(y)) = Wrap(x + y)
<1>1. PICK k \in Int : Wrap(y) = y + WORD * k
  BY WrapMultiple
<1>2. PICK a \in Int : a = x + y
  OBVIOUS
<1>3. WORD * k \in Int
  BY Bounds
<1>4. x + Wrap(y) = a + WORD * k
  BY <1>1, <1>2, <1>3
<1>5. (a + WORD * k) % WORD = a % WORD
  BY Bounds, ModShift
<1> QED
  BY <1>2, <1>4, <1>5 DEF Wrap

\* cntp_tval_el0 takes the seconds that are left exactly, and those that an event
\* is late, although the words in between have wrapped.
LEMMA TvalExact ==
    ASSUME NEW x \in Int, 2 * (FREQ * x) < TVAL, - TVAL <= 2 * (FREQ * x)
    PROVE  Tval(Wrap(FREQ * Wrap(x))) = FREQ * x
<1>0. FREQ \in Nat \ {0} /\ WORD \in Nat \ {0} /\ TVAL \in Nat \ {0}
  BY Bounds
<1> DEFINE z == FREQ * x
<1>1. z \in Int
  BY <1>0
<1>2. PICK w \in Int : WORD = TVAL * w
  BY Bounds
<1>3. PICK j \in Int : Wrap(x) = x + WORD * j
  BY WrapMultiple
<1>4. PICK u \in Int, h \in Int : u = FREQ * Wrap(x) /\ h = FREQ * j
  BY <1>0, <1>3
<1>5. u = z + WORD * h
  BY <1>0, <1>3, <1>4
<1> HIDE DEF z
<1>6. PICK k \in Int : Wrap(u) = u + WORD * k
  BY WrapMultiple
<1>7. PICK m \in Int : Wrap(u) = z + TVAL * m
  <2>1. PICK i \in Int : i = h + k
    OBVIOUS
  <2>2. WORD * i = WORD * h + WORD * k /\ WORD * h \in Int /\ WORD * k \in Int
    BY <1>0, <2>1
  <2>3. Wrap(u) = z + WORD * i
    BY <1>1, <1>5, <1>6, <2>2
  <2>4. WORD * i = TVAL * (w * i) /\ w * i \in Int
    BY <1>0, <1>2
  <2> QED
    BY <2>3, <2>4
<1>8. Wrap(u) % TVAL = z % TVAL
  <2>1. (z + TVAL * m) % TVAL = z % TVAL
    BY <1>0, <1>1, ModShift
  <2> QED
    BY <1>7, <2>1
<1>9. CASE z >= 0
  <2>1. z % TVAL = z
    <3>1. z = TVAL * 0 + z /\ z \in 0 .. TVAL - 1
      BY <1>0, <1>1, <1>9 DEF z
    <3> QED
      BY <1>0, <1>1, <3>1, ModUnique
  <2> QED
    BY <1>0, <1>1, <1>4, <1>8, <1>9, <2>1 DEF Tval, z
<1>10. CASE z < 0
  <2>1. z % TVAL = z + TVAL
    <3>1. z = TVAL * (-1) + (z + TVAL) /\ z + TVAL \in 0 .. TVAL - 1
      BY <1>0, <1>1, <1>10 DEF z
    <3> QED
      BY <1>0, <1>1, <3>1, ModUnique
  <2> QED
    BY <1>0, <1>1, <1>4, <1>8, <1>10, <2>1 DEF Tval, z
<1> QED
  BY <1>1, <1>9, <1>10 DEF z

\* The second in which the counter stands.
LEMMA Seconds ==
    ASSUME NEW c \in Nat
    PROVE  /\ c \div FREQ \in Nat
           /\ FREQ * (c \div FREQ) <= c /\ c < FREQ * ((c \div FREQ) + 1)
           /\ \A D \in Int : c < FREQ * (D + 1) => c \div FREQ <= D
<1>0. FREQ \in Nat \ {0}
  BY Bounds
<1>1. PICK q \in Int, r \in 0 .. FREQ - 1 : q = c \div FREQ /\ c = FREQ * q + r
  BY <1>0, DivMod
<1>2. FREQ * (q + 1) = FREQ * q + FREQ /\ FREQ * q \in Int /\ FREQ * (-1) = -FREQ
  BY <1>0
<1>3. q >= 0
  <2>1. q <= -1 => FREQ * q <= FREQ * (-1)
    BY <1>0, ProductOrder
  <2> QED
    BY <1>0, <1>1, <1>2, <2>1
<1>4. ASSUME NEW D \in Int, c < FREQ * (D + 1)
      PROVE  q <= D
  <2>1. D + 1 <= q => FREQ * (D + 1) <= FREQ * q
    BY <1>0, ProductOrder
  <2>2. FREQ * (D + 1) \in Int
    BY <1>0
  <2> QED
    BY <1>0, <1>1, <1>2, <1>4, <2>1, <2>2
<1> QED
  BY <1>0, <1>1, <1>2, <1>3, <1>4

-----------------------------------------------------------------------------
(***************************************************************************)
(* Timer events.  A registered event keeps the second it was registered    *)
(* in, and its remaining time counts from the second it was last updated   *)
(* to the second it is due, as a word.                                     *)
(***************************************************************************)
Registered(e) ==
    /\ e \in Event /\ e.duration \in Durations
    /\ FREQ * e.registerTime <= e.at /\ e.at < FREQ * (e.registerTime + 1)
    /\ e.remainingTime = Wrap(Due(e) - e.prevUpdatedTime)

\* A list of events registered up to count c.
Known(list, c) ==
    /\ list \in Seq(Event)
    /\ \A i \in 1 .. Len(list) : Registered(list[i]) /\ list[i].at <= c

InOrder(list) ==
    \A i, j \in 1 .. Len(list) : i < j => Due(list[i]) <= Due(list[j])

\* The types of an event's fields.
LEMMA EventTypes ==
    ASSUME NEW e \in Event
    PROVE  /\ e.registerTime \in Nat /\ e.prevUpdatedTime \in Nat /\ e.at \in Nat
           /\ e.duration \in Nat /\ Due(e) \in Nat
           /\ e.remainingTime \in 0 .. WORD - 1
           /\ Due(e) = e.registerTime + e.duration
  BY Bounds DEF Event, Due

\* An update moves the event on to the second of the update, and nothing else.
LEMMA UpdatedEvent ==
    ASSUME NEW e, Registered(e), NEW now \in Nat
    PROVE  /\ Registered(Updated(e, now))
           /\ Updated(e, now).at = e.at
           /\ Updated(e, now).registerTime = e.registerTime
           /\ Updated(e, now).duration = e.duration
           /\ Updated(e, now).prevUpdatedTime = now
           /\ Due(Updated(e, now)) = Due(e)
           /\ Updated(e, now).remainingTime = Wrap(Due(e) - now)
<1> DEFINE r == Wrap(e.remainingTime - Wrap(now - e.prevUpdatedTime))
           f == [e EXCEPT !.remainingTime = r]
           u == [f EXCEPT !.prevUpdatedTime = now]
<1>1. /\ e \in Event /\ e.prevUpdatedTime \in Int /\ Due(e) \in Int
      /\ e.remainingTime = Wrap(Due(e) - e.prevUpdatedTime)
  BY EventTypes DEF Registered
<1>2. r = Wrap(Due(e) - now) /\ r \in 0 .. WORD - 1
  <2>1. PICK x \in Int, y \in Int : x = Due(e) - e.prevUpdatedTime /\ y = now - e.prevUpdatedTime
    BY <1>1
  <2>2. r = Wrap(Wrap(x) - Wrap(y))
    BY <1>1, <2>1
  <2>3. r = Wrap(x - y)
    BY <2>2, WrapMinus
  <2>4. x - y = Due(e) - now /\ x - y \in Int
    BY <1>1, <2>1
  <2> QED
    BY <2>3, <2>4, WrapType
<1>3. Updated(e, now) = u
  BY DEF Updated
<1> HIDE DEF r
<1>4. /\ f \in Event /\ f.at = e.at /\ f.registerTime = e.registerTime
      /\ f.duration = e.duration /\ f.remainingTime = r
  BY <1>1, <1>2 DEF Event
<1> HIDE DEF f
<1>5. /\ u \in Event /\ u.at = e.at /\ u.registerTime = e.registerTime
      /\ u.duration = e.duration /\ u.remainingTime = r /\ u.prevUpdatedTime = now
  BY <1>4 DEF Event
<1> HIDE DEF u
<1>6. Due(u) = Due(e)
  BY <1>5 DEF Due
<1> QED
  BY <1>2, <1>3, <1>5, <1>6 DEF Registered

\* UpdateTimerEvents keeps the list and its order.
LEMMA UpdatedList ==
    ASSUME NEW list, NEW c, Known(list, c), NEW now \in Nat
    PROVE  /\ Known(UpdateTimerEvents(list, now), c)
           /\ InOrder(list) => InOrder(UpdateTimerEvents(list, now))
           /\ Len(UpdateTimerEvents(list, now)) = Len(list)
           /\ \A i \in 1 .. Len(list) :
                UpdateTimerEvents(list, now)[i] = Updated(list[i], now)
<1> DEFINE L == UpdateTimerEvents(list, now)
<1>1. list \in Seq(Event) /\ Len(list) \in Nat /\ DOMAIN list = 1 .. Len(list)
  BY DEF Known
<1>2. \A i \in 1 .. Len(list) : /\ Registered(Updated(list[i], now))
                                /\ Updated(list[i], now).at = list[i].at
                                /\ Due(Updated(list[i], now)) = Due(list[i])
                                /\ Updated(list[i], now) \in Event
  BY UpdatedEvent DEF Known, Registered
<1>3. L = [i \in 1 .. Len(list) |-> Updated(list[i], now)]
  BY <1>1 DEF UpdateTimerEvents
<1>4. L \in Seq(Event) /\ Len(L) = Len(list)
  BY <1>1, <1>2, <1>3
<1>5. \A i \in 1 .. Len(list) : L[i] = Updated(list[i], now)
  BY <1>3
<1> HIDE DEF L
<1>6. Known(L, c)
  BY <1>2, <1>4, <1>5 DEF Known
<1>7. InOrder(list) => InOrder(L)
  BY <1>2, <1>4, <1>5 DEF InOrder
<1> QED
  BY <1>4, <1>5, <1>6, <1>7 DEF L

\* AddNewTimerEvents puts e at one place of the list: after those with no more
\* time left, and before one that has more.
LEMMA AddedEvent ==
    ASSUME NEW list \in Seq(Event), NEW e \in Event
    PROVE  \E p \in 1 .. Len(list) + 1 :
             /\ AddNewTimerEvents(list, e) \in Seq(Event)
             /\ Len(AddNewTimerEvents(list, e)) = Len(list) + 1
             /\ AddNewTimerEvents(list, e)[p] = e
             /\ \A i \in 1 .. p - 1 : AddNewTimerEvents(list, e)[i] = list[i]
             /\ \A i \in p .. Len(list) : AddNewTimerEvents(list, e)[i + 1] = list[i]
             /\ \A i \in 1 .. p - 1 : ~(e.remainingTime < list[i].remainingTime)
             /\ p <= Len(list) => e.remainingTime < list[p].remainingTime
<1> DEFINE Later == {i \in DOMAIN list : e.remainingTime < list[i].remainingTime}
           s == AddNewTimerEvents(list, e)
           n == Len(list)
<1>1. n \in Nat /\ DOMAIN list = 1 .. n /\ \A i \in 1 .. n : list[i] \in Event
  OBVIOUS
<1>2. CASE Later = {}
  <2>1. s = Append(list, e)
    BY <1>2 DEF AddNewTimerEvents
  <2>2. /\ s \in Seq(Event) /\ Len(s) = n + 1 /\ s[n + 1] = e
        /\ \A i \in 1 .. n : s[i] = list[i]
    BY <2>1, AppendProperties
  <2>3. \A i \in 1 .. n : ~(e.remainingTime < list[i].remainingTime)
    BY <1>1, <1>2
  <2>4. n + 1 \in 1 .. n + 1 /\ (n + 1) - 1 = n /\ ~(n + 1 <= n) /\ (n + 1) .. n = {}
    BY <1>1
  <2> QED
    BY <2>2, <2>3, <2>4
<1>3. CASE Later # {}
  <2>1. Later \in SUBSET Nat
    BY <1>1
  <2>2. \E i \in Later : \A j \in Later : i <= j
    <3> HIDE DEF Later
    <3> QED
      BY <1>3, <2>1, LeastNumber
  <2> DEFINE p == CHOOSE i \in Later : \A j \in Later : i <= j
  <2>3. p \in Later /\ \A j \in Later : p <= j
    BY <2>2
  <2>4. s = SubSeq(list, 1, p - 1) \o <<e>> \o SubSeq(list, p, n)
    BY <1>3 DEF AddNewTimerEvents, InsertAt
  <2> HIDE DEF p
  <2>5. p \in 1 .. n /\ e.remainingTime < list[p].remainingTime
    BY <1>1, <2>3
  <2>6. \A i \in 1 .. p - 1 : ~(e.remainingTime < list[i].remainingTime)
    BY <1>1, <2>3, <2>5
  <2>7. /\ SubSeq(list, 1, p - 1) \in Seq(Event)
        /\ Len(SubSeq(list, 1, p - 1)) = p - 1
        /\ \A i \in 1 .. p - 1 : SubSeq(list, 1, p - 1)[i] = list[i]
    BY <1>1, <2>5
  <2>8. /\ SubSeq(list, p, n) \in Seq(Event)
        /\ Len(SubSeq(list, p, n)) = n - p + 1
        /\ \A i \in 1 .. n - p + 1 : SubSeq(list, p, n)[i] = list[p + i - 1]
    BY <1>1, <2>5
  <2>9. PICK a \in Seq(Event), b \in Seq(Event) :
          a = SubSeq(list, 1, p - 1) /\ b = SubSeq(list, p, n)
    BY <2>7, <2>8
  <2>10. /\ <<e>> \in Seq(Event) /\ Len(<<e>>) = 1 /\ <<e>>[1] = e
    OBVIOUS
  <2>11. /\ a \o <<e>> \in Seq(Event) /\ Len(a \o <<e>>) = p
         /\ \A i \in 1 .. p - 1 : (a \o <<e>>)[i] = list[i]
         /\ (a \o <<e>>)[p] = e
    <3>1. PICK y \in Seq(Event) : y = <<e>>
      BY <2>10
    <3>2. Len(a) = p - 1 /\ Len(y) = 1 /\ y[1] = e /\ \A i \in 1 .. p - 1 : a[i] = list[i]
      BY <2>7, <2>9, <2>10, <3>1
    <3>3. /\ a \o y \in Seq(Event) /\ Len(a \o y) = (p - 1) + 1
          /\ \A i \in 1 .. (p - 1) + 1 :
               (a \o y)[i] = IF i <= p - 1 THEN a[i] ELSE y[i - (p - 1)]
      <4>1. /\ a \o y \in Seq(Event) /\ Len(a \o y) = Len(a) + Len(y)
            /\ \A i \in 1 .. Len(a) + Len(y) :
                 (a \o y)[i] = IF i <= Len(a) THEN a[i] ELSE y[i - Len(a)]
        BY ConcatProperties
      <4> HIDE DEF p
      <4> QED
        BY <3>2, <4>1
    <3>4. /\ (p - 1) + 1 = p /\ p \in 1 .. p /\ ~(p <= p - 1) /\ p - (p - 1) = 1
          /\ \A i \in 1 .. p - 1 : i \in 1 .. p /\ i <= p - 1
      BY <1>1, <2>5
    <3> QED
      BY <3>1, <3>2, <3>3, <3>4
  <2>12. /\ s \in Seq(Event) /\ Len(s) = p + (n - p + 1)
         /\ \A i \in 1 .. p : s[i] = (a \o <<e>>)[i]
         /\ \A i \in p + 1 .. n + 1 : s[i] = b[i - p]
    <3>1. PICK x \in Seq(Event) : x = a \o <<e>>
      BY <2>11
    <3>2. s = x \o b /\ Len(x) = p /\ Len(b) = n - p + 1
      BY <2>4, <2>8, <2>9, <2>11, <3>1
    <3>3. /\ x \o b \in Seq(Event) /\ Len(x \o b) = p + (n - p + 1)
          /\ \A i \in 1 .. p + (n - p + 1) :
               (x \o b)[i] = IF i <= p THEN x[i] ELSE b[i - p]
      <4>1. /\ x \o b \in Seq(Event) /\ Len(x \o b) = Len(x) + Len(b)
            /\ \A i \in 1 .. Len(x) + Len(b) :
                 (x \o b)[i] = IF i <= Len(x) THEN x[i] ELSE b[i - Len(x)]
        BY ConcatProperties
      <4> QED
        BY <3>2, <4>1
    <3>4. p + (n - p + 1) = n + 1
      BY <1>1, <2>5
    <3>5. \A i \in 1 .. p : i \in 1 .. n + 1 /\ i <= p
      BY <1>1, <2>5
    <3>6. \A i \in p + 1 .. n + 1 : i \in 1 .. n + 1 /\ ~(i <= p)
      BY <1>1, <2>5
    <3> HIDE DEF s
    <3>7. /\ s \in Seq(Event) /\ Len(s) = p + (n - p + 1)
          /\ \A i \in 1 .. n + 1 : s[i] = IF i <= p THEN x[i] ELSE b[i - p]
      BY <3>2, <3>3, <3>4
    <3> QED
      BY <3>1, <3>5, <3>6, <3>7
  <2>13. \A i \in p .. n : s[i + 1] = list[i]
    <3> SUFFICES ASSUME NEW i \in p .. n PROVE s[i + 1] = list[i]
      OBVIOUS
    <3>1. i + 1 \in p + 1 .. n + 1 /\ (i + 1) - p \in 1 .. n - p + 1
          /\ p + ((i + 1) - p) - 1 = i
      BY <1>1, <2>5
    <3> QED
      BY <2>8, <2>9, <2>12, <3>1
  <2> HIDE DEF s
  <2>14. /\ p \in 1 .. n + 1 /\ Len(s) = n + 1 /\ p \in 1 .. p
         /\ \A i \in 1 .. p - 1 : i \in 1 .. p
    BY <1>1, <2>5, <2>12
  <2>15. s[p] = e /\ \A i \in 1 .. p - 1 : s[i] = list[i]
    BY <2>11, <2>12, <2>14
  <2>16. /\ s \in Seq(Event) /\ Len(s) = n + 1 /\ s[p] = e
         /\ \A i \in 1 .. p - 1 : s[i] = list[i]
         /\ \A i \in p .. n : s[i + 1] = list[i]
         /\ \A i \in 1 .. p - 1 : ~(e.remainingTime < list[i].remainingTime)
         /\ p <= n => e.remainingTime < list[p].remainingTime
    BY <2>5, <2>6, <2>12, <2>13, <2>14, <2>15
  <2> QED
    BY <2>14, <2>16 DEF s
<1> QED
  BY <1>2, <1>3

\* The list with the new event holds it and the old ones.
LEMMA AddedKnown ==
    ASSUME NEW list, NEW c, Known(list, c), NEW e, Registered(e), e.at <= c
    PROVE  /\ Known(AddNewTimerEvents(list, e), c)
           /\ Len(AddNewTimerEvents(list, e)) = Len(list) + 1
           /\ \A i \in 1 .. Len(AddNewTimerEvents(list, e)) :
                \/ AddNewTimerEvents(list, e)[i] = e
                \/ \E j \in 1 .. Len(list) : AddNewTimerEvents(list, e)[i] = list[j]
<1> DEFINE s == AddNewTimerEvents(list, e)
           n == Len(list)
<1>1. list \in Seq(Event) /\ n \in Nat /\ e \in Event
  BY DEF Known, Registered
<1>2. PICK p \in 1 .. n + 1 :
        /\ s \in Seq(Event) /\ Len(s) = n + 1 /\ s[p] = e
        /\ \A i \in 1 .. p - 1 : s[i] = list[i]
        /\ \A i \in p .. n : s[i + 1] = list[i]
        /\ \A i \in 1 .. p - 1 : ~(e.remainingTime < list[i].remainingTime)
        /\ p <= n => e.remainingTime < list[p].remainingTime
  BY <1>1, AddedEvent
<1> HIDE DEF s
<1>3. ASSUME NEW i \in 1 .. n + 1
      PROVE  s[i] = e \/ \E j \in 1 .. n : s[i] = list[j]
  <2>1. CASE i < p
    BY <1>1, <1>2, <2>1
  <2>2. CASE i = p
    BY <1>2, <2>2
  <2>3. CASE i > p
    <3>1. i - 1 \in p .. n /\ i - 1 \in 1 .. n /\ (i - 1) + 1 = i
      BY <1>1, <1>2, <2>3
    <3> QED
      BY <1>2, <3>1
  <2> QED
    BY <1>1, <1>2, <2>1, <2>2, <2>3
<1>4. Known(s, c)
  BY <1>2, <1>3 DEF Known
<1> QED
  BY <1>2, <1>3, <1>4 DEF s

\* A list is known later, too.
LEMMA KnownLater ==
    ASSUME NEW list, NEW b \in Nat, Known(list, b), NEW c \in Nat, b <= c
    PROVE  Known(list, c)
<1>1. \A i \in 1 .. Len(list) : list[i].at \in Nat
  BY EventTypes DEF Known, Registered
<1> QED
  BY <1>1 DEF Known

\* An event registered by count c was registered by the second of c.
LEMMA RegisteredBy ==
    ASSUME NEW e, Registered(e), NEW c \in Nat, NEW t \in Nat, e.at <= c, c < FREQ * (t + 1)
    PROVE  e.registerTime <= t /\ Due(e) - t <= e.duration
<1>1. e.registerTime \in Nat /\ e.at \in Nat /\ e.duration \in Nat
      /\ Due(e) = e.registerTime + e.duration
  BY EventTypes DEF Registered
<1>2. FREQ \in Nat \ {0} /\ FREQ * e.registerTime <= e.at
  BY Bounds DEF Registered
<1>3. PICK r \in Nat : r = e.registerTime
  BY <1>1
<1>4. t + 1 <= r => FREQ * (t + 1) <= FREQ * r
  BY <1>2, ProductOrder
<1>5. FREQ * (t + 1) \in Int /\ FREQ * r \in Int
  BY <1>2
<1> QED
  BY <1>1, <1>2, <1>3, <1>4, <1>5

\* Where the timer is set for an event updated in the second t of count c: to a
\* count of the second in which the event is due.
LEMMA Timeout ==
    ASSUME NEW e, Registered(e), NEW c \in Nat, NEW t \in Nat, e.prevUpdatedTime = t,
           e.at <= c, FREQ * t <= c, c < FREQ * (t + 1),
           c < FREQ * (Due(e) + 1) + MaxLatency
    PROVE  /\ c + Tval(Wrap(FREQ * e.remainingTime)) \in Int
           /\ FREQ * Due(e) <= c + Tval(Wrap(FREQ * e.remainingTime))
           /\ c + Tval(Wrap(FREQ * e.remainingTime)) < FREQ * (Due(e) + 1)
<1>0. FREQ \in Nat \ {0} /\ TVAL \in Nat \ {0} /\ MaxLatency \in Nat
      /\ 2 * (FREQ + MaxLatency) <= TVAL
  BY Bounds
<1>1. e \in Event /\ Due(e) \in Nat /\ e.duration \in Nat /\ 2 * (FREQ * e.duration) < TVAL
      /\ e.remainingTime = Wrap(Due(e) - t)
  BY EventTypes, Bounds DEF Registered
<1>2. PICK D \in Nat, x \in Int, d \in Nat : D = Due(e) /\ x = D - t /\ d = e.duration
  BY <1>1
<1>3. FREQ * x = FREQ * D - FREQ * t /\ FREQ * (D + 1) = FREQ * D + FREQ
      /\ FREQ * (t + 1) = FREQ * t + FREQ
  BY <1>0, <1>2
<1>4. FREQ * x \in Int /\ FREQ * D \in Int /\ FREQ * t \in Int
  BY <1>0
<1>5. x <= d
  BY <1>2, RegisteredBy
<1>6. FREQ * x <= FREQ * d /\ FREQ * d \in Int
  BY <1>0, <1>5, ProductOrder
<1>7. 2 * (FREQ * x) < TVAL
  BY <1>0, <1>1, <1>2, <1>4, <1>6
<1>8. - TVAL <= 2 * (FREQ * x)
  <2>1. c < FREQ * D + FREQ + MaxLatency
    BY <1>0, <1>2, <1>3, <1>4
  <2>2. FREQ * t - FREQ * D < FREQ + MaxLatency
    BY <1>0, <1>4, <2>1
  <2> QED
    BY <1>0, <1>3, <1>4, <2>2
<1>9. Tval(Wrap(FREQ * Wrap(x))) = FREQ * x
  BY <1>7, <1>8, TvalExact
<1>10. e.remainingTime = Wrap(x)
  BY <1>1, <1>2
<1>11. c + Tval(Wrap(FREQ * e.remainingTime)) = c + FREQ * x
  BY <1>9, <1>10
<1>12. FREQ * D <= c + FREQ * x /\ c + FREQ * x < FREQ * (D + 1)
  BY <1>0, <1>3, <1>4
<1> QED
  BY <1>2, <1>4, <1>11, <1>12

\* Where the timer is set for an event updated in second t, which the counter has
\* reached: not before the event is due, unless its time has come already.
LEMMA TimeoutNotBefore ==
    ASSUME NEW e, Registered(e), NEW t \in Nat, e.prevUpdatedTime = t, e.registerTime <= t,
           NEW c \in Nat, FREQ * t <= c
    PROVE  \/ FREQ * Due(e) <= c + Tval(Wrap(FREQ * e.remainingTime))
           \/ FREQ * Due(e) <= c
<1>0. FREQ \in Nat \ {0} /\ TVAL \in Nat \ {0}
  BY Bounds
<1>1. /\ Due(e) \in Nat /\ e.duration \in Nat /\ 2 * (FREQ * e.duration) < TVAL
      /\ Due(e) - t <= e.duration /\ e.remainingTime = Wrap(Due(e) - t)
  BY EventTypes, Bounds DEF Registered
<1>2. PICK D \in Nat, x \in Int, d \in Nat : D = Due(e) /\ x = D - t /\ d = e.duration
  BY <1>1
<1>3. /\ FREQ * x = FREQ * D - FREQ * t
      /\ FREQ * x \in Int /\ FREQ * D \in Int /\ FREQ * t \in Int /\ FREQ * d \in Int
      /\ FREQ * 0 = 0
  BY <1>0, <1>2
<1>4. CASE x < 0
  <2>1. FREQ * D <= FREQ * t
    BY <1>0, <1>2, <1>4, ProductOrder
  <2> QED
    BY <1>2, <1>3, <2>1
<1>5. CASE x >= 0
  <2>1. FREQ * 0 <= FREQ * x /\ FREQ * x <= FREQ * d
    BY <1>0, <1>1, <1>2, <1>5, ProductOrder
  <2>2. 2 * (FREQ * x) < TVAL /\ - TVAL <= 2 * (FREQ * x)
    BY <1>0, <1>1, <1>2, <1>3, <2>1
  <2>3. Tval(Wrap(FREQ * Wrap(x))) = FREQ * x
    BY <2>2, TvalExact
  <2>4. c + Tval(Wrap(FREQ * e.remainingTime)) = c + FREQ * x
    BY <1>1, <1>2, <2>3
  <2>5. FREQ * D <= c + FREQ * x
    BY <1>3
  <2> QED
    BY <1>2, <2>4, <2>5
<1> QED
  BY <1>2, <1>4, <1>5

\* The type of what the timer is set to.
LEMMA TvalType ==
    ASSUME NEW x \in Int
    PROVE  Tval(x) \in Int
  BY Bounds, DivMod DEF Tval

\* In a list whose events are all updated in second t, and not due before it, a new
\* event is put where it keeps the list in order: the words have not wrapped.
LEMMA InsertedInOrder ==
    ASSUME NEW list, NEW c \in Nat, Known(list, c), InOrder(list), NEW t \in Nat,
           c < FREQ * (t + 1),
           \A i \in 1 .. Len(list) : list[i].prevUpdatedTime = t /\ t <= Due(list[i]),
           NEW e, Registered(e), e.at <= c, e.prevUpdatedTime = t, t <= Due(e)
    PROVE  LET s == AddNewTimerEvents(list, e)
           IN  /\ Known(s, c) /\ InOrder(s) /\ Len(s) = Len(list) + 1
               /\ \A i \in 1 .. Len(s) : s[i].prevUpdatedTime = t /\ t <= Due(s[i])
<1> DEFINE s == AddNewTimerEvents(list, e)
           n == Len(list)
<1>1. list \in Seq(Event) /\ n \in Nat /\ e \in Event
  BY DEF Known, Registered
<1>2. ASSUME NEW f, Registered(f), f.at <= c, f.prevUpdatedTime = t, t <= Due(f)
      PROVE  Due(f) \in Nat /\ f.remainingTime = Due(f) - t
  <2>1. Due(f) \in Nat /\ f.duration \in Nat /\ f.duration + MaxCount < WORD
        /\ f.remainingTime = Wrap(Due(f) - t)
    BY <1>2, EventTypes, Bounds DEF Registered
  <2>2. Due(f) - t <= f.duration
    BY <1>2, RegisteredBy
  <2>3. Due(f) - t \in 0 .. WORD - 1
    BY <1>2, <2>1, <2>2, Bounds
  <2> QED
    BY <2>1, <2>3, WrapSmall
<1>3. Due(e) \in Nat /\ e.remainingTime = Due(e) - t
  BY <1>2
<1>4. \A i \in 1 .. n : Due(list[i]) \in Nat /\ list[i].remainingTime = Due(list[i]) - t
  BY <1>2 DEF Known
<1>5. PICK p \in 1 .. n + 1 :
        /\ s \in Seq(Event) /\ Len(s) = n + 1 /\ s[p] = e
        /\ \A i \in 1 .. p - 1 : s[i] = list[i]
        /\ \A i \in p .. n : s[i + 1] = list[i]
        /\ \A i \in 1 .. p - 1 : ~(e.remainingTime < list[i].remainingTime)
        /\ p <= n => e.remainingTime < list[p].remainingTime
  BY <1>1, AddedEvent
<1> HIDE DEF s
<1>6. \A i \in 1 .. n + 1 : \/ i \in 1 .. p - 1 /\ i \in 1 .. n /\ s[i] = list[i]
                            \/ i = p /\ s[i] = e
                            \/ i - 1 \in p .. n /\ i - 1 \in 1 .. n /\ s[i] = list[i - 1]
  <2> SUFFICES ASSUME NEW i \in 1 .. n + 1
               PROVE  \/ i \in 1 .. p - 1 /\ i \in 1 .. n /\ s[i] = list[i]
                      \/ i = p /\ s[i] = e
                      \/ i - 1 \in p .. n /\ i - 1 \in 1 .. n /\ s[i] = list[i - 1]
    OBVIOUS
  <2>1. CASE i < p
    BY <1>1, <1>5, <2>1
  <2>2. CASE i = p
    BY <1>5, <2>2
  <2>3. CASE i > p
    <3>1. i - 1 \in p .. n /\ i - 1 \in 1 .. n /\ (i - 1) + 1 = i
      BY <1>1, <1>5, <2>3
    <3> QED
      BY <1>5, <3>1
  <2> QED
    BY <1>1, <1>5, <2>1, <2>2, <2>3
<1>7. Known(s, c)
  BY <1>1, <1>5, <1>6 DEF Known
<1>8. \A i \in 1 .. n + 1 : s[i].prevUpdatedTime = t /\ t <= Due(s[i])
  BY <1>6
<1>9. \A i \in 1 .. p - 1 : i \in 1 .. n /\ Due(list[i]) <= Due(e)
  BY <1>1, <1>3, <1>4, <1>5
<1>10. \A i \in p .. n : i \in 1 .. n /\ Due(e) <= Due(list[i])
  <2> SUFFICES ASSUME NEW i \in p .. n PROVE i \in 1 .. n /\ Due(e) <= Due(list[i])
    OBVIOUS
  <2>1. p \in 1 .. n /\ i \in 1 .. n /\ p <= i
    BY <1>1, <1>5
  <2>2. Due(e) <= Due(list[p])
    BY <1>3, <1>4, <1>5, <2>1, SMTT(60)
  <2>3. Due(list[p]) <= Due(list[i])
    BY <1>4, <2>1, SMTT(60) DEF InOrder
  <2> QED
    BY <1>3, <1>4, <2>1, <2>2, <2>3, SMTT(60)
<1>11. InOrder(s)
  <2> SUFFICES ASSUME NEW i \in 1 .. n + 1, NEW j \in 1 .. n + 1, i < j
               PROVE  Due(s[i]) <= Due(s[j])
    BY <1>5 DEF InOrder
  <2>1. CASE i < p /\ j < p
    BY <1>1, <1>5, <1>6, <2>1 DEF InOrder
  <2>2. CASE i < p /\ j = p
    BY <1>1, <1>5, <1>6, <1>9, <2>2
  <2>3. CASE i < p /\ j > p
    <3>1. s[i] = list[i] /\ s[j] = list[j - 1] /\ i \in 1 .. p - 1 /\ j - 1 \in p .. n
      BY <1>1, <1>5, <1>6, <2>3
    <3>2. i \in 1 .. n /\ j - 1 \in 1 .. n /\ Due(list[i]) <= Due(e) /\ Due(e) <= Due(list[j - 1])
      BY <1>9, <1>10, <3>1
    <3>3. Due(list[i]) \in Nat /\ Due(list[j - 1]) \in Nat
      BY <1>4, <3>2
    <3>4. Due(list[i]) <= Due(list[j - 1])
      BY <1>3, <3>2, <3>3
    <3> QED
      BY <3>1, <3>4
  <2>4. CASE i = p
    <3>1. s[j] = list[j - 1] /\ j - 1 \in p .. n
      BY <1>1, <1>5, <1>6, <2>4
    <3> QED
      BY <1>5, <1>10, <2>4, <3>1
  <2>5. CASE i > p
    <3>1. s[i] = list[i - 1] /\ s[j] = list[j - 1] /\ i - 1 \in 1 .. n /\ j - 1 \in 1 .. n
          /\ i - 1 < j - 1
      BY <1>1, <1>5, <1>6, <2>5
    <3> QED
      BY <3>1 DEF InOrder
  <2> QED
    BY <1>1, <1>5, <2>1, <2>2, <2>3, <2>4, <2>5
<1>12. Len(s) = n + 1
  BY <1>5
<1> QED
  BY <1>7, <1>8, <1>11, <1>12 DEF s

\* The rest of a list.
LEMMA RestInOrder ==
    ASSUME NEW list, NEW c, Known(list, c), list # <<>>
    PROVE  /\ Known(Tail(list), c) /\ (InOrder(list) => InOrder(Tail(list)))
           /\ Head(list) = list[1] /\ Len(Tail(list)) = Len(list) - 1 /\ Len(list) \in Nat \ {0}
           /\ \A i \in 1 .. Len(list) - 1 : Tail(list)[i] = list[i + 1]
<1>1. list \in Seq(Event) /\ Len(list) \in Nat \ {0} /\ Head(list) = list[1]
  BY DEF Known
<1>2. /\ Tail(list) \in Seq(Event) /\ Len(Tail(list)) = Len(list) - 1
      /\ \A i \in 1 .. Len(list) - 1 : Tail(list)[i] = list[i + 1]
  BY <1>1
<1>3. \A i \in 1 .. Len(list) - 1 : i + 1 \in 1 .. Len(list)
  BY <1>1
<1>4. Known(Tail(list), c)
  BY <1>2, <1>3 DEF Known
<1>5. InOrder(list) => InOrder(Tail(list))
  BY <1>1, <1>2, <1>3 DEF InOrder
<1> QED
  BY <1>1, <1>2, <1>4, <1>5

-----------------------------------------------------------------------------
(***************************************************************************)
(* The inductive invariant.  An event comes due in second Due(e); the      *)
(* timer is set to a count of that second for the first event, and no      *)
(* interrupt is later than MaxLatency.  What disturbs the events takes     *)
(* parts of that away: Basic holds whatever happens, Alone until an        *)
(* interrupt comes inside add_timer or the timer is switched, Quiet until  *)
(* anything does.                                                          *)
(***************************************************************************)
\* add_timer has registered its event in the second it keeps, and no event of the
\* list was registered later.
Adding ==
    pc # "idle" =>
      /\ Registered(new)
      /\ new.prevUpdatedTime = new.registerTime
      /\ new.at <= cnt /\ Known(timer_list, new.at)

Basic == TypeOK /\ HandlerFindsEvent /\ Known(timer_list, cnt) /\ Adding

\* The interrupt goes to the events, add_timer finds in the list what it has put
\* there, and the timer does not expire before the second of the first event.
Routed ==
    /\ pc \in {"idle", "flag"} /\ timer_list # <<>> => isTimerMultiplexingEventIRQ = 1
    /\ pc \in {"list", "arm"} => isTimerMultiplexingEventIRQ = 1
    /\ pc = "arm" =>
         /\ timer_list # <<>>
         /\ \A i \in 1 .. Len(timer_list) : timer_list[i].prevUpdatedTime = new.registerTime
    /\ pc = "idle" /\ timer_list # <<>> =>
         FREQ * Due(timer_list[1]) <= cval \/ FREQ * Due(timer_list[1]) <= cnt

Alone == disturbed \subseteq {"second"} => Routed

\* The timer is on and set for a count of the second in which event e is due.
ArmedFor(e) ==
    /\ on = TRUE
    /\ FREQ * Due(e) <= cval /\ cval < FREQ * (Due(e) + 1)
    /\ cnt < FREQ * (Due(e) + 1) + MaxLatency

\* add_timer is still in the second in which it registered its event, and no event of
\* the list was due before that second.
InSecond ==
    pc # "idle" =>
      /\ cnt < FREQ * (new.registerTime + 1)
      /\ \A i \in 1 .. Len(timer_list) : new.registerTime <= Due(timer_list[i])

Quiet ==
    disturbed = {} =>
      /\ InOrder(timer_list)
      /\ pc = "idle" /\ timer_list # <<>> => ArmedFor(timer_list[1])
      /\ InSecond

TimerInv == Basic /\ Alone /\ Quiet /\ NotEarly /\ NotLate

\* The types of the state, as the proofs use them.
LEMMA StateTypes ==
    ASSUME Basic
    PROVE  /\ cnt \in 0 .. MaxCount /\ cnt \in Nat /\ cval \in Int /\ on \in BOOLEAN
           /\ added \in 0 .. MaxEvents /\ switches \in 0 .. MaxSwitches
           /\ timer_list \in Seq(Event) /\ Len(timer_list) \in Nat
           /\ timer_list # <<>> => 1 \in 1 .. Len(timer_list)
           /\ isTimerMultiplexingEventIRQ \in {0, 1} /\ pc \in {"idle", "flag", "list", "arm"}
           /\ new \in Event
           /\ last \in [event : Event, count : Nat, disturbed : SUBSET Disturbances]
           /\ fault \in BOOLEAN /\ disturbed \subseteq Disturbances
           /\ get_system_time \in Nat
           /\ FREQ * get_system_time <= cnt /\ cnt < FREQ * (get_system_time + 1)
<1>1. /\ cnt \in 0 .. MaxCount /\ cval \in Int /\ on \in BOOLEAN
      /\ added \in 0 .. MaxEvents /\ switches \in 0 .. MaxSwitches
      /\ timer_list \in Seq(Event)
      /\ isTimerMultiplexingEventIRQ \in {0, 1} /\ pc \in {"idle", "flag", "list", "arm"}
      /\ new \in Event
      /\ last \in [event : Event, count : Nat, disturbed : SUBSET Disturbances]
      /\ fault \in BOOLEAN /\ disturbed \subseteq Disturbances
  BY DEF Basic, TypeOK, Event
<1>2. cnt \in Nat
  BY <1>1, Bounds
<1>3. /\ get_system_time \in Nat
      /\ FREQ * get_system_time <= cnt /\ cnt < FREQ * (get_system_time + 1)
  BY <1>2, Seconds DEF get_system_time
<1>4. /\ Len(timer_list) \in Nat
      /\ timer_list # <<>> => 1 \in 1 .. Len(timer_list)
  BY <1>1
<1> QED
  BY <1>1, <1>2, <1>3, <1>4

\* The first event of the list.
LEMMA FirstEvent ==
    ASSUME Basic, timer_list # <<>>
    PROVE  /\ Head(timer_list) = timer_list[1] /\ 1 \in 1 .. Len(timer_list)
           /\ Registered(timer_list[1]) /\ timer_list[1].at <= cnt
           /\ Due(timer_list[1]) \in Nat /\ timer_list[1].at \in Nat
           /\ pc # "idle" => timer_list[1].at <= new.at
<1>1. timer_list \in Seq(Event) /\ 1 \in 1 .. Len(timer_list)
  BY StateTypes
<1>2. Registered(timer_list[1]) /\ timer_list[1].at <= cnt
  BY <1>1 DEF Basic, Known
<1>3. pc # "idle" => timer_list[1].at <= new.at
  BY <1>1 DEF Basic, Adding, Known
<1> QED
  BY <1>1, <1>2, <1>3, EventTypes DEF Registered

\* The initial state.
LEMMA InitTimerInv == Init => TimerInv
<1> SUFFICES ASSUME Init PROVE TimerInv
  OBVIOUS
<1>1. NoEvent \in Event
  BY Bounds DEF NoEvent, Event
<1>2. TypeOK
  <2>1. last \in [event : Event, count : Nat, disturbed : SUBSET Disturbances]
    BY <1>1 DEF Init
  <2>2. /\ MaxCount \in Nat /\ MaxEvents \in Nat /\ MaxSwitches \in Nat /\ PERIOD \in Int
    BY TimerAssumption
  <2>3. /\ cnt = 0 /\ cval = PERIOD /\ added = 0 /\ switches = 0 /\ disturbed = {}
        /\ isTimerMultiplexingEventIRQ = 0 /\ pc = "idle" /\ on = TRUE /\ fault = FALSE
        /\ timer_list = <<>> /\ new = NoEvent
    BY DEF Init
  <2>4. timer_list \in Seq(Event) /\ disturbed \subseteq Disturbances
    BY <2>3
  <2>5. cnt \in 0 .. MaxCount /\ added \in 0 .. MaxEvents /\ switches \in 0 .. MaxSwitches
        /\ cval \in Int
    BY <2>2, <2>3
  <2>6. /\ isTimerMultiplexingEventIRQ \in {0, 1} /\ pc \in {"idle", "flag", "list", "arm"}
        /\ on \in BOOLEAN /\ fault \in BOOLEAN /\ new \in Event
    BY <1>1, <2>3
  <2> QED
    BY <2>1, <2>4, <2>5, <2>6 DEF TypeOK, Event
<1>3. Known(timer_list, cnt) /\ InOrder(timer_list)
  BY DEF Init, Known, InOrder
<1>4. HandlerFindsEvent /\ Adding /\ Routed /\ InSecond
  BY DEF Init, HandlerFindsEvent, Adding, Routed, InSecond
<1>5. NotEarly /\ NotLate
  <2>1. last.count = 0 /\ last.event.at = 0 /\ last.event.duration = 0
    BY DEF Init, NoEvent
  <2>2. FREQ * (0 - 1) = -FREQ /\ FREQ * (0 + 1) = FREQ
    BY Bounds
  <2> QED
    BY <2>1, <2>2, Bounds DEF NotEarly, NotLate, InTime, OnTime, Slack
<1> QED
  BY <1>2, <1>3, <1>4, <1>5 DEF TimerInv, Basic, Alone, Quiet, Init

\* add_timer begins.  As long as nothing has disturbed the events, the timer has not
\* expired, so no pending event was due before this second.
LEMMA AddBeginInv ==
    ASSUME TimerInv, AddBegin
    PROVE  TimerInv'
<1> USE DEF TimerInv
<1>1. PICK d \in Durations : new' = TimerEvent(d)
  BY DEF AddBegin
<1>2. /\ UNCHANGED <<cnt, on, cval, timer_list, isTimerMultiplexingEventIRQ, switches, last, fault>>
      /\ pc = "idle" /\ pc' = "flag" /\ ~Pending /\ added' = added + 1 /\ added < MaxEvents
      /\ disturbed' = IF timer_list = <<>> THEN {} ELSE disturbed
  BY DEF AddBegin
<1> DEFINE t == get_system_time
<1>3. t \in Nat /\ FREQ * t <= cnt /\ cnt < FREQ * (t + 1) /\ cnt \in Nat /\ cval \in Int
  BY StateTypes
<1> HIDE DEF t
<1>4. d \in Nat /\ d \in 0 .. WORD - 1
  BY Bounds
<1>5. new' = [registerTime |-> t, prevUpdatedTime |-> t, duration |-> d,
              remainingTime |-> d, at |-> cnt]
  BY <1>1 DEF TimerEvent, t
<1>6. new' \in Event /\ Due(new') = t + d
  BY <1>3, <1>4, <1>5 DEF Event, Due
<1>7. Registered(new')
  <2>1. (t + d) - t = d
    BY <1>3, <1>4
  <2>2. d = Wrap((t + d) - t)
    BY <1>4, <2>1, WrapSmall
  <2> QED
    BY <1>3, <1>5, <1>6, <2>2 DEF Registered
<1>8. ASSUME disturbed = {}
      PROVE  \A i \in 1 .. Len(timer_list) : t <= Due(timer_list[i])
  <2> SUFFICES ASSUME NEW i \in 1 .. Len(timer_list) PROVE t <= Due(timer_list[i])
    OBVIOUS
  <2>1. Len(timer_list) \in Nat /\ timer_list # <<>> /\ 1 \in 1 .. Len(timer_list)
    BY StateTypes
  <2>2. Due(timer_list[1]) \in Nat /\ Due(timer_list[i]) \in Nat
    BY <2>1, EventTypes DEF Basic, Known, Registered
  <2>3. Due(timer_list[1]) <= Due(timer_list[i])
    BY <1>8, <2>1, <2>2 DEF Quiet, InOrder
  <2>4. ArmedFor(timer_list[1])
    BY <1>2, <1>8, <2>1 DEF Quiet
  <2>5. PICK D \in Nat : D = Due(timer_list[1])
    BY <2>2
  <2>6. cnt < FREQ * (D + 1)
    <3>1. cnt < cval /\ cval < FREQ * (D + 1)
      BY <1>2, <1>3, <2>4, <2>5 DEF ArmedFor, Pending
    <3> QED
      BY <1>3, <2>5, <3>1, Bounds
  <2>7. t <= D
    BY <1>3, <2>6, Seconds DEF t, get_system_time
  <2> QED
    BY <1>3, <2>2, <2>3, <2>5, <2>7
<1>9. TypeOK'
  <2>1. added' \in 0 .. MaxEvents
    <3>1. added \in 0 .. MaxEvents /\ MaxEvents \in Nat
      BY StateTypes, Bounds
    <3> QED
      BY <1>2, <3>1
  <2>2. disturbed' \subseteq Disturbances
    BY <1>2, StateTypes
  <2> QED
    BY <1>2, <1>6, <2>1, <2>2 DEF Basic, TypeOK, Event
<1>10. Known(timer_list, cnt)' /\ HandlerFindsEvent'
  BY <1>2 DEF Basic, HandlerFindsEvent
<1>11. Adding'
  BY <1>2, <1>3, <1>5, <1>7 DEF Adding, Basic
<1>12. Alone'
  <2>1. timer_list # <<>> /\ disturbed \subseteq {"second"} => isTimerMultiplexingEventIRQ = 1
    BY <1>2 DEF Alone, Routed
  <2> QED
    BY <1>2, <2>1 DEF Alone, Routed
<1>13. Quiet'
  <2>1. CASE timer_list = <<>>
    BY <1>2, <1>3, <1>5, <2>1 DEF Quiet, InOrder, InSecond
  <2>2. CASE timer_list # <<>>
    BY <1>2, <1>3, <1>5, <1>8, <2>2 DEF Quiet, InSecond
  <2> QED
    BY <2>1, <2>2
<1>14. NotEarly' /\ NotLate'
  BY <1>2 DEF NotEarly, NotLate
<1> QED
  BY <1>9, <1>10, <1>11, <1>12, <1>13, <1>14 DEF Basic

\* add_timer takes the interrupt for the events.
LEMMA AddFlagInv ==
    ASSUME TimerInv, AddFlag
    PROVE  TimerInv'
<1> USE DEF TimerInv
<1>1. UNCHANGED <<cnt, on, cval, timer_list, new, added, switches, last, fault, disturbed>>
      /\ pc = "flag" /\ pc' = "list" /\ isTimerMultiplexingEventIRQ' = 1
  BY DEF AddFlag
<1>2. TypeOK' /\ NotEarly' /\ NotLate'
  BY <1>1 DEF Basic, TypeOK, NotEarly, NotLate
<1>3. Known(timer_list, cnt)' /\ HandlerFindsEvent' /\ Adding'
  BY <1>1 DEF Basic, HandlerFindsEvent, Adding
<1>4. Alone' /\ Quiet'
  BY <1>1 DEF Alone, Routed, Quiet, InSecond
<1> QED
  BY <1>2, <1>3, <1>4 DEF Basic

\* add_timer puts the event in the list.
LEMMA AddListInv ==
    ASSUME TimerInv, AddList, fault = FALSE
    PROVE  TimerInv'
<1> USE DEF TimerInv
<1>1. UNCHANGED <<cnt, on, cval, isTimerMultiplexingEventIRQ, new, added, switches, last,
                  fault, disturbed>>
      /\ pc = "list" /\ pc' = "arm"
  BY DEF AddList
<1> DEFINE t == new.registerTime
           L == UpdateTimerEvents(timer_list, t)
           s == AddNewTimerEvents(L, new)
<1>2. timer_list' = s
  BY DEF AddList
<1>3. /\ Registered(new) /\ new.prevUpdatedTime = t
      /\ new.at <= cnt /\ Known(timer_list, new.at)
  BY <1>1 DEF Basic, Adding
<1>4. t \in Nat /\ t <= Due(new) /\ cnt \in Nat /\ new.at \in Nat /\ Len(timer_list) \in Nat
  <2>1. t \in Nat /\ new.duration \in Nat /\ Due(new) = t + new.duration /\ new.at \in Nat
    BY <1>3, EventTypes DEF Registered
  <2>2. cnt \in Nat /\ Len(timer_list) \in Nat
    BY StateTypes
  <2>3. t <= Due(new)
    <3> HIDE DEF t
    <3> QED
      BY <2>1
  <2> QED
    BY <2>1, <2>2, <2>3
<1> HIDE DEF t
<1>5. /\ Known(L, new.at) /\ (InOrder(timer_list) => InOrder(L)) /\ Len(L) = Len(timer_list)
      /\ \A i \in 1 .. Len(timer_list) : L[i] = Updated(timer_list[i], t)
  BY <1>3, <1>4, UpdatedList
<1>6. \A i \in 1 .. Len(L) : L[i].prevUpdatedTime = t /\ Due(L[i]) = Due(timer_list[i])
  <2> SUFFICES ASSUME NEW i \in 1 .. Len(timer_list)
               PROVE  L[i].prevUpdatedTime = t /\ Due(L[i]) = Due(timer_list[i])
    BY <1>5
  <2>1. Registered(timer_list[i])
    BY <1>3 DEF Known
  <2>2. /\ Updated(timer_list[i], t).prevUpdatedTime = t
        /\ Due(Updated(timer_list[i], t)) = Due(timer_list[i])
    BY <1>4, <2>1, UpdatedEvent
  <2>3. L[i] = Updated(timer_list[i], t)
    BY <1>5
  <2> HIDE DEF L
  <2> QED
    BY <2>2, <2>3
<1> HIDE DEF L
<1>7. /\ Known(s, new.at) /\ Len(s) = Len(L) + 1
      /\ \A i \in 1 .. Len(s) : s[i] = new \/ \E j \in 1 .. Len(L) : s[i] = L[j]
  BY <1>3, <1>4, <1>5, AddedKnown
<1>8. \A i \in 1 .. Len(s) : s[i].prevUpdatedTime = t
  <2> HIDE DEF s
  <2> QED
    BY <1>3, <1>6, <1>7
<1>9. ASSUME disturbed = {}
      PROVE  InOrder(s) /\ \A i \in 1 .. Len(s) : t <= Due(s[i])
  <2>1. /\ InOrder(L) /\ new.at < FREQ * (t + 1)
        /\ \A i \in 1 .. Len(timer_list) : t <= Due(timer_list[i])
    BY <1>1, <1>3, <1>5, <1>9 DEF Quiet, InSecond, t, Registered
  <2>2. \A i \in 1 .. Len(L) : L[i].prevUpdatedTime = t /\ t <= Due(L[i])
    BY <1>5, <1>6, <2>1
  <2>3. /\ InOrder(s) /\ \A i \in 1 .. Len(s) : s[i].prevUpdatedTime = t /\ t <= Due(s[i])
    BY <1>3, <1>4, <1>5, <2>1, <2>2, InsertedInOrder
  <2> HIDE DEF s
  <2> QED
    BY <2>3
<1>10. Known(s, cnt)
  BY <1>3, <1>4, <1>7, KnownLater
<1> HIDE DEF s
<1>11. s \in Seq(Event) /\ s # <<>>
  BY <1>4, <1>5, <1>7 DEF Known
<1>12. TypeOK'
  <2>1. timer_list' \in Seq(Event) /\ pc' \in {"idle", "flag", "list", "arm"}
    BY <1>1, <1>2, <1>11
  <2> QED
    BY <1>1, <2>1 DEF Basic, TypeOK, Event
<1>13. Known(timer_list, cnt)' /\ HandlerFindsEvent'
  BY <1>1, <1>2, <1>10, <1>11 DEF Basic, HandlerFindsEvent
<1>14. Adding'
  BY <1>1, <1>2, <1>3, <1>7 DEF Adding, t
<1>15. Alone'
  BY <1>1, <1>2, <1>8, <1>11 DEF Alone, Routed, t
<1>16. Quiet'
  BY <1>1, <1>2, <1>9 DEF Quiet, InSecond, t
<1>17. NotEarly' /\ NotLate'
  BY <1>1 DEF NotEarly, NotLate
<1> QED
  BY <1>12, <1>13, <1>14, <1>15, <1>16, <1>17 DEF Basic

\* add_timer sets the timer for the first event, or for a word of whatever stands
\* where the handler has left none.
LEMMA AddArmInv ==
    ASSUME TimerInv, AddArm
    PROVE  TimerInv'
<1> USE DEF TimerInv
<1>1. UNCHANGED <<cnt, timer_list, isTimerMultiplexingEventIRQ, added, switches, last,
                  fault, disturbed>>
      /\ pc = "arm" /\ pc' = "idle" /\ new' = NoEvent /\ on' = TRUE
  BY DEF AddArm
<1>2. fault = FALSE /\ HandlerFindsEvent'
  <2>1. fault = FALSE /\ ~(isTimerMultiplexingEventIRQ = 1 /\ timer_list = <<>>)
    BY <1>1, StateTypes DEF Basic, HandlerFindsEvent
  <2> QED
    BY <1>1, <2>1 DEF HandlerFindsEvent
<1>3. cnt \in Nat
  BY StateTypes
<1> DEFINE t == new.registerTime
           e == timer_list[1]
<1>4. ASSUME timer_list # <<>>
      PROVE  /\ cval' = cnt + Tval(Wrap(FREQ * e.remainingTime)) /\ cval' \in Int
  <2>1. Head(timer_list) = e /\ e.remainingTime \in Nat
    BY <1>4, FirstEvent, EventTypes, Bounds DEF Registered
  <2>2. cval' = cnt + Tval(Wrap(FREQ * e.remainingTime))
    BY <1>4, <2>1 DEF AddArm, NextTimeout
  <2>3. Tval(Wrap(FREQ * e.remainingTime)) \in Int
    BY <2>1, Bounds, WrapType, TvalType
  <2> HIDE DEF e
  <2> QED
    BY <1>3, <2>2, <2>3
<1>5. cval' \in Int
  <2>1. CASE timer_list = <<>>
    <3>1. PICK x \in Garbage : cval' = cnt + Tval(Wrap(FREQ * x))
      BY <2>1 DEF AddArm
    <3>2. x \in Int
      BY <3>1, TimerAssumption
    <3>3. Tval(Wrap(FREQ * x)) \in Int
      BY <3>2, Bounds, WrapType, TvalType
    <3> QED
      BY <1>3, <3>1, <3>3
  <2> QED
    BY <1>4, <2>1
<1>6. Registered(new) /\ new.at <= cnt /\ FREQ * t <= new.at /\ new.at < FREQ * (t + 1)
      /\ t \in Nat /\ new.at \in Nat
  BY <1>1, EventTypes DEF Basic, Adding, Registered
<1>7. FREQ * t <= cnt
  <2> HIDE DEF t
  <2>1. FREQ * t \in Int
    BY <1>6, Bounds
  <2> QED
    BY <1>3, <1>6, <2>1
<1>8. ASSUME timer_list # <<>>, Routed
      PROVE  /\ Registered(e) /\ e.at <= cnt /\ e.prevUpdatedTime = t /\ Due(e) \in Nat
             /\ FREQ * Due(e) <= cval' \/ FREQ * Due(e) <= cnt
  <2>1. Registered(e) /\ e.at <= cnt /\ e.at <= new.at /\ Due(e) \in Nat
    BY <1>1, <1>8, FirstEvent
  <2>2. e.prevUpdatedTime = t
    BY <1>1, <1>8, FirstEvent DEF Routed
  <2> HIDE DEF t, e
  <2>3. e.registerTime <= t
    BY <1>6, <2>1, RegisteredBy
  <2>4. FREQ * Due(e) <= cval' \/ FREQ * Due(e) <= cnt
    <3>1. \/ FREQ * Due(e) <= cnt + Tval(Wrap(FREQ * e.remainingTime))
          \/ FREQ * Due(e) <= cnt
      BY <1>3, <1>6, <1>7, <2>1, <2>2, <2>3, TimeoutNotBefore
    <3> QED
      BY <1>4, <1>8, <3>1
  <2> QED
    BY <2>1, <2>2, <2>4
<1>9. TypeOK'
  <2>1. NoEvent \in Event
    BY Bounds DEF NoEvent, Event
  <2> QED
    BY <1>1, <1>5, <2>1 DEF Basic, TypeOK, Event
<1>10. Known(timer_list, cnt)' /\ Adding'
  BY <1>1 DEF Basic, Adding
<1>11. Alone'
  <2> SUFFICES ASSUME disturbed \subseteq {"second"} PROVE Routed'
    BY <1>1 DEF Alone
  <2>1. Routed /\ timer_list # <<>> /\ isTimerMultiplexingEventIRQ = 1
    BY <1>1 DEF Alone, Routed
  <2>2. FREQ * Due(e) <= cval' \/ FREQ * Due(e) <= cnt
    BY <1>8, <2>1
  <2> QED
    BY <1>1, <2>1, <2>2 DEF Routed
<1>12. Quiet'
  <2> SUFFICES ASSUME disturbed = {}
               PROVE  InOrder(timer_list)' /\ ArmedFor(timer_list[1])' /\ InSecond'
    BY <1>1 DEF Quiet
  <2>1. Routed /\ timer_list # <<>>
    BY <1>1 DEF Alone, Routed
  <2>2. cnt < FREQ * (t + 1) /\ t <= Due(e)
    BY <1>1, <2>1, FirstEvent DEF Quiet, InSecond
  <2>3. Registered(e) /\ e.at <= cnt /\ e.prevUpdatedTime = t /\ Due(e) \in Nat
    BY <1>8, <2>1
  <2> HIDE DEF t, e
  <2>4. cnt < FREQ * (Due(e) + 1) + MaxLatency
    <3>1. PICK D \in Nat : D = Due(e)
      BY <2>3
    <3>2. FREQ * (t + 1) <= FREQ * (D + 1)
      BY <1>6, <2>2, <3>1, Bounds, ProductOrder
    <3>3. FREQ * (t + 1) \in Int /\ FREQ * (D + 1) \in Int
      BY <1>6, Bounds
    <3> QED
      BY <1>3, <2>2, <3>1, <3>2, <3>3, Bounds
  <2>5. FREQ * Due(e) <= cval' /\ cval' < FREQ * (Due(e) + 1)
    <3>1. /\ FREQ * Due(e) <= cnt + Tval(Wrap(FREQ * e.remainingTime))
          /\ cnt + Tval(Wrap(FREQ * e.remainingTime)) < FREQ * (Due(e) + 1)
      BY <1>3, <1>6, <1>7, <2>2, <2>3, <2>4, Timeout
    <3> QED
      BY <1>4, <2>1, <3>1
  <2>6. ArmedFor(timer_list[1])'
    BY <1>1, <2>4, <2>5 DEF ArmedFor, e
  <2>7. InOrder(timer_list)' /\ InSecond'
    BY <1>1 DEF Quiet, InSecond
  <2> QED
    BY <2>6, <2>7
<1>13. NotEarly' /\ NotLate'
  BY <1>1 DEF NotEarly, NotLate
<1> QED
  BY <1>2, <1>9, <1>10, <1>11, <1>12, <1>13 DEF Basic

\* The handler takes the first event off the list, unless there is none, and sets the
\* timer for the next one.
LEMMA HandlerInv ==
    ASSUME TimerInv, Pending, timerEvents_irq_handler, fault = FALSE,
           UNCHANGED <<cnt, pc, new, added, switches>>
    PROVE  TimerInv'
<1> USE DEF TimerInv
<1>1. /\ isTimerMultiplexingEventIRQ = 1
      /\ disturbed' = IF pc = "idle" THEN disturbed ELSE disturbed \cup {"irq"}
      /\ disturbed' \subseteq Disturbances
  <2>1. isTimerMultiplexingEventIRQ = 1
        /\ disturbed' = IF pc = "idle" THEN disturbed ELSE disturbed \cup {"irq"}
    BY DEF timerEvents_irq_handler
  <2>2. disturbed \subseteq Disturbances
    BY StateTypes
  <2> QED
    BY <2>1, <2>2 DEF Disturbances
<1>2. CASE timer_list = <<>>
  <2>1. /\ fault' = TRUE
        /\ UNCHANGED <<on, cval, timer_list, isTimerMultiplexingEventIRQ, last>>
    BY <1>2 DEF timerEvents_irq_handler
  <2>2. pc = "list" /\ pc' = "list" /\ disturbed' = disturbed \cup {"irq"}
    BY <1>1, <1>2 DEF Basic, HandlerFindsEvent
  <2>3. TypeOK'
    BY <1>1, <2>1 DEF Basic, TypeOK, Event
  <2>4. HandlerFindsEvent' /\ Known(timer_list, cnt)' /\ Adding'
    BY <2>1, <2>2 DEF HandlerFindsEvent, Basic, Adding
  <2>5. Alone' /\ Quiet' /\ NotEarly' /\ NotLate'
    BY <2>1, <2>2 DEF Alone, Quiet, NotEarly, NotLate
  <2> QED
    BY <2>3, <2>4, <2>5 DEF Basic
<1>3. CASE timer_list # <<>>
  <2> DEFINE t == get_system_time
             L == UpdateTimerEvents(timer_list, t)
             rest == Tail(L)
             e == timer_list[1]
  <2>1. /\ last' = [event |-> Head(L), count |-> cnt, disturbed |-> disturbed']
        /\ timer_list' = rest
        /\ isTimerMultiplexingEventIRQ' = Multiplexing(rest)
        /\ on' = (rest # <<>>)
        /\ cval' = IF rest = <<>> THEN cval ELSE NextTimeout(rest)
        /\ fault' = fault
    BY <1>3 DEF timerEvents_irq_handler
  <2>2. /\ cnt \in Nat /\ cval \in Int /\ cval <= cnt
        /\ t \in Nat /\ FREQ * t <= cnt /\ cnt < FREQ * (t + 1)
        /\ Len(timer_list) \in Nat /\ 1 \in 1 .. Len(timer_list)
    BY <1>3, StateTypes DEF Pending
  <2> HIDE DEF t
  <2>3. /\ Known(L, cnt) /\ (InOrder(timer_list) => InOrder(L)) /\ Len(L) = Len(timer_list)
        /\ \A i \in 1 .. Len(timer_list) : L[i] = Updated(timer_list[i], t)
    BY <2>2, UpdatedList DEF Basic
  <2>4. pc # "idle" => Known(L, new.at)
    BY <2>2, UpdatedList DEF Basic, Adding
  <2> HIDE DEF L
  <2>5. L # <<>>
    BY <2>2, <2>3 DEF Known
  <2>6. /\ Known(rest, cnt) /\ (InOrder(L) => InOrder(rest)) /\ Head(L) = L[1]
        /\ Len(rest) = Len(L) - 1 /\ Len(L) \in Nat \ {0}
        /\ \A i \in 1 .. Len(L) - 1 : rest[i] = L[i + 1]
    BY <2>3, <2>5, RestInOrder
  <2>7. pc # "idle" => Known(rest, new.at)
    BY <2>4, <2>5, RestInOrder
  <2> HIDE DEF rest
  <2>8. /\ Registered(L[1]) /\ L[1] \in Event /\ Due(L[1]) = Due(e) /\ Due(e) \in Nat
    <3>1. Registered(e) /\ L[1] = Updated(e, t)
      BY <1>3, <2>2, <2>3, FirstEvent
    <3>2. Due(L[1]) = Due(e) /\ Registered(L[1])
      BY <2>2, <3>1, UpdatedEvent
    <3> QED
      BY <3>1, <3>2, EventTypes DEF Registered
  <2>9. rest \in Seq(Event)
    BY <2>6 DEF Known
  <2>10. last' \in [event : Event, count : Nat, disturbed : SUBSET Disturbances]
    BY <1>1, <2>1, <2>2, <2>6, <2>8
  <2>11. ASSUME rest # <<>>
         PROVE  /\ Head(rest) = rest[1] /\ 1 \in 1 .. Len(rest) /\ Len(timer_list) \in Nat
                /\ 1 \in 1 .. Len(timer_list) - 1 /\ 2 \in 1 .. Len(timer_list)
                /\ rest[1] = L[2]
                /\ Registered(rest[1]) /\ rest[1].at <= cnt /\ rest[1].prevUpdatedTime = t
                /\ Due(rest[1]) \in Nat /\ Due(rest[1]) = Due(timer_list[2])
                /\ rest[1].remainingTime \in Nat
    <3>1. Head(rest) = rest[1] /\ 1 \in 1 .. Len(rest) /\ Len(rest) \in Nat
      BY <2>9, <2>11
    <3>2. /\ 1 \in 1 .. Len(timer_list) - 1 /\ 2 \in 1 .. Len(timer_list)
          /\ 1 \in 1 .. Len(L) - 1
      BY <2>2, <2>3, <2>6, <3>1
    <3>3. rest[1] = L[2]
      BY <2>6, <3>2
    <3>4. Registered(rest[1]) /\ rest[1].at <= cnt
      BY <2>6, <3>1 DEF Known
    <3>5. Registered(timer_list[2]) /\ rest[1] = Updated(timer_list[2], t)
      BY <2>3, <3>2, <3>3 DEF Basic, Known
    <3>6. /\ Updated(timer_list[2], t).prevUpdatedTime = t
          /\ Due(Updated(timer_list[2], t)) = Due(timer_list[2])
      BY <2>2, <3>5, UpdatedEvent
    <3>7. Due(rest[1]) \in Nat /\ rest[1].remainingTime \in Nat
      BY <3>4, EventTypes, Bounds DEF Registered
    <3>8. rest[1].prevUpdatedTime = t /\ Due(rest[1]) = Due(timer_list[2])
      BY <3>5, <3>6
    <3> QED
      BY <2>2, <3>1, <3>2, <3>3, <3>4, <3>7, <3>8
  <2>12. ASSUME rest # <<>>
         PROVE  /\ cval' = cnt + Tval(Wrap(FREQ * rest[1].remainingTime)) /\ cval' \in Int
                /\ isTimerMultiplexingEventIRQ' = 1 /\ on' = TRUE
    <3>1. cval' = cnt + Tval(Wrap(FREQ * rest[1].remainingTime))
      BY <2>1, <2>11, <2>12 DEF NextTimeout
    <3>2. Tval(Wrap(FREQ * rest[1].remainingTime)) \in Int
      <4>1. PICK r \in Nat : r = rest[1].remainingTime
        BY <2>11, <2>12
      <4> QED
        BY <4>1, Bounds, WrapType, TvalType
    <3>3. cval' \in Int
      <4> HIDE DEF e
      <4> QED
        BY <2>2, <3>1, <3>2
    <3>4. isTimerMultiplexingEventIRQ' = 1 /\ on' = TRUE
      BY <1>1, <2>1, <2>12 DEF Multiplexing
    <3> QED
      BY <3>1, <3>3, <3>4
  <2>13. ASSUME rest = <<>>
         PROVE  cval' = cval /\ isTimerMultiplexingEventIRQ' = 0 /\ on' = FALSE
    BY <2>1, <2>13 DEF Multiplexing
  <2>14. TypeOK'
    <3>1. cval' \in Int /\ isTimerMultiplexingEventIRQ' \in {0, 1} /\ on' \in BOOLEAN
      BY <2>2, <2>12, <2>13
    <3> QED
      BY <1>1, <2>1, <2>9, <2>10, <3>1 DEF Basic, TypeOK, Event
  <2>15. HandlerFindsEvent'
    <3>1. fault' = FALSE
      BY <2>1
    <3>2. rest = <<>> => isTimerMultiplexingEventIRQ' = 0
      BY <2>13
    <3> QED
      BY <2>1, <3>1, <3>2 DEF HandlerFindsEvent
  <2>16. Known(timer_list, cnt)' /\ Adding'
    BY <2>1, <2>6, <2>7 DEF Basic, Adding
  <2>17. CASE pc # "idle"
    <3>1. "irq" \in disturbed' /\ last'.disturbed = disturbed'
      BY <1>1, <2>1, <2>17
    <3>2. Alone' /\ Quiet' /\ NotEarly' /\ NotLate'
      BY <3>1 DEF Alone, Quiet, NotEarly, NotLate
    <3> QED
      BY <2>14, <2>15, <2>16, <3>2 DEF Basic
  <2>18. CASE pc = "idle"
    <3>1. disturbed' = disturbed /\ pc' = "idle" /\ last'.event = L[1] /\ last'.count = cnt
          /\ last'.disturbed = disturbed
      BY <1>1, <2>1, <2>6, <2>18
    <3>2. PICK D \in Nat : D = Due(e)
      BY <2>8
    <3>3. PICK r \in Nat, d \in Nat, a \in Nat :
            r = L[1].registerTime /\ d = L[1].duration /\ a = L[1].at
      BY <2>8, EventTypes
    <3>4. D = r + d /\ FREQ * r <= a /\ a < FREQ * (r + 1)
      BY <2>8, <3>2, <3>3, EventTypes DEF Registered
    <3>5. /\ FREQ * D = FREQ * r + FREQ * d /\ FREQ * (D + 1) = FREQ * r + FREQ * d + FREQ
          /\ FREQ * (r + 1) = FREQ * r + FREQ /\ FREQ * (d - 1) = FREQ * d - FREQ
          /\ FREQ * (d + 1) = FREQ * d + FREQ
      BY <3>4, Bounds
    <3>6. FREQ * r \in Int /\ FREQ * d \in Int /\ FREQ * D \in Int /\ FREQ \in Int
          /\ MaxLatency \in Nat /\ MaxAdd \in Nat
      BY Bounds
    <3>7. NotEarly'
      <4> SUFFICES ASSUME disturbed \subseteq {"second"} PROVE InTime(last')
        BY <3>1 DEF NotEarly
      <4>1. FREQ * D <= cnt
        <5>1. FREQ * D <= cval \/ FREQ * D <= cnt
          BY <1>3, <2>18, <3>2 DEF Alone, Routed
        <5> QED
          BY <2>2, <3>6, <5>1
      <4>2. cnt > a + FREQ * (d - 1)
        BY <2>2, <3>4, <3>5, <3>6, <4>1
      <4> QED
        BY <3>1, <3>3, <4>2 DEF InTime
    <3>8. disturbed = {} => cnt < FREQ * (D + 1) + MaxLatency
      BY <1>3, <2>18, <3>2 DEF Quiet, ArmedFor
    <3>9. NotLate'
      <4> SUFFICES ASSUME disturbed = {} PROVE OnTime(last')
        BY <3>1 DEF NotLate
      <4>1. cnt < a + FREQ * (d + 1) + (MaxAdd + MaxLatency)
        BY <2>2, <3>4, <3>5, <3>6, <3>8
      <4> QED
        BY <3>1, <3>3, <4>1 DEF OnTime, Slack
    <3>10. Alone'
      <4> SUFFICES ASSUME rest # <<>>
                   PROVE  FREQ * Due(rest[1]) <= cval' \/ FREQ * Due(rest[1]) <= cnt
        BY <2>1, <2>12, <2>18, <3>1 DEF Alone, Routed
      <4>1. rest[1].registerTime <= t
        BY <2>2, <2>11, RegisteredBy
      <4>2. \/ FREQ * Due(rest[1]) <= cnt + Tval(Wrap(FREQ * rest[1].remainingTime))
            \/ FREQ * Due(rest[1]) <= cnt
        BY <2>2, <2>11, <4>1, TimeoutNotBefore
      <4> QED
        BY <2>12, <4>2
    <3>11. Quiet'
      <4> SUFFICES ASSUME disturbed = {}
                   PROVE  /\ InOrder(rest)
                          /\ rest # <<>> =>
                               /\ on' = TRUE
                               /\ FREQ * Due(rest[1]) <= cval'
                               /\ cval' < FREQ * (Due(rest[1]) + 1)
                               /\ cnt < FREQ * (Due(rest[1]) + 1) + MaxLatency
        <5>1. InSecond'
          BY <3>1 DEF InSecond
        <5>2. cnt' = cnt
          OBVIOUS
        <5> QED
          BY <2>1, <3>1, <5>1, <5>2 DEF Quiet, ArmedFor
      <4>1. InOrder(timer_list) /\ InOrder(rest)
        BY <2>3, <2>6 DEF Quiet
      <4>2. ASSUME rest # <<>>
            PROVE  /\ on' = TRUE
                   /\ FREQ * Due(rest[1]) <= cval'
                   /\ cval' < FREQ * (Due(rest[1]) + 1)
                   /\ cnt < FREQ * (Due(rest[1]) + 1) + MaxLatency
        <5>1. PICK F \in Nat : F = Due(rest[1])
          BY <2>11, <4>2
        <5>2. D <= F
          BY <2>2, <2>11, <3>2, <4>1, <4>2, <5>1 DEF InOrder
        <5>3. cnt < FREQ * (F + 1) + MaxLatency
          <6>1. FREQ * (D + 1) <= FREQ * (F + 1)
            BY <5>2, Bounds, ProductOrder
          <6>2. FREQ * (D + 1) \in Int /\ FREQ * (F + 1) \in Int /\ MaxLatency \in Nat
            BY Bounds
          <6> QED
            BY <2>2, <3>8, <6>1, <6>2
        <5>4. FREQ * Due(rest[1]) <= cval' /\ cval' < FREQ * (Due(rest[1]) + 1)
          <6>1. /\ FREQ * Due(rest[1]) <= cnt + Tval(Wrap(FREQ * rest[1].remainingTime))
                /\ cnt + Tval(Wrap(FREQ * rest[1].remainingTime)) < FREQ * (Due(rest[1]) + 1)
            BY <2>2, <2>11, <4>2, <5>1, <5>3, Timeout
          <6> QED
            BY <2>12, <4>2, <6>1
        <5> QED
          BY <2>12, <4>2, <5>1, <5>3, <5>4
      <4> QED
        BY <4>1, <4>2
    <3> QED
      BY <2>14, <2>15, <2>16, <3>7, <3>9, <3>10, <3>11 DEF Basic
  <2> QED
    BY <2>17, <2>18
<1> QED
  BY <1>2, <1>3

\* The tick of the scheduler comes while the interrupt is not the events': as long as
\* nobody has disturbed them there are none then.
LEMMA TickInv ==
    ASSUME TimerInv, core_timer_handler, UNCHANGED <<cnt, pc, new, added, switches>>
    PROVE  TimerInv'
<1> USE DEF TimerInv
<1>1. /\ isTimerMultiplexingEventIRQ = 0 /\ cval' = cnt + PERIOD
      /\ UNCHANGED <<on, timer_list, isTimerMultiplexingEventIRQ, last, fault, disturbed>>
  BY DEF core_timer_handler
<1>2. cval' \in Int
  BY <1>1, StateTypes, Bounds
<1>3. TypeOK'
  BY <1>1, <1>2 DEF Basic, TypeOK, Event
<1>4. HandlerFindsEvent' /\ Known(timer_list, cnt)' /\ Adding' /\ NotEarly' /\ NotLate'
  BY <1>1 DEF Basic, HandlerFindsEvent, Adding, NotEarly, NotLate
<1>5. disturbed \subseteq {"second"} => timer_list = <<>> /\ pc \notin {"list", "arm"}
  BY <1>1, StateTypes DEF Basic, Alone, Routed
<1>6. Alone'
  BY <1>1, <1>5 DEF Alone, Routed
<1>7. Quiet'
  <2> SUFFICES ASSUME disturbed = {} PROVE InOrder(timer_list)' /\ timer_list' = <<>> /\ InSecond'
    BY <1>1 DEF Quiet
  <2> QED
    BY <1>1, <1>5 DEF Quiet, InSecond
<1> QED
  BY <1>3, <1>4, <1>6, <1>7 DEF Basic

\* The timer is switched on or off.
LEMMA SwitchInv ==
    ASSUME TimerInv, CoreTimerSwitch
    PROVE  TimerInv'
<1> USE DEF TimerInv
<1>1. /\ switches < MaxSwitches /\ switches' = switches + 1
      /\ UNCHANGED <<cnt, timer_list, isTimerMultiplexingEventIRQ, pc, new, added,
                     last, fault>>
      /\ "switch" \in disturbed' /\ disturbed' = disturbed \cup {"switch"}
  BY DEF CoreTimerSwitch
<1>2. cval' \in Int /\ on' \in BOOLEAN
  <2>1. cnt \in Nat /\ PERIOD \in Nat /\ cval \in Int
    BY StateTypes, Bounds
  <2>2. (on' = TRUE /\ cval' = cnt + PERIOD) \/ (on' = FALSE /\ cval' = cval)
    BY DEF CoreTimerSwitch
  <2>3. on' \in BOOLEAN
    BY <2>2
  <2>4. cval' = cnt + PERIOD \/ cval' = cval
    BY <2>2
  <2> QED
    BY <2>1, <2>3, <2>4
<1>3. switches' \in 0 .. MaxSwitches /\ disturbed' \subseteq Disturbances
  BY <1>1, StateTypes, TimerAssumption DEF Disturbances
<1>4. TypeOK'
  BY <1>1, <1>2, <1>3 DEF Basic, TypeOK, Event
<1>5. HandlerFindsEvent' /\ Known(timer_list, cnt)' /\ Adding' /\ NotEarly' /\ NotLate'
  BY <1>1 DEF Basic, HandlerFindsEvent, Adding, NotEarly, NotLate
<1>6. Alone' /\ Quiet'
  BY <1>1 DEF Alone, Quiet
<1> QED
  BY <1>4, <1>5, <1>6 DEF Basic

\* Time goes by, but not past MaxLatency after the timer has expired.
LEMMA CountInv ==
    ASSUME TimerInv, Count
    PROVE  TimerInv'
<1> USE DEF TimerInv
<1>1. /\ cnt < MaxCount /\ cnt' = cnt + 1
      /\ UNCHANGED <<on, cval, timer_list, isTimerMultiplexingEventIRQ,
                     pc, new, added, switches, last, fault>>
      /\ disturbed' = IF pc # "idle" /\ cnt + 1 >= FREQ * (new.registerTime + 1)
                      THEN disturbed \cup {"second"} ELSE disturbed
  BY DEF Count
<1>2. cnt \in Nat /\ cnt' \in Nat /\ cnt' \in 0 .. MaxCount /\ cval \in Int /\ cnt <= cnt'
  <2>1. cnt \in Nat /\ cval \in Int
    BY StateTypes
  <2>2. MaxCount \in Nat
    BY Bounds
  <2> QED
    BY <1>1, <2>1, <2>2
<1>3. /\ disturbed' \subseteq Disturbances /\ disturbed \subseteq disturbed'
      /\ disturbed' \subseteq {"second"} => disturbed \subseteq {"second"}
      /\ disturbed' = {} => /\ disturbed = {}
                            /\ pc # "idle" => ~(cnt + 1 >= FREQ * (new.registerTime + 1))
  BY <1>1, StateTypes DEF Disturbances
<1>4. TypeOK' /\ NotEarly' /\ NotLate' /\ HandlerFindsEvent'
  BY <1>1, <1>2, <1>3 DEF Basic, TypeOK, NotEarly, NotLate, HandlerFindsEvent, Event
<1>5. Known(timer_list, cnt)'
  <2>1. Known(timer_list, cnt')
    BY <1>2, KnownLater DEF Basic
  <2> QED
    BY <1>1, <2>1
<1>6. Adding'
  <2>1. pc # "idle" => new.at \in Nat /\ new.at <= cnt
    BY EventTypes DEF Basic, Adding, Registered
  <2>2. pc # "idle" => new.at <= cnt'
    BY <1>2, <2>1
  <2> QED
    BY <1>1, <2>2 DEF Basic, Adding
<1>7. Alone'
  <2> SUFFICES ASSUME disturbed \subseteq {"second"} PROVE Routed'
    BY <1>3 DEF Alone
  <2>1. Routed
    BY DEF Alone
  <2>2. ASSUME pc = "idle", timer_list # <<>>
        PROVE  FREQ * Due(timer_list[1]) <= cval \/ FREQ * Due(timer_list[1]) <= cnt'
    <3>1. PICK D \in Nat : D = Due(timer_list[1])
      BY <2>2, FirstEvent
    <3>2. FREQ * D <= cval \/ FREQ * D <= cnt
      BY <2>1, <2>2, <3>1 DEF Routed
    <3>3. FREQ * D \in Int
      BY Bounds
    <3> QED
      BY <1>2, <3>1, <3>2, <3>3
  <2> QED
    BY <1>1, <2>1, <2>2 DEF Routed
<1>8. Quiet'
  <2> SUFFICES ASSUME disturbed' = {} PROVE InOrder(timer_list)'
                 /\ (pc = "idle" /\ timer_list # <<>> => ArmedFor(timer_list[1])')
                 /\ InSecond'
    BY <1>1 DEF Quiet, ArmedFor
  <2>1. disturbed = {} /\ InOrder(timer_list) /\ InSecond
    BY <1>3 DEF Quiet
  <2>2. ASSUME pc = "idle", timer_list # <<>> PROVE ArmedFor(timer_list[1])'
    <3>1. ArmedFor(timer_list[1])
      BY <2>1, <2>2 DEF Quiet
    <3>2. on = TRUE /\ cval < FREQ * (Due(timer_list[1]) + 1)
      BY <3>1 DEF ArmedFor
    <3>3. cnt < cval \/ cnt < cval + MaxLatency
      BY <1>2, <3>2 DEF Count, Pending
    <3>4. PICK D \in Nat : D = Due(timer_list[1])
      BY <2>2, FirstEvent
    <3>5. FREQ * (D + 1) \in Int /\ MaxLatency \in Nat
      BY Bounds
    <3>6. cnt' < FREQ * (D + 1) + MaxLatency
      BY <1>1, <1>2, <3>2, <3>3, <3>4, <3>5
    <3> QED
      BY <1>1, <3>1, <3>4, <3>6 DEF ArmedFor
  <2>3. pc # "idle" => cnt' < FREQ * (new.registerTime + 1)
    <3> SUFFICES ASSUME pc # "idle" PROVE cnt' < FREQ * (new.registerTime + 1)
      OBVIOUS
    <3>1. PICK r \in Nat : r = new.registerTime
      BY EventTypes DEF Basic, Adding, Registered
    <3>2. FREQ * (r + 1) \in Int
      BY Bounds
    <3> QED
      BY <1>1, <1>2, <1>3, <3>1, <3>2
  <2>4. InSecond'
    BY <1>1, <2>1, <2>3 DEF InSecond
  <2> QED
    BY <1>1, <2>1, <2>2, <2>4
<1> QED
  BY <1>4, <1>5, <1>6, <1>7, <1>8 DEF Basic

\* TimerInv is kept by every step.
LEMMA NextTimerInv ==
    ASSUME TimerInv, [Next]_vars
    PROVE  TimerInv'
<1>1. CASE AddBegin
  BY <1>1, AddBeginInv
<1>2. CASE AddFlag
  BY <1>2, AddFlagInv
<1>3. CASE ~fault /\ AddList
  <2>1. fault = FALSE
    BY <1>3, StateTypes DEF TimerInv
  <2> QED
    BY <1>3, <2>1, AddListInv
<1>4. CASE AddArm
  BY <1>4, AddArmInv
<1>5. CASE ~fault /\ TimerIrq
  <2>1. Pending /\ UNCHANGED <<cnt, pc, new, added, switches>>
    BY <1>5 DEF TimerIrq
  <2>2. fault = FALSE
    BY <1>5, StateTypes DEF TimerInv
  <2>3. CASE timerEvents_irq_handler
    BY <2>1, <2>2, <2>3, HandlerInv
  <2>4. CASE core_timer_handler
    BY <2>1, <2>4, TickInv
  <2> QED
    BY <1>5, <2>3, <2>4 DEF TimerIrq
<1>6. CASE CoreTimerSwitch
  BY <1>6, SwitchInv
<1>7. CASE Count
  BY <1>7, CountInv
<1>8. CASE UNCHANGED vars
  <2>1. UNCHANGED <<cnt, on, cval, timer_list, isTimerMultiplexingEventIRQ,
                    pc, new, added, switches, last, fault, disturbed>>
    BY <1>8 DEF vars
  <2>2. TypeOK'
    BY <2>1 DEF TimerInv, Basic, TypeOK
  <2>3. HandlerFindsEvent' /\ Known(timer_list, cnt)' /\ Adding'
    BY <2>1 DEF TimerInv, Basic, HandlerFindsEvent, Adding
  <2>4. Alone'
    BY <2>1 DEF TimerInv, Alone, Routed
  <2>5. Quiet'
    BY <2>1 DEF TimerInv, Quiet, ArmedFor, InSecond
  <2>6. NotEarly' /\ NotLate'
    BY <2>1 DEF TimerInv, NotEarly, NotLate
  <2> QED
    BY <2>2, <2>3, <2>4, <2>5, <2>6 DEF TimerInv, Basic
<1> QED
  BY <1>1, <1>2, <1>3, <1>4, <1>5, <1>6, <1>7, <1>8 DEF Next, End

-----------------------------------------------------------------------------
(***************************************************************************)
(* What the invariant gives                                                *)
(***************************************************************************)
\* The list and the timer, in the words of Timer.
LEMMA TimerInvImplies ==
    ASSUME TimerInv
    PROVE  ListInDueOrder /\ ArmedForHead /\ HandlerFindsEvent
<1> USE DEF TimerInv
<1>1. timer_list \in Seq(Event) /\ DOMAIN timer_list = 1 .. Len(timer_list) /\ cval \in Int
  <2>1. timer_list \in Seq(Event) /\ cval \in Int
    BY StateTypes
  <2> QED
    BY <2>1
<1>2. ASSUME NEW i \in 1 .. Len(timer_list)
      PROVE  Wrap(timer_list[i].prevUpdatedTime + timer_list[i].remainingTime)
               = Wrap(Due(timer_list[i]))
  <2>1. Registered(timer_list[i])
    BY <1>2 DEF Basic, Known
  <2>2. PICK x \in Nat, D \in Nat : x = timer_list[i].prevUpdatedTime /\ D = Due(timer_list[i])
    BY <2>1, EventTypes DEF Registered
  <2>3. PICK y \in Int : y = D - x
    OBVIOUS
  <2>4. timer_list[i].remainingTime = Wrap(y)
    BY <2>1, <2>2, <2>3 DEF Registered
  <2>5. Wrap(x + Wrap(y)) = Wrap(x + y) /\ x + y = D
    BY <2>3, WrapPlus
  <2> QED
    BY <2>2, <2>4, <2>5
<1>3. ListInDueOrder
  BY <1>1, <1>2 DEF ListInDueOrder, Quiet, InOrder
<1>4. ArmedForHead
  <2>1. ASSUME pc = "idle", timer_list # <<>>, disturbed = {}
        PROVE  /\ isTimerMultiplexingEventIRQ = 1 /\ on
               /\ cval < FREQ * (Due(Head(timer_list)) + 1) + Slack
    <3>1. Head(timer_list) = timer_list[1]
      BY <2>1, FirstEvent
    <3>2. isTimerMultiplexingEventIRQ = 1 /\ ArmedFor(timer_list[1])
      BY <2>1 DEF Alone, Routed, Quiet
    <3>3. PICK D \in Nat : D = Due(timer_list[1])
      BY <2>1, FirstEvent
    <3>4. FREQ * (D + 1) \in Int /\ MaxAdd \in Nat /\ MaxLatency \in Nat
      BY Bounds
    <3>5. cval < FREQ * (D + 1)
      BY <3>2, <3>3 DEF ArmedFor
    <3>6. cval < FREQ * (D + 1) + (MaxAdd + MaxLatency)
      BY <1>1, <3>4, <3>5
    <3> QED
      BY <3>1, <3>2, <3>3, <3>6 DEF ArmedFor, Slack
  <2> QED
    BY <2>1 DEF ArmedForHead
<1> QED
  BY <1>3, <1>4 DEF HandlerFindsEvent, Basic

\* The state of the timer keeps its types: the words stay words, whatever interrupts
\* add_timer and whenever the timer is switched.
THEOREM TimerTypeCorrect == Spec => []TypeOK
<1>1. TimerInv /\ [Next]_vars => TimerInv'
  BY NextTimerInv
<1>2. TimerInv => TypeOK
  BY DEF TimerInv, Basic
<1> QED
  BY <1>1, <1>2, InitTimerInv, PTL DEF Spec

\* add_timer and the handler keep timer_list sorted by the second the events are due
\* while nothing disturbs them, and every remaining time exact up to the modulus.
THEOREM ListSorted == Spec => []ListInDueOrder
<1>1. TimerInv /\ [Next]_vars => TimerInv'
  BY NextTimerInv
<1>2. TimerInv => ListInDueOrder
  BY TimerInvImplies
<1> QED
  BY <1>1, <1>2, InitTimerInv, PTL DEF Spec

\* Outside add_timer the timer is set for the first pending event and its interrupt
\* is routed to the events, while nothing disturbs them.
THEOREM TimerArmed == Spec => []ArmedForHead
<1>1. TimerInv /\ [Next]_vars => TimerInv'
  BY NextTimerInv
<1>2. TimerInv => ArmedForHead
  BY TimerInvImplies
<1> QED
  BY <1>1, <1>2, InitTimerInv, PTL DEF Spec

\* No callback runs a second early, although seconds end inside add_timer, unless its
\* handler has come inside one or somebody has switched the timer.
THEOREM TimeoutsNotEarly == Spec => []NotEarly
<1>1. TimerInv /\ [Next]_vars => TimerInv'
  BY NextTimerInv
<1>2. TimerInv => NotEarly
  BY DEF TimerInv
<1> QED
  BY <1>1, <1>2, InitTimerInv, PTL DEF Spec

\* No callback runs more than a second late beyond the latency of the interrupt,
\* however many events are added and due at once, if nothing has disturbed them.
THEOREM TimeoutsNotLate == Spec => []NotLate
<1>1. TimerInv /\ [Next]_vars => TimerInv'
  BY NextTimerInv
<1>2. TimerInv => NotLate
  BY DEF TimerInv
<1> QED
  BY <1>1, <1>2, InitTimerInv, PTL DEF Spec

\* The interrupt goes to the events of an empty list only between the flag and the
\* insertion in add_timer, whatever interrupts it and whenever the timer is switched.
THEOREM HandlerSafe == Spec => []HandlerFindsEvent
<1>1. TimerInv /\ [Next]_vars => TimerInv'
  BY NextTimerInv
<1>2. TimerInv => HandlerFindsEvent
  BY TimerInvImplies
<1> QED
  BY <1>1, <1>2, InitTimerInv, PTL DEF Spec
=============================================================================
