--------------------------- MODULE RtcClockProofs ---------------------------
(***************************************************************************)
(* Theorems about RtcClock, for every length of the day, of a behaviour    *)
(* and of the delay of a PVT, every limit of a correction and whatever a   *)
(* receiver reports: the count of days and of GPS weeks until 2099, that a *)
(* clock in sync makes no large correction, and that it tells the truth.   *)
(***************************************************************************)
EXTENDS RtcClock, WellFoundedInduction, TLAPS

\* A calendar time that is the truth, or was so few ticks ago.
Trusted(c) == \E n \in 0 .. LAG : After(c, n) = utc

ClockInv ==
    /\ start \in Starts /\ ticks \in 0 .. MAX_TICKS
    /\ rtc \in Times /\ synced \in BOOLEAN /\ honest \in BOOLEAN
    /\ pvt \in [cal : Times, timed : BOOLEAN, fresh : BOOLEAN]
    /\ honest /\ synced => Trusted(rtc)
    /\ honest /\ pvt.fresh /\ pvt.timed => Trusted(pvt.cal)

-----------------------------------------------------------------------------
(* What is counted one by one *)

\* What holds at zero and with every number at the next holds at all.
LEMMA Induction ==
  ASSUME NEW T, 0 \in T, \A n \in Nat : n \in T => n + 1 \in T
  PROVE  Nat \subseteq T
<1> DEFINE R == OpToRel(<, Nat)
           U == {n \in Nat : n \notin T}
<1>1. IsWellFoundedOn(R, Nat) BY NatLessThanWellFounded
<1>2. \A x, y \in Nat : y < x => <<y, x>> \in R BY DEF OpToRel
<1> HIDE DEF R
<1>3. SUFFICES ASSUME U # {} PROVE FALSE OBVIOUS
<1>4. PICK x \in U : \A y \in U : <<y, x>> \notin R BY <1>1, <1>3, WFMin
<1>5. x # 0 OBVIOUS
<1>6. x - 1 \in Nat /\ x - 1 < x BY <1>5
<1>7. x - 1 \notin U BY <1>2, <1>4, <1>6
<1> QED BY <1>6, <1>7

\* The loop's sums up to the last.
IsSum(first, last, length, sum) ==
    /\ sum = [i \in first .. last |-> IF i = first THEN 0 ELSE sum[i - 1] + length[i - 1]]
    /\ DaysBefore(first, last, length) = sum[last]

LEMMA SumIs ==
    ASSUME NEW first \in Nat, NEW last \in Nat, first <= last, NEW length
    PROVE  \E sum : IsSum(first, last, length, sum)
<1> DEFINE Is(s, n) == s = [i \in first .. n |->
                                IF i = first THEN 0 ELSE s[i - 1] + length[i - 1]]
           T == {m \in Nat : \E s : Is(s, first + m)}
<1>1. 0 \in T
    <2> DEFINE s == [i \in first .. first |-> 0]
    <2>1. Is(s, first + 0)
        BY DEF Is
    <2> HIDE DEF s, Is
    <2> QED BY <2>1
<1>2. ASSUME NEW m \in Nat, m \in T PROVE m + 1 \in T
    <2>1. PICK s : Is(s, first + m) BY <1>2
    <2> DEFINE n == first + m
               g == [i \in first .. n + 1 |->
                        IF i = n + 1 THEN s[n] + length[n] ELSE s[i]]
    <2>2. n \in Nat /\ first <= n OBVIOUS
    <2>3. s = [i \in first .. n |-> IF i = first THEN 0 ELSE s[i - 1] + length[i - 1]]
        BY <2>1
    <2> HIDE DEF n
    <2>4. Is(g, n + 1)
        <3>1. ASSUME NEW i \in first .. n + 1
              PROVE g[i] = IF i = first THEN 0 ELSE g[i - 1] + length[i - 1]
            BY <2>2, <2>3
        <3> QED BY <3>1
    <2> HIDE DEF g
    <2>5. Is(g, first + (m + 1))
        <3>1. n + 1 = first + (m + 1) BY DEF n
        <3> HIDE DEF Is
        <3> QED BY <2>4, <3>1
    <2> HIDE DEF Is
    <2> QED BY <2>5
<1> HIDE DEF Is
<1>3. Nat \subseteq T
    <2> HIDE DEF T
    <2> QED BY <1>1, <1>2, Induction
<1>4. \E s : Is(s, last)
    <2>1. last - first \in T /\ first + (last - first) = last BY <1>3
    <2> QED BY <2>1
<1> DEFINE a == CHOOSE s : Is(s, last)
<1>5. Is(a, last) BY <1>4
<1>6. DaysBefore(first, last, length) = a[last] BY DEF DaysBefore, Is
<1> HIDE DEF a
<1>7. a = [i \in first .. last |-> IF i = first THEN 0 ELSE a[i - 1] + length[i - 1]]
    BY <1>5 DEF Is
<1> QED BY Zenon, <1>6, <1>7 DEF IsSum

LEMMA SumFirst == ASSUME NEW first \in Nat, NEW length PROVE DaysBefore(first, first, length) = 0
<1>1. first <= first OBVIOUS
<1> QED BY <1>1, SumIs DEF IsSum

\* The next year, or month, begins when the one before it is over.
LEMMA SumNext ==
    ASSUME NEW first \in Nat, NEW last \in Nat, first <= last, NEW length
    PROVE  DaysBefore(first, last + 1, length) = DaysBefore(first, last, length) + length[last]
<1>1. PICK f : IsSum(first, last, length, f)
    BY SumIs
<1>2. PICK g : IsSum(first, last + 1, length, g)
    <2>1. last + 1 \in Nat /\ first <= last + 1 OBVIOUS
    <2> QED BY <2>1, SumIs
<1>3. f[last] = g[last]
    <2> DEFINE T == {m \in Nat : first + m <= last => f[first + m] = g[first + m]}
    <2>1. 0 \in T BY <1>1, <1>2 DEF IsSum
    <2>2. ASSUME NEW m \in Nat, m \in T PROVE m + 1 \in T
        <3>1. SUFFICES ASSUME first + (m + 1) <= last
                       PROVE f[first + (m + 1)] = g[first + (m + 1)]
            OBVIOUS
        <3> DEFINE i == first + (m + 1)
        <3>2. i \in first .. last /\ i \in first .. last + 1 /\ i # first /\ i - 1 = first + m
            BY <3>1
        <3>3. f[i - 1] = g[i - 1] BY <2>2, <3>1, <3>2
        <3> HIDE DEF i
        <3>4. f[i] = f[i - 1] + length[i - 1] /\ g[i] = g[i - 1] + length[i - 1]
            BY <1>1, <1>2, <3>2 DEF IsSum
        <3> QED BY <3>3, <3>4 DEF i
    <2>3. Nat \subseteq T
        <3> HIDE DEF T
        <3> QED BY <2>1, <2>2, Induction
    <2>4. last - first \in T /\ first + (last - first) = last /\ last <= last BY <2>3
    <2> QED BY <2>4
<1>4. g[last + 1] = g[last] + length[last]
    <2>1. last + 1 \in first .. last + 1 /\ last + 1 # first /\ (last + 1) - 1 = last OBVIOUS
    <2> QED BY <1>2, <2>1 DEF IsSum
<1> QED BY <1>1, <1>2, <1>3, <1>4 DEF IsSum

\* The walk along the calendar, a tick at a time.
LEMMA WalkIs ==
    ASSUME NEW c, NEW n \in Nat
    PROVE  \E walk : /\ walk = [k \in 0 .. n |-> IF k = 0 THEN c ELSE NextTick(walk[k - 1])]
                     /\ After(c, n) = walk[n]
<1> DEFINE Is(w, m) == w = [k \in 0 .. m |-> IF k = 0 THEN c ELSE NextTick(w[k - 1])]
           T == {m \in Nat : \E w : Is(w, m)}
<1>1. 0 \in T
    <2> DEFINE w == [k \in 0 .. 0 |-> c]
    <2>1. Is(w, 0) OBVIOUS
    <2> HIDE DEF w, Is
    <2> QED BY <2>1
<1>2. ASSUME NEW m \in Nat, m \in T PROVE m + 1 \in T
    <2>1. PICK w : Is(w, m) BY <1>2
    <2> DEFINE g == [k \in 0 .. m + 1 |-> IF k = m + 1 THEN NextTick(w[m]) ELSE w[k]]
    <2>2. Is(g, m + 1)
        <3>1. ASSUME NEW k \in 0 .. m + 1
              PROVE g[k] = IF k = 0 THEN c ELSE NextTick(g[k - 1])
            <4>1. CASE k = m + 1
                <5>1. k # 0 /\ k - 1 = m /\ k - 1 \in 0 .. m + 1 /\ k - 1 # m + 1
                    BY <4>1
                <5>2. g[k] = NextTick(w[m]) /\ g[k - 1] = w[m] BY <4>1, <5>1
                <5> QED BY <4>1, <5>1, <5>2
            <4>2. CASE k # m + 1
                <5>1. k \in 0 .. m BY <4>2
                <5>2. g[k] = IF k = 0 THEN c ELSE NextTick(w[k - 1]) BY <2>1, <4>2, <5>1
                <5>3. k # 0 => g[k - 1] = w[k - 1] BY <5>1
                <5> QED BY <5>2, <5>3
            <4> QED BY <4>1, <4>2
        <3> QED BY <3>1
    <2> HIDE DEF g, Is
    <2> QED BY <2>2
<1> HIDE DEF Is
<1>3. Nat \subseteq T
    <2> HIDE DEF T
    <2> QED BY <1>1, <1>2, Induction
<1>4. \E w : Is(w, n) BY <1>3
<1> DEFINE a == CHOOSE w : Is(w, n)
<1>5. Is(a, n) BY <1>4
<1>6. After(c, n) = a[n] BY DEF After, Is
<1> HIDE DEF a
<1>7. a = [k \in 0 .. n |-> IF k = 0 THEN c ELSE NextTick(a[k - 1])]
    BY <1>5 DEF Is
<1> QED BY Zenon, <1>6, <1>7

LEMMA AfterNone == ASSUME NEW c PROVE After(c, 0) = c
BY WalkIs

LEMMA AfterNext == ASSUME NEW c, NEW n \in Nat PROVE After(c, n + 1) = NextTick(After(c, n))
<1>1. PICK f : /\ f = [k \in 0 .. n |-> IF k = 0 THEN c ELSE NextTick(f[k - 1])]
               /\ After(c, n) = f[n]
    BY WalkIs
<1>2. PICK g : /\ g = [k \in 0 .. n + 1 |-> IF k = 0 THEN c ELSE NextTick(g[k - 1])]
               /\ After(c, n + 1) = g[n + 1]
    <2>1. n + 1 \in Nat OBVIOUS
    <2> QED BY <2>1, WalkIs
<1>3. f[n] = g[n]
    <2> DEFINE T == {m \in Nat : m <= n => f[m] = g[m]}
    <2>1. 0 \in T BY <1>1, <1>2
    <2>2. ASSUME NEW m \in Nat, m \in T PROVE m + 1 \in T
        <3>1. SUFFICES ASSUME m + 1 <= n PROVE f[m + 1] = g[m + 1]
            OBVIOUS
        <3> DEFINE k == m + 1
        <3>2. k \in 0 .. n /\ k \in 0 .. n + 1 /\ k # 0 /\ k - 1 = m BY <3>1
        <3>3. f[m] = g[m] BY <2>2, <3>1
        <3> HIDE DEF k
        <3>4. f[k] = NextTick(f[k - 1]) /\ g[k] = NextTick(g[k - 1]) BY <1>1, <1>2, <3>2
        <3> QED BY <3>2, <3>3, <3>4 DEF k
    <2>3. Nat \subseteq T
        <3> HIDE DEF T
        <3> QED BY <2>1, <2>2, Induction
    <2>4. n \in T /\ n <= n BY <2>3
    <2> QED BY <2>4
<1>4. g[n + 1] = NextTick(g[n])
    <2>1. n + 1 \in 0 .. n + 1 /\ n + 1 # 0 /\ (n + 1) - 1 = n OBVIOUS
    <2> QED BY <1>2, <2>1
<1> QED BY <1>1, <1>2, <1>3, <1>4

\* It does not matter where on the way the first tick is taken.
LEMMA AfterShift ==
    ASSUME NEW c, NEW n \in Nat PROVE After(NextTick(c), n) = NextTick(After(c, n))
<1> DEFINE T == {m \in Nat : After(NextTick(c), m) = NextTick(After(c, m))}
<1>1. 0 \in T BY AfterNone
<1>2. ASSUME NEW m \in Nat, m \in T PROVE m + 1 \in T
    BY <1>2, AfterNext
<1>3. Nat \subseteq T
    <2> HIDE DEF T
    <2> QED BY <1>1, <1>2, Induction
<1> QED BY <1>3

-----------------------------------------------------------------------------
(* The calendar *)

LEMMA Lengths ==
    /\ \A y \in Nat : yearLength[y] = IF rtcTimeIsLeapYear(y) THEN 366 ELSE 365
    /\ \A y, m \in Nat : monthLength(y)[m] = rtcTimeDaysInMonth(y, m)
BY DEF yearLength, monthLength

\* Until 2099 the counter's leap years are the calendar's.
LEMMA LeapUntil2099 ==
    ASSUME NEW y \in Nat, 1970 <= y, y <= 2099
    PROVE  rtcTimeIsLeapYear(y) <=> y % 4 = 0
BY DEF rtcTimeIsLeapYear

\* The months of a calendar time, their lengths, and the days before each.
LEMMA MonthsOf ==
    ASSUME NEW y \in Nat
    PROVE  LET feb == IF rtcTimeIsLeapYear(y) THEN 29 ELSE 28
               before(m) == DaysBefore(1, m, monthLength(y))
           IN  /\ rtcTimeDaysInMonth(y, 1) = 31 /\ rtcTimeDaysInMonth(y, 2) = feb
               /\ rtcTimeDaysInMonth(y, 3) = 31 /\ rtcTimeDaysInMonth(y, 4) = 30
               /\ rtcTimeDaysInMonth(y, 5) = 31 /\ rtcTimeDaysInMonth(y, 6) = 30
               /\ rtcTimeDaysInMonth(y, 7) = 31 /\ rtcTimeDaysInMonth(y, 8) = 31
               /\ rtcTimeDaysInMonth(y, 9) = 30 /\ rtcTimeDaysInMonth(y, 10) = 31
               /\ rtcTimeDaysInMonth(y, 11) = 30 /\ rtcTimeDaysInMonth(y, 12) = 31
               /\ before(1) = 0 /\ before(2) = 31 /\ before(3) = 31 + feb
               /\ before(4) = 62 + feb /\ before(5) = 92 + feb /\ before(6) = 123 + feb
               /\ before(7) = 153 + feb /\ before(8) = 184 + feb /\ before(9) = 215 + feb
               /\ before(10) = 245 + feb /\ before(11) = 276 + feb /\ before(12) = 306 + feb
<1> DEFINE feb == IF rtcTimeIsLeapYear(y) THEN 29 ELSE 28
           before(m) == DaysBefore(1, m, monthLength(y))
<1>1. /\ rtcTimeDaysInMonth(y, 1) = 31 /\ rtcTimeDaysInMonth(y, 2) = feb
      /\ rtcTimeDaysInMonth(y, 3) = 31 /\ rtcTimeDaysInMonth(y, 4) = 30
      /\ rtcTimeDaysInMonth(y, 5) = 31 /\ rtcTimeDaysInMonth(y, 6) = 30
      /\ rtcTimeDaysInMonth(y, 7) = 31 /\ rtcTimeDaysInMonth(y, 8) = 31
      /\ rtcTimeDaysInMonth(y, 9) = 30 /\ rtcTimeDaysInMonth(y, 10) = 31
      /\ rtcTimeDaysInMonth(y, 11) = 30 /\ rtcTimeDaysInMonth(y, 12) = 31
    BY DEF rtcTimeDaysInMonth
<1>2. feb \in {28, 29} OBVIOUS
<1>3. ASSUME NEW m \in 1 .. 12
      PROVE before(m + 1) = before(m) + rtcTimeDaysInMonth(y, m)
    <2>1. m \in Nat /\ 1 <= m /\ 1 \in Nat OBVIOUS
    <2>2. DaysBefore(1, m + 1, monthLength(y)) =
            DaysBefore(1, m, monthLength(y)) + monthLength(y)[m]
        BY <2>1, SumNext
    <2> QED BY <2>1, <2>2, Lengths
<1>4. before(1) = 0
    BY SumFirst
<1> HIDE DEF feb, before
<1>5. /\ before(2) = 31 /\ before(3) = 31 + feb /\ before(4) = 62 + feb
    <2>1. before(1 + 1) = before(1) + 31 BY <1>1, <1>3
    <2>2. before(2 + 1) = before(2) + feb BY <1>1, <1>3
    <2>3. before(3 + 1) = before(3) + 31 BY <1>1, <1>3
    <2> QED BY <1>2, <1>4, <2>1, <2>2, <2>3
<1>6. before(5) = 92 + feb /\ before(6) = 123 + feb /\ before(7) = 153 + feb
    <2>1. before(4 + 1) = before(4) + 30 BY <1>1, <1>3
    <2>2. before(5 + 1) = before(5) + 31 BY <1>1, <1>3
    <2>3. before(6 + 1) = before(6) + 30 BY <1>1, <1>3
    <2> QED BY <1>2, <1>5, <2>1, <2>2, <2>3
<1>7. before(8) = 184 + feb /\ before(9) = 215 + feb /\ before(10) = 245 + feb
    <2>1. before(7 + 1) = before(7) + 31 BY <1>1, <1>3
    <2>2. before(8 + 1) = before(8) + 31 BY <1>1, <1>3
    <2>3. before(9 + 1) = before(9) + 30 BY <1>1, <1>3
    <2> QED BY <1>2, <1>6, <2>1, <2>2, <2>3
<1>8. before(11) = 276 + feb /\ before(12) = 306 + feb
    <2>1. before(10 + 1) = before(10) + 31 BY <1>1, <1>3
    <2>2. before(11 + 1) = before(11) + 30 BY <1>1, <1>3
    <2> QED BY <1>2, <1>7, <2>1, <2>2
<1> QED BY <1>1, <1>4, <1>5, <1>6, <1>7, <1>8 DEF feb, before

\* The days before a year, by the count of its leap years.
LEMMA YearsBefore ==
    ASSUME NEW y \in Nat, 1970 <= y
    PROVE  DaysBefore(1970, y, yearLength) =
            365 * (y - 1970) + ((y - 1) \div 4) - ((y - 1) \div 100) + ((y - 1) \div 400) - 477
<1> DEFINE closed(x) == 365 * (x - 1970) + ((x - 1) \div 4) - ((x - 1) \div 100)
                            + ((x - 1) \div 400) - 477
           T == {m \in Nat : DaysBefore(1970, 1970 + m, yearLength) = closed(1970 + m)}
<1>1. 0 \in T
    <2>1. closed(1970) = 0 OBVIOUS
    <2>2. DaysBefore(1970, 1970, yearLength) = 0 BY SumFirst
    <2> HIDE DEF closed
    <2> QED BY <2>1, <2>2
<1>2. ASSUME NEW m \in Nat, m \in T PROVE m + 1 \in T
    <2> DEFINE x == 1970 + m
    <2>0. x \in Nat /\ 1970 <= x /\ 1970 \in Nat /\ 1970 + (m + 1) = x + 1
        OBVIOUS
    <2>1. DaysBefore(1970, x, yearLength) = closed(x)
        BY <1>2
    <2> HIDE DEF x, closed
    <2>2. DaysBefore(1970, x + 1, yearLength) =
            DaysBefore(1970, x, yearLength) + yearLength[x]
        BY <2>0, SumNext
    <2>3. yearLength[x] = IF x % 4 = 0 /\ (x % 100 # 0 \/ x % 400 = 0) THEN 366 ELSE 365
        BY <2>0, Lengths DEF rtcTimeIsLeapYear
    <2>4. closed(x + 1) = closed(x) + yearLength[x]
        <3>1. (x + 1) - 1 = x BY <2>0
        <3>2. x \div 4 = ((x - 1) \div 4) + (IF x % 4 = 0 THEN 1 ELSE 0) BY <2>0
        <3>3. x \div 100 = ((x - 1) \div 100) + (IF x % 100 = 0 THEN 1 ELSE 0) BY <2>0
        <3>4. x \div 400 = ((x - 1) \div 400) + (IF x % 400 = 0 THEN 1 ELSE 0) BY <2>0
        <3>5. x % 400 = 0 => x % 100 = 0 BY <2>0
        <3>6. x % 100 = 0 => x % 4 = 0 BY <2>0
        <3> QED BY <2>0, <2>3, <3>1, <3>2, <3>3, <3>4, <3>5, <3>6 DEF closed
    <2>5. DaysBefore(1970, 1970 + (m + 1), yearLength) = closed(1970 + (m + 1))
        BY <2>0, <2>1, <2>2, <2>4
    <2> QED BY <2>5
<1>3. Nat \subseteq T
    <2> HIDE DEF T
    <2> QED BY <1>1, <1>2, Induction
<1>4. y - 1970 \in T /\ 1970 + (y - 1970) = y
    BY <1>3
<1> QED BY <1>4

\* A time of the calendar has one of its months and days.
LEMMA CalendarTimes ==
    ASSUME NEW c \in Times, isCalendarTime(c)
    PROVE  /\ c.year \in Nat /\ 1970 <= c.year /\ c.month \in 1 .. 12
           /\ c.day \in 1 .. rtcTimeDaysInMonth(c.year, c.month) /\ c.day \in 1 .. 31
           /\ rtcTimeDaysInMonth(c.year, c.month) \in 28 .. 31
           /\ c.tick \in Nat /\ c.tick < DAY /\ DAY \in Nat \ {0}
<1>1. c.year \in Nat /\ c.month \in Nat /\ c.day \in Nat /\ c.tick \in Nat BY DEF Times
<1>2. c.year >= 1970 /\ c.day \in 1 .. rtcTimeDaysInMonth(c.year, c.month)
      /\ c.tick \in 0 .. DAY - 1
    BY DEF isCalendarTime
<1>3. DAY \in Nat \ {0} BY RtcCalendarAssumption DEF RtcCalendarAssumption
<1>4. rtcTimeDaysInMonth(c.year, c.month) \in {0, 28, 29, 30, 31}
      /\ (rtcTimeDaysInMonth(c.year, c.month) # 0 => c.month \in 1 .. 12)
    BY DEF rtcTimeDaysInMonth
<1>5. rtcTimeDaysInMonth(c.year, c.month) # 0 BY <1>2
<1> QED BY <1>1, <1>2, <1>3, <1>4, <1>5

LEMMA NextDay == ASSUME NEW d \in Int PROVE (d + 1) * DAY = d * DAY + DAY
BY RtcCalendarAssumption DEF RtcCalendarAssumption

LEMMA DaysCounted ==
    ASSUME NEW c \in Times, isCalendarTime(c)
    PROVE  /\ DaysBefore(1970, c.year, yearLength) \in Int
           /\ DaysBefore(1, c.month, monthLength(c.year)) \in Int
           /\ DaysSince1970(c) \in Int /\ rtcTimeToUnix(c) \in Int
<1>1. c.year \in Nat /\ 1970 <= c.year /\ c.month \in 1 .. 12 /\ c.day \in Nat
      /\ c.tick \in Nat /\ DAY \in Nat
    BY CalendarTimes
<1>2. DaysBefore(1970, c.year, yearLength) \in Int
    BY <1>1, YearsBefore
<1>3. DaysBefore(1, c.month, monthLength(c.year)) \in Int
    <2> DEFINE feb == IF rtcTimeIsLeapYear(c.year) THEN 29 ELSE 28
               before(m) == DaysBefore(1, m, monthLength(c.year))
    <2>1. /\ before(1) = 0 /\ before(2) = 31 /\ before(3) = 31 + feb
          /\ before(4) = 62 + feb /\ before(5) = 92 + feb /\ before(6) = 123 + feb
          /\ before(7) = 153 + feb /\ before(8) = 184 + feb /\ before(9) = 215 + feb
          /\ before(10) = 245 + feb /\ before(11) = 276 + feb /\ before(12) = 306 + feb
        BY <1>1, MonthsOf
    <2>2. feb \in Int OBVIOUS
    <2> HIDE DEF feb, before
    <2>3. \A m \in 1 .. 12 : before(m) \in Int
        BY <2>1, <2>2
    <2> QED BY <1>1, <2>3 DEF before
<1>4. DaysSince1970(c) \in Int
    BY <1>1, <1>2, <1>3 DEF DaysSince1970
<1> QED BY <1>1, <1>2, <1>3, <1>4 DEF rtcTimeToUnix

\* A tick adds one to the count, from one date of the calendar to the next.
LEMMA TickCounts ==
    ASSUME NEW c \in Times, isCalendarTime(c), c.year <= 2099
    PROVE  /\ isCalendarTime(NextTick(c))
           /\ rtcTimeToUnix(NextTick(c)) = rtcTimeToUnix(c) + 1
<1> DEFINE y == c.year
           m == c.month
           d == c.day
           t == c.tick
           feb == IF rtcTimeIsLeapYear(y) THEN 29 ELSE 28
           length == rtcTimeDaysInMonth(y, m)
           before == DaysBefore(1970, y, yearLength)
           within == DaysBefore(1, m, monthLength(y))
           next == NextTick(c)
<1>1. /\ y \in Nat /\ 1970 <= y /\ y <= 2099 /\ m \in 1 .. 12 /\ d \in Nat /\ 1 <= d
      /\ d <= length /\ length \in 28 .. 31 /\ t \in Nat /\ t < DAY /\ DAY \in Nat \ {0}
    BY CalendarTimes
<1>2. before \in Int /\ within \in Int
    BY DaysCounted
<1>3. rtcTimeToUnix(c) = (before + within + d - 1) * DAY + t
    BY DEF rtcTimeToUnix, DaysSince1970
<1>4. <<31, IF y % 4 = 0 THEN 29 ELSE 28, 31, 30, 31, 30, 31, 31, 30, 31, 30, 31>>[m] = length
    <2>1. rtcTimeIsLeapYear(y) <=> y % 4 = 0 BY <1>1, LeapUntil2099
    <2>2. m = 1 \/ m = 2 \/ m = 3 \/ m = 4 \/ m = 5 \/ m = 6 \/ m = 7 \/ m = 8 \/ m = 9
          \/ m = 10 \/ m = 11 \/ m = 12
        BY <1>1
    <2> QED BY <1>1, <2>1, <2>2 DEF rtcTimeDaysInMonth
<1>5. next = IF t + 1 < DAY THEN [c EXCEPT !.tick = t + 1]
             ELSE IF d < length THEN [c EXCEPT !.tick = 0, !.day = d + 1]
             ELSE IF m < 12 THEN [c EXCEPT !.tick = 0, !.day = 1, !.month = m + 1]
             ELSE [year |-> y + 1, month |-> 1, day |-> 1, tick |-> 0]
    BY <1>4 DEF NextTick
<1>6. rtcTimeToUnix(next) = (DaysBefore(1970, next.year, yearLength)
        + DaysBefore(1, next.month, monthLength(next.year)) + next.day - 1) * DAY + next.tick
    BY DEF rtcTimeToUnix, DaysSince1970
<1>7. isCalendarTime(next) <=>
        /\ next.year >= 1970 /\ next.day \in 1 .. rtcTimeDaysInMonth(next.year, next.month)
        /\ next.tick \in 0 .. DAY - 1
    BY DEF isCalendarTime
<1>8. c = [year |-> y, month |-> m, day |-> d, tick |-> t]
    BY DEF Times
<1> HIDE DEF y, m, d, t, feb, length, before, within, next
<1>9. CASE t + 1 < DAY
    <2>1. next.year = y /\ next.month = m /\ next.day = d /\ next.tick = t + 1
        BY <1>5, <1>8, <1>9
    <2>2. DaysBefore(1970, next.year, yearLength) = before
          /\ DaysBefore(1, next.month, monthLength(next.year)) = within
          /\ rtcTimeDaysInMonth(next.year, next.month) = length
        BY <2>1 DEF before, within, length
    <2>3. rtcTimeToUnix(next) = (before + within + d - 1) * DAY + (t + 1)
        BY <1>6, <2>1, <2>2
    <2>4. (before + within + d - 1) * DAY \in Int BY <1>1, <1>2
    <2>5. rtcTimeToUnix(next) = rtcTimeToUnix(c) + 1
        BY <1>1, <1>3, <2>3, <2>4
    <2>6. isCalendarTime(next) BY <1>1, <1>7, <1>9, <2>1, <2>2
    <2> QED BY <2>5, <2>6 DEF next
<1>10. CASE t + 1 = DAY
    <2> DEFINE days == before + within + d - 1
    <2>1. days \in Int /\ days * DAY \in Int /\ (days + 1) * DAY = days * DAY + DAY
        BY <1>1, <1>2, NextDay
    <2>2. next.tick = 0
        <3>1. ~(t + 1 < DAY) BY <1>1, <1>10
        <3>2. CASE d < length
            BY <1>5, <1>8, <3>1, <3>2
        <3>3. CASE ~(d < length) /\ m < 12
            BY <1>5, <1>8, <3>1, <3>3
        <3>4. CASE ~(d < length) /\ ~(m < 12)
            BY <1>5, <3>1, <3>4
        <3> QED BY <3>2, <3>3, <3>4
    <2>3. /\ DaysBefore(1970, next.year, yearLength)
                + DaysBefore(1, next.month, monthLength(next.year)) + next.day - 1 = days + 1
          /\ next.year >= 1970 /\ next.day \in 1 .. rtcTimeDaysInMonth(next.year, next.month)
        <3>1. CASE d < length
            <4>1. next.year = y /\ next.month = m /\ next.day = d + 1
                BY <1>1, <1>5, <1>8, <1>10, <3>1
            <4>2. DaysBefore(1970, next.year, yearLength) = before
                  /\ DaysBefore(1, next.month, monthLength(next.year)) = within
                  /\ rtcTimeDaysInMonth(next.year, next.month) = length
                BY <4>1 DEF before, within, length
            <4> QED BY <1>1, <1>2, <3>1, <4>1, <4>2
        <3>2. CASE d = length /\ m < 12
            <4>1. next.year = y /\ next.month = m + 1 /\ next.day = 1
                BY <1>1, <1>5, <1>8, <1>10, <3>2
            <4>2. DaysBefore(1970, next.year, yearLength) = before
                BY <4>1 DEF before
            <4>3. DaysBefore(1, m + 1, monthLength(y)) = within + length
                <5>1. 1 \in Nat /\ m \in Nat /\ 1 <= m BY <1>1
                <5>2. DaysBefore(1, m + 1, monthLength(y)) =
                        DaysBefore(1, m, monthLength(y)) + monthLength(y)[m]
                    BY <5>1, SumNext
                <5>3. monthLength(y)[m] = length BY <1>1, <5>1, Lengths DEF length
                <5> QED BY <5>2, <5>3 DEF within
            <4>4. rtcTimeDaysInMonth(y, m + 1) \in 28 .. 31
                <5>1. m + 1 \in 1 .. 12 BY <1>1, <3>2
                <5> QED BY <5>1 DEF rtcTimeDaysInMonth
            <4> QED BY <1>1, <1>2, <3>2, <4>1, <4>2, <4>3, <4>4
        <3>3. CASE d = length /\ m = 12
            <4>1. next.year = y + 1 /\ next.month = 1 /\ next.day = 1
                BY <1>1, <1>5, <1>10, <3>3
            <4>2. DaysBefore(1970, y + 1, yearLength) =
                    before + (IF rtcTimeIsLeapYear(y) THEN 366 ELSE 365)
                <5>1. 1970 \in Nat OBVIOUS
                <5>2. DaysBefore(1970, y + 1, yearLength) =
                        DaysBefore(1970, y, yearLength) + yearLength[y]
                    BY <1>1, <5>1, SumNext
                <5> QED BY <1>1, <5>2, Lengths DEF before
            <4>3. DaysBefore(1, 1, monthLength(y + 1)) = 0
                <5>1. 1 \in Nat OBVIOUS
                <5> QED BY <5>1, SumFirst
            <4>4. within = 306 + feb /\ length = 31
                BY <1>1, <3>3, MonthsOf DEF within, length, feb
            <4>5. rtcTimeDaysInMonth(y + 1, 1) = 31
                BY DEF rtcTimeDaysInMonth
            <4> QED BY <1>1, <1>2, <3>3, <4>1, <4>2, <4>3, <4>4, <4>5 DEF feb
        <3> QED BY <1>1, <3>1, <3>2, <3>3
    <2> HIDE DEF days
    <2>4. rtcTimeToUnix(next) = (days + 1) * DAY
        <3>1. rtcTimeToUnix(next) = (days + 1) * DAY + 0 BY <1>6, <2>2, <2>3
        <3> QED BY <1>1, <2>1, <3>1
    <2>5. rtcTimeToUnix(c) = days * DAY + t BY <1>3 DEF days
    <2>6. rtcTimeToUnix(next) = rtcTimeToUnix(c) + 1
        BY <1>1, <1>10, <2>1, <2>4, <2>5
    <2>7. isCalendarTime(next) BY <1>1, <1>7, <2>2, <2>3
    <2> QED BY <2>6, <2>7 DEF next
<1>11. t + 1 < DAY \/ t + 1 = DAY BY <1>1
<1> QED BY <1>9, <1>10, <1>11 DEF next

LEMMA NextTickType ==
    ASSUME NEW c \in Times PROVE NextTick(c) \in Times /\ c.year <= NextTick(c).year
<1>1. c = [year |-> c.year, month |-> c.month, day |-> c.day, tick |-> c.tick]
      /\ c.year \in Nat /\ c.month \in Nat /\ c.day \in Nat /\ c.tick \in Nat
    BY DEF Times
<1>2. \/ NextTick(c) = [c EXCEPT !.tick = c.tick + 1]
      \/ NextTick(c) = [c EXCEPT !.tick = 0, !.day = c.day + 1]
      \/ NextTick(c) = [c EXCEPT !.tick = 0, !.day = 1, !.month = c.month + 1]
      \/ NextTick(c) = [year |-> c.year + 1, month |-> 1, day |-> 1, tick |-> 0]
    BY DEF NextTick
<1>3. /\ 0 \in Nat /\ 1 \in Nat /\ c.tick + 1 \in Nat /\ c.day + 1 \in Nat
      /\ c.month + 1 \in Nat /\ c.year + 1 \in Nat /\ c.year <= c.year /\ c.year <= c.year + 1
    BY <1>1
<1>4. CASE NextTick(c) = [c EXCEPT !.tick = c.tick + 1]
    BY <1>1, <1>3, <1>4 DEF Times
<1>5. CASE NextTick(c) = [c EXCEPT !.tick = 0, !.day = c.day + 1]
    BY <1>1, <1>3, <1>5 DEF Times
<1>6. CASE NextTick(c) = [c EXCEPT !.tick = 0, !.day = 1, !.month = c.month + 1]
    BY <1>1, <1>3, <1>6 DEF Times
<1>7. CASE NextTick(c) = [year |-> c.year + 1, month |-> 1, day |-> 1, tick |-> 0]
    BY <1>1, <1>3, <1>7 DEF Times
<1> QED BY <1>2, <1>4, <1>5, <1>6, <1>7

LEMMA AfterTyped ==
    ASSUME NEW c \in Times, NEW n \in Nat PROVE After(c, n) \in Times /\ After(c, n).year \in Nat
<1> DEFINE T == {k \in Nat : After(c, k) \in Times}
<1>1. 0 \in T BY AfterNone
<1>2. ASSUME NEW k \in Nat, k \in T PROVE k + 1 \in T
    BY <1>2, AfterNext, NextTickType
<1>3. Nat \subseteq T
    <2> HIDE DEF T
    <2> QED BY <1>1, <1>2, Induction
<1>4. After(c, n) \in Times BY <1>3
<1> QED BY <1>4 DEF Times

\* The way along the calendar stays in it and leads on.
LEMMA AfterType ==
    ASSUME NEW c \in Times, NEW n \in Nat
    PROVE  /\ After(c, n) \in Times
           /\ \A m \in 0 .. n : After(c, m).year <= After(c, n).year
<1> DEFINE T == {k \in Nat : /\ After(c, k) \in Times
                             /\ \A m \in 0 .. k : After(c, m).year <= After(c, k).year}
<1>1. 0 \in T
    <2>1. After(c, 0) = c BY AfterNone
    <2>2. c.year \in Nat BY DEF Times
    <2>3. \A m \in 0 .. 0 : m = 0 OBVIOUS
    <2> QED BY <2>1, <2>2, <2>3
<1>2. ASSUME NEW k \in Nat, k \in T PROVE k + 1 \in T
    <2>1. After(c, k) \in Times /\ (\A m \in 0 .. k : After(c, m).year <= After(c, k).year)
        BY <1>2
    <2>2. After(c, k + 1) = NextTick(After(c, k)) BY AfterNext
    <2>3. After(c, k + 1) \in Times /\ After(c, k).year <= After(c, k + 1).year
        BY <2>1, <2>2, NextTickType
    <2>4. After(c, k).year \in Nat /\ After(c, k + 1).year \in Nat BY <2>1, <2>3 DEF Times
    <2>5. ASSUME NEW m \in 0 .. k + 1 PROVE After(c, m).year <= After(c, k + 1).year
        <3>1. CASE m = k + 1 BY <2>4, <3>1
        <3>2. CASE m # k + 1
            <4>1. m \in 0 .. k BY <3>2
            <4>2. k \in 0 .. k OBVIOUS
            <4>3. After(c, m).year <= After(c, k).year BY <2>1, <4>1
            <4>4. After(c, m).year \in Nat
                <5>1. m \in Nat BY <4>1
                <5> QED BY <5>1, AfterTyped
            <4> QED BY <2>3, <2>4, <4>3, <4>4
        <3> QED BY <3>1, <3>2
    <2> QED BY <2>3, <2>5
<1>3. Nat \subseteq T
    <2> HIDE DEF T
    <2> QED BY <1>1, <1>2, Induction
<1> QED BY <1>3

\* Until 2099 every tick of the way counts one.
LEMMA WalkCounts ==
    ASSUME NEW c \in Times, isCalendarTime(c), NEW n \in Nat, After(c, n).year <= 2099
    PROVE  /\ isCalendarTime(After(c, n))
           /\ rtcTimeToUnix(After(c, n)) = rtcTimeToUnix(c) + n
<1> DEFINE T == {k \in Nat : k <= n =>
                    /\ isCalendarTime(After(c, k))
                    /\ rtcTimeToUnix(After(c, k)) = rtcTimeToUnix(c) + k}
<1>1. rtcTimeToUnix(c) \in Int BY DaysCounted
<1>2. 0 \in T BY <1>1, AfterNone
<1>3. ASSUME NEW k \in Nat, k \in T PROVE k + 1 \in T
    <2>1. SUFFICES ASSUME k + 1 <= n
                   PROVE  /\ isCalendarTime(After(c, k + 1))
                          /\ rtcTimeToUnix(After(c, k + 1)) = rtcTimeToUnix(c) + (k + 1)
        OBVIOUS
    <2>2. /\ isCalendarTime(After(c, k))
          /\ rtcTimeToUnix(After(c, k)) = rtcTimeToUnix(c) + k
        BY <1>3, <2>1
    <2>3. After(c, k) \in Times BY AfterType
    <2>4. After(c, k).year <= 2099
        <3>1. k \in 0 .. n BY <2>1
        <3>2. After(c, k).year <= After(c, n).year BY <3>1, AfterType
        <3>3. After(c, k).year \in Nat /\ After(c, n).year \in Nat BY <2>3, AfterType DEF Times
        <3> QED BY <3>2, <3>3
    <2>5. After(c, k + 1) = NextTick(After(c, k)) BY AfterNext
    <2> QED BY <1>1, <2>2, <2>3, <2>4, <2>5, TickCounts
<1>4. Nat \subseteq T
    <2> HIDE DEF T
    <2> QED BY <1>2, <1>3, Induction
<1>5. n \in T /\ n <= n BY <1>4
<1> QED BY <1>5

-----------------------------------------------------------------------------
(* The invariant *)

LEMMA ReportedTimes == ASSUME start \in Starts PROVE Reported \subseteq Times
<1>1. start \in Times /\ Oddities \subseteq Times /\ MAX_TICKS \in Nat
    BY RtcClockAssumption DEF RtcClockAssumption
<1>2. MAX_GPS_STEP \in Nat BY RtcCalendarAssumption DEF RtcCalendarAssumption
<1>3. \A n \in 0 .. MAX_TICKS + MAX_GPS_STEP + 1 : n \in Nat BY <1>1, <1>2
<1> QED BY <1>1, <1>3, AfterType DEF Reported

LEMMA ClockStart == Init => ClockInv
<1> SUFFICES ASSUME Init PROVE ClockInv
    OBVIOUS
<1>1. MAX_TICKS \in Nat /\ Junk \subseteq Times
    BY RtcClockAssumption DEF RtcClockAssumption
<1>2. NoPvt \in [cal : Times, timed : BOOLEAN, fresh : BOOLEAN] /\ NoPvt.fresh = FALSE
    BY DEF NoPvt, Times
<1>3. /\ start \in Starts /\ ticks \in 0 .. MAX_TICKS /\ rtc \in Times
      /\ synced = FALSE /\ honest = TRUE /\ pvt = NoPvt
    BY <1>1 DEF Init
<1> QED BY <1>2, <1>3 DEF ClockInv

\* The truth goes on with the clock.
LEMMA TrustTicks ==
    ASSUME NEW c, Trusted(c), ticks \in Nat, UNCHANGED start, ticks' = ticks + 1
    PROVE  Trusted(NextTick(c))'
<1>1. PICK n \in 0 .. LAG : After(c, n) = utc BY DEF Trusted
<1>2. n \in Nat BY RtcClockAssumption DEF RtcClockAssumption
<1>3. After(NextTick(c), n) = NextTick(utc) BY <1>1, <1>2, AfterShift
<1>4. utc' = NextTick(utc) BY AfterNext DEF utc
<1> QED BY <1>3, <1>4 DEF Trusted

LEMMA ClockStep == ClockInv /\ [Next]_vars => ClockInv'
<1> SUFFICES ASSUME ClockInv, [Next]_vars PROVE ClockInv'
    OBVIOUS
<1>0. MAX_TICKS \in Nat /\ Junk \subseteq Times
    BY RtcClockAssumption DEF RtcClockAssumption
<1>1. CASE UNCHANGED vars
    BY <1>1 DEF ClockInv, Trusted, utc, vars, world
<1>2. CASE Ignore
    BY <1>2 DEF Ignore, Processing, ClockInv, Trusted, utc, world
<1>3. CASE Refuse
    <2>1. stillSynced \in BOOLEAN /\ (stillSynced => synced) BY DEF stillSynced, ClockInv
    <2> QED BY <1>3, <2>1 DEF Refuse, Processing, ClockInv, Trusted, utc, world
<1>4. CASE Boot
    <2>1. NoPvt \in [cal : Times, timed : BOOLEAN, fresh : BOOLEAN] /\ NoPvt.fresh = FALSE
        BY DEF NoPvt, Times
    <2> QED BY <1>0, <1>4, <2>1 DEF Boot, ClockInv, world
<1>5. CASE Tick
    <2>1. ticks \in Nat /\ ticks + 1 \in 0 .. MAX_TICKS BY <1>0, <1>5 DEF Tick, ClockInv
    <2>2. honest /\ synced => Trusted(rtc)' 
        BY <1>5, <2>1, TrustTicks DEF Tick, ClockInv
    <2>3. rtc' \in Times BY <1>5, NextTickType DEF Tick, ClockInv
    <2> QED BY <1>5, <2>1, <2>2, <2>3 DEF Tick, ClockInv
<1>6. ASSUME NEW ok \in BOOLEAN, Adopt(ok) PROVE ClockInv'
    <2>1. CASE ok
        BY <1>6, <2>1 DEF Adopt, Processing, GPSManager_hasValidTime, ClockInv, Trusted, utc, world
    <2>2. CASE ~ok
        BY <1>0, <1>6, <2>2 DEF Adopt, Processing, ClockInv, Trusted, utc, world
    <2> QED BY <2>1, <2>2
<1>7. ASSUME NEW c \in Reported, NEW timed \in BOOLEAN, Pvt(c, timed) PROVE ClockInv'
    <2>1. c \in Times BY ReportedTimes DEF ClockInv
    <2>2. honest' \in BOOLEAN /\ (honest' => honest)
          /\ (honest' /\ timed => Trusted(c))
        BY <1>7 DEF Pvt, Trusted, ClockInv
    <2>3. UNCHANGED <<start, ticks, rtc, synced>> BY <1>7 DEF Pvt, world
    <2>4. pvt' = [cal |-> c, timed |-> timed, fresh |-> TRUE] BY <1>7 DEF Pvt
    <2>5. /\ pvt' \in [cal : Times, timed : BOOLEAN, fresh : BOOLEAN]
          /\ pvt'.cal = c /\ pvt'.timed = timed
        BY <2>1, <2>4
    <2>6. \A x : Trusted(x) => Trusted(x)' BY <2>3 DEF Trusted, utc
    <2> QED BY <2>2, <2>3, <2>5, <2>6 DEF ClockInv
<1> QED BY <1>1, <1>2, <1>3, <1>4, <1>5, <1>6, <1>7 DEF Next

\* A clock in sync holds the truth or what was the truth a moment ago, and so
\* does a PVT with valid flags that waits, as long as none has lied.
THEOREM ClockInvariant == Spec => []ClockInv
BY ClockStart, ClockStep, PTL DEF Spec

-----------------------------------------------------------------------------
(* The properties *)

\* At every tick of a behaviour the true time is a date of the calendar, and
\* its number of seconds is that of the start and the ticks since.
LEMMA TruthCounts ==
    ASSUME ClockInv
    PROVE  /\ utc \in Times /\ isCalendarTime(utc)
           /\ utc.year >= RTC_MIN_VALID_YEAR /\ utc.year <= 2099
           /\ rtcTimeToUnix(utc) = rtcTimeToUnix(start) + ticks
<1>1. /\ MAX_TICKS \in Nat /\ start \in Times /\ isCalendarTime(start)
      /\ start.year >= RTC_MIN_VALID_YEAR
      /\ After(start, MAX_TICKS).year <= RTC_HARDWARE_MAX_YEAR
    BY RtcClockAssumption DEF RtcClockAssumption, ClockInv
<1>2. ticks \in Nat /\ ticks \in 0 .. MAX_TICKS /\ 0 \in 0 .. ticks
    BY <1>1 DEF ClockInv
<1>3. After(start, ticks).year <= After(start, MAX_TICKS).year
      /\ After(start, 0).year <= After(start, ticks).year
    BY <1>1, <1>2, AfterType
<1>4. After(start, 0) = start BY AfterNone
<1>5. /\ After(start, ticks) \in Times /\ After(start, ticks).year \in Nat
      /\ After(start, MAX_TICKS).year \in Nat /\ start.year \in Nat
    BY <1>1, <1>2, AfterTyped DEF Times
<1>6. RTC_HARDWARE_MAX_YEAR = 2099 /\ RTC_MIN_VALID_YEAR = 2025
    BY DEF RTC_HARDWARE_MAX_YEAR, RTC_MIN_VALID_YEAR
<1>7. After(start, ticks).year <= 2099 /\ After(start, ticks).year >= 2025
    BY <1>1, <1>3, <1>4, <1>5, <1>6
<1>8. /\ isCalendarTime(After(start, ticks))
      /\ rtcTimeToUnix(After(start, ticks)) = rtcTimeToUnix(start) + ticks
    BY <1>1, <1>2, <1>7, WalkCounts
<1> QED BY <1>5, <1>6, <1>7, <1>8 DEF utc

\* The Julian day number and the loop count the same days.
LEMMA SameDays ==
    ASSUME NEW c \in Times, isCalendarTime(c)
    PROVE  jdn(c.year, c.month, c.day) - jdn(1980, 1, 6) = DaysSince1970(c) - GPS_EPOCH
<1> DEFINE y == c.year
           m == c.month
           d == c.day
           leap == IF y % 4 = 0 /\ (y % 100 # 0 \/ y % 400 = 0) THEN 1 ELSE 0
           before(k) == DaysBefore(1, k, monthLength(y))
           q == ((y - 1) \div 4) - ((y - 1) \div 100) + ((y - 1) \div 400)
<1>1. y \in Nat /\ 1970 <= y /\ m \in 1 .. 12 /\ d \in Nat
    BY CalendarTimes
<1>2. /\ before(1) = 0 /\ before(2) = 31 /\ before(3) = 59 + leap
      /\ before(4) = 90 + leap /\ before(5) = 120 + leap /\ before(6) = 151 + leap
      /\ before(7) = 181 + leap /\ before(8) = 212 + leap /\ before(9) = 243 + leap
      /\ before(10) = 273 + leap /\ before(11) = 304 + leap /\ before(12) = 334 + leap
    <2> DEFINE feb == IF rtcTimeIsLeapYear(y) THEN 29 ELSE 28
    <2>1. /\ before(1) = 0 /\ before(2) = 31 /\ before(3) = 31 + feb
          /\ before(4) = 62 + feb /\ before(5) = 92 + feb /\ before(6) = 123 + feb
          /\ before(7) = 153 + feb /\ before(8) = 184 + feb /\ before(9) = 215 + feb
          /\ before(10) = 245 + feb /\ before(11) = 276 + feb /\ before(12) = 306 + feb
        BY <1>1, MonthsOf
    <2>2. feb = 28 + leap BY DEF rtcTimeIsLeapYear
    <2>3. leap \in Int OBVIOUS
    <2> HIDE DEF feb, leap, before
    <2> QED BY <2>1, <2>2, <2>3
<1>3. DaysSince1970(c) = 365 * (y - 1970) + q - 477 + before(m) + d - 1
    <2>1. DaysBefore(1970, y, yearLength) = 365 * (y - 1970) + ((y - 1) \div 4)
            - ((y - 1) \div 100) + ((y - 1) \div 400) - 477
        BY <1>1, YearsBefore
    <2>2. DaysSince1970(c) = DaysBefore(1970, y, yearLength) + before(m) + d - 1
        BY DEF DaysSince1970
    <2>3. before(m) \in Int
        BY DaysCounted
    <2> HIDE DEF before
    <2> QED BY <1>1, <2>1, <2>2, <2>3
<1>4. q \in Int BY <1>1
<1>5. (y \div 4) - (y \div 100) + (y \div 400) = q + leap
    <2>1. y \div 4 = ((y - 1) \div 4) + (IF y % 4 = 0 THEN 1 ELSE 0) BY <1>1
    <2>2. y \div 100 = ((y - 1) \div 100) + (IF y % 100 = 0 THEN 1 ELSE 0) BY <1>1
    <2>3. y \div 400 = ((y - 1) \div 400) + (IF y % 400 = 0 THEN 1 ELSE 0) BY <1>1
    <2>4. y % 400 = 0 => y % 100 = 0 BY <1>1
    <2>5. y % 100 = 0 => y % 4 = 0 BY <1>1
    <2> QED BY <1>1, <2>1, <2>2, <2>3, <2>4, <2>5
<1>6. jdn(1980, 1, 6) = 2444245
    BY SMT DEF jdn
<1>7. ASSUME m \in {1, 2}
      PROVE  jdn(y, m, d) = d + ((153 * (m + 9) + 2) \div 5) + 365 * (y + 4799)
                            + (q + 1164) - 32045
    <2>1. /\ (y + 4799) \div 4 = ((y - 1) \div 4) + 1200
          /\ (y + 4799) \div 100 = ((y - 1) \div 100) + 48
          /\ (y + 4799) \div 400 = ((y - 1) \div 400) + 12
        BY <1>1
    <2>2. jdn(y, m, d) = d + ((153 * (m + 9) + 2) \div 5) + 365 * (y + 4799)
            + ((y + 4799) \div 4) - ((y + 4799) \div 100) + ((y + 4799) \div 400) - 32045
        BY SMT, <1>1, <1>7 DEF jdn
    <2> QED BY SMT, <1>1, <2>1, <2>2
<1>8. ASSUME m \in 3 .. 12
      PROVE  jdn(y, m, d) = d + ((153 * (m - 3) + 2) \div 5) + 365 * (y + 4800)
                            + (q + leap + 1164) - 32045
    <2>1. /\ (y + 4800) \div 4 = (y \div 4) + 1200
          /\ (y + 4800) \div 100 = (y \div 100) + 48
          /\ (y + 4800) \div 400 = (y \div 400) + 12
        BY <1>1
    <2>2. jdn(y, m, d) = d + ((153 * (m - 3) + 2) \div 5) + 365 * (y + 4800)
            + ((y + 4800) \div 4) - ((y + 4800) \div 100) + ((y + 4800) \div 400) - 32045
        BY SMT, <1>1, <1>8 DEF jdn
    <2> HIDE DEF q, leap
    <2> QED BY SMT, <1>1, <1>4, <1>5, <2>1, <2>2
<1>9. leap \in Int OBVIOUS
<1> HIDE DEF q, leap, before
<1>10. CASE m \in {1, 2}
    BY SMT, <1>1, <1>2, <1>3, <1>4, <1>6, <1>7, <1>10 DEF GPS_EPOCH
<1>11. CASE m \in 3 .. 12
    <2>1. /\ (153 * 0 + 2) \div 5 = 0 /\ (153 * 1 + 2) \div 5 = 31 /\ (153 * 2 + 2) \div 5 = 61
          /\ (153 * 3 + 2) \div 5 = 92 /\ (153 * 4 + 2) \div 5 = 122
          /\ (153 * 5 + 2) \div 5 = 153 /\ (153 * 6 + 2) \div 5 = 184
          /\ (153 * 7 + 2) \div 5 = 214 /\ (153 * 8 + 2) \div 5 = 245
          /\ (153 * 9 + 2) \div 5 = 275
        OBVIOUS
    <2>2. (153 * (m - 3) + 2) \div 5 + 59 + leap = before(m)
        <3>1. m = 3 \/ m = 4 \/ m = 5 \/ m = 6 \/ m = 7 \/ m = 8 \/ m = 9 \/ m = 10
              \/ m = 11 \/ m = 12
            BY <1>11
        <3> QED BY <1>2, <1>9, <2>1, <3>1
    <2> DEFINE z == (153 * (m - 3) + 2) \div 5
    <2>3. z \in Int BY <1>1
    <2>4. jdn(y, m, d) = d + z + 365 * (y + 4800) + (q + leap + 1164) - 32045
        BY SMT, <1>8, <1>11
    <2>5. before(m) = z + 59 + leap
        BY SMT, <2>2
    <2> HIDE DEF z
    <2> QED BY SMT, <1>1, <1>3, <1>4, <1>6, <1>9, <2>3, <2>4, <2>5 DEF GPS_EPOCH
<1>12. m \in {1, 2} \/ m \in 3 .. 12 BY <1>1
<1> QED BY SMT, <1>10, <1>11, <1>12

\* EveryTickCounts: leap years, month ends and New Year are counted right in
\* both of the firmware's ways, at every tick until the end of 2099.
THEOREM TicksCount == Spec => []EveryTickCounts
<1>1. ClockInv => EveryTickCounts
    <2> SUFFICES ASSUME ClockInv PROVE EveryTickCounts
        OBVIOUS
    <2> DEFINE c == utc
               g == GpsTime(c, TRUE)
               days == DaysSince1970(c) - GPS_EPOCH
    <2>1. /\ c \in Times /\ isCalendarTime(c) /\ c.year >= 2025 /\ c.year <= 2099
          /\ rtcTimeToUnix(utc) = rtcTimeToUnix(start) + ticks
        BY TruthCounts DEF RTC_MIN_VALID_YEAR
    <2> HIDE DEF c
    <2>2. /\ c.year \in Nat /\ c.month \in 1 .. 12 /\ c.day \in 1 .. 31 /\ c.tick \in Nat
          /\ c.tick < DAY /\ DAY \in Nat \ {0} /\ DaysSince1970(c) \in Int
        BY <2>1, CalendarTimes, DaysCounted
    <2>3. gpsDateOk(c, TRUE)
        BY <2>1, <2>2 DEF gpsDateOk
    <2>4. jdn(c.year, c.month, c.day) - jdn(1980, 1, 6) = days
        BY <2>1, SameDays
    <2>5. days \in Nat
        <3>1. DaysBefore(1970, c.year, yearLength) = 365 * (c.year - 1970)
                + ((c.year - 1) \div 4) - ((c.year - 1) \div 100) + ((c.year - 1) \div 400) - 477
            BY <2>1, <2>2, YearsBefore
        <3>2. DaysBefore(1970, c.year, yearLength) >= 20000
            BY SMT, <2>1, <2>2, <3>1
        <3>3. DaysBefore(1, c.month, monthLength(c.year)) >= 0
            <4> DEFINE feb == IF rtcTimeIsLeapYear(c.year) THEN 29 ELSE 28
                       before(m) == DaysBefore(1, m, monthLength(c.year))
            <4>1. /\ before(1) = 0 /\ before(2) = 31 /\ before(3) = 31 + feb
                  /\ before(4) = 62 + feb /\ before(5) = 92 + feb /\ before(6) = 123 + feb
                  /\ before(7) = 153 + feb /\ before(8) = 184 + feb /\ before(9) = 215 + feb
                  /\ before(10) = 245 + feb /\ before(11) = 276 + feb
                  /\ before(12) = 306 + feb
                BY <2>2, MonthsOf
            <4>2. feb \in Nat OBVIOUS
            <4> HIDE DEF feb, before
            <4>3. \A m \in 1 .. 12 : before(m) >= 0
                BY <4>1, <4>2
            <4> QED BY <2>2, <4>3 DEF before
        <3>4. /\ DaysBefore(1970, c.year, yearLength) \in Int
              /\ DaysBefore(1, c.month, monthLength(c.year)) \in Int
            BY <2>1, DaysCounted
        <3> QED BY SMT, <2>2, <3>2, <3>3, <3>4 DEF DaysSince1970, GPS_EPOCH
    <2>6. g.week = days \div 7 /\ g.tow = (days % 7) * DAY + c.tick
        BY <2>3, <2>4, <2>5 DEF GpsTime, calendarToGPSTime
    <2>7. rtcTimeToUnix(c) = (days + GPS_EPOCH) * DAY + c.tick
        <3>1. DaysSince1970(c) = days + GPS_EPOCH BY <2>2 DEF GPS_EPOCH
        <3> QED BY <3>1 DEF rtcTimeToUnix
    <2> HIDE DEF g, days
    <2>8. g.tow \in 0 .. 7 * DAY - 1
        <3>1. days % 7 \in 0 .. 6 BY <2>5
        <3>2. \A r \in 0 .. 6 : r * DAY + c.tick \in 0 .. 7 * DAY - 1 BY <2>2
        <3> QED BY <2>6, <3>1, <3>2
    <2>9. g.week * 7 * DAY + g.tow = rtcTimeToUnix(c) - GPS_EPOCH * DAY
        <3> DEFINE w == days \div 7
                   r == days % 7
        <3>1. w \in Int /\ r \in 0 .. 6 /\ days = w * 7 + r BY <2>5
        <3>2. GPS_EPOCH \in Int BY DEF GPS_EPOCH
        <3> HIDE DEF w, r
        <3>3. (days + GPS_EPOCH) * DAY = w * 7 * DAY + r * DAY + GPS_EPOCH * DAY
            BY SMT, <2>2, <3>1, <3>2
        <3>4. w * 7 * DAY \in Int /\ r * DAY \in Int /\ GPS_EPOCH * DAY \in Int
            BY <2>2, <3>1, <3>2
        <3>5. g.week * 7 * DAY + g.tow = w * 7 * DAY + (r * DAY + c.tick)
            BY <2>6 DEF w, r
        <3> DEFINE a == w * 7 * DAY
                   b == r * DAY
                   e == GPS_EPOCH * DAY
                   total == (days + GPS_EPOCH) * DAY
                   seconds == rtcTimeToUnix(c)
                   told == g.week * 7 * DAY + g.tow
        <3>6. a \in Int /\ b \in Int /\ e \in Int /\ c.tick \in Int BY <2>2, <3>4
        <3>7. total = a + b + e BY <3>3
        <3>8. seconds = total + c.tick BY <2>7
        <3>9. told = a + (b + c.tick) BY <3>5
        <3> HIDE DEF a, b, e, total, seconds, told
        <3>10. told = seconds - e BY <3>6, <3>7, <3>8, <3>9
        <3> QED BY <3>10 DEF told, seconds, e
    <2>10. /\ GpsTime(utc, TRUE).tow \in 0 .. 7 * DAY - 1
           /\ GpsTime(utc, TRUE).week * 7 * DAY + GpsTime(utc, TRUE).tow
                = rtcTimeToUnix(utc) - GPS_EPOCH * DAY
        BY <2>8, <2>9 DEF g, c
    <2>11. rtcTimeToUnix(utc) = rtcTimeToUnix(start) + ticks BY <2>1
    <2> QED BY <2>10, <2>11 DEF EveryTickCounts
<1> QED BY <1>1, ClockInvariant, PTL

\* TruthIsTold: what the vehicle is told while no PVT with valid flags has
\* lied is the truth, or was it as long ago as a PVT may lie unread.
THEOREM TruthTold == Spec => []TruthIsTold
<1>1. ClockInv => TruthIsTold
    <2> SUFFICES ASSUME ClockInv, honest, getRTCUnix # 0
                 PROVE  Apart(getRTCUnix, rtcTimeToUnix(utc)) <= LAG
        BY DEF TruthIsTold
    <2>1. synced /\ isCalendarTime(rtc) /\ getRTCUnix = rtcTimeToUnix(rtc) /\ rtc \in Times
        BY DEF getRTCUnix, ClockInv
    <2>2. PICK n \in 0 .. LAG : After(rtc, n) = utc
        BY <2>1 DEF ClockInv, Trusted
    <2>3. LAG \in Nat /\ n \in Nat /\ n <= LAG
        BY RtcClockAssumption DEF RtcClockAssumption
    <2>4. rtcTimeToUnix(utc) = rtcTimeToUnix(rtc) + n
        BY <2>1, <2>2, <2>3, TruthCounts, WalkCounts
    <2>5. rtcTimeToUnix(rtc) \in Int BY <2>1, DaysCounted
    <2> QED BY <2>1, <2>3, <2>4, <2>5 DEF Apart
<1> QED BY <1>1, ClockInvariant, PTL

\* NoLargeCorrection: between two readings in sync the clock goes on as the time
\* does but for one correction within the limit, whatever the receiver says.
THEOREM CorrectionsAreSmall == Spec => NoLargeCorrection
<1>1. ClockInv /\ [Next]_vars =>
        [getRTCUnix # 0 /\ getRTCUnix' # 0 =>
            Apart(getRTCUnix', getRTCUnix + (ticks' - ticks)) <= MAX_GPS_STEP]_vars
    <2> SUFFICES ASSUME ClockInv, Next, getRTCUnix # 0, getRTCUnix' # 0
                 PROVE  Apart(getRTCUnix', getRTCUnix + (ticks' - ticks)) <= MAX_GPS_STEP
        OBVIOUS
    <2>0. MAX_GPS_STEP \in Nat /\ ticks \in Nat
        BY RtcCalendarAssumption, RtcClockAssumption
        DEF RtcCalendarAssumption, RtcClockAssumption, ClockInv
    <2>1. /\ synced /\ isCalendarTime(rtc) /\ rtc.year <= 2099
          /\ getRTCUnix = rtcTimeToUnix(rtc) /\ rtc \in Times
        BY DEF getRTCUnix, ClockInv, RTC_HARDWARE_MAX_YEAR
    <2>2. synced' /\ isCalendarTime(rtc)' /\ getRTCUnix' = rtcTimeToUnix(rtc')
        BY DEF getRTCUnix, isCalendarTime, rtcTimeToUnix, DaysSince1970
    <2>3. getRTCUnix \in Int BY <2>1, DaysCounted
    <2>4. ASSUME UNCHANGED <<rtc, ticks>>
          PROVE  Apart(getRTCUnix', getRTCUnix + (ticks' - ticks)) <= MAX_GPS_STEP
        <3>1. getRTCUnix' = getRTCUnix BY <2>1, <2>2, <2>4
        <3>2. ticks' - ticks = 0 BY <2>0, <2>4
        <3> QED BY <2>0, <2>3, <3>1, <3>2 DEF Apart
    <2>5. CASE Ignore \/ Refuse \/ \E c \in Reported, timed \in BOOLEAN : Pvt(c, timed)
        BY <2>4, <2>5 DEF Ignore, Refuse, Pvt, Processing, world
    <2>6. CASE Boot
        BY <2>2, <2>6 DEF Boot
    <2>7. CASE Tick
        <3>1. rtcTimeToUnix(rtc') = rtcTimeToUnix(rtc) + 1
            BY <2>1, <2>7, TickCounts DEF Tick
        <3>2. ticks' - ticks = 1 BY <2>0, <2>7 DEF Tick
        <3> QED BY <2>0, <2>1, <2>2, <2>3, <3>1, <3>2 DEF Apart
    <2>8. ASSUME NEW ok \in BOOLEAN, Adopt(ok)
          PROVE  Apart(getRTCUnix', getRTCUnix + (ticks' - ticks)) <= MAX_GPS_STEP
        <3>1. ok /\ rtc' = pvt.cal /\ acceptable /\ ticks' = ticks
            BY <2>2, <2>8 DEF Adopt, Processing, world
        <3>2. stillSynced BY <2>1 DEF stillSynced
        <3>3. /\ isCalendarTime(pvt.cal)
              /\ stepSize(rtcTimeToUnix(pvt.cal), getRTCUnix) <= MAX_GPS_STEP
            BY <3>1, <3>2 DEF acceptable, rtcTimeValidate
        <3>4. pvt.cal \in Times BY DEF ClockInv
        <3>5. rtcTimeToUnix(pvt.cal) \in Int BY <3>3, <3>4, DaysCounted
        <3>6. getRTCUnix' = rtcTimeToUnix(pvt.cal) BY <2>2, <3>1
        <3>7. ticks' - ticks = 0 BY <2>0, <3>1
        <3> QED BY <2>0, <2>3, <3>3, <3>5, <3>6, <3>7 DEF Apart, stepSize
    <2> QED BY <2>5, <2>6, <2>7, <2>8 DEF Next
<1> QED BY <1>1, ClockInvariant, PTL DEF Spec, NoLargeCorrection
=============================================================================
