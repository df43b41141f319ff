---------------------------- MODULE RtcCalendar -----------------------------
(***************************************************************************)
(* Calendar times and the guard over GNSS clock updates                    *)
(* (rtc_time_guard.h, apollo_rtc_time.h).  Hours, minutes and seconds are  *)
(* one field that counts DAY ticks in a day.                               *)
(***************************************************************************)
EXTENDS Integers, FiniteSetsExt

CONSTANTS DAY,               \* ticks in a day
          BUILD_YEAR,        \* of __DATE__
          MAX_GPS_STEP       \* the largest correction, in ticks

ASSUME RtcCalendarAssumption ==
    DAY \in Nat \ {0} /\ BUILD_YEAR \in Nat /\ MAX_GPS_STEP \in Nat

RTC_MIN_VALID_YEAR == 2025
RTC_HARDWARE_MAX_YEAR == 2099

\* The latest year a first solution may claim.
maximumPlausibleGpsYear ==
    Min({Max({BUILD_YEAR, RTC_MIN_VALID_YEAR}) + 1, RTC_HARDWARE_MAX_YEAR})

rtcTimeIsLeapYear(y) == y % 4 = 0 /\ (y % 100 # 0 \/ y % 400 = 0)

\* Seeded fault: no leap years.
DaysInMonthNoLeap(y, m) ==
    CASE m = 2 -> 28 [] m \in {4, 6, 9, 11} -> 30 [] m \in {1, 3, 5, 7, 8, 10, 12} -> 31
      [] OTHER -> 0

rtcTimeDaysInMonth(y, m) ==
    CASE m = 2 -> IF rtcTimeIsLeapYear(y) THEN 29 ELSE 28
      [] m \in {4, 6, 9, 11} -> 30
      [] m \in {1, 3, 5, 7, 8, 10, 12} -> 31
      [] OTHER -> 0

isCalendarTime(c) ==
    /\ c.year >= 1970
    /\ c.day \in 1 .. rtcTimeDaysInMonth(c.year, c.month)
    /\ c.tick \in 0 .. DAY - 1

\* What a calendar, a receiver or a register may name.
Times == [year : Nat, month : Nat, day : Nat, tick : Nat]

\* The days from the first year or month to before the last.
DaysBefore(first, last, length) ==
    LET sum[i \in first .. last] == IF i = first THEN 0 ELSE sum[i - 1] + length[i - 1]
    IN  sum[last]

yearLength[y \in Nat] == IF rtcTimeIsLeapYear(y) THEN 366 ELSE 365
monthLength(y) == [m \in Nat |-> rtcTimeDaysInMonth(y, m)]

\* Whole years, whole months, days.
DaysSince1970(c) ==
    DaysBefore(1970, c.year, yearLength) + DaysBefore(1, c.month, monthLength(c.year)) + c.day - 1

rtcTimeToUnix(c) == DaysSince1970(c) * DAY + c.tick

\* A Julian day number: years that begin in March and count from 4800 BC.
jdn(y, m, d) ==
    LET early == IF m <= 2 THEN 1 ELSE 0
        y2 == y + 4800 - early
        m2 == m + 12 * early - 3
    IN  d + (153 * m2 + 2) \div 5 + 365 * y2 + y2 \div 4 - y2 \div 100 + y2 \div 400 - 32045

\* Week and ticks of the week since 1980-01-06, for GPS_INPUT.  No leap second
\* is added: the time of week is that of UTC.
calendarToGPSTime(c) ==
    LET days == jdn(c.year, c.month, c.day) - jdn(1980, 1, 6)
    IN  IF days < 0 THEN [week |-> 0, tow |-> 0]
        ELSE [week |-> days \div 7, tow |-> (days % 7) * DAY + c.tick]

\* What MAVLinkInterface_sendGPS tells of a PVT: nothing without its flags or
\* beyond the plausible years; a day the month does not have passes.
gpsDateOk(c, timed) ==
    /\ timed /\ c.year \in 2025 .. 2099 /\ c.month \in 1 .. 12 /\ c.day \in 1 .. 31
    /\ c.tick < DAY

GpsTime(c, timed) ==
    IF gpsDateOk(c, timed) THEN calendarToGPSTime(c) ELSE [week |-> 0, tow |-> 0]

\* Seeded fault: a step back is not looked at.
stepForward(a, b) == IF a > b THEN a - b ELSE 0

stepSize(a, b) == IF a > b THEN a - b ELSE b - a

\* A clock that runs may pass the year the first solution may not.
rtcTimeValidate(c, synced, current) ==
    /\ c.year >= RTC_MIN_VALID_YEAR
    /\ synced \/ c.year <= maximumPlausibleGpsYear
    /\ isCalendarTime(c)
    /\ synced => stepSize(rtcTimeToUnix(c), current) <= MAX_GPS_STEP

\* apolloRtcTimeFromCalendar takes the years of one century.
fitsHardware(c) == c.year \in 2000 .. 2099
=============================================================================
