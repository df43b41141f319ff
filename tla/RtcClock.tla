------------------------------ MODULE RtcClock ------------------------------
(***************************************************************************)
(* The Apollo3 RTC under the discipline of the GNSS receiver: every new    *)
(* UBX-NAV-PVT is looked at once (syncRTCFromGPSIfValid), and the vehicle  *)
(* is told the RTC's time while it is in sync (getRTCUnixUsec).            *)
(*                                                                         *)
(* The environment is the true time, the crystal that counts the RTC on    *)
(* with it, and a receiver that may report any time of the behaviour or an *)
(* odd one, with its valid flags or without.                               *)
(***************************************************************************)
EXTENDS RtcCalendar

CONSTANTS Starts,      \* calendar times a behaviour may start at
          Oddities,    \* what a receiver may report besides its times
          Junk,        \* what the RTC's registers may hold at power-on
          MAX_TICKS,   \* the length of a behaviour
          LAG          \* how old a PVT may be when it is read

VARIABLES start, ticks,   \* the true time
          rtc,            \* the RTC's registers
          synced,         \* rtcSyncedFromGPS
          accepted,       \* lastAcceptedGpsUnixSeconds
          pvt,            \* the last PVT, and whether it was processed
          honest          \* observes that no PVT since the boot has lied

world == <<start, ticks>>
vars == <<world, rtc, synced, accepted, pvt, honest>>

\* The tick that follows c, by the rule of leap years that a counter with two
\* digits of the year has; it is the calendar's until 2099.
NextTick(c) ==
    LET last == <<31, IF c.year % 4 = 0 THEN 29 ELSE 28, 31, 30, 31, 30, 31, 31, 30, 31, 30, 31>>
    IN  IF c.tick + 1 < DAY THEN [c EXCEPT !.tick = @ + 1]
        ELSE IF c.day < last[c.month] THEN [c EXCEPT !.tick = 0, !.day = @ + 1]
        ELSE IF c.month < 12 THEN [c EXCEPT !.tick = 0, !.day = 1, !.month = @ + 1]
        ELSE [year |-> c.year + 1, month |-> 1, day |-> 1, tick |-> 0]

\* The calendar time n ticks after c.
After(c, n) ==
    LET walk[k \in 0 .. n] == IF k = 0 THEN c ELSE NextTick(walk[k - 1])
    IN  walk[n]

\* A behaviour starts on a date and ends before the century does.
ASSUME RtcClockAssumption ==
    /\ MAX_TICKS \in Nat /\ LAG \in Nat
    /\ Oddities \subseteq Times /\ Junk \subseteq Times
    /\ \A s \in Starts :
        /\ s \in Times /\ isCalendarTime(s)
        /\ s.year >= RTC_MIN_VALID_YEAR /\ After(s, MAX_TICKS).year <= RTC_HARDWARE_MAX_YEAR

utc == After(start, ticks)

NoPvt == [cal |-> [year |-> 0, month |-> 0, day |-> 0, tick |-> 0], timed |-> FALSE,
          fresh |-> FALSE]

Init ==
    /\ start \in Starts /\ ticks = 0 /\ rtc \in Junk
    /\ synced = FALSE /\ accepted = 0 /\ pvt = NoPvt /\ honest = TRUE

Boot ==
    /\ rtc' \in Junk /\ synced' = FALSE /\ accepted' = 0 /\ pvt' = NoPvt /\ honest' = TRUE
    /\ UNCHANGED world

\* What the vehicle is told, 0 if nothing.
getRTCUnix ==
    IF synced /\ rtc.year \in RTC_MIN_VALID_YEAR .. RTC_HARDWARE_MAX_YEAR /\ isCalendarTime(rtc)
    THEN rtcTimeToUnix(rtc) ELSE 0

\* Seeded fault: the flags of the PVT are not looked at.
hasTimeAnyPvt(p) == TRUE

GPSManager_hasValidTime(p) == p.timed

stillSynced == synced /\ getRTCUnix # 0

-----------------------------------------------------------------------------
(* syncRTCFromGPSIfValid, on a PVT that has not been processed *)

Processing == pvt.fresh /\ pvt' = [pvt EXCEPT !.fresh = FALSE] /\ UNCHANGED <<world, honest>>

acceptable == rtcTimeValidate(pvt.cal, stillSynced, getRTCUnix)

Ignore ==
    /\ Processing /\ ~GPSManager_hasValidTime(pvt)
    /\ UNCHANGED <<rtc, synced, accepted>>

\* A guard says no, or this second is the RTC's already.
Refuse ==
    /\ Processing /\ GPSManager_hasValidTime(pvt)
    /\ acceptable => rtcTimeToUnix(pvt.cal) = accepted \/ ~fitsHardware(pvt.cal)
    /\ synced' = stillSynced /\ UNCHANGED <<rtc, accepted>>

\* The hardware may not take what it is given, and is then not believed.
Adopt(ok) ==
    /\ Processing /\ GPSManager_hasValidTime(pvt)
    /\ acceptable /\ rtcTimeToUnix(pvt.cal) # accepted /\ fitsHardware(pvt.cal)
    /\ synced' = ok
    /\ IF ok THEN rtc' = pvt.cal /\ accepted' = rtcTimeToUnix(pvt.cal)
             ELSE rtc' \in Junk /\ UNCHANGED accepted

-----------------------------------------------------------------------------
(* The environment *)

\* Time passes between the passes.
Tick ==
    /\ ticks < MAX_TICKS /\ ~pvt.fresh
    /\ ticks' = ticks + 1 /\ rtc' = NextTick(rtc)
    /\ UNCHANGED <<start, synced, accepted, pvt, honest>>

Pvt(c, timed) ==
    /\ ~pvt.fresh
    /\ pvt' = [cal |-> c, timed |-> timed, fresh |-> TRUE]
    /\ honest' = (honest /\ (timed => \E n \in 0 .. LAG : After(c, n) = utc))
    /\ UNCHANGED <<world, rtc, synced, accepted>>

Reported == {After(start, n) : n \in 0 .. MAX_TICKS + MAX_GPS_STEP + 1} \union Oddities

Next ==
    \/ Ignore \/ Refuse \/ Boot \/ Tick
    \/ \E ok \in BOOLEAN : Adopt(ok)
    \/ \E c \in Reported, timed \in BOOLEAN : Pvt(c, timed)

Spec == Init /\ [][Next]_vars

-----------------------------------------------------------------------------

\* The distance of two times.
Apart(a, b) == IF a > b THEN a - b ELSE b - a

\* The days from 1970-01-01 to 1980-01-06.
GPS_EPOCH == 3657

\* Counting the days of whole years and months gives every tick its number,
\* over leap days, month ends and New Year (rtcTimeToUnixSeconds), and the
\* week and the time of week that the vehicle is told by another count are
\* the same instant (calendarToGPSTime).
EveryTickCounts ==
    /\ rtcTimeToUnix(utc) = rtcTimeToUnix(start) + ticks
    /\ LET g == GpsTime(utc, TRUE) IN
        /\ g.tow \in 0 .. 7 * DAY - 1
        /\ g.week * 7 * DAY + g.tow = rtcTimeToUnix(utc) - GPS_EPOCH * DAY

\* While no PVT with valid flags has lied, the vehicle is told the true time,
\* late by no more than a PVT may be, whatever those without the flags say.
TruthIsTold ==
    honest /\ getRTCUnix # 0 => Apart(getRTCUnix, rtcTimeToUnix(utc)) <= LAG

\* In sync the clock never jumps by more than MAX_GPS_STEP (CHANGELOG.md, "a
\* correction larger than five minutes after synchronization").
NoLargeCorrection ==
    [][getRTCUnix # 0 /\ getRTCUnix' # 0 =>
        Apart(getRTCUnix', getRTCUnix + (ticks' - ticks)) <= MAX_GPS_STEP]_vars
=============================================================================
