---------------------------- MODULE PositionTold ----------------------------
(***************************************************************************)
(* A PVT's position as the autopilot is told it (MAVLinkInterface_sendGPS) *)
(* and as an operator reads it (GPSManager_getDataString).  A position has *)
(* the units of IridiumMessage and the receiver's fix type, its dilution   *)
(* in hundredths and its accuracy in mm.  GPS_INPUT repeats GPS_RAW_INT;   *)
(* the time it tells is RtcCalendar's.                                     *)
(*                                                                         *)
(* The receiver's integers become quotients in double or float, and those  *)
(* are multiplied and cast back: which of the neighbouring integers comes  *)
(* out depends on the last bits, so a message is one of several.           *)
(***************************************************************************)
EXTENDS IridiumMessage

ACC_MAX_MM == 9999000
UINT16_MAX == 65535

\* A cast cuts off a product that falls just short of the number.
Cast(n) == {m \in n - 1 .. n + 1 : Magnitude(m) \in Magnitude(n) - 1 .. Magnitude(n)}

\* The course is a float, too coarse for its last digits either way.
CastCourse(c) == Max({c - 1, 0}) .. c + 1

\* What may be told.  Speed and course lose what is beyond cm/s and hundredths
\* of a degree.  No fix is told as such, not as a receiver that is not there.
MAVLinkInterface_sendGPS(p) ==
    [fixType : {Max({p.fixType, 1})}, lat : Cast(p.lat), lon : Cast(p.lon),
     eph : {IF e > 9999 THEN UINT16_MAX ELSE e : e \in Cast(p.hdop)},
     vel : Cast(p.speed \div 10), cog : CastCourse(p.course \div 1000),
     h_acc : {Min({p.accuracy, ACC_MAX_MM})}]

\* Degrees and millionths: a fraction rounded to a whole one is carried.
Decimal(d) ==
    LET a == Magnitude(d)
        millionths == roundedPositive(a % DEGREE, 10)
    IN  IF millionths = 1000000 THEN [minus |-> d < 0, whole |-> a \div DEGREE + 1, part |-> 0]
        ELSE [minus |-> d < 0, whole |-> a \div DEGREE, part |-> millionths]

GPSManager_getDataString(p) == [lat |-> Decimal(p.lat), lon |-> Decimal(p.lon)]

-----------------------------------------------------------------------------

DecimalReadsBack(s, d) ==
    /\ s.part < 1000000 /\ s.minus = (d < 0)
    /\ LET a == Magnitude(d)
       IN  Nearest((s.whole - a \div DEGREE) * 1000000 + s.part, 10, a % DEGREE)

\* On the same side of zero, and at most one unit nearer to it.
AtMostOneShort(m, n) ==
    /\ Magnitude(n) - Magnitude(m) \in 0 .. 1
    /\ m = 0 \/ (m < 0) = (n < 0)

\* The autopilot is told the position to a unit of its fields, of none better than
\* the receiver has by more than that, and never that there is none where the
\* firmware itself reports one.
AutopilotReadsBack(told, p, valid) ==
    /\ AtMostOneShort(told.lat, p.lat) /\ AtMostOneShort(told.lon, p.lon)
    /\ told.fixType > 0
    /\ (told.fixType > 1) = (p.fixType > 1) /\ (valid => told.fixType > 1)
    /\ told.eph >= p.hdop - 1 /\ (told.h_acc < p.accuracy => told.h_acc = ACC_MAX_MM)
    /\ p.speed - told.vel * 10 \in 0 .. 19 /\ p.course - told.cog * 1000 \in -1000 .. 1999
    /\ told.vel <= UINT16_MAX /\ told.cog <= UINT16_MAX

PositionReadsBack(p, valid) ==
    /\ \A told \in MAVLinkInterface_sendGPS(p) : AutopilotReadsBack(told, p, valid)
    /\ LET s == GPSManager_getDataString(p)
       IN  DecimalReadsBack(s.lat, p.lat) /\ DecimalReadsBack(s.lon, p.lon)
=============================================================================
