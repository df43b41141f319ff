--------------------------- MODULE IridiumMessage ---------------------------
(***************************************************************************)
(* The fields of the P/1 report (modules/iridium_message.cpp) as the       *)
(* numbers its digits spell.  A reading is in the units it arrives in:     *)
(* 1e-7 degrees, mm/s, 1e-5 degrees of course, centimetres, millivolts.    *)
(* The last bits of the floats it passes through are not modelled.         *)
(***************************************************************************)
EXTENDS Integers, FiniteSetsExt

Between(lo, x, hi) == Max({lo, Min({x, hi})})

\* A half rounds up; n is not negative and unit is even.
roundedPositive(n, unit) == (n + unit \div 2) \div unit

Magnitude(n) == IF n < 0 THEN -n ELSE n

DEGREE == 10000000
COORDINATE_SCALE == 100000

\* The sign is the reading's, of a zero too that was rounded from one below.
Coordinate(d, limit) ==
    [minus |-> d < 0,
     scaled |-> Min({roundedPositive(Magnitude(Between(-limit * DEGREE, d, limit * DEGREE)),
                                     DEGREE \div COORDINATE_SCALE),
                     limit * COORDINATE_SCALE})]

\* Capped before it is rounded.
Speed(s) == roundedPositive(Between(0, s, 9900), 100)

\* Seeded fault: the top half degree is not the first one.
normalizedCourseTo360(c) == roundedPositive(c % 36000000, 100000)

normalizedCourse(c) ==
    LET degrees == roundedPositive(c % 36000000, 100000)
    IN  IF degrees = 360 THEN 0 ELSE degrees

Depth(d) == roundedPositive(Between(0, d, 999900), 100)

Battery(v) == roundedPositive(Between(0, v, 99900), 100)

\* gps says whether there is a position at all.
IridiumMessage_formatP1(gps, p, depth, volts) ==
    [lat |-> Coordinate(IF gps THEN p.lat ELSE 0, 90),
     lon |-> Coordinate(IF gps THEN p.lon ELSE 0, 180),
     speed |-> IF gps THEN Speed(p.speed) ELSE 0,
     course |-> IF gps THEN normalizedCourse(p.course) ELSE 0,
     depth |-> Depth(depth),
     battery |-> Battery(volts)]

\* The autopilot's voltage, or without one the board's own.
ReportedVolts(battery_voltage, vbat) == IF battery_voltage > 0 THEN battery_voltage ELSE vbat

-----------------------------------------------------------------------------

\* The spelled number is the nearest to the reading.
Nearest(spelled, unit, reading) == 2 * Magnitude(spelled * unit - reading) <= unit

CoordinateReadsBack(c, d, limit) ==
    c.scaled <= limit * COORDINATE_SCALE /\ Nearest(IF c.minus THEN -c.scaled ELSE c.scaled, 100, d)

\* Degrees that turn over at 360 are near to either end.
CourseReadsBack(degrees, c) ==
    degrees < 360 /\ \E turn \in {0, 36000000} : Nearest(degrees, 100000, (c % 36000000) - turn)

\* What stands in the report is the reading to the last digit: a value beyond
\* the field's width is its largest one, a course just under north is north,
\* and no value fills more digits than its field has, which would shift all
\* that follow.
P1ReadsBack(r, p, depth, volts) ==
    /\ CoordinateReadsBack(r.lat, p.lat, 90) /\ CoordinateReadsBack(r.lon, p.lon, 180)
    /\ r.speed <= 99 /\ (p.speed <= 9900 => Nearest(r.speed, 100, p.speed))
    /\ CourseReadsBack(r.course, p.course)
    /\ r.depth <= 9999 /\ (0 <= depth /\ depth <= 999900 => Nearest(r.depth, 100, depth))
    /\ r.battery <= 999 /\ (volts <= 99900 => Nearest(r.battery, 100, volts))
=============================================================================
