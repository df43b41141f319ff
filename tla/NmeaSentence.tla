---------------------------- MODULE NmeaSentence ----------------------------
(***************************************************************************)
(* A coordinate in an NMEA sentence: degrees, whole minutes and four       *)
(* digits of a minute (format_lat and format_lon of                        *)
(* meshtastic_interface.cpp, meshSendPosition of main_selftest.cpp).       *)
(***************************************************************************)
EXTENDS IridiumMessage

\* Ten thousand parts are a minute, sixty minutes a degree.
carried(c) ==
    LET whole == IF c.part >= 10000 THEN [c EXCEPT !.part = @ - 10000, !.minute = @ + 1] ELSE c
    IN  IF whole.minute >= 60 THEN [whole EXCEPT !.minute = @ - 60, !.degree = @ + 1] ELSE whole

Minutes(d) ==
    LET a == Magnitude(d)
        sixty == (a % DEGREE) * 60
    IN  carried([degree |-> a \div DEGREE, minute |-> sixty \div DEGREE,
                 part |-> roundedPositive(sixty % DEGREE, 1000)])

format_lat(lat) == [place |-> Minutes(lat), south |-> lat < 0]
format_lon(lon) == [place |-> Minutes(lon), west |-> lon < 0]

\* Either image's GGA and RMC.
meshSendPosition(p) == [lat |-> format_lat(p.lat), lon |-> format_lon(p.lon)]

-----------------------------------------------------------------------------

\* The parts of a minute in all, from the degree the reading is in.
PartsFrom(degree, c) == ((c.degree - degree) * 60 + c.minute) * 10000 + c.part

\* The node reads the nearest place, in fields that are within their width.
MinutesReadBack(c, d) ==
    /\ c.minute < 60 /\ c.part < 10000
    /\ LET a == Magnitude(d)
       IN  Nearest(PartsFrom(a \div DEGREE, c), 1000, (a % DEGREE) * 60)

NmeaReadsBack(sentence, p) ==
    /\ MinutesReadBack(sentence.lat.place, p.lat) /\ sentence.lat.south = (p.lat < 0)
    /\ MinutesReadBack(sentence.lon.place, p.lon) /\ sentence.lon.west = (p.lon < 0)
=============================================================================
