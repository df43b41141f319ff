------------------------------ MODULE MCBoard -------------------------------
(* Places where a rounded digit is carried to the degree, where a sign is    *)
(* left of nothing, and where a field is full.                               *)
EXTENDS Board

At(lat, lon, speed, course, fixType, hdop, accuracy) ==
    [lat |-> lat, lon |-> lon, speed |-> speed, course |-> course,
     fixType |-> fixType, hdop |-> hdop, accuracy |-> accuracy]

MCPositions ==
    {At(900000000, -1800000000, 12345, 35999999, 3, 120, 9999000),
     At(-1, 1799999999, 9949, 35949000, 2, 10000, 9999001),
     At(-213999999, -49, 50, 50000, 3, 9999, 0),
     At(0, 9999996, 0, 0, 0, 9999, 2147483647)}
Reading(depth, battery, vbat) == [depth |-> depth, battery |-> battery, vbat |-> vbat]

MCReadings ==
    {Reading(0, 14850, 4000), Reading(49, 0, 2849), Reading(50, 99950, 0),
     Reading(999949, 120000, 2800), Reading(1200000, 1, 2800)}

\* Every field full, negative where it may be, and empty.
Filled(layout, narrow, wide) ==
    [name \in Fields(layout) |->
        LET i == CHOOSE j \in DOMAIN layout : layout[j][1] = name
        IN  IF layout[i][2] = 4 THEN wide ELSE IF layout[i][2] = 2 THEN 257 * narrow ELSE narrow]

MCReports == {Filled(DorisReport, 255, -2), Filled(DorisReport, 200, 2147483647)}
MCConfigs == {Filled(DorisConfig, 255, 0), Filled(DorisConfig, 0, 0)}
MCCommands == {Filled(DorisCommand, 2, -5)}
=============================================================================
