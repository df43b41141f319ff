------------------------------- MODULE Board --------------------------------
(***************************************************************************)
(* The board with either image, and the position it tells everybody: that  *)
(* of the last PVT, which a receiver that falls mute leaves as it is.      *)
(***************************************************************************)
EXTENDS SelfTest, NmeaSentence, PositionTold, DorisProtocol

CONSTANTS Positions,   \* what a PVT may locate the board at
          Readings,    \* the maximum depth in cm, the battery's voltage in mV or
                       \* zero, and the board's own
          Reports, Configs, Commands   \* the binary messages' contents

Latitudes == -90 * DEGREE .. 90 * DEGREE
Longitudes == -180 * DEGREE .. 180 * DEGREE

\* What a receiver may give: the speed and the course as far as the fields of
\* GPS_RAW_INT reach, 2359 km/h and more than a turn.
Fixes ==
    [lat : Latitudes, lon : Longitudes,
     speed : 0 .. UINT16_MAX * 10 + 9, course : 0 .. UINT16_MAX * 1000 - 1,
     fixType : Nat, hdop : 0 .. UINT16_MAX, accuracy : Nat]

ASSUME BoardAssumption ==
    /\ Positions \subseteq Fixes
    /\ Readings \subseteq [depth : Nat, battery : Nat, vbat : Nat]
    /\ \A r \in Reports : Fits(DorisReport, r)
    /\ \A c \in Configs : Fits(DorisConfig, c)
    /\ \A c \in Commands : Fits(DorisCommand, c)

VARIABLE position

\* A mission that has not begun yet.
Nowhere ==
    [lat |-> 0, lon |-> 0, speed |-> 0, course |-> 0, fixType |-> 0, hdop |-> 0, accuracy |-> 0]

BoardInit == ImageInit /\ position = Nowhere

\* With a fix or without one a PVT brings a position; the firmware takes no fix
\* without satellites enough, the bench none in two dimensions either.
Located(fix) == Vehicle(Pvt(fix)) \/ getPVT(fix)

LeastFix == IF image = "selftest" THEN 3 ELSE 2

Moved(fix) ==
    /\ Located(fix) /\ position' \in Positions
    /\ fix => position'.fixType >= LeastFix

BoardNext ==
    \/ \E fix \in BOOLEAN : Moved(fix)
    \/ ImageNext /\ ~(\E fix \in BOOLEAN : Located(fix)) /\ UNCHANGED position

BoardSpec == BoardInit /\ [][BoardNext]_<<imageVars, position>> /\ ImageFairness

-----------------------------------------------------------------------------

\* The payload of a report with a position, of one without.
PositionReport(r) ==
    IridiumMessage_formatP1(gps.valid, position, r.depth, ReportedVolts(r.battery, r.vbat))

StatusReport(r) ==
    IridiumMessage_formatP1(FALSE, position, r.depth, ReportedVolts(r.battery, r.vbat))

\* The node's position.  The bench sends a fixed one while it has no good fix,
\* the vehicle a sentence without a position.
TestFix == [lat |-> 377024000, lon |-> -1220841000]

MeshPosition ==
    IF image = "selftest" THEN IF test.good THEN position ELSE TestFix
    ELSE IF gps.valid THEN position ELSE Nowhere

-----------------------------------------------------------------------------

\* What the caller of a session held before it.
Held == [id |-> 0, config |-> [f \in Fields(DorisConfig) |-> 1],
         command |-> [f \in Fields(DorisCommand) |-> 1]]

\* Between two passes of the bench image its lights name the last message's fate.
StripReadsBack ==
    image = "selftest" /\ pc = "update" =>
        /\ test.shown = "blue" => test.result = "sent"
        /\ test.shown = "red" => test.result = "failed" \/ ~test.initOK
        /\ test.shown = "green" => test.result = "none" /\ test.initOK
        /\ test.shown # "magenta"

ProtocolReadsBack ==
    /\ \A r \in Reports : ReportUnpacks(r)
    /\ \A n \in {DORIS_MSG_ID_CONFIG, DORIS_MSG_ID_COMMAND} :
         AckUnpacks([acked_msg_id |-> n, result |-> 255])
    /\ \A config \in Configs, command \in Commands : MailTaken(config, command, Held)

\* Whoever reads a report or an NMEA sentence gets the position, the depth and the
\* voltage the firmware had, to the last digit, at the poles, the date line,
\* either side of zero and where a digit is carried; the autopilot gets the
\* position to one unit of its message; a report without a fix shows no position;
\* a binary message cut anywhere is not taken; the bench's lights tell what
\* became of the last message
\* (IridiumMessage_formatP1, format_lat, MAVLinkInterface_sendGPS,
\* DorisProtocol_parseMT, showStatus).
ReportReadsBack ==
    /\ NmeaReadsBack(meshSendPosition(MeshPosition), MeshPosition)
    /\ PositionReadsBack(position, gps.valid)
    /\ ProtocolReadsBack
    /\ StripReadsBack
    /\ \A r \in Readings :
        LET volts == IF r.battery = 0 THEN r.vbat ELSE r.battery IN
        /\ P1ReadsBack(StatusReport(r), Nowhere, r.depth, volts)
        /\ gps.valid => P1ReadsBack(PositionReport(r), position, r.depth, volts)
=============================================================================
