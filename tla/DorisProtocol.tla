--------------------------- MODULE DorisProtocol ----------------------------
(***************************************************************************)
(* The binary messages of the Iridium link (modules/doris_protocol.h): a   *)
(* start byte, an id and a packed little-endian structure.  A layout names *)
(* the fields in their order with the bytes each takes.  A field is its    *)
(* bit pattern as a number: signed in four bytes, unsigned in fewer.       *)
(***************************************************************************)
EXTENDS Integers, SequencesExt

DORIS_MSG_START == 36
DORIS_MSG_ID_REPORT == 5
DORIS_MSG_ID_CONFIG == 6
DORIS_MSG_ID_COMMAND == 7
DORIS_MSG_ID_ACK == 8
DORIS_MSG_HEADER_SIZE == 2

\* Position and motion, depth and power, time.
DorisReport ==
    << <<"mission_state", 1>>, <<"gps_fix_type", 1>>, <<"satellites", 1>>,
       <<"failsafe_flags", 1>>, <<"latitude", 4>>, <<"longitude", 4>>, <<"altitude", 2>>,
       <<"speed", 2>>, <<"course", 2>>, <<"hdop", 2>>, <<"depth", 2>>, <<"max_depth", 2>>,
       <<"battery_voltage", 2>>, <<"battery_current", 2>>, <<"bus_voltage", 2>>,
       <<"leak_detected", 1>>, <<"reserved", 1>>, <<"time_unix", 4>>, <<"uptime_s", 4>> >>

DorisConfig ==
    << <<"iridium_interval_s", 2>>, <<"led_mode", 1>>, <<"neopixel_brightness", 1>>,
       <<"power_save_voltage_mv", 2>>, <<"reserved", 2>> >>

DorisCommand == << <<"command", 1>>, <<"param", 4>> >>

DorisAck == << <<"acked_msg_id", 1>>, <<"result", 1>> >>

\* What a byte counts for at its place.
Weight == <<1, 256, 65536, 16777216>>

\* The bytes in front of the i-th field, and of the whole.
Offset(layout, i) ==
    LET at[j \in 1 .. i] == IF j = 1 THEN 0 ELSE at[j - 1] + layout[j - 1][2]
    IN  at[i]

Size(layout) == Offset(layout, Len(layout) + 1)

Fields(layout) == {layout[i][1] : i \in DOMAIN layout}

\* A field of so many bytes holds the value: its top byte is a byte.
Holds(width, value) ==
    /\ value \in Int
    /\ value \div Weight[width] \in IF width = 4 THEN -128 .. 127 ELSE 0 .. 255

\* The message has a value for each field, of those the field can hold.
Fits(layout, message) ==
    /\ message = [name \in Fields(layout) |-> message[name]]
    /\ \A i \in DOMAIN layout : Holds(layout[i][2], message[layout[i][1]])

\* The low byte first; \div rounds down, which continues the sign.
Bytes(n, width) == [i \in 1 .. width |-> (n \div Weight[i]) % 256]

\* The top byte of four carries the sign.
Value(bytes) ==
    LET top == IF Len(bytes) = 4 /\ Last(bytes) > 127 THEN Last(bytes) - 256 ELSE Last(bytes)
        from[i \in DOMAIN bytes] ==
            IF i = Len(bytes) THEN top ELSE bytes[i] + 256 * from[i + 1]
    IN  from[1]

Packed(layout, message) ==
    FlattenSeq([i \in DOMAIN layout |-> Bytes(message[layout[i][1]], layout[i][2])])

Unpacked(layout, bytes) ==
    [name \in Fields(layout) |->
        LET i == CHOOSE j \in DOMAIN layout : layout[j][1] = name
            at == Offset(layout, i)
        IN  Value(SubSeq(bytes, at + 1, at + layout[i][2]))]

Framed(id, layout, message) == <<DORIS_MSG_START, id>> \o Packed(layout, message)

\* Nothing is written into a buffer the message does not fit.
Serialized(id, layout, message, bufLen) ==
    IF bufLen < DORIS_MSG_HEADER_SIZE + Size(layout) THEN <<>> ELSE Framed(id, layout, message)

DorisProtocol_serializeReport(report, bufLen) ==
    Serialized(DORIS_MSG_ID_REPORT, DorisReport, report, bufLen)

DorisProtocol_serializeAck(ack, bufLen) ==
    Serialized(DORIS_MSG_ID_ACK, DorisAck, ack, bufLen)

\* A message may be longer than its structure, never shorter.
Carries(data, id, layout) ==
    /\ Len(data) >= DORIS_MSG_HEADER_SIZE + Size(layout)
    /\ data[1] = DORIS_MSG_START /\ data[2] = id

\* What the caller holds after a message came: id, config and command.
DorisProtocol_parseMT(data, held) ==
    LET payload == SubSeq(data, DORIS_MSG_HEADER_SIZE + 1, Len(data)) IN
    IF Carries(data, DORIS_MSG_ID_CONFIG, DorisConfig)
    THEN [held EXCEPT !.id = DORIS_MSG_ID_CONFIG, !.config = Unpacked(DorisConfig, payload)]
    ELSE IF Carries(data, DORIS_MSG_ID_COMMAND, DorisCommand)
    THEN [held EXCEPT !.id = DORIS_MSG_ID_COMMAND, !.command = Unpacked(DorisCommand, payload)]
    ELSE [held EXCEPT !.id = 0]

\* A message that was not understood leaves the caller what it had.
parseMTResponse(data, held) ==
    LET parsed == DorisProtocol_parseMT(data, held)
    IN  IF parsed.id = 0 THEN held ELSE parsed

-----------------------------------------------------------------------------

\* The ground reads what was sent, each field at its width.
ReportUnpacks(report) ==
    LET data == DorisProtocol_serializeReport(report, DORIS_MSG_HEADER_SIZE + Size(DorisReport))
    IN  Unpacked(DorisReport, SubSeq(data, 3, Len(data))) = report

AckUnpacks(ack) ==
    LET data == DorisProtocol_serializeAck(ack, DORIS_MSG_HEADER_SIZE + Size(DorisAck))
    IN  Unpacked(DorisAck, SubSeq(data, 3, Len(data))) = ack

\* A message is taken whole or not at all, wherever it is cut, and padding does
\* not hurt.
TakenWhole(data, held, taken) ==
    \A n \in 0 .. Len(data) + 2 :
      LET arrived == SubSeq(data \o <<0, 255>>, 1, n)
      IN  parseMTResponse(arrived, held) = IF n >= Len(data) THEN taken ELSE held

MailTaken(config, command, held) ==
    /\ TakenWhole(Framed(DORIS_MSG_ID_CONFIG, DorisConfig, config), held,
                  [held EXCEPT !.id = DORIS_MSG_ID_CONFIG, !.config = config])
    /\ TakenWhole(Framed(DORIS_MSG_ID_COMMAND, DorisCommand, command), held,
                  [held EXCEPT !.id = DORIS_MSG_ID_COMMAND, !.command = command])
=============================================================================
