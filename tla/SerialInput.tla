---------------------------- MODULE SerialInput -----------------------------
(***************************************************************************)
(* The USB port that carries MAVLink frames and an operator's lines        *)
(* (main.cpp, processSerialInput).  Every byte goes to the MAVLink parser  *)
(* first; what it does not take while idle is text.                        *)
(*                                                                         *)
(* A byte is a small number.  The parser is the MAVLink library's, as far  *)
(* as the firmware depends on it: a frame is STX, a length, as many bytes, *)
(* a checksum.                                                             *)
(***************************************************************************)
EXTENDS Naturals, Sequences

CONSTANTS CMD_BUF,   \* sizeof(cmdBuf)
          Printable, \* the bytes a line is made of
          STX, NEWLINE,
          BYTES      \* how many different bytes there are

ASSUME SerialAssumption ==
    /\ CMD_BUF \in Nat \ {0, 1} /\ BYTES \in Nat \ {0}
    /\ Printable \cup {STX, NEWLINE} \subseteq 0 .. BYTES - 1
    /\ STX \notin Printable /\ NEWLINE \notin Printable /\ STX # NEWLINE

\* The parser: left counts the bytes to come, sum those of a checksum.  Of the
\* payload it keeps the last byte: the frames that matter here have one.
Idle == [state |-> "idle", len |-> 0, left |-> 0, sum |-> 0, last |-> 0]

mavlink_parse_char(p, c) ==
    CASE p.state = "idle" -> IF c = STX THEN [p EXCEPT !.state = "len"] ELSE p
      [] p.state = "len" ->
           [state |-> IF c = 0 THEN "crc" ELSE "body", len |-> c, left |-> c, sum |-> c, last |-> 0]
      [] p.state = "body" ->
           [p EXCEPT !.state = IF p.left = 1 THEN "crc" ELSE "body", !.left = @ - 1,
                     !.sum = (@ + c) % BYTES, !.last = c]
      [] p.state = "crc" -> IF c = STX /\ c # p.sum THEN [Idle EXCEPT !.state = "len"] ELSE Idle

\* The byte completes a frame.
Completes(p, c) == p.state = "crc" /\ c = p.sum

\* A frame with one byte of payload.
Message(m) == <<STX, 1, m, (1 + m) % BYTES>>

\* Seeded fault: text is kept whatever the parser does with it.
isTextAnyway(p, c) == TRUE

\* Of a byte and the parser behind it: text only while no frame is under way.
isText(p, c) == p.state = "idle"

\* A character for cmdBuf; what does not fit is dropped, the line is not.
buffered(buf, c) ==
    IF c \in Printable /\ Len(buf) < CMD_BUF - 1 THEN Append(buf, c) ELSE buf
=============================================================================
