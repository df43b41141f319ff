------------------------------- MODULE Panel --------------------------------
(***************************************************************************)
(* What the people around the vehicle see and type: the light strip        *)
(* (NeoPixelController, main.cpp updateLEDState) and the serial port       *)
(* (SerialInput, main.cpp processSerialInput) in the passes of loop().     *)
(* Commands from the port change what the strip shows, and a modem session *)
(* paints it white and discards whatever arrives meanwhile.                *)
(*                                                                         *)
(* The state machine, the autopilot, Lua and the operator are the          *)
(* environment.  A behaviour either types or runs a mission, so that the   *)
(* two parts are explored at full depth one at a time: mission.            *)
(***************************************************************************)
EXTENDS NeoPixelController, SerialInput

CONSTANTS PI_HEARTBEAT_TIMEOUT,  \* age at which a heartbeat is no sign of life
          PASS_BYTES,            \* bytes read in one pass
          Words,                 \* what a line does, by its text
          Messages,              \* what a frame does, by its payload
          ConsoleMessages,       \* the frames sent between an operator's keys
          MaxQueue               \* bound on the bytes in flight there

ASSUME PanelAssumption ==
    /\ PI_HEARTBEAT_TIMEOUT \in Nat \ {0} /\ PASS_BYTES \in Nat \ {0} /\ MaxQueue \in Nat
    /\ ConsoleMessages \subseteq DOMAIN Messages /\ DOMAIN Messages \subseteq 0 .. BYTES - 1

VARIABLES leds,             \* neopixel_controller.cpp
          parser, cmdBuf, bytesRead,
          enable,           \* sysConfig.enableMAVLink, enableNeoPixels
          hb,               \* mission_data.cpp: armed and the last heartbeat
          state,            \* the state machine's
          rx,               \* bytes in flight
          pc,
          mission,          \* whether this behaviour runs a mission
          seen              \* observes, see below

port == <<parser, cmdBuf, bytesRead, enable>>
vars == <<leds, port, hb, state, rx, pc, mission, seen>>

\* shown   the pass that last refreshed the strip: its state, whether the
\*         heartbeat was armed and alive in it, whether Lua commanded;
\*         "white" from a session on to the next one;
\* typed   the line being typed; lines, frames: sent whole and not yet acted on;
\* damaged bytes were lost, or frames read as text, since the last pause.
\*         lines and frames are not followed then.
Shown(s, ready, lua) == [state |-> s, ready |-> ready, lua |-> lua]
Unseen == [shown |-> Shown("nothing", FALSE, FALSE), typed |-> <<>>, lines |-> <<>>, frames |-> <<>>,
           damaged |-> FALSE]

Init ==
    /\ leds = ledsInit /\ parser = Idle /\ cmdBuf = <<>> /\ bytesRead = 0
    /\ enable = [mavlink |-> TRUE, neopixels |-> TRUE]
    /\ hb = [armed |-> FALSE, valid |-> FALSE, age |-> PI_HEARTBEAT_TIMEOUT]
    /\ state = "PRE_DIVE" /\ rx = <<>> /\ pc = "leds"
    /\ mission \in BOOLEAN /\ seen = Unseen

-----------------------------------------------------------------------------
(* The strip, at the head of a pass *)

isArmed(h) == h.armed /\ h.valid /\ h.age < PI_HEARTBEAT_TIMEOUT

LEDStateFor(s, l, h) ==
    CASE s = "RECOVERY" -> "RECOVERY"
      [] s = "DIVING" -> IF isLuaActive(l) THEN "LUA" ELSE "DIVING"
      [] s = "PRE_DIVE" -> IF isArmed(h) THEN "READY" ELSE "ERROR"

updateLEDState == setMode(leds, LEDStateFor(state, leds, hb))

Alive == hb.valid /\ hb.age < PI_HEARTBEAT_TIMEOUT

Leds ==
    /\ pc = "leds" /\ pc' = "serial" /\ bytesRead' = 0
    /\ UNCHANGED <<parser, cmdBuf, enable, hb, state, rx, mission>>

\* on is the phase of the beat.
Refresh(on) ==
    /\ Leds /\ mission /\ enable.neopixels
    /\ leds' = update(updateLEDState, on)
    /\ seen' = [seen EXCEPT !.shown = Shown(state, hb.armed /\ Alive, isLuaActive(leds))]

\* Within 20 ms of the last refresh, or disabled.
NoRefresh ==
    /\ Leds /\ leds' = IF enable.neopixels THEN updateLEDState ELSE leds
    /\ UNCHANGED seen

-----------------------------------------------------------------------------
(* processSerialInput *)

\* processCommand, as far as the port and the strip go.
Commanded(e, cmd) ==
    IF cmd \notin DOMAIN Words THEN e
    ELSE [e EXCEPT ![Words[cmd].feature] = Words[cmd].on]

\* MAVLinkInterface_handleMessage: COMMAND_LONG to the strip, HEARTBEAT.  What
\* is neither, a frame glued of two that passes the short checksum of the
\* model included, is ignored.
Ignored == [kind |-> "ignored"]
Decoded == IF parser.len = 1 /\ parser.last \in DOMAIN Messages
           THEN Messages[parser.last] ELSE Ignored

Handled(m) ==
    /\ leds' = IF m.kind = "led" THEN setLuaCommand(leds, m.pattern, m.brightness) ELSE leds
    /\ hb' = IF m.kind = "heartbeat" THEN [armed |-> m.armed, valid |-> TRUE, age |-> 0]
             ELSE hb

\* The byte that is read now, the parser behind it, and what it completes.
Byte == Head(rx)

\* Seeded fault: a line that has begun takes the bytes first.
ParserUnlessTyping ==
    IF enable.mavlink /\ cmdBuf = <<>> THEN mavlink_parse_char(parser, Byte) ELSE parser

ParserBehind == IF enable.mavlink THEN mavlink_parse_char(parser, Byte) ELSE parser

EndsMessage == enable.mavlink /\ Completes(parser, Byte)
EndsLine == ~EndsMessage /\ isText(ParserBehind, Byte) /\ Byte = NEWLINE /\ cmdBuf # <<>>

Damaged(e) == [e EXCEPT !.damaged = TRUE, !.lines = <<>>, !.frames = <<>>]

\* A line end that leaves nothing in flight repairs what was damaged.
Repaired(e) ==
    IF rx' = <<>> /\ e.typed = <<>> /\ Byte = NEWLINE /\ ParserBehind.state = "idle"
    THEN [e EXCEPT !.damaged = FALSE] ELSE e

\* Frames in flight are text while MAVLink is disabled.
Read ==
    /\ pc = "serial" /\ rx # <<>> /\ bytesRead < PASS_BYTES
    /\ bytesRead' = bytesRead + 1 /\ rx' = Tail(rx) /\ parser' = ParserBehind
    /\ UNCHANGED <<state, pc, mission>>

ReadMessage ==
    /\ Read /\ EndsMessage
    /\ Handled(Decoded) /\ UNCHANGED <<cmdBuf, enable>>
    /\ seen' = [seen EXCEPT !.frames = IF @ = <<>> THEN @ ELSE Tail(@)]

ReadLine ==
    /\ Read /\ EndsLine
    /\ enable' = Commanded(enable, cmdBuf) /\ cmdBuf' = <<>>
    /\ UNCHANGED <<leds, hb>>
    /\ LET after == [seen EXCEPT !.lines = IF @ = <<>> THEN @ ELSE Tail(@)] IN
        seen' = Repaired(IF ~enable'.mavlink /\ seen.frames # <<>> THEN Damaged(after) ELSE after)

ReadOther ==
    /\ Read /\ ~EndsMessage /\ ~EndsLine
    /\ cmdBuf' = IF isText(ParserBehind, Byte) THEN buffered(cmdBuf, Byte) ELSE cmdBuf
    /\ UNCHANGED <<leds, hb, enable>>
    /\ seen' = Repaired(seen)

Served ==
    /\ pc = "serial" /\ (rx = <<>> \/ bytesRead = PASS_BYTES)
    /\ pc' = "session" /\ UNCHANGED <<leds, port, hb, state, rx, mission, seen>>

-----------------------------------------------------------------------------
(* The rest of the pass *)

Older(d) ==
    /\ leds' = LedsElapse(leds, d)
    /\ hb' = [hb EXCEPT !.age = IF @ + d > PI_HEARTBEAT_TIMEOUT THEN PI_HEARTBEAT_TIMEOUT
                                ELSE @ + d]

\* A session, a manual test's at any state: white at once; serviceLink
\* discards what arrives until it is over, in the middle of whatever it is.
Session ==
    /\ pc = "session" /\ pc' = "delay"
    /\ LET white == IF enable.neopixels THEN setSolidWhite(leds) ELSE leds IN
        leds' = LedsElapse(white, LUA_COMMAND_TIMEOUT)
    /\ hb' = [hb EXCEPT !.age = PI_HEARTBEAT_TIMEOUT]
    /\ \E n \in 1 .. Len(rx) + 1 : rx' = SubSeq(rx, n, Len(rx))
    /\ LET after == IF rx' = rx THEN seen ELSE Damaged(seen) IN
        seen' = IF enable.neopixels
                THEN [after EXCEPT !.shown = Shown("white", FALSE, FALSE)] ELSE after
    /\ UNCHANGED <<port, state, mission>>

NoSession ==
    /\ pc = "session" /\ pc' = "delay"
    /\ UNCHANGED <<leds, port, hb, state, rx, mission, seen>>

\* The pass may fit in the same tick or not.
Delay(d) ==
    /\ pc = "delay" /\ pc' = "leds" /\ (d > 0 => mission)
    /\ Older(d) /\ UNCHANGED <<port, state, rx, mission, seen>>

-----------------------------------------------------------------------------
(* The environment *)

\* The state machine's edges.
Edges == {<<"PRE_DIVE", "DIVING">>, <<"PRE_DIVE", "RECOVERY">>, <<"DIVING", "RECOVERY">>,
          <<"DIVING", "PRE_DIVE">>, <<"RECOVERY", "PRE_DIVE">>}

Change ==
    /\ mission /\ pc = "delay" /\ \E edge \in Edges : state = edge[1] /\ state' = edge[2]
    /\ UNCHANGED <<leds, port, hb, rx, pc, mission, seen>>

Sending == pc = "serial" /\ bytesRead = 0 /\ UNCHANGED <<leds, port, hb, state, pc, mission>>

Room(bytes) == ~mission /\ Len(rx) + Len(bytes) <= MaxQueue

\* A key of the operator's.
Type(c) ==
    /\ Sending /\ Room(<<c>>) /\ rx' = Append(rx, c)
    /\ seen' = [seen EXCEPT !.typed = buffered(@, c)]

Enter ==
    /\ Sending /\ Room(<<NEWLINE>>) /\ rx' = Append(rx, NEWLINE)
    /\ seen' = [seen EXCEPT !.typed = <<>>,
                  !.lines = IF seen.typed = <<>> \/ seen.damaged THEN @
                            ELSE Append(@, seen.typed)]

Send(m) ==
    /\ Sending /\ Room(Message(m)) /\ rx' = rx \o Message(m)
    /\ seen' = IF enable.mavlink /\ ~seen.damaged THEN [seen EXCEPT !.frames = Append(@, m)]
               ELSE Damaged(seen)

\* In a mission whole frames and lines come, one behind the other.
Arriving == mission /\ pc = "serial" /\ UNCHANGED <<parser, cmdBuf, bytesRead, state, rx, pc, mission, seen>>

Hear(m) == Arriving /\ enable.mavlink /\ Handled(Messages[m]) /\ UNCHANGED enable

Script(word) == Arriving /\ enable' = Commanded(enable, word) /\ UNCHANGED <<leds, hb>>

Environment ==
    \/ Change \/ Enter
    \/ \E c \in Printable : Type(c)
    \/ \E m \in ConsoleMessages : Send(m)
    \/ \E m \in DOMAIN Messages : Hear(m)
    \/ \E word \in DOMAIN Words : Script(word)

Next ==
    \/ \E on \in BOOLEAN : Refresh(on)
    \/ NoRefresh \/ ReadMessage \/ ReadLine \/ ReadOther \/ Served
    \/ Session \/ NoSession \/ \E d \in {0, 1} : Delay(d)
    \/ Environment

Spec == Init /\ [][Next]_vars

-----------------------------------------------------------------------------

Refreshed(s) == seen.shown.state = s

\* A dive that Lua does not light is dark from its first refresh on, whatever
\* the strip showed before and though a manual test's session has painted it
\* white (NeoPixelController_setSolidWhite, setMode).
DarkDive ==
    Refreshed("DIVING") /\ ~seen.shown.lua => leds.strip = Dark

\* On deck a green strip says that the heartbeat is armed and still arriving
\* and a red one that it is not; no colour is left over from before (the
\* comment in updateLEDState).
DeckColours ==
    Refreshed("PRE_DIVE") =>
      leds.strip.colour \in {"none", IF seen.shown.ready THEN "green" ELSE "red"}

\* The beacon flashes white at full brightness, however Lua dimmed the strip in
\* the dive before (blinkPattern's fullBright).
BeaconBright ==
    Refreshed("RECOVERY") => leds.strip \in {Dark, Lit("white", FULL_BRIGHTNESS)}

\* Whatever Lua, sessions and commands did to the strip before, it shows what
\* the state of the last refresh says.
StripTellsTheState == DarkDive /\ DeckColours /\ BeaconBright

\* Every line and every frame acted on is the one sent first, whole but for
\* what exceeds the buffer, though frames come between the characters of a
\* line and passes end in either (processSerialInput).
ActedInOrder ==
    [][~seen.damaged =>
         /\ ReadLine => seen.lines # <<>> /\ cmdBuf = Head(seen.lines)
         /\ ReadMessage => /\ seen.frames # <<>>
                           /\ parser.len = 1 /\ parser.last = Head(seen.frames)]_vars

\* Once nothing is in flight every one of them was acted on.  Only bytes that a
\* session discarded, or frames read as text, spoil others, and none behind
\* the next pause at a line end (serviceLink).
NothingForgotten ==
    rx = <<>> /\ ~seen.damaged =>
      seen.lines = <<>> /\ seen.frames = <<>> /\ cmdBuf = seen.typed
=============================================================================
