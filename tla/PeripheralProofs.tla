--------------------------- MODULE PeripheralProofs ---------------------------
(***************************************************************************)
(* Proofs about Panel, the light strip and the serial port, and about      *)
(* Meshtastic, the feed to the node.                                       *)
(*                                                                         *)
(* The strip is refreshed only when something seems to have changed, so    *)
(* what it shows is what an earlier pass painted.  The invariant says when *)
(* that is still right: unless a refresh is due, the strip shows a phase   *)
(* of the mode it is in, a session's white included.                       *)
(*                                                                         *)
(* The ring of the feed is in order when every byte in it continues the    *)
(* one before it, the first one the line that the node has begun: then a   *)
(* sentence cut off at its end is followed by a "$", and every end of a    *)
(* line is the end of one that went in whole.                              *)
(***************************************************************************)
EXTENDS Panel, Meshtastic, FiniteSetTheorems, WellFoundedInduction, TLAPS

\* A controller's record, whatever a command wrote into it.
IsStrip(l) == DOMAIN l = DOMAIN ledsInit /\ l.forceRefresh \in BOOLEAN

\* The phases of a mode; Lua's may be any.
IsPhaseOf(mode, strip) ==
    /\ mode = "DIVING" => strip = Dark
    /\ mode = "READY" => strip.colour \in {"none", "green"}
    /\ mode = "ERROR" => strip.colour \in {"none", "red"}
    /\ mode = "RECOVERY" => strip \in {Dark, Lit("white", FULL_BRIGHTNESS)}

UpToDate(l) == l.forceRefresh \/ IsPhaseOf(l.currentMode, l.strip)

IsSeen(e) == DOMAIN e = DOMAIN Unseen

PanelInv ==
    /\ IsStrip(leds) /\ UpToDate(leds)
    /\ IsSeen(seen) /\ state \in {"PRE_DIVE", "DIVING", "RECOVERY"}
    /\ StripTellsTheState

-----------------------------------------------------------------------------
(* What the calls do to the strip *)

LEMMA StripFields ==
  DOMAIN ledsInit = {"currentMode", "forceRefresh", "lastBlinkOn", "brightness", "luaPattern",
                     "luaCommanded", "luaAge", "strip"}
BY DEF ledsInit

LEMMA LitColour == \A colour, level : Lit(colour, level).colour \in {"none", colour}
BY DEF Lit, Dark

\* The modes that updateLEDState chooses from.
Chosen == {"READY", "ERROR", "DIVING", "LUA", "RECOVERY"}

LEMMA ModeChosen ==
  ASSUME NEW s \in {"PRE_DIVE", "DIVING", "RECOVERY"}, NEW l, NEW h
  PROVE  /\ LEDStateFor(s, l, h) \in Chosen
         /\ s = "PRE_DIVE" => LEDStateFor(s, l, h) = IF isArmed(h) THEN "READY" ELSE "ERROR"
         /\ s = "DIVING" => LEDStateFor(s, l, h) = IF isLuaActive(l) THEN "LUA" ELSE "DIVING"
         /\ s = "RECOVERY" => LEDStateFor(s, l, h) = "RECOVERY"
BY DEF LEDStateFor, Chosen

\* A new mode asks for a refresh; the one it has asks for none.
LEMMA SetModeKeeps ==
  ASSUME NEW l, NEW mode, IsStrip(l), UpToDate(l)
  PROVE  LET n == setMode(l, mode)
         IN  /\ IsStrip(n) /\ UpToDate(n) /\ n.currentMode = mode /\ n.strip = l.strip
BY StripFields DEF IsStrip, UpToDate, setMode

LEMMA PaintedIsPhase ==
  ASSUME NEW l, NEW on \in BOOLEAN, l.currentMode \in Chosen
  PROVE  IsPhaseOf(l.currentMode, Painted(l, on))
<1> DEFINE p == Painted(l, on)
           lit == Scaled(l.brightness)
<1>1. Dark.colour = "none" BY DEF Dark
<1>2. CASE l.currentMode = "DIVING"
  BY <1>2 DEF IsPhaseOf, Painted, PaintedWith
<1>3. CASE l.currentMode = "LUA" BY <1>3 DEF IsPhaseOf
<1>4. CASE l.currentMode = "RECOVERY"
  BY <1>4 DEF IsPhaseOf, Painted, PaintedWith, Blinks
<1>5. CASE l.currentMode = "READY"
  <2>1. p = IF on THEN Lit("green", lit) ELSE Dark
    BY <1>5 DEF Painted, PaintedWith, Blinks
  <2>2. Lit("green", lit).colour \in {"none", "green"} BY LitColour
  <2> HIDE DEF lit
  <2>3. p.colour \in {"none", "green"} BY <2>1, <2>2, <1>1
  <2> QED BY <2>3, <1>5 DEF IsPhaseOf
<1>6. CASE l.currentMode = "ERROR"
  <2>1. p = IF on THEN Lit("red", lit) ELSE Dark
    BY <1>6 DEF Painted, PaintedWith, Blinks
  <2>2. Lit("red", lit).colour \in {"none", "red"} BY LitColour
  <2> HIDE DEF lit
  <2>3. p.colour \in {"none", "red"} BY <2>1, <2>2, <1>1
  <2> QED BY <2>3, <1>6 DEF IsPhaseOf
<1> QED BY <1>2, <1>3, <1>4, <1>5, <1>6 DEF Chosen

\* Behind a refresh the strip shows its mode, painted now or before.
LEMMA UpdateShows ==
  ASSUME NEW l, NEW on \in BOOLEAN, IsStrip(l), UpToDate(l), l.currentMode \in Chosen
  PROVE  LET n == update(l, on)
         IN  IsStrip(n) /\ UpToDate(n) /\ n.currentMode = l.currentMode
             /\ IsPhaseOf(l.currentMode, n.strip)
<1> DEFINE n == update(l, on)
           p == Painted(l, on)
<1>1. IsPhaseOf(l.currentMode, p) BY PaintedIsPhase
<1> HIDE DEF p
<1>2. /\ IsStrip(n) /\ n.currentMode = l.currentMode
      /\ n.strip = p \/ (n.strip = l.strip /\ ~l.forceRefresh)
  BY StripFields DEF IsStrip, update, p
<1>3. IsPhaseOf(l.currentMode, n.strip)
  <2>1. CASE n.strip = p BY <2>1, <1>1
  <2>2. CASE n.strip = l.strip /\ ~l.forceRefresh BY <2>2 DEF UpToDate
  <2> QED BY <1>2, <2>1, <2>2
<1> QED BY <1>2, <1>3 DEF UpToDate

LEMMA WhiteIsPhase ==
  ASSUME NEW l, IsStrip(l)
  PROVE  LET n == setSolidWhite(l) IN IsStrip(n) /\ UpToDate(n)
BY StripFields DEF IsStrip, UpToDate, setSolidWhite, IsPhaseOf

\* Time and Lua's commands leave the strip alone.
LEMMA ElapseKeeps ==
  ASSUME NEW l, NEW d, IsStrip(l), UpToDate(l)
  PROVE  LET n == LedsElapse(l, d) IN IsStrip(n) /\ UpToDate(n) /\ n.strip = l.strip
BY StripFields DEF IsStrip, UpToDate, LedsElapse

LEMMA CommandKeeps ==
  ASSUME NEW l, NEW pattern, NEW brt, IsStrip(l), UpToDate(l)
  PROVE  LET n == setLuaCommand(l, pattern, brt)
         IN  IsStrip(n) /\ UpToDate(n) /\ n.strip = l.strip
BY StripFields DEF IsStrip, UpToDate, setLuaCommand

-----------------------------------------------------------------------------
(* The invariant *)

\* What keeps the strip and its witness keeps what it tells.
LEMMA Kept ==
  ASSUME PanelInv, IsStrip(leds'), UpToDate(leds'), leds'.strip = leds.strip,
         IsSeen(seen'), seen'.shown = seen.shown, state' \in {"PRE_DIVE", "DIVING", "RECOVERY"}
  PROVE  PanelInv'
BY DEF PanelInv, IsStrip, UpToDate, IsSeen, StripTellsTheState, DarkDive, DeckColours,
       BeaconBright, Refreshed, IsPhaseOf

\* What is noted of the port leaves what the strip shows alone.
LEMMA SeenKeeps ==
  /\ {"shown", "typed", "lines", "frames", "damaged"} = DOMAIN Unseen
  /\ \A e : IsSeen(e) => /\ IsSeen(Damaged(e)) /\ Damaged(e).shown = e.shown
                         /\ IsSeen(Repaired(e)) /\ Repaired(e).shown = e.shown
BY DEF IsSeen, Unseen, Damaged, Repaired

LEMMA InitPanel == Init => PanelInv
BY DEF Init, PanelInv, IsStrip, UpToDate, IsSeen, ledsInit, Unseen, Shown, StripTellsTheState,
       DarkDive, DeckColours, BeaconBright, Refreshed

LEMMA RefreshPanel == ASSUME PanelInv, NEW on \in BOOLEAN, Refresh(on) PROVE PanelInv'
<1> DEFINE mode == LEDStateFor(state, leds, hb)
<1>1. mode \in Chosen BY ModeChosen DEF PanelInv
<1>2. /\ state = "PRE_DIVE" => mode = IF isArmed(hb) THEN "READY" ELSE "ERROR"
      /\ state = "DIVING" => mode = IF isLuaActive(leds) THEN "LUA" ELSE "DIVING"
      /\ state = "RECOVERY" => mode = "RECOVERY"
  BY ModeChosen DEF PanelInv
<1> DEFINE l == setMode(leds, mode)
<1>3. IsStrip(l) /\ UpToDate(l) /\ l.currentMode = mode
  <2>1. IsStrip(leds) /\ UpToDate(leds) BY DEF PanelInv
  <2> HIDE DEF mode
  <2> QED BY <2>1, SetModeKeeps
<1>4. leds' = update(l, on) BY DEF Refresh, updateLEDState
<1> HIDE DEF l, mode
<1>5. IsStrip(leds') /\ UpToDate(leds') /\ IsPhaseOf(mode, leds'.strip)
  BY <1>1, <1>3, <1>4, UpdateShows
<1>6. /\ seen'.shown = Shown(state, hb.armed /\ Alive, isLuaActive(leds))
      /\ IsSeen(seen') /\ state' = state
  BY DEF Refresh, Leds, PanelInv, IsSeen
<1>7. isArmed(hb) = (hb.armed /\ Alive) BY DEF isArmed, Alive
<1>8. StripTellsTheState'
  <2>1. DarkDive'
    BY <1>2, <1>5, <1>6 DEF DarkDive, Refreshed, Shown, IsPhaseOf
  <2>2. DeckColours'
    BY <1>2, <1>5, <1>6, <1>7 DEF DeckColours, Refreshed, Shown, IsPhaseOf
  <2>3. BeaconBright'
    BY <1>2, <1>5, <1>6 DEF BeaconBright, Refreshed, Shown, IsPhaseOf
  <2> QED BY <2>1, <2>2, <2>3 DEF StripTellsTheState
<1> QED BY <1>5, <1>6, <1>8 DEF PanelInv, IsStrip, UpToDate, IsSeen

LEMMA NoRefreshPanel == ASSUME PanelInv, NoRefresh PROVE PanelInv'
<1> DEFINE mode == LEDStateFor(state, leds, hb)
<1>1. /\ leds' = IF enable.neopixels THEN setMode(leds, mode) ELSE leds
      /\ seen' = seen /\ state' = state
  BY DEF NoRefresh, updateLEDState, Leds
<1> HIDE DEF mode
<1>2. IsStrip(leds') /\ UpToDate(leds') /\ leds'.strip = leds.strip
  BY <1>1, SetModeKeeps DEF PanelInv
<1> QED BY <1>1, <1>2, Kept DEF PanelInv

LEMMA HandledKeeps ==
  ASSUME PanelInv, NEW m, Handled(m)
  PROVE  IsStrip(leds') /\ UpToDate(leds') /\ leds'.strip = leds.strip
<1>1. leds' = leds \/ leds' = setLuaCommand(leds, m.pattern, m.brightness) BY DEF Handled
<1> QED BY <1>1, CommandKeeps DEF PanelInv

\* Every byte read leaves what the strip shows alone.
LEMMA ReadPanel ==
  ASSUME PanelInv, ReadMessage \/ ReadLine \/ ReadOther
  PROVE  PanelInv'
<1>1. state' = state BY DEF ReadMessage, ReadLine, ReadOther, Read
<1>2. IsStrip(leds') /\ UpToDate(leds') /\ leds'.strip = leds.strip
  <2>1. CASE ReadMessage BY <2>1, HandledKeeps DEF ReadMessage
  <2>2. CASE ReadLine \/ ReadOther BY <2>2 DEF ReadLine, ReadOther, PanelInv
  <2> QED BY <2>1, <2>2
<1>3. IsSeen(seen') /\ seen'.shown = seen.shown
  <2>1. IsSeen(seen) BY DEF PanelInv
  <2>2. ASSUME NEW e, IsSeen(e)
        PROVE  /\ IsSeen(Damaged(e)) /\ Damaged(e).shown = e.shown
               /\ IsSeen(Repaired(e)) /\ Repaired(e).shown = e.shown
    BY <2>2, SeenKeeps
  <2>3. CASE ReadMessage BY <2>1, <2>3 DEF ReadMessage, IsSeen
  <2>4. CASE ReadOther BY <2>1, <2>2, <2>4 DEF ReadOther
  <2>5. CASE ReadLine
    <3> DEFINE after == [seen EXCEPT !.lines = IF @ = <<>> THEN @ ELSE Tail(@)]
    <3>1. IsSeen(after) /\ after.shown = seen.shown BY <2>1, SeenKeeps DEF IsSeen
    <3>2. seen' = Repaired(after) \/ seen' = Repaired(Damaged(after)) BY <2>5 DEF ReadLine
    <3> HIDE DEF after
    <3> QED BY <3>1, <3>2, <2>2
  <2> QED BY <2>3, <2>4, <2>5
<1> QED BY <1>1, <1>2, <1>3, Kept DEF PanelInv

LEMMA SessionPanel == ASSUME PanelInv, Session PROVE PanelInv'
<1> DEFINE white == IF enable.neopixels THEN setSolidWhite(leds) ELSE leds
           after == IF rx' = rx THEN seen ELSE Damaged(seen)
<1>1. /\ leds' = LedsElapse(white, LUA_COMMAND_TIMEOUT) /\ state' = state
      /\ seen' = IF enable.neopixels
                 THEN [after EXCEPT !.shown = Shown("white", FALSE, FALSE)] ELSE after
  BY DEF Session
<1>2. IsStrip(white) /\ UpToDate(white) /\ (~enable.neopixels => white.strip = leds.strip)
  BY WhiteIsPhase DEF PanelInv
<1>3. IsSeen(after) /\ after.shown = seen.shown BY DEF PanelInv, IsSeen, Damaged
<1> HIDE DEF white, after
<1>4. IsStrip(leds') /\ UpToDate(leds') /\ leds'.strip = white.strip
  BY <1>1, <1>2, ElapseKeeps
<1>5. CASE enable.neopixels
  <2>1. IsSeen(seen') /\ seen'.shown.state = "white"
    BY <1>1, <1>3, <1>5 DEF IsSeen, Shown
  <2>2. StripTellsTheState'
    BY <2>1 DEF StripTellsTheState, DarkDive, DeckColours, BeaconBright, Refreshed
  <2> QED BY <1>1, <1>4, <2>1, <2>2 DEF PanelInv, IsStrip, UpToDate, IsSeen
<1>6. CASE ~enable.neopixels
  BY <1>1, <1>2, <1>3, <1>4, <1>6, Kept DEF PanelInv
<1> QED BY <1>5, <1>6

LEMMA DelayPanel == ASSUME PanelInv, NEW d, Delay(d) PROVE PanelInv'
<1>1. leds' = LedsElapse(leds, d) /\ seen' = seen /\ state' = state BY DEF Delay, Older
<1>2. IsStrip(leds') /\ UpToDate(leds') /\ leds'.strip = leds.strip
  BY <1>1, ElapseKeeps DEF PanelInv
<1> QED BY <1>1, <1>2, Kept DEF PanelInv

LEMMA EnvironmentPanel == ASSUME PanelInv, Environment PROVE PanelInv'
<1>1. CASE Change
  <2>1. state' \in {"PRE_DIVE", "DIVING", "RECOVERY"} /\ leds' = leds /\ seen' = seen
    BY <1>1 DEF Change, Edges
  <2> QED BY <2>1, Kept DEF PanelInv
<1>2. CASE Enter \/ (\E c \in Printable : Type(c)) \/ \E m \in ConsoleMessages : Send(m)
  <2>1. leds' = leds /\ state' = state BY <1>2 DEF Enter, Type, Send, Sending
  <2>2. IsSeen(seen') /\ seen'.shown = seen.shown
    <3>1. CASE Enter BY <3>1 DEF Enter, PanelInv, IsSeen
    <3>2. CASE \E c \in Printable : Type(c) BY <3>2 DEF Type, PanelInv, IsSeen
    <3>3. CASE \E m \in ConsoleMessages : Send(m) BY <3>3 DEF Send, Damaged, PanelInv, IsSeen
    <3> QED BY <1>2, <3>1, <3>2, <3>3
  <2> QED BY <2>1, <2>2, Kept DEF PanelInv
<1>3. CASE \E m \in DOMAIN Messages : Hear(m)
  <2>1. seen' = seen /\ state' = state BY <1>3 DEF Hear, Arriving
  <2>2. IsStrip(leds') /\ UpToDate(leds') /\ leds'.strip = leds.strip
    BY <1>3, HandledKeeps DEF Hear
  <2> QED BY <2>1, <2>2, Kept DEF PanelInv
<1>4. CASE \E word \in DOMAIN Words : Script(word)
  <2>1. leds' = leds /\ seen' = seen /\ state' = state BY <1>4 DEF Script, Arriving
  <2> QED BY <2>1, Kept DEF PanelInv
<1> QED BY <1>1, <1>2, <1>3, <1>4 DEF Environment

LEMMA NextPanel == PanelInv /\ [Next]_vars => PanelInv'
<1> SUFFICES ASSUME PanelInv, [Next]_vars PROVE PanelInv' OBVIOUS
<1>1. CASE \E on \in BOOLEAN : Refresh(on) BY <1>1, RefreshPanel
<1>2. CASE NoRefresh BY <1>2, NoRefreshPanel
<1>3. CASE ReadMessage \/ ReadLine \/ ReadOther BY <1>3, ReadPanel
<1>4. CASE Served \/ NoSession \/ UNCHANGED vars
  <2>1. leds' = leds /\ seen' = seen /\ state' = state
    BY <1>4 DEF Served, NoSession, vars
  <2> QED BY <2>1, Kept DEF PanelInv
<1>5. CASE Session BY <1>5, SessionPanel
<1>6. CASE \E d \in {0, 1} : Delay(d) BY <1>6, DelayPanel
<1>7. CASE Environment BY <1>7, EnvironmentPanel
<1> QED BY <1>1, <1>2, <1>3, <1>4, <1>5, <1>6, <1>7 DEF Next

\* The strip is a phase of its mode, or a refresh is due
\* (NeoPixelController_update, forceRefresh).
THEOREM StripInvariant == Spec => []PanelInv
<1> QED BY InitPanel, NextPanel, PTL DEF Spec

\* Whatever Lua, sessions and commands did to the strip, it shows what the
\* state of the last refresh says: dark in a dive Lua does not light, green or
\* red on deck by the heartbeat, a beacon at full brightness.
THEOREM StripIsRight == Spec => []StripTellsTheState
<1>1. PanelInv => StripTellsTheState BY DEF PanelInv
<1> QED BY StripInvariant, <1>1, PTL
-----------------------------------------------------------------------------
(* The serial port.                                                        *)
(*                                                                         *)
(* While nothing is damaged the bytes in flight have one reading: where    *)
(* the parser and cmdBuf will be at each of them, and what of the lines    *)
(* and frames sent is then still to be acted on.  At the last byte all of  *)
(* it was.  A byte read takes the head off the reading, one sent extends   *)
(* it, and a line or a frame sent is one more to come at all of it.        *)

IsParser(p) ==
    /\ p = [state |-> p.state, len |-> p.len, left |-> p.left, sum |-> p.sum, last |-> p.last]
    /\ p.state \in {"idle", "len", "body", "crc"}

Lines == Seq(Printable)

Reader(p, b, l, f) == [parser |-> p, buf |-> b, lines |-> l, frames |-> f]

IsReader(r) ==
    /\ IsParser(r.parser) /\ r.buf \in Lines
    /\ r.lines \in Seq(Lines) /\ r.frames \in Seq(DOMAIN Messages)

\* The byte completes the frame that is due, ends the line that is due or
\* goes on with one.
TakesFrame(s, c, t) ==
    /\ Completes(s.parser, c) /\ s.frames # <<>>
    /\ s.parser.len = 1 /\ s.parser.last = Head(s.frames)
    /\ t.frames = Tail(s.frames) /\ t.buf = s.buf /\ t.lines = s.lines

EndsLineOf(s, c, t) == c = NEWLINE /\ isText(t.parser, c) /\ s.buf # <<>>

TakesLine(s, c, t) ==
    /\ ~Completes(s.parser, c) /\ EndsLineOf(s, c, t)
    /\ s.lines # <<>> /\ s.buf = Head(s.lines)
    /\ t.lines = Tail(s.lines) /\ t.buf = <<>> /\ t.frames = s.frames

GoesOn(s, c, t) ==
    /\ ~Completes(s.parser, c) /\ ~EndsLineOf(s, c, t)
    /\ t.buf = IF isText(t.parser, c) THEN buffered(s.buf, c) ELSE s.buf
    /\ t.lines = s.lines /\ t.frames = s.frames

Reads(s, c, t) ==
    /\ t.parser = mavlink_parse_char(s.parser, c)
    /\ TakesFrame(s, c, t) \/ TakesLine(s, c, t) \/ GoesOn(s, c, t)

\* A frame under way is one of those due.
Steady(r) == IsReader(r) /\ (r.parser.state # "idle" => r.frames # <<>>)

Reading(run, bytes) ==
    /\ run = [i \in 1 .. Len(bytes) + 1 |-> run[i]]
    /\ \A i \in 1 .. Len(bytes) + 1 : Steady(run[i])
    /\ \A i \in 1 .. Len(bytes) : Reads(run[i], bytes[i], run[i + 1])
    /\ \A i, j \in 1 .. Len(bytes) + 1 :
         i <= j /\ run[i].frames = <<>> => run[j].frames = <<>>

\* From the port as it is with what is noted in e to all being acted on.
Begins(r, p, b, e) == r.parser = p /\ r.buf = b /\ r.lines = e.lines /\ r.frames = e.frames

Ends(r, e) == r.buf = e.typed /\ r.lines = <<>> /\ r.frames = <<>>

Covers(run, p, b, bytes, e) ==
    Reading(run, bytes) /\ Begins(run[1], p, b, e) /\ Ends(run[Len(bytes) + 1], e)

InFlight == \E run : Covers(run, parser, cmdBuf, rx, seen)

PortInv ==
    /\ rx \in Seq(Nat) /\ IsParser(parser) /\ cmdBuf \in Lines
    /\ IsSeen(seen) /\ seen.damaged \in BOOLEAN
    /\ seen.typed \in Lines /\ seen.lines \in Seq(Lines) /\ seen.frames \in Seq(DOMAIN Messages)
    /\ mission => rx = <<>>
    /\ seen.damaged => seen.lines = <<>> /\ seen.frames = <<>>
    /\ ~seen.damaged => InFlight /\ (~enable.mavlink => seen.frames = <<>>)

LEMMA PortBytes ==
  /\ STX \in Nat /\ NEWLINE \in Nat /\ Printable \subseteq Nat /\ BYTES \in Nat \ {0}
  /\ STX \notin Printable /\ NEWLINE \notin Printable /\ STX # NEWLINE
  /\ ConsoleMessages \subseteq DOMAIN Messages /\ DOMAIN Messages \subseteq Nat
BY SerialAssumption, PanelAssumption DEF SerialAssumption, PanelAssumption

LEMMA ParserStays == ASSUME NEW p, NEW c, IsParser(p) PROVE IsParser(mavlink_parse_char(p, c))
<1>1. CASE p.state = "idle" BY <1>1 DEF IsParser, mavlink_parse_char
<1>2. CASE p.state = "len" BY <1>2 DEF IsParser, mavlink_parse_char
<1>3. CASE p.state = "body" BY <1>3 DEF IsParser, mavlink_parse_char
<1>4. CASE p.state = "crc" BY <1>4 DEF IsParser, mavlink_parse_char, Idle
<1> QED BY <1>1, <1>2, <1>3, <1>4 DEF IsParser

\* The parser's way through a frame with one byte of payload.
LEMMA ParserOfFrame ==
  ASSUME NEW p, IsParser(p), p.state = "idle", NEW m
  PROVE  LET p1 == mavlink_parse_char(p, STX)
             p2 == mavlink_parse_char(p1, 1)
             p3 == mavlink_parse_char(p2, m)
         IN  /\ p1.state = "len" /\ p2.state = "body" /\ p3.state = "crc"
             /\ p3.len = 1 /\ p3.last = m /\ p3.sum = (1 + m) % BYTES
             /\ IsParser(p1) /\ IsParser(p2) /\ IsParser(p3)
             /\ mavlink_parse_char(p3, (1 + m) % BYTES) = Idle
<1> DEFINE p1 == mavlink_parse_char(p, STX)
           p2 == mavlink_parse_char(p1, 1)
           p3 == mavlink_parse_char(p2, m)
<1>1. IsParser(p1) /\ IsParser(p2) /\ IsParser(p3) BY ParserStays
<1>2. p1.state = "len" BY DEF mavlink_parse_char, IsParser
<1> HIDE DEF p1
<1>3. p2 = [state |-> "body", len |-> 1, left |-> 1, sum |-> 1, last |-> 0]
  BY <1>2 DEF mavlink_parse_char
<1> HIDE DEF p2
<1>4. /\ p3.state = "crc" /\ p3.len = 1 /\ p3.last = m /\ p3.sum = (1 + m) % BYTES
  BY <1>3 DEF mavlink_parse_char
<1> HIDE DEF p3
<1>5. mavlink_parse_char(p3, (1 + m) % BYTES) = Idle BY <1>4 DEF mavlink_parse_char
<1> QED BY <1>1, <1>2, <1>3, <1>4, <1>5 DEF p1, p2, p3

LEMMA ParserOfText ==
  ASSUME NEW p, p.state = "idle", NEW c, c # STX
  PROVE  mavlink_parse_char(p, c) = p
BY DEF mavlink_parse_char

LEMMA BufferedLine == ASSUME NEW b \in Lines, NEW c PROVE buffered(b, c) \in Lines
BY DEF buffered, Lines

\* A byte read.
LEMMA ReadingOfTail ==
  ASSUME NEW bytes \in Seq(Nat), bytes # <<>>, NEW run, Reading(run, bytes)
  PROVE  Reading([i \in 1 .. Len(bytes) |-> run[i + 1]], Tail(bytes))
<1> DEFINE n == Len(bytes)
           rest == [i \in 1 .. n |-> run[i + 1]]
<1>1. n \in Nat /\ n > 0 BY DEF n
<1>2. Len(Tail(bytes)) = n - 1 /\ \A i \in 1 .. n - 1 : Tail(bytes)[i] = bytes[i + 1]
  OBVIOUS
<1>3. /\ \A i \in 1 .. n + 1 : Steady(run[i])
      /\ \A i \in 1 .. n : Reads(run[i], bytes[i], run[i + 1])
      /\ \A i, j \in 1 .. n + 1 : i <= j /\ run[i].frames = <<>> => run[j].frames = <<>>
  BY DEF Reading
<1> HIDE DEF n
<1>4. \A i \in 1 .. n : rest[i] = run[i + 1] /\ i + 1 \in 1 .. n + 1 BY <1>1
<1>5. \A i \in 1 .. n - 1 : i \in 1 .. n /\ i + 1 \in 1 .. n BY <1>1
<1>6. rest = [i \in 1 .. (n - 1) + 1 |-> rest[i]] /\ (n - 1) + 1 = n BY <1>1
<1> HIDE DEF rest
<1>7. \A i \in 1 .. n : Steady(rest[i]) BY <1>3, <1>4
<1>8. \A i \in 1 .. n - 1 : Reads(rest[i], Tail(bytes)[i], rest[i + 1])
  BY <1>2, <1>3, <1>4, <1>5
<1>9. \A i, j \in 1 .. n : i <= j /\ rest[i].frames = <<>> => rest[j].frames = <<>>
  <2> SUFFICES ASSUME NEW i \in 1 .. n, NEW j \in 1 .. n, i <= j, rest[i].frames = <<>>
               PROVE  rest[j].frames = <<>>
    OBVIOUS
  <2>1. i + 1 <= j + 1 BY <1>1
  <2> QED BY <1>3, <1>4, <2>1
<1>10. Reading(rest, Tail(bytes)) BY <1>2, <1>6, <1>7, <1>8, <1>9 DEF Reading
<1> QED BY <1>10 DEF rest, n

\* A byte sent.
LEMMA ReadingOfMore ==
  ASSUME NEW bytes \in Seq(Nat), NEW run, Reading(run, bytes),
         NEW c \in Nat, NEW r, Steady(r), Reads(run[Len(bytes) + 1], c, r),
         \A i \in 1 .. Len(bytes) + 1 : run[i].frames = <<>> => r.frames = <<>>
  PROVE  LET more == [i \in 1 .. Len(bytes) + 2 |-> IF i = Len(bytes) + 2 THEN r ELSE run[i]]
         IN  /\ Reading(more, Append(bytes, c)) /\ Len(Append(bytes, c)) = Len(bytes) + 1
             /\ more[Len(bytes) + 2] = r
             /\ \A i \in 1 .. Len(bytes) + 1 : more[i] = run[i]
<1> DEFINE n == Len(bytes)
           more == [i \in 1 .. n + 2 |-> IF i = n + 2 THEN r ELSE run[i]]
           longer == Append(bytes, c)
<1>1. n \in Nat BY DEF n
<1>2. Len(longer) = n + 1 /\ longer[n + 1] = c /\ \A i \in 1 .. n : longer[i] = bytes[i]
  OBVIOUS
<1>3. /\ \A i \in 1 .. n + 1 : Steady(run[i])
      /\ \A i \in 1 .. n : Reads(run[i], bytes[i], run[i + 1])
      /\ \A i, j \in 1 .. n + 1 : i <= j /\ run[i].frames = <<>> => run[j].frames = <<>>
  BY DEF Reading
<1>4. /\ Reads(run[n + 1], c, r)
      /\ \A i \in 1 .. n + 1 : run[i].frames = <<>> => r.frames = <<>>
  OBVIOUS
<1> HIDE DEF n, longer
<1>5. more[n + 2] = r /\ \A i \in 1 .. n + 1 : more[i] = run[i] BY <1>1
<1>6. more = [i \in 1 .. (n + 1) + 1 |-> more[i]] /\ (n + 1) + 1 = n + 2 BY <1>1
<1> HIDE DEF more
<1>7. \A i \in 1 .. n + 2 : Steady(more[i])
  <2> SUFFICES ASSUME NEW i \in 1 .. n + 2 PROVE Steady(more[i]) OBVIOUS
  <2>1. i = n + 2 \/ i \in 1 .. n + 1 BY <1>1
  <2> QED BY <1>3, <1>5, <2>1
<1>8. \A i \in 1 .. n + 1 : Reads(more[i], longer[i], more[i + 1])
  <2> SUFFICES ASSUME NEW i \in 1 .. n + 1 PROVE Reads(more[i], longer[i], more[i + 1])
    OBVIOUS
  <2>1. CASE i = n + 1
    <3>1. i + 1 = n + 2 BY <1>1, <2>1
    <3> QED BY <1>2, <1>4, <1>5, <2>1, <3>1
  <2>2. CASE i \in 1 .. n
    <3>1. i + 1 \in 1 .. n + 1 BY <1>1, <2>2
    <3> QED BY <1>2, <1>3, <1>5, <2>2, <3>1
  <2> QED BY <1>1, <2>1, <2>2
<1>9. \A i, j \in 1 .. n + 2 : i <= j /\ more[i].frames = <<>> => more[j].frames = <<>>
  <2> SUFFICES ASSUME NEW i \in 1 .. n + 2, NEW j \in 1 .. n + 2, i <= j,
                      more[i].frames = <<>>
               PROVE  more[j].frames = <<>>
    OBVIOUS
  <2>1. CASE j = n + 2
    <3>1. i = n + 2 \/ i \in 1 .. n + 1 BY <1>1
    <3> QED BY <1>4, <1>5, <2>1, <3>1
  <2>2. CASE j \in 1 .. n + 1
    <3>1. i \in 1 .. n + 1 BY <1>1, <2>2
    <3> QED BY <1>3, <1>5, <2>2, <3>1
  <2> QED BY <1>1, <2>1, <2>2
<1>10. Reading(more, longer) BY <1>2, <1>6, <1>7, <1>8, <1>9 DEF Reading
<1> QED BY <1>1, <1>2, <1>5, <1>10 DEF more, longer, n

\* The reading ends in r, with a frame due all along.
Within(run, bytes, r) ==
    /\ Reading(run, bytes) /\ run[Len(bytes) + 1] = r
    /\ \A i \in 1 .. Len(bytes) + 1 : run[i].frames # <<>>

Behind(run, bytes, r) == Reading(run, bytes) /\ run[Len(bytes) + 1] = r

LEMMA ReadingGrows ==
  ASSUME NEW bytes \in Seq(Nat), NEW run, NEW last, Within(run, bytes, last),
         NEW c \in Nat, NEW r, Steady(r), Reads(last, c, r)
  PROVE  \E more : /\ Behind(more, Append(bytes, c), r) /\ more[1] = run[1]
                   /\ r.frames # <<>> => Within(more, Append(bytes, c), r)
<1> DEFINE n == Len(bytes)
           more == [i \in 1 .. n + 2 |-> IF i = n + 2 THEN r ELSE run[i]]
<1>1. /\ Reading(more, Append(bytes, c)) /\ Len(Append(bytes, c)) = n + 1
      /\ more[n + 2] = r
      /\ \A i \in 1 .. n + 1 : more[i] = run[i]
  BY ReadingOfMore DEF Within
<1>2. n \in Nat BY DEF n
<1>3. \A i \in 1 .. n + 1 : run[i].frames # <<>> BY DEF Within
<1> HIDE DEF more, n
<1>4. 1 \in 1 .. n + 1 /\ (n + 1) + 1 = n + 2 BY <1>2
<1>5. ASSUME r.frames # <<>>, NEW i \in 1 .. n + 2 PROVE more[i].frames # <<>>
  <2>1. i = n + 2 \/ i \in 1 .. n + 1 BY <1>2
  <2> QED BY <1>1, <1>3, <1>5, <2>1
<1> QED BY <1>1, <1>4, <1>5 DEF Within, Behind

\* One more line or frame to come.
LEMMA LineDue ==
  ASSUME NEW s, NEW c, NEW t, IsReader(s), Reads(s, c, t), NEW text \in Lines
  PROVE  LET d(r) == Reader(r.parser, r.buf, Append(r.lines, text), r.frames)
         IN  Reads(d(s), c, d(t))
<1> DEFINE d(r) == Reader(r.parser, r.buf, Append(r.lines, text), r.frames)
<1>1. s.lines \in Seq(Lines) BY DEF IsReader
<1>2. s.lines # <<>> => /\ Append(s.lines, text) # <<>>
                        /\ Head(Append(s.lines, text)) = Head(s.lines)
                        /\ Tail(Append(s.lines, text)) = Append(Tail(s.lines), text)
  BY <1>1
<1>3. \A r : /\ d(r).parser = r.parser /\ d(r).buf = r.buf /\ d(r).frames = r.frames
             /\ d(r).lines = Append(r.lines, text)
  BY DEF Reader
<1> HIDE DEF d
<1>4. TakesFrame(s, c, t) => TakesFrame(d(s), c, d(t)) BY <1>3 DEF TakesFrame
<1>5. EndsLineOf(s, c, t) = EndsLineOf(d(s), c, d(t)) BY <1>3 DEF EndsLineOf
<1>6. TakesLine(s, c, t) => TakesLine(d(s), c, d(t)) BY <1>2, <1>3, <1>5 DEF TakesLine
<1>7. GoesOn(s, c, t) => GoesOn(d(s), c, d(t)) BY <1>3, <1>5 DEF GoesOn
<1>8. Reads(d(s), c, d(t)) BY <1>3, <1>4, <1>6, <1>7 DEF Reads
<1> QED BY <1>8 DEF d

LEMMA FrameDue ==
  ASSUME NEW s, NEW c, NEW t, IsReader(s), Reads(s, c, t), NEW m \in DOMAIN Messages
  PROVE  LET d(r) == Reader(r.parser, r.buf, r.lines, Append(r.frames, m))
         IN  Reads(d(s), c, d(t))
<1> DEFINE d(r) == Reader(r.parser, r.buf, r.lines, Append(r.frames, m))
<1>1. s.frames \in Seq(DOMAIN Messages) BY DEF IsReader
<1>2. s.frames # <<>> => /\ Append(s.frames, m) # <<>>
                         /\ Head(Append(s.frames, m)) = Head(s.frames)
                         /\ Tail(Append(s.frames, m)) = Append(Tail(s.frames), m)
  BY <1>1
<1>3. \A r : /\ d(r).parser = r.parser /\ d(r).buf = r.buf /\ d(r).lines = r.lines
             /\ d(r).frames = Append(r.frames, m)
  BY DEF Reader
<1> HIDE DEF d
<1>4. TakesFrame(s, c, t) => TakesFrame(d(s), c, d(t)) BY <1>2, <1>3 DEF TakesFrame
<1>5. EndsLineOf(s, c, t) = EndsLineOf(d(s), c, d(t)) BY <1>3 DEF EndsLineOf
<1>6. TakesLine(s, c, t) => TakesLine(d(s), c, d(t)) BY <1>3, <1>5 DEF TakesLine
<1>7. GoesOn(s, c, t) => GoesOn(d(s), c, d(t)) BY <1>3, <1>5 DEF GoesOn
<1>8. Reads(d(s), c, d(t)) BY <1>3, <1>4, <1>6, <1>7 DEF Reads
<1> QED BY <1>8 DEF d

LEMMA ReadingLineDue ==
  ASSUME NEW bytes \in Seq(Nat), NEW run, Reading(run, bytes), NEW text \in Lines
  PROVE  LET d(r) == Reader(r.parser, r.buf, Append(r.lines, text), r.frames)
         IN  Reading([i \in 1 .. Len(bytes) + 1 |-> d(run[i])], bytes)
<1> DEFINE n == Len(bytes)
           d(r) == Reader(r.parser, r.buf, Append(r.lines, text), r.frames)
           due == [i \in 1 .. n + 1 |-> d(run[i])]
<1>1. n \in Nat /\ \A i \in 1 .. n : i \in 1 .. n + 1 /\ i + 1 \in 1 .. n + 1 BY DEF n
<1>2. /\ \A i \in 1 .. n + 1 : Steady(run[i])
      /\ \A i \in 1 .. n : Reads(run[i], bytes[i], run[i + 1])
      /\ \A i, j \in 1 .. n + 1 : i <= j /\ run[i].frames = <<>> => run[j].frames = <<>>
  BY DEF Reading
<1>3. due = [i \in 1 .. n + 1 |-> due[i]] /\ \A i \in 1 .. n + 1 : due[i] = d(run[i])
  OBVIOUS
<1>4. \A r : /\ d(r).parser = r.parser /\ d(r).buf = r.buf /\ d(r).frames = r.frames
             /\ d(r).lines = Append(r.lines, text)
  BY DEF Reader
<1>5. \A s, c, t : IsReader(s) /\ Reads(s, c, t) => Reads(d(s), c, d(t)) BY LineDue
<1> HIDE DEF n, d, due
<1>6. \A r : Steady(r) => Steady(d(r))
  <2>1. \A ls \in Seq(Lines) : Append(ls, text) \in Seq(Lines) OBVIOUS
  <2> QED BY <1>4, <2>1 DEF Steady, IsReader
<1>7. \A i \in 1 .. n + 1 : Steady(due[i]) BY <1>2, <1>3, <1>6
<1>8. \A i \in 1 .. n : Reads(due[i], bytes[i], due[i + 1])
  <2> SUFFICES ASSUME NEW i \in 1 .. n PROVE Reads(due[i], bytes[i], due[i + 1]) OBVIOUS
  <2>1. IsReader(run[i]) /\ Reads(run[i], bytes[i], run[i + 1]) BY <1>1, <1>2 DEF Steady
  <2> QED BY <1>1, <1>3, <1>5, <2>1
<1>9. \A i, j \in 1 .. n + 1 : i <= j /\ due[i].frames = <<>> => due[j].frames = <<>>
  BY <1>2, <1>3, <1>4
<1>10. Reading(due, bytes) BY <1>3, <1>7, <1>8, <1>9 DEF Reading, n
<1> QED BY <1>10 DEF due, d, n

LEMMA ReadingFrameDue ==
  ASSUME NEW bytes \in Seq(Nat), NEW run, Reading(run, bytes), NEW m \in DOMAIN Messages
  PROVE  LET d(r) == Reader(r.parser, r.buf, r.lines, Append(r.frames, m))
         IN  Reading([i \in 1 .. Len(bytes) + 1 |-> d(run[i])], bytes)
<1> DEFINE n == Len(bytes)
           d(r) == Reader(r.parser, r.buf, r.lines, Append(r.frames, m))
           due == [i \in 1 .. n + 1 |-> d(run[i])]
<1>1. n \in Nat /\ \A i \in 1 .. n : i \in 1 .. n + 1 /\ i + 1 \in 1 .. n + 1 BY DEF n
<1>2. /\ \A i \in 1 .. n + 1 : Steady(run[i])
      /\ \A i \in 1 .. n : Reads(run[i], bytes[i], run[i + 1])
  BY DEF Reading
<1>3. due = [i \in 1 .. n + 1 |-> due[i]] /\ \A i \in 1 .. n + 1 : due[i] = d(run[i])
  OBVIOUS
<1>4. \A r : /\ d(r).parser = r.parser /\ d(r).buf = r.buf /\ d(r).lines = r.lines
             /\ d(r).frames = Append(r.frames, m)
  BY DEF Reader
<1>5. \A s, c, t : IsReader(s) /\ Reads(s, c, t) => Reads(d(s), c, d(t)) BY FrameDue
<1> HIDE DEF n, d, due
<1>6. \A r : Steady(r) => Steady(d(r)) /\ d(r).frames # <<>>
  <2>1. \A fs \in Seq(DOMAIN Messages) :
          Append(fs, m) \in Seq(DOMAIN Messages) /\ Append(fs, m) # <<>>
    OBVIOUS
  <2> QED BY <1>4, <2>1 DEF Steady, IsReader
<1>7. \A i \in 1 .. n + 1 : Steady(due[i]) /\ due[i].frames # <<>> BY <1>2, <1>3, <1>6
<1>8. \A i \in 1 .. n : Reads(due[i], bytes[i], due[i + 1])
  <2> SUFFICES ASSUME NEW i \in 1 .. n PROVE Reads(due[i], bytes[i], due[i + 1]) OBVIOUS
  <2>1. IsReader(run[i]) /\ Reads(run[i], bytes[i], run[i + 1]) BY <1>1, <1>2 DEF Steady
  <2> QED BY <1>1, <1>3, <1>5, <2>1
<1>9. \A i, j \in 1 .. n + 1 : i <= j /\ due[i].frames = <<>> => due[j].frames = <<>>
  BY <1>7
<1>10. Reading(due, bytes) BY <1>3, <1>7, <1>8, <1>9 DEF Reading, n
<1> QED BY <1>10 DEF due, d, n

-----------------------------------------------------------------------------
(* The port's invariant *)

\* Nothing in flight: the reading is where it ends.
LEMMA NothingInFlight ==
  ASSUME rx = <<>>, InFlight
  PROVE  cmdBuf = seen.typed /\ seen.lines = <<>> /\ seen.frames = <<>>
BY DEF InFlight, Covers, Begins, Ends

\* The next byte in flight, as the reading has it.
LEMMA NextByte ==
  ASSUME PortInv, rx # <<>>, NEW run, Covers(run, parser, cmdBuf, rx, seen)
  PROVE  LET rest == [i \in 1 .. Len(rx) |-> run[i + 1]]
         IN  /\ Reads(run[1], Byte, rest[1]) /\ Reading(rest, Tail(rx))
             /\ Ends(rest[Len(Tail(rx)) + 1], seen)
             /\ IsReader(rest[1])
             /\ seen.frames = <<>> =>
                  /\ parser.state = "idle" /\ Byte # STX /\ rest[1].frames = <<>>
<1> DEFINE n == Len(rx)
           rest == [i \in 1 .. n |-> run[i + 1]]
<1>1. rx \in Seq(Nat) /\ n \in Nat /\ n > 0 /\ Byte = rx[1] /\ Len(Tail(rx)) = n - 1
  BY DEF PortInv, Byte
<1>2. /\ \A i \in 1 .. n + 1 : Steady(run[i])
      /\ \A i \in 1 .. n : Reads(run[i], rx[i], run[i + 1])
      /\ \A i, j \in 1 .. n + 1 : i <= j /\ run[i].frames = <<>> => run[j].frames = <<>>
  BY DEF Reading, Covers
<1>3. Reading(rest, Tail(rx)) BY <1>1, ReadingOfTail DEF Covers
<1>4. Ends(run[n + 1], seen) /\ Begins(run[1], parser, cmdBuf, seen) BY DEF Covers
<1> HIDE DEF n
<1>5. rest[1] = run[2] /\ rest[(n - 1) + 1] = run[n + 1] BY <1>1
<1>6. 1 \in 1 .. n /\ 1 \in 1 .. n + 1 /\ 2 \in 1 .. n + 1 /\ 1 <= 2 /\ 1 + 1 = 2 BY <1>1
<1>7. Reads(run[1], Byte, run[2]) /\ Steady(run[1]) /\ Steady(run[2])
  BY <1>1, <1>2, <1>6
<1>8. ASSUME seen.frames = <<>>
      PROVE  parser.state = "idle" /\ Byte # STX /\ run[2].frames = <<>>
  <2>1. run[1].parser = parser /\ run[1].frames = <<>> BY <1>4, <1>8 DEF Begins
  <2>2. run[2].frames = <<>> BY <1>2, <1>6, <2>1
  <2>3. parser.state = "idle" /\ run[2].parser.state = "idle"
    BY <1>7, <2>1, <2>2 DEF Steady
  <2>4. run[2].parser = mavlink_parse_char(parser, Byte) BY <1>7, <2>1 DEF Reads
  <2>5. IsParser(parser) BY DEF PortInv
  <2>6. Byte # STX BY <2>3, <2>4, <2>5 DEF mavlink_parse_char, IsParser
  <2> QED BY <2>2, <2>3, <2>6
<1> HIDE DEF rest
<1>9. Ends(rest[Len(Tail(rx)) + 1], seen) BY <1>1, <1>4, <1>5
<1>10. IsReader(rest[1]) /\ Reads(run[1], Byte, rest[1]) BY <1>5, <1>7 DEF Steady
<1>11. seen.frames = <<>> => /\ parser.state = "idle" /\ Byte # STX /\ rest[1].frames = <<>>
  BY <1>5, <1>8
<1> QED BY <1>3, <1>9, <1>10, <1>11 DEF rest, n

\* Nothing due and nothing in flight.
LEMMA EmptyReading ==
  ASSUME NEW r, Steady(r)
  PROVE  Reading([i \in 1 .. 1 |-> r], <<>>)
BY DEF Reading

LEMMA InitPort == Init => PortInv
<1> SUFFICES ASSUME Init PROVE PortInv OBVIOUS
<1> DEFINE r == Reader(Idle, <<>>, <<>>, <<>>)
<1>1. Steady(r) BY DEF Steady, IsReader, IsParser, Idle, Reader, Lines
<1>2. /\ parser = Idle /\ cmdBuf = <<>> /\ rx = <<>> /\ seen = Unseen BY DEF Init
<1>3. /\ seen.typed = <<>> /\ seen.lines = <<>> /\ seen.frames = <<>> /\ seen.damaged = FALSE
      /\ IsSeen(seen)
  BY <1>2 DEF Unseen, IsSeen
<1>4. Begins(r, parser, cmdBuf, seen) /\ Ends(r, seen) BY <1>2, <1>3 DEF Begins, Ends, Reader
<1> HIDE DEF r
<1>5. InFlight
  <2> DEFINE run == [i \in 1 .. 1 |-> r]
  <2>1. Reading(run, rx) BY <1>1, <1>2, EmptyReading
  <2>2. run[1] = r /\ Len(rx) + 1 = 1 BY <1>2
  <2> HIDE DEF run
  <2> QED BY <1>4, <2>1, <2>2 DEF InFlight, Covers
<1>6. IsParser(parser) BY <1>2 DEF IsParser, Idle
<1>7. <<>> \in Lines /\ <<>> \in Seq(Lines) /\ <<>> \in Seq(DOMAIN Messages) /\ <<>> \in Seq(Nat)
  BY DEF Lines
<1>8. seen.damaged = FALSE /\ seen.frames = <<>> BY <1>3
<1> QED BY <1>2, <1>3, <1>5, <1>6, <1>7, <1>8 DEF PortInv

\* What leaves the bytes in flight and what is noted of them alone.
LEMMA PortKept ==
  ASSUME PortInv, parser' = parser, cmdBuf' = cmdBuf, rx' = rx, mission' = mission, IsSeen(seen'),
         seen'.typed = seen.typed, seen'.lines = seen.lines, seen'.frames = seen.frames,
         seen'.damaged = seen.damaged, enable'.mavlink = enable.mavlink \/ mission
  PROVE  PortInv'
<1>1. InFlight => InFlight' BY DEF InFlight, Covers, Begins, Ends
<1>2. mission /\ ~seen.damaged => seen.frames = <<>> BY NothingInFlight DEF PortInv
<1>3. ~seen'.damaged => InFlight' /\ (~enable'.mavlink => seen'.frames = <<>>)
  BY <1>1, <1>2 DEF PortInv
<1> QED BY <1>3 DEF PortInv

\* The parser reads every byte of what is sent whole, though it may be
\* disabled: there is no frame in flight then.
LEMMA PortReads ==
  ASSUME PortInv, ~seen.damaged, rx # <<>>
  PROVE  /\ ParserBehind = mavlink_parse_char(parser, Byte)
         /\ EndsMessage <=> Completes(parser, Byte)
<1>1. PICK run : Covers(run, parser, cmdBuf, rx, seen)
  BY DEF PortInv, InFlight
<1>2. seen.frames = <<>> => parser.state = "idle" /\ Byte # STX BY <1>1, NextByte
<1>3. CASE enable.mavlink BY <1>3 DEF ParserBehind, EndsMessage
<1>4. CASE ~enable.mavlink
  <2>1. parser.state = "idle" /\ Byte # STX BY <1>2, <1>4 DEF PortInv
  <2>2. mavlink_parse_char(parser, Byte) = parser BY <2>1, ParserOfText
  <2> QED BY <1>4, <2>1, <2>2 DEF ParserBehind, EndsMessage, Completes
<1> QED BY <1>3, <1>4

\* What is behind a byte has a reading if the reading says the same of it.
LEMMA PortGoesOn ==
  ASSUME PortInv, ~seen.damaged, Read, IsSeen(seen'), seen'.typed = seen.typed,
         seen'.damaged = FALSE,
         \A t : Reads(Reader(parser, cmdBuf, seen.lines, seen.frames), Byte, t) =>
               cmdBuf' = t.buf /\ seen'.lines = t.lines /\ seen'.frames = t.frames,
         ~enable'.mavlink => seen'.frames = <<>>
  PROVE  PortInv'
<1>1. PICK run : Covers(run, parser, cmdBuf, rx, seen)
  BY DEF PortInv, InFlight
<1>2. rx # <<>> /\ rx' = Tail(rx) /\ parser' = ParserBehind /\ mission' = mission BY DEF Read
<1> DEFINE rest == [i \in 1 .. Len(rx) |-> run[i + 1]]
           r == Reader(parser, cmdBuf, seen.lines, seen.frames)
<1>3. /\ Reads(run[1], Byte, rest[1]) /\ Reading(rest, Tail(rx))
      /\ Ends(rest[Len(Tail(rx)) + 1], seen) /\ IsReader(rest[1])
  BY <1>1, <1>2, NextByte
<1>4. /\ r.parser = run[1].parser /\ r.buf = run[1].buf
      /\ r.lines = run[1].lines /\ r.frames = run[1].frames
  BY <1>1 DEF Covers, Begins, Reader
<1>5. \A t : Reads(r, Byte, t) =>
            cmdBuf' = t.buf /\ seen'.lines = t.lines /\ seen'.frames = t.frames
  OBVIOUS
<1> HIDE DEF rest, r
<1>6. Reads(r, Byte, rest[1])
  BY <1>3, <1>4 DEF Reads, TakesFrame, TakesLine, GoesOn, EndsLineOf
<1>7. /\ cmdBuf' = rest[1].buf /\ seen'.lines = rest[1].lines /\ seen'.frames = rest[1].frames
  BY <1>5, <1>6
<1>8. parser' = rest[1].parser
  <2>1. rest[1].parser = mavlink_parse_char(parser, Byte) BY <1>1, <1>3 DEF Reads, Covers, Begins
  <2> QED BY <1>2, <2>1, PortReads
<1>9. Covers(rest, parser', cmdBuf', rx', seen')
  BY <1>2, <1>3, <1>7, <1>8 DEF Covers, Begins, Ends
<1>10. InFlight' BY <1>9 DEF InFlight
<1>11. rx' \in Seq(Nat) /\ (mission' => rx' = <<>>) BY <1>2 DEF PortInv
<1>12. /\ IsParser(parser') /\ cmdBuf' \in Lines
       /\ seen'.lines \in Seq(Lines) /\ seen'.frames \in Seq(DOMAIN Messages)
  BY <1>3, <1>7, <1>8 DEF IsReader
<1> QED BY <1>10, <1>11, <1>12 DEF PortInv

\* Damage noted, or mended at a line end that leaves nothing.
LEMMA PortDamaged ==
  ASSUME PortInv, IsSeen(seen'), seen'.typed \in Lines, seen'.lines = <<>>, seen'.frames = <<>>,
         seen'.damaged \in BOOLEAN,
         IsParser(parser'), cmdBuf' \in Lines, rx' \in Seq(Nat), mission' => rx' = <<>>,
         ~seen'.damaged => /\ rx' = <<>> /\ seen'.typed = <<>> /\ cmdBuf' = <<>>
                           /\ parser'.state = "idle"
  PROVE  PortInv'
<1> DEFINE r == Reader(parser', <<>>, <<>>, <<>>)
           run == [i \in 1 .. 1 |-> r]
<1>1. <<>> \in Lines /\ <<>> \in Seq(Lines) /\ <<>> \in Seq(DOMAIN Messages) BY DEF Lines
<1>2. ASSUME ~seen'.damaged PROVE InFlight'
  <2>1. Steady(r) BY <1>1, <1>2 DEF Steady, IsReader, Reader
  <2>2. Reading(run, rx') BY <1>2, <2>1, EmptyReading
  <2>3. Begins(r, parser', cmdBuf', seen') /\ Ends(r, seen') BY <1>2 DEF Begins, Ends, Reader
  <2>4. run[1] = r /\ Len(rx') + 1 = 1 BY <1>2
  <2>5. Covers(run, parser', cmdBuf', rx', seen') BY <2>2, <2>3, <2>4 DEF Covers
  <2> HIDE DEF run
  <2> QED BY <2>5 DEF InFlight
<1> QED BY <1>1, <1>2 DEF PortInv

\* Repairing changes the mark of damage only, and only at a line end behind
\* which nothing is left.
LEMMA Mended ==
  ASSUME NEW e, IsSeen(e), e.damaged \in BOOLEAN
  PROVE  LET f == Repaired(e)
         IN  /\ IsSeen(f) /\ f.typed = e.typed /\ f.lines = e.lines /\ f.frames = e.frames
             /\ f.damaged = e.damaged \/ f.damaged = FALSE
             /\ e.damaged /\ ~f.damaged =>
                  rx' = <<>> /\ e.typed = <<>> /\ Byte = NEWLINE /\ ParserBehind.state = "idle"
BY SeenKeeps DEF Repaired, IsSeen

LEMMA ReadTypes ==
  ASSUME PortInv, Read
  PROVE  /\ rx # <<>> /\ rx' = Tail(rx) /\ rx' \in Seq(Nat)
         /\ IsParser(parser') /\ parser' = ParserBehind
         /\ mission' => rx' = <<>>
BY ParserStays DEF PortInv, Read, ParserBehind

LEMMA MessagePort == ASSUME PortInv, ReadMessage PROVE PortInv'
<1>1. /\ Read /\ EndsMessage /\ cmdBuf' = cmdBuf /\ enable' = enable
      /\ seen' = [seen EXCEPT !.frames = IF @ = <<>> THEN @ ELSE Tail(@)]
  BY DEF ReadMessage
<1>2. /\ IsSeen(seen') /\ seen'.typed = seen.typed /\ seen'.damaged = seen.damaged
      /\ seen'.lines = seen.lines
      /\ seen'.frames = IF seen.frames = <<>> THEN <<>> ELSE Tail(seen.frames)
  BY <1>1, SeenKeeps DEF PortInv, IsSeen
<1>3. CASE seen.damaged
  <2>1. cmdBuf' \in Lines /\ seen'.typed \in Lines /\ seen'.lines = <<>> /\ seen'.frames = <<>>
        /\ seen'.damaged = TRUE
    BY <1>1, <1>2, <1>3 DEF PortInv
  <2> QED BY <1>1, <1>2, <2>1, ReadTypes, PortDamaged
<1>4. CASE ~seen.damaged
  <2> DEFINE r == Reader(parser, cmdBuf, seen.lines, seen.frames)
  <2>1. Completes(r.parser, Byte) BY <1>1, <1>4, ReadTypes, PortReads DEF Reader
  <2>2. ASSUME NEW t, Reads(r, Byte, t)
        PROVE  cmdBuf' = t.buf /\ seen'.lines = t.lines /\ seen'.frames = t.frames
    <3>1. TakesFrame(r, Byte, t) BY <2>1, <2>2 DEF Reads, TakesLine, GoesOn
    <3> QED BY <1>1, <1>2, <3>1 DEF TakesFrame, Reader
  <2>3. enable'.mavlink BY <1>1 DEF EndsMessage
  <2>4. seen'.damaged = FALSE BY <1>2, <1>4 DEF PortInv
  <2> HIDE DEF r
  <2>5. \A t : Reads(r, Byte, t) =>
              cmdBuf' = t.buf /\ seen'.lines = t.lines /\ seen'.frames = t.frames
    BY <2>2
  <2> QED BY <1>1, <1>2, <1>4, <2>3, <2>4, <2>5, PortGoesOn DEF r
<1> QED BY <1>3, <1>4

LEMMA LinePort == ASSUME PortInv, ReadLine PROVE PortInv'
<1> DEFINE after == [seen EXCEPT !.lines = IF @ = <<>> THEN @ ELSE Tail(@)]
           e == IF ~enable'.mavlink /\ seen.frames # <<>> THEN Damaged(after) ELSE after
<1>1. Read /\ EndsLine /\ cmdBuf' = <<>> /\ seen' = Repaired(e) BY DEF ReadLine
<1>2. /\ IsSeen(after) /\ after.typed = seen.typed /\ after.damaged = seen.damaged
      /\ after.lines = IF seen.lines = <<>> THEN <<>> ELSE Tail(seen.lines)
      /\ after.frames = seen.frames
  BY SeenKeeps DEF PortInv, IsSeen
<1> HIDE DEF after
<1>3. /\ IsSeen(e) /\ e.typed = seen.typed
      /\ \/ e = after /\ (~enable'.mavlink => seen.frames = <<>>)
         \/ e.damaged = TRUE /\ e.lines = <<>> /\ e.frames = <<>>
  BY <1>2, SeenKeeps DEF Damaged, IsSeen
<1> HIDE DEF e
<1>4. <<>> \in Lines /\ seen.typed \in Lines BY DEF PortInv, Lines
<1>5. e.damaged \in BOOLEAN BY <1>2, <1>3 DEF PortInv
<1>6. /\ IsSeen(seen') /\ seen'.typed = e.typed /\ seen'.lines = e.lines /\ seen'.frames = e.frames
      /\ seen'.damaged = e.damaged \/ seen'.damaged = FALSE
      /\ e.damaged /\ ~seen'.damaged =>
           rx' = <<>> /\ e.typed = <<>> /\ Byte = NEWLINE /\ ParserBehind.state = "idle"
  BY <1>1, <1>3, <1>5, Mended
<1>7. CASE e.damaged
  <2>1. e.lines = <<>> /\ e.frames = <<>>
    <3>1. CASE e = after BY <1>2, <1>7, <3>1 DEF PortInv
    <3> QED BY <1>3, <3>1
  <2>2. seen'.damaged \in BOOLEAN BY <1>5, <1>6
  <2>3. ~seen'.damaged => /\ rx' = <<>> /\ seen'.typed = <<>> /\ cmdBuf' = <<>>
                          /\ parser'.state = "idle"
    BY <1>1, <1>6, <1>7, ReadTypes
  <2>4. seen'.typed \in Lines BY <1>3, <1>4, <1>6
  <2> QED BY <1>1, <1>4, <1>6, <2>1, <2>2, <2>3, <2>4, ReadTypes, PortDamaged
<1>8. CASE ~e.damaged
  <2>1. e = after /\ ~seen.damaged /\ (~enable'.mavlink => seen.frames = <<>>)
    BY <1>2, <1>3, <1>8
  <2> DEFINE r == Reader(parser, cmdBuf, seen.lines, seen.frames)
  <2>2. /\ ~Completes(r.parser, Byte) /\ ParserBehind = mavlink_parse_char(r.parser, Byte)
        /\ r.buf = cmdBuf /\ r.lines = seen.lines /\ r.frames = seen.frames
    BY <1>1, <2>1, ReadTypes, PortReads DEF Reader, EndsLine
  <2>3. isText(ParserBehind, Byte) /\ Byte = NEWLINE /\ r.buf # <<>> BY <1>1, <2>2 DEF EndsLine
  <2> HIDE DEF r
  <2>4. ASSUME NEW t, Reads(r, Byte, t)
        PROVE  cmdBuf' = t.buf /\ seen'.lines = t.lines /\ seen'.frames = t.frames
    <3>1. EndsLineOf(r, Byte, t) BY <2>2, <2>3, <2>4 DEF Reads, EndsLineOf
    <3>2. TakesLine(r, Byte, t) BY <2>2, <2>4, <3>1 DEF Reads, TakesFrame, GoesOn
    <3> QED BY <1>1, <1>2, <1>6, <2>1, <2>2, <3>2 DEF TakesLine
  <2>5. \A t : Reads(r, Byte, t) =>
              cmdBuf' = t.buf /\ seen'.lines = t.lines /\ seen'.frames = t.frames
    BY <2>4
  <2>6. /\ seen'.damaged = FALSE /\ seen'.typed = seen.typed
        /\ (~enable'.mavlink => seen'.frames = <<>>)
    BY <1>2, <1>3, <1>5, <1>6, <1>8, <2>1
  <2> QED BY <1>1, <1>6, <2>1, <2>5, <2>6, PortGoesOn DEF r
<1> QED BY <1>5, <1>7, <1>8

LEMMA OtherPort == ASSUME PortInv, ReadOther PROVE PortInv'
<1>1. /\ Read /\ ~EndsMessage /\ ~EndsLine /\ enable' = enable /\ seen' = Repaired(seen)
      /\ cmdBuf' = IF isText(ParserBehind, Byte) THEN buffered(cmdBuf, Byte) ELSE cmdBuf
  BY DEF ReadOther
<1>2. /\ IsSeen(seen') /\ seen'.typed = seen.typed /\ seen'.lines = seen.lines
      /\ seen'.frames = seen.frames
      /\ seen'.damaged = seen.damaged \/ seen'.damaged = FALSE
      /\ seen.damaged /\ ~seen'.damaged =>
           rx' = <<>> /\ seen.typed = <<>> /\ Byte = NEWLINE /\ ParserBehind.state = "idle"
  BY <1>1, Mended DEF PortInv
<1>3. cmdBuf \in Lines /\ seen.typed \in Lines /\ seen.damaged \in BOOLEAN BY DEF PortInv
<1>4. cmdBuf' \in Lines BY <1>1, <1>3, BufferedLine
<1>5. CASE seen.damaged
  <2>1. ~seen'.damaged => /\ rx' = <<>> /\ seen'.typed = <<>> /\ cmdBuf' = <<>>
                          /\ parser'.state = "idle"
    <3> SUFFICES ASSUME ~seen'.damaged
                 PROVE  /\ rx' = <<>> /\ seen'.typed = <<>> /\ cmdBuf' = <<>>
                        /\ parser'.state = "idle"
      OBVIOUS
    <3>1. Byte = NEWLINE /\ ParserBehind.state = "idle" /\ rx' = <<>> /\ seen.typed = <<>>
      BY <1>2, <1>5
    <3>2. cmdBuf = <<>> BY <1>1, <3>1 DEF EndsLine, isText
    <3>3. buffered(cmdBuf, Byte) = <<>> BY <3>1, <3>2, PortBytes DEF buffered
    <3> QED BY <1>1, <1>2, <3>1, <3>2, <3>3, ReadTypes
  <2>2. seen'.lines = <<>> /\ seen'.frames = <<>> /\ seen'.damaged \in BOOLEAN
    BY <1>2, <1>3, <1>5 DEF PortInv
  <2> QED BY <1>1, <1>2, <1>3, <1>4, <2>1, <2>2, ReadTypes, PortDamaged
<1>6. CASE ~seen.damaged
  <2> DEFINE r == Reader(parser, cmdBuf, seen.lines, seen.frames)
  <2>2. /\ ~Completes(r.parser, Byte) /\ ParserBehind = mavlink_parse_char(r.parser, Byte)
        /\ r.buf = cmdBuf /\ r.lines = seen.lines /\ r.frames = seen.frames
    BY <1>1, <1>6, ReadTypes, PortReads DEF Reader
  <2>3. ~(isText(ParserBehind, Byte) /\ Byte = NEWLINE /\ r.buf # <<>>)
    BY <1>1, <2>2 DEF EndsLine
  <2> HIDE DEF r
  <2>4. ASSUME NEW t, Reads(r, Byte, t)
        PROVE  cmdBuf' = t.buf /\ seen'.lines = t.lines /\ seen'.frames = t.frames
    <3>1. t.parser = ParserBehind BY <2>2, <2>4 DEF Reads
    <3>2. ~EndsLineOf(r, Byte, t) BY <2>3, <3>1 DEF EndsLineOf
    <3>3. GoesOn(r, Byte, t) BY <2>2, <2>4, <3>2 DEF Reads, TakesFrame, TakesLine
    <3> QED BY <1>1, <1>2, <2>2, <3>1, <3>3 DEF GoesOn
  <2>5. \A t : Reads(r, Byte, t) =>
              cmdBuf' = t.buf /\ seen'.lines = t.lines /\ seen'.frames = t.frames
    BY <2>4
  <2>6. /\ seen'.damaged = FALSE /\ seen'.typed = seen.typed
        /\ (~enable'.mavlink => seen'.frames = <<>>)
    BY <1>1, <1>2, <1>3, <1>6 DEF PortInv
  <2> QED BY <1>1, <1>2, <1>6, <2>5, <2>6, PortGoesOn DEF r
<1> QED BY <1>5, <1>6

LEMMA SessionPort == ASSUME PortInv, Session PROVE PortInv'
<1> DEFINE after == IF rx' = rx THEN seen ELSE Damaged(seen)
<1>1. /\ parser' = parser /\ cmdBuf' = cmdBuf /\ enable' = enable /\ mission' = mission
      /\ \E n \in 1 .. Len(rx) + 1 : rx' = SubSeq(rx, n, Len(rx))
      /\ seen' = IF enable.neopixels
                 THEN [after EXCEPT !.shown = Shown("white", FALSE, FALSE)] ELSE after
  BY DEF Session, port
<1>2. /\ IsSeen(after) /\ after.typed = seen.typed
      /\ rx' = rx => after.lines = seen.lines /\ after.frames = seen.frames
                     /\ after.damaged = seen.damaged
      /\ rx' # rx => after.lines = <<>> /\ after.frames = <<>> /\ after.damaged = TRUE
  BY SeenKeeps DEF PortInv, IsSeen, Damaged
<1> HIDE DEF after
<1>3. /\ IsSeen(seen') /\ seen'.typed = after.typed /\ seen'.lines = after.lines
      /\ seen'.frames = after.frames /\ seen'.damaged = after.damaged
  BY <1>1, <1>2, SeenKeeps DEF IsSeen
<1>4. CASE rx' = rx BY <1>1, <1>2, <1>3, <1>4, PortKept
<1>5. CASE rx' # rx
  <2>1. rx' \in Seq(Nat) /\ (rx = <<>> => rx' = <<>>) BY <1>1 DEF PortInv
  <2>2. mission' => rx' = <<>> BY <1>1, <2>1 DEF PortInv
  <2>3. IsParser(parser') /\ cmdBuf' \in Lines /\ seen'.typed \in Lines
    BY <1>1, <1>2, <1>3 DEF PortInv
  <2> QED BY <1>2, <1>3, <1>5, <2>1, <2>2, <2>3, PortDamaged
<1> QED BY <1>4, <1>5

\* A byte sent while the last of all is a whole one.
LEMMA PortSent ==
  ASSUME PortInv, NEW bytes \in Seq(Nat), NEW run, Reading(run, bytes),
         Begins(run[1], parser, cmdBuf, seen'), Ends(run[Len(bytes) + 1], seen'),
         rx' = bytes, parser' = parser, cmdBuf' = cmdBuf, enable' = enable, ~mission',
         IsSeen(seen'), seen'.typed \in Lines, seen'.damaged = FALSE,
         ~enable.mavlink => seen'.frames = <<>>
  PROVE  PortInv'
<1>1. Covers(run, parser', cmdBuf', rx', seen') BY DEF Covers
<1>2. 1 \in 1 .. Len(bytes) + 1 OBVIOUS
<1>3. IsReader(run[1]) BY <1>2 DEF Reading, Steady
<1>4. seen'.lines \in Seq(Lines) /\ seen'.frames \in Seq(DOMAIN Messages)
  BY <1>3 DEF IsReader, Begins
<1>5. InFlight' BY <1>1 DEF InFlight
<1> QED BY <1>4, <1>5 DEF PortInv

\* Where all that is in flight will have been read.
LEMMA LastReading ==
  ASSUME NEW bytes \in Seq(Nat), NEW run, Reading(run, bytes), NEW e,
         Ends(run[Len(bytes) + 1], e)
  PROVE  /\ Steady(run[Len(bytes) + 1]) /\ run[Len(bytes) + 1].parser.state = "idle"
         /\ run[Len(bytes) + 1].buf = e.typed
         /\ run[Len(bytes) + 1].lines = <<>> /\ run[Len(bytes) + 1].frames = <<>>
<1>1. Len(bytes) + 1 \in 1 .. Len(bytes) + 1 OBVIOUS
<1> QED BY <1>1 DEF Reading, Steady, Ends

LEMMA TypePort == ASSUME PortInv, NEW c \in Printable, Type(c) PROVE PortInv'
<1> DEFINE text == buffered(seen.typed, c)
<1>1. /\ parser' = parser /\ cmdBuf' = cmdBuf /\ enable' = enable /\ mission' = mission /\ ~mission
      /\ rx' = Append(rx, c) /\ seen' = [seen EXCEPT !.typed = text]
  BY DEF Type, Sending, Room, port
<1>2. rx \in Seq(Nat) /\ IsSeen(seen) /\ seen.typed \in Lines BY DEF PortInv
<1>3. text \in Lines BY <1>2, BufferedLine
<1>4. c \in Nat /\ c # STX /\ c # NEWLINE BY PortBytes
<1> HIDE DEF text
<1>5. /\ IsSeen(seen') /\ seen'.typed = text /\ seen'.lines = seen.lines
      /\ seen'.frames = seen.frames /\ seen'.damaged = seen.damaged
  BY <1>1, <1>2, SeenKeeps DEF IsSeen
<1>6. CASE seen.damaged
  <2>1. /\ seen'.lines = <<>> /\ seen'.frames = <<>> /\ seen'.damaged = TRUE
        /\ IsParser(parser') /\ cmdBuf' \in Lines
    BY <1>1, <1>5, <1>6 DEF PortInv
  <2>2. Append(rx, c) \in Seq(Nat) BY <1>2, <1>4
  <2> QED BY <1>1, <1>3, <1>5, <2>1, <2>2, PortDamaged
<1>7. CASE ~seen.damaged
  <2>1. PICK run : Covers(run, parser, cmdBuf, rx, seen) BY <1>7 DEF PortInv, InFlight
  <2> DEFINE n == Len(rx)
             last == run[n + 1]
             r == Reader(last.parser, text, <<>>, <<>>)
             more == [i \in 1 .. n + 2 |-> IF i = n + 2 THEN r ELSE run[i]]
  <2>2. /\ Steady(last) /\ last.parser.state = "idle" /\ last.buf = seen.typed
        /\ last.lines = <<>> /\ last.frames = <<>>
    BY <1>2, <2>1, LastReading DEF Covers
  <2>3. r.parser = last.parser /\ r.buf = text /\ r.lines = <<>> /\ r.frames = <<>>
    BY DEF Reader
  <2>4. Reading(run, rx) /\ Begins(run[1], parser, cmdBuf, seen) BY <2>1 DEF Covers
  <2> HIDE DEF last, r
  <2>5. Steady(r) BY <1>3, <2>2, <2>3 DEF Steady, IsReader
  <2>6. Reads(last, c, r)
    <3>1. r.parser = mavlink_parse_char(last.parser, c) BY <1>4, <2>2, <2>3, ParserOfText
    <3>2. ~Completes(last.parser, c) /\ ~EndsLineOf(last, c, r) /\ isText(r.parser, c)
      BY <1>4, <2>2, <2>3 DEF Completes, EndsLineOf, isText
    <3>3. GoesOn(last, c, r) BY <2>2, <2>3, <3>2 DEF GoesOn, text
    <3> QED BY <3>1, <3>3 DEF Reads
  <2>7. /\ Reading(more, Append(rx, c)) /\ Len(Append(rx, c)) = n + 1 /\ more[n + 2] = r
        /\ \A i \in 1 .. n + 1 : more[i] = run[i]
    BY <1>2, <1>4, <2>3, <2>4, <2>5, <2>6, ReadingOfMore DEF last
  <2>8. n \in Nat /\ 1 \in 1 .. n + 1 /\ (n + 1) + 1 = n + 2 BY <1>2
  <2> HIDE DEF more, n
  <2>9. Begins(more[1], parser, cmdBuf, seen') BY <1>5, <2>4, <2>7, <2>8 DEF Begins
  <2>10. Ends(more[Len(rx') + 1], seen') BY <1>1, <1>5, <2>3, <2>7, <2>8 DEF Ends
  <2>11. Append(rx, c) \in Seq(Nat) /\ (~enable.mavlink => seen'.frames = <<>>)
         /\ seen'.damaged = FALSE
    BY <1>2, <1>4, <1>5, <1>7 DEF PortInv
  <2> QED BY <1>1, <1>3, <1>5, <2>7, <2>9, <2>10, <2>11, PortSent
<1> QED BY <1>6, <1>7

LEMMA EnterPort == ASSUME PortInv, Enter PROVE PortInv'
<1> DEFINE lines == IF seen.typed = <<>> \/ seen.damaged THEN seen.lines
                    ELSE Append(seen.lines, seen.typed)
<1>1. /\ parser' = parser /\ cmdBuf' = cmdBuf /\ enable' = enable /\ mission' = mission /\ ~mission
      /\ rx' = Append(rx, NEWLINE) /\ seen' = [seen EXCEPT !.typed = <<>>, !.lines = lines]
  BY SeenKeeps DEF Enter, Sending, Room, port, PortInv, IsSeen
<1>2. rx \in Seq(Nat) /\ IsSeen(seen) /\ seen.typed \in Lines /\ <<>> \in Lines
  BY DEF PortInv, Lines
<1>3. NEWLINE \in Nat /\ NEWLINE # STX /\ NEWLINE \notin Printable BY PortBytes
<1> HIDE DEF lines
<1>4. /\ IsSeen(seen') /\ seen'.typed = <<>> /\ seen'.lines = lines
      /\ seen'.frames = seen.frames /\ seen'.damaged = seen.damaged
  BY <1>1, <1>2, SeenKeeps DEF IsSeen
<1>5. CASE seen.damaged
  <2>1. lines = <<>> BY <1>5 DEF lines, PortInv
  <2>2. /\ seen'.lines = <<>> /\ seen'.frames = <<>> /\ seen'.damaged = TRUE
        /\ IsParser(parser') /\ cmdBuf' \in Lines
    BY <1>1, <1>4, <1>5, <2>1 DEF PortInv
  <2>3. Append(rx, NEWLINE) \in Seq(Nat) BY <1>2, <1>3
  <2> QED BY <1>1, <1>2, <1>4, <2>2, <2>3, PortDamaged
<1>6. ASSUME ~seen.damaged,
             NEW run, Reading(run, rx), Begins(run[1], parser, cmdBuf, seen'),
             run[Len(rx) + 1].buf = seen.typed, run[Len(rx) + 1].parser.state = "idle",
             Steady(run[Len(rx) + 1]), run[Len(rx) + 1].frames = <<>>,
             run[Len(rx) + 1].lines = IF seen.typed = <<>> THEN <<>> ELSE <<seen.typed>>
      PROVE  PortInv'
  <2> DEFINE n == Len(rx)
             last == run[n + 1]
             r == Reader(last.parser, <<>>, <<>>, <<>>)
             more == [i \in 1 .. n + 2 |-> IF i = n + 2 THEN r ELSE run[i]]
  <2>1. r.parser = last.parser /\ r.buf = <<>> /\ r.lines = <<>> /\ r.frames = <<>>
    BY DEF Reader
  <2>2. /\ Steady(last) /\ last.parser.state = "idle" /\ last.buf = seen.typed
        /\ last.lines = IF seen.typed = <<>> THEN <<>> ELSE <<seen.typed>>
        /\ last.frames = <<>>
    BY <1>6
  <2> HIDE DEF last, r
  <2>3. Steady(r) BY <1>2, <2>1, <2>2 DEF Steady, IsReader
  <2>4. Reads(last, NEWLINE, r)
    <3>1. r.parser = mavlink_parse_char(last.parser, NEWLINE)
      BY <1>3, <2>1, <2>2, ParserOfText
    <3>2. ~Completes(last.parser, NEWLINE) /\ isText(r.parser, NEWLINE)
      BY <2>1, <2>2 DEF Completes, isText
    <3>3. CASE seen.typed = <<>>
      <4>1. buffered(last.buf, NEWLINE) = <<>> BY <1>3, <2>2, <3>3 DEF buffered
      <4>2. GoesOn(last, NEWLINE, r)
        BY <2>1, <2>2, <3>2, <3>3, <4>1 DEF GoesOn, EndsLineOf
      <4> QED BY <3>1, <4>2 DEF Reads
    <3>4. CASE seen.typed # <<>>
      <4>1. /\ last.lines = <<seen.typed>> /\ Head(last.lines) = seen.typed
            /\ Tail(last.lines) = <<>> /\ last.lines # <<>>
        BY <2>2, <3>4
      <4>2. TakesLine(last, NEWLINE, r)
        BY <2>1, <2>2, <3>2, <3>4, <4>1 DEF TakesLine, EndsLineOf
      <4> QED BY <3>1, <4>2 DEF Reads
    <3> QED BY <3>3, <3>4
  <2>5. Reading(run, rx) /\ Begins(run[1], parser, cmdBuf, seen') BY <1>6
  <2>6. /\ Reading(more, Append(rx, NEWLINE)) /\ Len(Append(rx, NEWLINE)) = n + 1
        /\ more[n + 2] = r /\ \A i \in 1 .. n + 1 : more[i] = run[i]
    BY <1>2, <1>3, <2>1, <2>3, <2>4, <2>5, ReadingOfMore DEF last
  <2>7. n \in Nat /\ 1 \in 1 .. n + 1 /\ (n + 1) + 1 = n + 2 BY <1>2
  <2> HIDE DEF more, n
  <2>8. Begins(more[1], parser, cmdBuf, seen') BY <2>5, <2>6, <2>7
  <2>9. Ends(more[Len(rx') + 1], seen') BY <1>1, <1>4, <2>1, <2>6, <2>7 DEF Ends
  <2>10. /\ Append(rx, NEWLINE) \in Seq(Nat) /\ (~enable.mavlink => seen'.frames = <<>>)
         /\ seen'.damaged = FALSE
    BY <1>2, <1>3, <1>4, <1>6 DEF PortInv
  <2> QED BY <1>1, <1>2, <1>4, <2>6, <2>8, <2>9, <2>10, PortSent
<1>7. CASE ~seen.damaged
  <2>1. PICK run : Covers(run, parser, cmdBuf, rx, seen) BY <1>7 DEF PortInv, InFlight
  <2>2. /\ Reading(run, rx) /\ Begins(run[1], parser, cmdBuf, seen)
        /\ Ends(run[Len(rx) + 1], seen)
    BY <2>1 DEF Covers
  <2>3. /\ Steady(run[Len(rx) + 1]) /\ run[Len(rx) + 1].parser.state = "idle"
        /\ run[Len(rx) + 1].buf = seen.typed
        /\ run[Len(rx) + 1].lines = <<>> /\ run[Len(rx) + 1].frames = <<>>
    BY <1>2, <2>2, LastReading
  <2>4. CASE seen.typed = <<>>
    <3>1. lines = seen.lines BY <2>4 DEF lines
    <3>2. Begins(run[1], parser, cmdBuf, seen') BY <1>4, <2>2, <3>1 DEF Begins
    <3> QED BY <1>6, <1>7, <2>2, <2>3, <2>4, <3>2
  <2>5. CASE seen.typed # <<>>
    <3> DEFINE d(r) == Reader(r.parser, r.buf, Append(r.lines, seen.typed), r.frames)
               due == [i \in 1 .. Len(rx) + 1 |-> d(run[i])]
    <3>1. Reading(due, rx) BY <1>2, <2>2, ReadingLineDue
    <3>2. \A r : /\ d(r).parser = r.parser /\ d(r).buf = r.buf /\ d(r).frames = r.frames
                 /\ d(r).lines = Append(r.lines, seen.typed)
      BY DEF Reader
    <3>3. due[1] = d(run[1]) /\ due[Len(rx) + 1] = d(run[Len(rx) + 1]) BY <1>2
    <3> HIDE DEF d, due
    <3>4. Begins(due[1], parser, cmdBuf, seen')
      <4>1. lines = Append(seen.lines, seen.typed) BY <1>7, <2>5 DEF lines
      <4> QED BY <1>4, <2>2, <3>2, <3>3, <4>1 DEF Begins
    <3>5. Len(rx) + 1 \in 1 .. Len(rx) + 1 BY <1>2
    <3>6. Steady(due[Len(rx) + 1]) BY <3>1, <3>5 DEF Reading
    <3>7. due[Len(rx) + 1].lines = <<seen.typed>> BY <2>3, <3>2, <3>3
    <3>8. /\ due[Len(rx) + 1].buf = seen.typed /\ due[Len(rx) + 1].parser.state = "idle"
          /\ due[Len(rx) + 1].frames = <<>>
      BY <2>3, <3>2, <3>3
    <3> QED BY <1>6, <1>7, <2>5, <3>1, <3>4, <3>6, <3>7, <3>8
  <2> QED BY <2>4, <2>5
<1> QED BY <1>5, <1>7

\* A byte of a frame that is no text and completes nothing.
LEMMA InFrame ==
  ASSUME NEW s, IsReader(s), s.frames # <<>>, NEW c, ~Completes(s.parser, c),
         mavlink_parse_char(s.parser, c).state # "idle"
  PROVE  LET t == Reader(mavlink_parse_char(s.parser, c), s.buf, s.lines, s.frames)
         IN  Reads(s, c, t) /\ Steady(t)
<1> DEFINE t == Reader(mavlink_parse_char(s.parser, c), s.buf, s.lines, s.frames)
<1>1. /\ t.parser = mavlink_parse_char(s.parser, c) /\ t.buf = s.buf
      /\ t.lines = s.lines /\ t.frames = s.frames
  BY DEF Reader
<1> HIDE DEF t
<1>2. GoesOn(s, c, t) BY <1>1 DEF GoesOn, EndsLineOf, isText
<1>3. IsReader(t) BY <1>1, ParserStays DEF IsReader
<1>4. Reads(s, c, t) /\ Steady(t) BY <1>1, <1>2, <1>3 DEF Reads, Steady
<1> QED BY <1>4 DEF t

LEMMA MessageBehind ==
  ASSUME NEW bytes \in Seq(Nat), NEW m \in DOMAIN Messages
  PROVE  bytes \o Message(m)
           = Append(Append(Append(Append(bytes, STX), 1), m), (1 + m) % BYTES)
<1>1. STX \in Nat /\ m \in Nat /\ BYTES \in Nat \ {0} BY PortBytes
<1> DEFINE c4 == (1 + m) % BYTES
<1>2. c4 \in Nat BY <1>1
<1> HIDE DEF c4
<1>3. bytes \o <<STX, 1, m, c4>> = Append(Append(Append(Append(bytes, STX), 1), m), c4)
  BY <1>1, <1>2
<1> QED BY <1>3 DEF c4, Message

\* A frame sent behind all that is in flight.
LEMMA ReadingOfFrame ==
  ASSUME NEW bytes \in Seq(Nat), NEW run, NEW m \in DOMAIN Messages, NEW last,
         Within(run, bytes, last), last.parser.state = "idle", last.frames = <<m>>
  PROVE  \E longer :
           /\ Behind(longer, bytes \o Message(m), Reader(Idle, last.buf, last.lines, <<>>))
           /\ longer[1] = run[1]
<1> DEFINE n == Len(bytes)
           c4 == (1 + m) % BYTES
           p1 == mavlink_parse_char(last.parser, STX)
           p2 == mavlink_parse_char(p1, 1)
           p3 == mavlink_parse_char(p2, m)
           r1 == Reader(p1, last.buf, last.lines, last.frames)
           r2 == Reader(p2, last.buf, last.lines, last.frames)
           r3 == Reader(p3, last.buf, last.lines, last.frames)
           r4 == Reader(Idle, last.buf, last.lines, <<>>)
           b1 == Append(bytes, STX)
           b2 == Append(b1, 1)
           b3 == Append(b2, m)
           b4 == Append(b3, c4)
<1>1. STX \in Nat /\ m \in Nat /\ BYTES \in Nat \ {0} BY PortBytes
<1>2. c4 \in Nat /\ 1 \in Nat BY <1>1
<1>3. n \in Nat /\ n + 1 \in 1 .. n + 1 BY DEF n
<1>4. IsReader(last) /\ IsParser(last.parser) BY <1>3 DEF Within, Reading, Steady, IsReader
<1>5. /\ p1.state = "len" /\ p2.state = "body" /\ p3.state = "crc"
      /\ p3.len = 1 /\ p3.last = m /\ p3.sum = c4
      /\ mavlink_parse_char(p3, c4) = Idle
  BY <1>4, ParserOfFrame
<1> HIDE DEF c4
<1>6. bytes \o Message(m) = b4 BY MessageBehind DEF c4
<1>7. b1 \in Seq(Nat) /\ b2 \in Seq(Nat) /\ b3 \in Seq(Nat) BY <1>1, <1>2
<1> HIDE DEF p1, p2, p3, b4
<1>8. last.frames # <<>> /\ Tail(last.frames) = <<>> /\ Head(last.frames) = m OBVIOUS
<1>9. /\ r1.parser = p1 /\ r1.frames = last.frames /\ r1.buf = last.buf /\ r1.lines = last.lines
      /\ r2.parser = p2 /\ r2.frames = last.frames /\ r2.buf = last.buf /\ r2.lines = last.lines
      /\ r3.parser = p3 /\ r3.frames = last.frames /\ r3.buf = last.buf /\ r3.lines = last.lines
      /\ r4.parser = Idle /\ r4.frames = <<>> /\ r4.buf = last.buf /\ r4.lines = last.lines
  BY DEF Reader
<1>10. Reads(last, STX, r1) /\ Steady(r1)
  BY <1>4, <1>5, <1>8, InFrame DEF Completes, p1
<1> HIDE DEF r1
<1>11. Reads(r1, 1, r2) /\ Steady(r2)
  <2>1. r2 = Reader(mavlink_parse_char(r1.parser, 1), r1.buf, r1.lines, r1.frames)
    BY <1>9 DEF p2
  <2>2. IsReader(r1) /\ r1.frames # <<>> /\ ~Completes(r1.parser, 1)
        /\ mavlink_parse_char(r1.parser, 1).state # "idle"
    BY <1>5, <1>8, <1>9, <1>10 DEF Steady, Completes, p2
  <2> QED BY <2>1, <2>2, InFrame
<1> HIDE DEF r2
<1>12. Reads(r2, m, r3) /\ Steady(r3)
  <2>1. r3 = Reader(mavlink_parse_char(r2.parser, m), r2.buf, r2.lines, r2.frames)
    BY <1>9 DEF p3
  <2>2. IsReader(r2) /\ r2.frames # <<>> /\ ~Completes(r2.parser, m)
        /\ mavlink_parse_char(r2.parser, m).state # "idle"
    BY <1>5, <1>8, <1>9, <1>11 DEF Steady, Completes, p3
  <2> QED BY <2>1, <2>2, InFrame
<1> HIDE DEF r3, r4
<1>13. Reads(r3, c4, r4) /\ Steady(r4)
  <2>1. TakesFrame(r3, c4, r4) BY <1>5, <1>8, <1>9 DEF TakesFrame, Completes
  <2>2. <<>> \in Seq(DOMAIN Messages) /\ IsParser(Idle) /\ Idle.state = "idle"
    BY DEF IsParser, Idle
  <2>3. IsReader(r4) BY <1>4, <1>9, <2>2 DEF IsReader
  <2> QED BY <1>5, <1>9, <2>1, <2>2, <2>3 DEF Reads, Steady
<1>14. PICK g1 : Within(g1, b1, r1) /\ g1[1] = run[1]
  <2>1. Within(run, bytes, last) OBVIOUS
  <2>2. b1 = Append(bytes, STX) OBVIOUS
  <2> HIDE DEF b1
  <2> QED BY <1>1, <1>8, <1>9, <1>10, <2>1, <2>2, ReadingGrows
<1> HIDE DEF b1
<1>15. PICK g2 : Within(g2, b2, r2) /\ g2[1] = run[1]
  <2>1. b2 = Append(b1, 1) OBVIOUS
  <2> HIDE DEF b2
  <2>2. r2.frames # <<>> BY <1>8, <1>9
  <2>3. PICK g : /\ Behind(g, b2, r2) /\ g[1] = g1[1]
                 /\ r2.frames # <<>> => Within(g, b2, r2)
    BY <1>2, <1>7, <1>11, <1>14, <2>1, ReadingGrows
  <2> QED BY <1>14, <2>2, <2>3
<1> HIDE DEF b2
<1>16. PICK g3 : Within(g3, b3, r3) /\ g3[1] = run[1]
  <2>1. b3 = Append(b2, m) OBVIOUS
  <2> HIDE DEF b3
  <2>2. r3.frames # <<>> BY <1>8, <1>9
  <2>3. PICK g : /\ Behind(g, b3, r3) /\ g[1] = g2[1]
                 /\ r3.frames # <<>> => Within(g, b3, r3)
    BY <1>1, <1>7, <1>12, <1>15, <2>1, ReadingGrows
  <2> QED BY <1>15, <2>2, <2>3
<1> HIDE DEF b3
<1>17. PICK g4 : Behind(g4, b4, r4) /\ g4[1] = run[1]
  <2>1. b4 = Append(b3, c4) BY DEF b4
  <2> QED BY <1>2, <1>7, <1>13, <1>16, <2>1, ReadingGrows
<1>18. Reading(g4, b4) /\ g4[Len(b4) + 1] = Reader(Idle, last.buf, last.lines, <<>>)
  BY <1>17 DEF Behind, r4
<1> QED BY <1>6, <1>17, <1>18 DEF Behind

LEMMA SendPort == ASSUME PortInv, NEW m \in ConsoleMessages, Send(m) PROVE PortInv'
<1>1. /\ parser' = parser /\ cmdBuf' = cmdBuf /\ enable' = enable /\ mission' = mission /\ ~mission
      /\ rx' = rx \o Message(m)
      /\ seen' = IF enable.mavlink /\ ~seen.damaged THEN [seen EXCEPT !.frames = Append(@, m)]
                 ELSE Damaged(seen)
  BY DEF Send, Sending, Room, port
<1>2. /\ rx \in Seq(Nat) /\ IsSeen(seen) /\ seen.typed \in Lines /\ m \in DOMAIN Messages
      /\ seen.frames \in Seq(DOMAIN Messages)
  BY PortBytes DEF PortInv
<1>3. Message(m) \in Seq(Nat) BY <1>2, PortBytes DEF Message
<1>4. rx \o Message(m) \in Seq(Nat) BY <1>2, <1>3
<1>5. CASE ~(enable.mavlink /\ ~seen.damaged)
  <2>1. seen' = Damaged(seen) BY <1>1, <1>5
  <2>2. /\ IsSeen(seen') /\ seen'.typed = seen.typed /\ seen'.lines = <<>> /\ seen'.frames = <<>>
        /\ seen'.damaged = TRUE
    BY <1>2, <2>1, SeenKeeps DEF Damaged, IsSeen
  <2>3. IsParser(parser') /\ cmdBuf' \in Lines BY <1>1 DEF PortInv
  <2> QED BY <1>1, <1>2, <1>4, <2>2, <2>3, PortDamaged
<1>6. CASE enable.mavlink /\ ~seen.damaged
  <2>1. /\ IsSeen(seen') /\ seen'.typed = seen.typed /\ seen'.lines = seen.lines
        /\ seen'.frames = Append(seen.frames, m) /\ seen'.damaged = seen.damaged
    BY <1>1, <1>2, <1>6, SeenKeeps DEF IsSeen
  <2>2. PICK run : Covers(run, parser, cmdBuf, rx, seen) BY <1>6 DEF PortInv, InFlight
  <2>3. /\ Reading(run, rx) /\ Begins(run[1], parser, cmdBuf, seen)
        /\ Ends(run[Len(rx) + 1], seen)
    BY <2>2 DEF Covers
  <2>4. /\ run[Len(rx) + 1].parser.state = "idle" /\ run[Len(rx) + 1].buf = seen.typed
        /\ run[Len(rx) + 1].lines = <<>> /\ run[Len(rx) + 1].frames = <<>>
    BY <1>2, <2>3, LastReading
  <2> DEFINE d(r) == Reader(r.parser, r.buf, r.lines, Append(r.frames, m))
             due == [i \in 1 .. Len(rx) + 1 |-> d(run[i])]
             last == due[Len(rx) + 1]
  <2>5. Reading(due, rx) BY <1>2, <2>3, ReadingFrameDue
  <2>6. \A r : /\ d(r).parser = r.parser /\ d(r).buf = r.buf /\ d(r).lines = r.lines
               /\ d(r).frames = Append(r.frames, m)
    BY DEF Reader
  <2>7. /\ Len(rx) \in Nat /\ 1 \in 1 .. Len(rx) + 1 /\ Len(rx) + 1 \in 1 .. Len(rx) + 1
        /\ \A i \in 1 .. Len(rx) + 1 : due[i] = d(run[i])
    BY <1>2
  <2>8. \A i \in 1 .. Len(rx) + 1 : run[i].frames \in Seq(DOMAIN Messages)
    BY <2>3 DEF Reading, Steady, IsReader
  <2> HIDE DEF d, due
  <2>9. \A i \in 1 .. Len(rx) + 1 : due[i].frames # <<>>
    <3>1. \A f \in Seq(DOMAIN Messages) : Append(f, m) # <<>> OBVIOUS
    <3> QED BY <2>6, <2>7, <2>8, <3>1
  <2>10. /\ last.parser.state = "idle" /\ last.frames = <<m>> /\ last.buf = seen.typed
         /\ last.lines = <<>>
    BY <2>4, <2>6, <2>7
  <2>11. PICK longer :
           /\ Behind(longer, rx \o Message(m), Reader(Idle, last.buf, last.lines, <<>>))
           /\ longer[1] = due[1]
    <3>1. Within(due, rx, last) BY <2>5, <2>9 DEF Within
    <3> HIDE DEF last
    <3> QED BY <1>2, <2>10, <3>1, ReadingOfFrame
  <2> HIDE DEF last
  <2>12. Begins(longer[1], parser, cmdBuf, seen')
    <3>1. longer[1] = d(run[1]) BY <2>7, <2>11
    <3> QED BY <2>1, <2>3, <2>6, <3>1 DEF Begins
  <2>13. Ends(longer[Len(rx \o Message(m)) + 1], seen')
    BY <2>1, <2>10, <2>11 DEF Ends, Reader, Behind
  <2>14. seen'.damaged = FALSE BY <1>6, <2>1 DEF PortInv
  <2>15. Reading(longer, rx \o Message(m)) BY <2>11 DEF Behind
  <2> QED BY <1>1, <1>2, <1>4, <1>6, <2>1, <2>12, <2>13, <2>14, <2>15, PortSent
<1> QED BY <1>5, <1>6

LEMMA NextPort == PortInv /\ [Next]_vars => PortInv'
<1> SUFFICES ASSUME PortInv, [Next]_vars PROVE PortInv' OBVIOUS
<1>1. ASSUME UNCHANGED <<parser, cmdBuf, rx, mission, enable>>, UNCHANGED seen PROVE PortInv'
  BY <1>1, PortKept DEF PortInv
<1>2. CASE \E on \in BOOLEAN : Refresh(on)
  <2>1. /\ UNCHANGED <<parser, cmdBuf, rx, mission, enable>>
        /\ \E s : seen' = [seen EXCEPT !.shown = s]
    BY <1>2 DEF Refresh, Leds
  <2>2. /\ IsSeen(seen') /\ seen'.typed = seen.typed /\ seen'.lines = seen.lines
        /\ seen'.frames = seen.frames /\ seen'.damaged = seen.damaged
    BY <2>1, SeenKeeps DEF PortInv, IsSeen
  <2> QED BY <2>1, <2>2, PortKept
<1>3. CASE \/ NoRefresh \/ Served \/ NoSession \/ (\E d \in {0, 1} : Delay(d))
           \/ Change \/ UNCHANGED vars
  BY <1>1, <1>3 DEF NoRefresh, Leds, Served, NoSession, Delay, Change, vars, port
<1>4. CASE ReadMessage BY <1>4, MessagePort
<1>5. CASE ReadLine BY <1>5, LinePort
<1>6. CASE ReadOther BY <1>6, OtherPort
<1>7. CASE Session BY <1>7, SessionPort
<1>8. CASE Enter BY <1>8, EnterPort
<1>9. CASE \E c \in Printable : Type(c) BY <1>9, TypePort
<1>10. CASE \E m \in ConsoleMessages : Send(m) BY <1>10, SendPort
<1>11. CASE \E m \in DOMAIN Messages : Hear(m) BY <1>1, <1>11 DEF Hear, Arriving
<1>12. CASE \E word \in DOMAIN Words : Script(word)
  <2>1. UNCHANGED <<parser, cmdBuf, rx, mission, seen>> /\ mission BY <1>12 DEF Script, Arriving
  <2> QED BY <2>1, PortKept DEF PortInv
<1> QED BY <1>2, <1>3, <1>4, <1>5, <1>6, <1>7, <1>8, <1>9, <1>10, <1>11, <1>12
        DEF Next, Environment

\* While nothing is damaged the bytes in flight have one reading, at whose end
\* every line and every frame sent was acted on (processSerialInput).
THEOREM PortInvariant == Spec => []PortInv
<1> QED BY InitPort, NextPort, PTL DEF Spec

\* Every line and every frame acted on is the one sent first, though frames
\* come between the characters of a line and passes end in either.
THEOREM OrderIsKept == Spec => ActedInOrder
<1>1. PortInv /\ [Next]_vars =>
        [~seen.damaged =>
           /\ ReadLine => seen.lines # <<>> /\ cmdBuf = Head(seen.lines)
           /\ ReadMessage => /\ seen.frames # <<>>
                             /\ parser.len = 1 /\ parser.last = Head(seen.frames)]_vars
  <2> SUFFICES ASSUME PortInv, ~seen.damaged
               PROVE  /\ ReadLine => seen.lines # <<>> /\ cmdBuf = Head(seen.lines)
                      /\ ReadMessage => /\ seen.frames # <<>>
                                        /\ parser.len = 1 /\ parser.last = Head(seen.frames)
    OBVIOUS
  <2>1. PICK run : Covers(run, parser, cmdBuf, rx, seen) BY DEF PortInv, InFlight
  <2> DEFINE t == [i \in 1 .. Len(rx) |-> run[i + 1]][1]
  <2>2. ASSUME rx # <<>> PROVE Reads(run[1], Byte, t) BY <2>1, <2>2, NextByte
  <2> HIDE DEF t
  <2>3. /\ run[1].parser = parser /\ run[1].buf = cmdBuf /\ run[1].lines = seen.lines
        /\ run[1].frames = seen.frames
    BY <2>1 DEF Covers, Begins
  <2>4. ASSUME ReadMessage
        PROVE  seen.frames # <<>> /\ parser.len = 1 /\ parser.last = Head(seen.frames)
    <3>1. rx # <<>> /\ EndsMessage BY <2>4 DEF ReadMessage, Read
    <3>2. Completes(parser, Byte) BY <3>1, PortReads
    <3> QED BY <2>2, <2>3, <3>1, <3>2 DEF Reads, TakesFrame, TakesLine, GoesOn
  <2>5. ASSUME ReadLine PROVE seen.lines # <<>> /\ cmdBuf = Head(seen.lines)
    <3>1. rx # <<>> /\ EndsLine BY <2>5 DEF ReadLine, Read
    <3>2. ~Completes(parser, Byte) /\ t.parser = ParserBehind
      BY <2>2, <2>3, <3>1, PortReads DEF EndsLine, Reads
    <3>3. EndsLineOf(run[1], Byte, t) BY <2>3, <3>1, <3>2 DEF EndsLine, EndsLineOf
    <3> QED BY <2>2, <2>3, <3>1, <3>2, <3>3 DEF Reads, TakesFrame, TakesLine, GoesOn
  <2> QED BY <2>4, <2>5
<1> QED BY <1>1, PortInvariant, PTL DEF Spec, ActedInOrder

\* Once nothing is in flight every line and every frame was acted on, and
\* cmdBuf is the line being typed.
THEOREM NothingIsForgotten == Spec => []NothingForgotten
<1>1. PortInv => NothingForgotten BY NothingInFlight DEF PortInv, NothingForgotten
<1> QED BY <1>1, PortInvariant, PTL

-----------------------------------------------------------------------------
(* What holds of a number and of the next one holds of all *)

LEMMA Induction ==
  ASSUME NEW T, 0 \in T, \A n \in Nat : n \in T => n + 1 \in T
  PROVE  Nat \subseteq T
<1> DEFINE R == OpToRel(<, Nat)
           U == {n \in Nat : n \notin T}
<1>1. IsWellFoundedOn(R, Nat) BY NatLessThanWellFounded
<1>2. \A x, y \in Nat : y < x => <<y, x>> \in R BY DEF OpToRel
<1> HIDE DEF R
<1>3. SUFFICES ASSUME U # {} PROVE FALSE OBVIOUS
<1>4. PICK x \in U : \A y \in U : <<y, x>> \notin R BY <1>1, <1>3, WFMin
<1>5. x # 0 OBVIOUS
<1>6. x - 1 \in Nat /\ x - 1 < x BY <1>5
<1>7. x - 1 \notin U BY <1>2, <1>4, <1>6
<1> QED BY <1>6, <1>7

-----------------------------------------------------------------------------
(* A byte on the Meshtastic wire *)

LEMMA Rates ==
  /\ bitCycles = 5000 /\ bitDelay = 104
  /\ F_CPU \div (2 * MESHTASTIC_BAUD) = 2500 /\ F_CPU \div 1000000 = 48
BY DEF bitCycles, bitDelay, F_CPU, MESHTASTIC_BAUD

\* The levels of a byte: the start bit, its bits from the lowest, the stop bit.
LevelIs(byte, k, level) ==
    /\ k = 0 => level = 0
    /\ k \in 1 .. 8 => level = (byte \div Weight[k]) % 2
    /\ k = 9 => level = 1

\* A reader looks at each bit at a moment within it.
DuringBit(k, c) == c \in Nat /\ 5000 * k <= c /\ c < 5000 * (k + 1)
LooksWithin(look) == \A k \in 0 .. 9 : DuringBit(k, look[k])

\* It sees a start and a stop bit and the byte's bits between them.
SeesByte(byte, look) ==
    /\ write(byte, look[0]) = 0 /\ write(byte, look[9]) = 1
    /\ Assembled([k \in 1 .. 8 |-> write(byte, look[k])]) = byte

LEMMA Levels ==
  ASSUME NEW byte \in 0 .. 255, NEW k \in 0 .. 9, NEW c, DuringBit(k, c)
  PROVE  LevelIs(byte, k, write(byte, c))
<1>1. c \div 5000 = k BY DEF DuringBit
<1>2. write(byte, c) =
        CASE k = 0 -> 0 [] k \in 1 .. 8 -> (byte \div Weight[k]) % 2 [] OTHER -> 1
  BY <1>1, Rates DEF write
<1>3. k = 0 => write(byte, c) = 0 BY <1>2
<1>4. k \in 1 .. 8 => write(byte, c) = (byte \div Weight[k]) % 2
  <2> SUFFICES ASSUME k \in 1 .. 8 PROVE write(byte, c) = (byte \div Weight[k]) % 2 OBVIOUS
  <2>1. k # 0 OBVIOUS
  <2> QED BY <1>2, <2>1
<1>5. k = 9 => write(byte, c) = 1
  <2> SUFFICES ASSUME k = 9 PROVE write(byte, c) = 1 OBVIOUS
  <2>1. k # 0 /\ ~(k \in 1 .. 8) OBVIOUS
  <2> QED BY <1>2, <2>1
<1> QED BY <1>3, <1>4, <1>5 DEF LevelIs

\* Eight bits make up the byte.
LEMMA BitsTogether ==
  ASSUME NEW byte \in 0 .. 255, NEW bit,
         \A k \in 1 .. 8 : bit[k] = (byte \div Weight[k]) % 2
  PROVE  Assembled(bit) = byte
<1> DEFINE b1 == byte % 2
           b2 == (byte \div 2) % 2
           b3 == (byte \div 4) % 2
           b4 == (byte \div 8) % 2
           b5 == (byte \div 16) % 2
           b6 == (byte \div 32) % 2
           b7 == (byte \div 64) % 2
           b8 == (byte \div 128) % 2
<1>1. byte = b1 + 2 * (b2 + 2 * (b3 + 2 * (b4 + 2 * (b5 + 2 * (b6 + 2 * (b7 + 2 * b8))))))
  OBVIOUS
<1>2. /\ Weight[1] = 1 /\ Weight[2] = 2 /\ Weight[3] = 4 /\ Weight[4] = 8
      /\ Weight[5] = 16 /\ Weight[6] = 32 /\ Weight[7] = 64 /\ Weight[8] = 128
  BY DEF Weight
<1>3. byte \div 1 = byte OBVIOUS
<1>4. /\ bit[1] = b1 /\ bit[2] = b2 /\ bit[3] = b3 /\ bit[4] = b4
      /\ bit[5] = b5 /\ bit[6] = b6 /\ bit[7] = b7 /\ bit[8] = b8
  BY <1>2, <1>3
<1> HIDE DEF b1, b2, b3, b4, b5, b6, b7, b8
<1> QED BY <1>1, <1>4 DEF Assembled

LEMMA ReadWithin ==
  ASSUME NEW byte \in 0 .. 255, NEW look, LooksWithin(look)
  PROVE  SeesByte(byte, look)
<1>1. ASSUME NEW k \in 0 .. 9 PROVE LevelIs(byte, k, write(byte, look[k]))
  <2>1. DuringBit(k, look[k]) BY DEF LooksWithin
  <2> QED BY <2>1, Levels
<1> DEFINE bit == [k \in 1 .. 8 |-> write(byte, look[k])]
<1>2. \A k \in 1 .. 8 : bit[k] = (byte \div Weight[k]) % 2
  <2> TAKE k \in 1 .. 8
  <2>1. k \in 0 .. 9 OBVIOUS
  <2>2. LevelIs(byte, k, write(byte, look[k])) BY <1>1, <2>1
  <2> QED BY <2>2 DEF LevelIs
<1> HIDE DEF bit
<1>3. Assembled(bit) = byte BY <1>2, BitsTogether, Zenon
<1>4. 0 \in 0 .. 9 /\ 9 \in 0 .. 9 OBVIOUS
<1>5. LevelIs(byte, 0, write(byte, look[0])) /\ LevelIs(byte, 9, write(byte, look[9]))
  BY <1>1, <1>4
<1> QED BY <1>3, <1>5 DEF LevelIs, SeesByte, bit

\* The node reads every byte, its clock up to 4 % off, and pollRX every byte
\* whose start bit began less than half a bit ago (SoftwareSerial::write,
\* pollRX): BytesArrive of more than the samples that it names.
THEOREM EveryByteArrives ==
  \A byte \in 0 .. 255 :
    /\ \A off \in -40 .. 40 : Sampled(byte, off) = byte
    /\ \A late \in 0 .. bitDelay \div 2 - 1 : pollRX(byte, late) = byte
<1> TAKE byte \in 0 .. 255
<1>1. ASSUME NEW off \in -40 .. 40 PROVE Sampled(byte, off) = byte
  <2> DEFINE middle(k) == ((2 * k + 1) * 2500 * (1000 + off)) \div 1000
             look == [k \in 0 .. 9 |-> middle(k)]
  <2>1. ASSUME NEW k \in 0 .. 9
        PROVE  middle(k) \in Nat /\ 5000 * k <= middle(k) /\ middle(k) < 5000 * (k + 1)
    <3> DEFINE x == (2 * k + 1) * 2500 * (1000 + off)
    <3>1. x \in Int /\ 5000000 * k <= x /\ x < 5000000 * (k + 1)
      <4>1. k = 0 \/ k = 1 \/ k = 2 \/ k = 3 \/ k = 4 \/ k = 5 \/ k = 6 \/ k = 7 \/ k = 8 \/ k = 9
        OBVIOUS
      <4> QED BY <4>1
    <3> HIDE DEF x
    <3>2. x \div 1000 \in Nat /\ 5000 * k <= x \div 1000 /\ x \div 1000 < 5000 * (k + 1)
      BY <3>1
    <3> QED BY <3>2 DEF x
  <2>2. Sampled(byte, off) =
          IF write(byte, middle(0)) = 1 \/ write(byte, middle(9)) = 0 THEN -1
          ELSE Assembled([k \in 1 .. 8 |-> write(byte, middle(k))])
    BY Rates DEF Sampled
  <2> HIDE DEF middle
  <2>3. \A k \in 0 .. 9 : look[k] = middle(k) OBVIOUS
  <2>4. 0 \in 0 .. 9 /\ 9 \in 0 .. 9 /\ \A k \in 1 .. 8 : k \in 0 .. 9 OBVIOUS
  <2>5. SeesByte(byte, look)
    <3> HIDE DEF look
    <3>1. LooksWithin(look) BY <2>1, <2>3 DEF LooksWithin, DuringBit
    <3> QED BY <3>1, ReadWithin
  <2>6. [k \in 1 .. 8 |-> write(byte, look[k])] = [k \in 1 .. 8 |-> write(byte, middle(k))]
    BY <2>3, <2>4
  <2> HIDE DEF look
  <2> QED BY <2>2, <2>3, <2>4, <2>5, <2>6 DEF SeesByte
<1>2. ASSUME NEW late \in 0 .. bitDelay \div 2 - 1 PROVE pollRX(byte, late) = byte
  <2> DEFINE at(us) == us * 48
             look == [k \in 0 .. 9 |-> IF k = 9 THEN 45000 ELSE at(late + 52 + k * 104)]
  <2>1. late \in 0 .. 51 BY <1>2, Rates
  <2>2. \A k \in 0 .. 9 : look[k] \in Nat /\ 5000 * k <= look[k] /\ look[k] < 5000 * (k + 1)
    BY <2>1
  <2>3. pollRX(byte, late) =
          IF write(byte, at(late)) = 1 \/ write(byte, at(late + 52)) = 1 THEN -1
          ELSE Assembled([k \in 1 .. 8 |-> write(byte, at(late + 52 + k * 104))])
    <3>1. 104 \div 2 = 52 OBVIOUS
    <3> QED BY <3>1, Rates DEF pollRX
  <2>4. write(byte, at(late)) = 0
    <3>1. DuringBit(0, at(late)) BY <2>1 DEF DuringBit
    <3> HIDE DEF at
    <3>2. 0 \in 0 .. 9 OBVIOUS
    <3>3. LevelIs(byte, 0, write(byte, at(late))) BY <3>1, <3>2, Levels
    <3> QED BY <3>3 DEF LevelIs
  <2>5. look[0] = at(late + 52) BY <2>1
  <2>6. [k \in 1 .. 8 |-> write(byte, look[k])]
          = [k \in 1 .. 8 |-> write(byte, at(late + 52 + k * 104))]
    OBVIOUS
  <2> HIDE DEF at, look
  <2>7. SeesByte(byte, look)
    <3>1. LooksWithin(look) BY <2>2 DEF LooksWithin, DuringBit
    <3> QED BY <3>1, ReadWithin
  <2> QED BY <2>3, <2>4, <2>5, <2>6, <2>7 DEF SeesByte
<1> QED BY <1>1, <1>2

LEMMA SampledBytesArrive == BytesArrive
<1> SUFFICES ASSUME NEW byte \in {0, 36, 85, 170, 255}
             PROVE  /\ \A off \in {-40, 0, 40} : Sampled(byte, off) = byte
                    /\ \A late \in {0, bitDelay \div 2 - 1} : pollRX(byte, late) = byte
  BY DEF BytesArrive
<1>1. byte \in 0 .. 255 OBVIOUS
<1>2. -40 \in -40 .. 40 /\ 0 \in -40 .. 40 /\ 40 \in -40 .. 40 OBVIOUS
<1>3. 0 \in 0 .. bitDelay \div 2 - 1 /\ bitDelay \div 2 - 1 \in 0 .. bitDelay \div 2 - 1
  BY Rates
<1>4. /\ \A off \in -40 .. 40 : Sampled(byte, off) = byte
      /\ \A late \in 0 .. bitDelay \div 2 - 1 : pollRX(byte, late) = byte
  BY <1>1, EveryByteArrives, Zenon
<1>5. Sampled(byte, -40) = byte /\ Sampled(byte, 0) = byte /\ Sampled(byte, 40) = byte
  BY <1>2, <1>4
<1>6. pollRX(byte, 0) = byte /\ pollRX(byte, bitDelay \div 2 - 1) = byte BY <1>3, <1>4
<1> QED BY <1>5, <1>6

-----------------------------------------------------------------------------
(* The ring *)

Rings == [buf : [Slots -> 0 .. LINE], head : Slots, tail : Slots]

\* How far slot s is behind slot t, the slot before s and the one behind it.
Lag(s, t) == IF s >= t THEN s - t ELSE s + MESH_TX_BUF_SIZE - t
SlotBefore(s) == IF s = 0 THEN MESH_TX_BUF_SIZE - 1 ELSE s - 1
NextSlot(s) == IF s + 1 = MESH_TX_BUF_SIZE THEN 0 ELSE s + 1
Queued(r) == Lag(r.head, r.tail)
LineEnds(r) == {s \in Slots : r.buf[s] = LINE}

\* What is in the ring continues the line that the node has begun, and every
\* byte but the first of a sentence is behind the one that it continues.
InOrder(r, l) ==
    /\ r \in Rings
    /\ \A s \in Slots : r.buf[s] # Nothing <=> Lag(s, r.tail) < Queued(r)
    /\ \A s \in Slots : r.buf[s] > 1 =>
         IF s = r.tail THEN l = r.buf[s] - 1 ELSE r.buf[SlotBefore(s)] = r.buf[s] - 1

LEMMA Wrapped ==
  ASSUME NEW n \in Nat \ {0}, NEW x \in Nat, x < 2 * n
  PROVE  x % n = IF x < n THEN x ELSE x - n
<1> DEFINE q == x \div n
           m == x % n
<1>1. q \in Int /\ m \in Int /\ x = n * q + m /\ 0 <= m /\ m < n OBVIOUS
<1> HIDE DEF q
<1> SUFFICES m = IF x < n THEN x ELSE x - n OBVIOUS
<1> HIDE DEF m
<1>2. CASE q <= -1
  <2>1. n * q <= -n BY <1>1, <1>2
  <2> QED BY <1>1, <2>1
<1>3. CASE q = 0 BY <1>1, <1>3
<1>4. CASE q = 1 BY <1>1, <1>4
<1>5. CASE q >= 2
  <2>1. n * q >= 2 * n BY <1>1, <1>5
  <2> QED BY <1>1, <2>1
<1> QED BY <1>1, <1>2, <1>3, <1>4, <1>5

LEMMA SlotFacts ==
  ASSUME NEW s \in Slots, NEW t \in Slots
  PROVE  /\ (s + MESH_TX_BUF_SIZE - t) % MESH_TX_BUF_SIZE = Lag(s, t)
         /\ (s + 1) % MESH_TX_BUF_SIZE = NextSlot(s)
         /\ Lag(s, t) \in 0 .. MESH_TX_BUF_SIZE - 1
         /\ SlotBefore(s) \in Slots /\ NextSlot(s) \in Slots
         /\ SlotBefore(NextSlot(s)) = s /\ NextSlot(SlotBefore(s)) = s
         /\ Lag(s, t) = 0 <=> s = t
         /\ NextSlot(s) = t <=> Lag(s, t) = MESH_TX_BUF_SIZE - 1
         /\ NextSlot(s) # t => Lag(NextSlot(s), t) = Lag(s, t) + 1
         /\ s # t => Lag(SlotBefore(s), t) = Lag(s, t) - 1
         /\ s # t => Lag(s, NextSlot(t)) = Lag(s, t) - 1
         /\ Lag(t, NextSlot(t)) = MESH_TX_BUF_SIZE - 1
<1> DEFINE N == MESH_TX_BUF_SIZE
<1>1. N \in Nat /\ N >= 2 BY MeshtasticAssumption
<1>2. s \in Nat /\ s < N /\ t \in Nat /\ t < N BY <1>1 DEF Slots
<1> HIDE DEF N
<1>3. (s + N - t) % N = IF s + N - t < N THEN s + N - t ELSE s + N - t - N
  <2> DEFINE x == s + N - t
  <2>1. x \in Nat /\ x < 2 * N /\ N \in Nat \ {0} BY <1>1, <1>2
  <2>2. x = s + N - t OBVIOUS
  <2> HIDE DEF x
  <2>3. x % N = IF x < N THEN x ELSE x - N BY <2>1, Wrapped
  <2> QED BY <1>1, <1>2, <2>1, <2>2, <2>3
<1>4. (s + 1) % N = IF s + 1 < N THEN s + 1 ELSE s + 1 - N
  <2> DEFINE x == s + 1
  <2>1. x \in Nat /\ x < 2 * N /\ N \in Nat \ {0} BY <1>1, <1>2
  <2>2. x = s + 1 OBVIOUS
  <2> HIDE DEF x
  <2>3. x % N = IF x < N THEN x ELSE x - N BY <2>1, Wrapped
  <2> QED BY <1>1, <1>2, <2>1, <2>2, <2>3
<1>5. N = MESH_TX_BUF_SIZE BY DEF N
<1> QED BY <1>1, <1>2, <1>3, <1>4, <1>5 DEF Lag, SlotBefore, NextSlot, Slots

LEMMA LagIs ==
  ASSUME NEW s \in Slots, NEW t \in Slots
  PROVE  Lag(s, t) \in Nat /\ Lag(s, t) < MESH_TX_BUF_SIZE
BY MeshtasticAssumption DEF Lag, Slots

\* Two slots equally far behind a third are one.
LEMMA OneSlot ==
  ASSUME NEW s \in Slots, NEW u \in Slots, NEW t \in Slots, Lag(s, t) = Lag(u, t)
  PROVE  s = u
BY MeshtasticAssumption DEF Lag, Slots

LEMMA LineEndsFinite ==
  ASSUME NEW r
  PROVE  IsFiniteSet(LineEnds(r)) /\ Cardinality(LineEnds(r)) \in Nat
<1>1. IsFiniteSet(Slots)
  <2>1. 0 \in Int /\ MESH_TX_BUF_SIZE - 1 \in Int BY MeshtasticAssumption
  <2> QED BY <2>1, FS_Interval, Zenon DEF Slots
<1>2. LineEnds(r) \subseteq Slots BY DEF LineEnds
<1> QED BY <1>1, <1>2, FS_Subset, FS_CardinalityType

-----------------------------------------------------------------------------
(* A sentence goes in *)

\* A byte has been put behind another, or is the first of its sentence.
Continues(r, b) == b > 1 => Queued(r) > 0 /\ r.buf[SlotBefore(r.head)] = b - 1

PutIn(r, l, b, q) ==
    /\ InOrder(q, l) /\ q.tail = r.tail /\ Queued(q) = Queued(r) + 1
    /\ q.buf[SlotBefore(q.head)] = b
    /\ Cardinality(LineEnds(q)) = Cardinality(LineEnds(r)) + IF b = LINE THEN 1 ELSE 0

LEMMA PutWhenFull ==
  ASSUME NEW r \in Rings, NEW b, Queued(r) = MESH_TX_BUF_SIZE - 1
  PROVE  put(r, b) = r
<1>1. r.head \in Slots /\ r.tail \in Slots BY DEF Rings
<1>2. (r.head + 1) % MESH_TX_BUF_SIZE = r.tail BY <1>1, SlotFacts DEF Queued
<1> QED BY <1>2 DEF put

LEMMA PutWithRoom ==
  ASSUME NEW r, NEW l, NEW b \in 1 .. LINE, InOrder(r, l), Continues(r, b),
         Queued(r) < MESH_TX_BUF_SIZE - 1
  PROVE  PutIn(r, l, b, put(r, b))
<1> DEFINE q == put(r, b)
           h == r.head
           g == NextSlot(h)
<1>0. r \in Rings /\ h \in Slots /\ r.tail \in Slots /\ r.buf \in [Slots -> 0 .. LINE]
  BY DEF InOrder, Rings
<1>1. Queued(r) \in 0 .. MESH_TX_BUF_SIZE - 1 BY <1>0, SlotFacts DEF Queued
<1>2. g # r.tail /\ g \in Slots /\ (h + 1) % MESH_TX_BUF_SIZE = g
  BY <1>0, <1>1, SlotFacts DEF Queued
<1>3. q = [r EXCEPT !.buf[h] = b, !.head = g] BY <1>2 DEF put
<1>4. LINE \in Nat /\ b \in 0 .. LINE BY MeshtasticAssumption
<1> HIDE DEF q
<1>5. /\ q \in Rings /\ q.head = g /\ q.tail = r.tail
      /\ q.buf = [r.buf EXCEPT ![h] = b]
  BY <1>0, <1>2, <1>3, <1>4 DEF Rings
<1>6. \A s \in Slots : q.buf[s] = IF s = h THEN b ELSE r.buf[s] BY <1>0, <1>5
<1>7. Queued(q) = Queued(r) + 1 BY <1>0, <1>2, <1>5, SlotFacts DEF Queued
<1>8. SlotBefore(q.head) = h /\ q.buf[h] = b BY <1>0, <1>5, <1>6, SlotFacts
<1>9. ASSUME NEW s \in Slots PROVE q.buf[s] # Nothing <=> Lag(s, q.tail) < Queued(q)
  <2>1. Lag(s, r.tail) \in Nat /\ Queued(r) \in Nat BY <1>0, LagIs DEF Queued
  <2>2. CASE s = h BY <1>4, <1>5, <1>6, <1>7, <2>1, <2>2 DEF Queued, Nothing
  <2>3. CASE s # h
    <3>1. Lag(s, r.tail) # Queued(r) BY <1>0, <2>3, OneSlot DEF Queued
    <3>2. q.buf[s] # Nothing <=> Lag(s, r.tail) < Queued(r) BY <1>6, <2>3 DEF InOrder
    <3> QED BY <1>5, <1>7, <2>1, <3>1, <3>2
  <2> QED BY <1>1, <1>2, <2>1, <2>2, <2>3
<1>10. ASSUME NEW s \in Slots, q.buf[s] > 1
       PROVE  IF s = q.tail THEN l = q.buf[s] - 1 ELSE q.buf[SlotBefore(s)] = q.buf[s] - 1
  <2>1. CASE s = h
    <3>1. q.buf[s] = b /\ b > 1 BY <1>6, <1>10, <2>1
    <3>2. Queued(r) > 0 /\ r.buf[SlotBefore(h)] = b - 1 BY <3>1 DEF Continues
    <3>3. h # r.tail BY <1>0, <3>2, SlotFacts DEF Queued
    <3>4. SlotBefore(h) \in Slots /\ SlotBefore(h) # h
      BY <1>0, MeshtasticAssumption DEF SlotBefore, Slots
    <3> QED BY <1>5, <1>6, <2>1, <3>1, <3>2, <3>3, <3>4
  <2>2. CASE s # h
    <3>1. q.buf[s] = r.buf[s] /\ r.buf[s] > 1 BY <1>6, <1>10, <2>2
    <3>2. IF s = r.tail THEN l = r.buf[s] - 1 ELSE r.buf[SlotBefore(s)] = r.buf[s] - 1
      BY <3>1 DEF InOrder
    <3>3. CASE s = r.tail BY <1>5, <3>1, <3>2, <3>3
    <3>4. CASE s # r.tail
      <4>1. r.buf[s] # Nothing BY <1>0, <3>1 DEF Nothing
      <4>2. Lag(s, r.tail) < Queued(r) BY <4>1 DEF InOrder
      <4>3. SlotBefore(s) # h
        <5>1. Lag(SlotBefore(s), r.tail) = Lag(s, r.tail) - 1 BY <1>0, <3>4, SlotFacts
        <5>2. Lag(s, r.tail) \in Nat /\ Lag(h, r.tail) \in Nat BY <1>0, LagIs
        <5> QED BY <4>2, <5>1, <5>2 DEF Queued
      <4>4. SlotBefore(s) \in Slots BY <1>0, SlotFacts
      <4> QED BY <1>5, <1>6, <3>1, <3>2, <3>4, <4>3, <4>4
    <3> QED BY <3>3, <3>4
  <2> QED BY <2>1, <2>2
<1>11. r.buf[h] = Nothing
  <2>1. Lag(h, r.tail) = Queued(r) /\ Queued(r) \in Nat BY <1>1 DEF Queued
  <2> QED BY <1>0, <2>1 DEF InOrder
<1>12. Cardinality(LineEnds(q)) = Cardinality(LineEnds(r)) + IF b = LINE THEN 1 ELSE 0
  <2>1. h \notin LineEnds(r) BY <1>11, MeshtasticAssumption DEF LineEnds, Nothing
  <2>2. IsFiniteSet(LineEnds(r)) /\ Cardinality(LineEnds(r)) \in Nat BY LineEndsFinite
  <2>3. CASE b = LINE
    <3>1. LineEnds(q) = LineEnds(r) \cup {h} BY <1>0, <1>6, <2>3 DEF LineEnds
    <3> QED BY <2>1, <2>2, <2>3, <3>1, FS_AddElement
  <2>4. CASE b # LINE
    <3>1. LineEnds(q) = LineEnds(r) BY <1>6, <1>11, <2>1, <2>4 DEF LineEnds
    <3> QED BY <2>2, <2>4, <3>1
  <2> QED BY <2>3, <2>4
<1>13. InOrder(q, l) BY <1>5, <1>9, <1>10 DEF InOrder
<1>14. PutIn(r, l, b, q) BY <1>5, <1>7, <1>8, <1>12, <1>13 DEF PutIn
<1> QED BY <1>14 DEF q

\* The ring as the bytes of a sentence are put in, one more at a time.
Filling(ring, r, n) ==
    ring = [k \in 0 .. n |-> IF k = 0 THEN r ELSE put(ring[k - 1], Sentence[k])]

LEMMA SentenceBytes == Len(Sentence) = LINE /\ \A k \in 1 .. LINE : Sentence[k] = k
BY MeshtasticAssumption DEF Sentence

LEMMA FillingExists ==
  ASSUME NEW r
  PROVE  \E ring : Filling(ring, r, LINE) /\ txBufEnqueue(r, Sentence) = ring[LINE]
<1> DEFINE T == {n \in Nat : \E ring : Filling(ring, r, n)}
<1>1. 0 \in T
  <2> DEFINE ring == [k \in 0 .. 0 |-> r]
  <2>1. Filling(ring, r, 0) BY DEF Filling
  <2> QED BY <2>1
<1>2. ASSUME NEW m \in Nat, m \in T PROVE m + 1 \in T
  <2>1. PICK ring : Filling(ring, r, m) BY <1>2
  <2> DEFINE next == put(ring[m], Sentence[m + 1])
             g == [k \in 0 .. m + 1 |-> IF k = m + 1 THEN next ELSE ring[k]]
             h(k) == IF k = 0 THEN r ELSE put(g[k - 1], Sentence[k])
  <2>2. ASSUME NEW k \in 0 .. m + 1 PROVE g[k] = h(k)
    <3>1. CASE k = m + 1
      <4>1. k # 0 /\ k - 1 = m /\ m \in 0 .. m + 1 /\ m # m + 1 BY <3>1
      <4>2. g[m] = ring[m] /\ g[k] = next BY <3>1, <4>1
      <4> HIDE DEF g
      <4> QED BY <3>1, <4>1, <4>2
    <3>2. CASE k # m + 1
      <4>1. k \in 0 .. m /\ g[k] = ring[k] BY <3>2
      <4>2. k # 0 => k - 1 \in 0 .. m + 1 /\ k - 1 # m + 1 BY <3>2
      <4>3. k # 0 => g[k - 1] = ring[k - 1] BY <4>2
      <4> HIDE DEF g
      <4>4. ring[k] = IF k = 0 THEN r ELSE put(ring[k - 1], Sentence[k])
        BY <2>1, <4>1 DEF Filling
      <4> QED BY <4>1, <4>3, <4>4
    <3> QED BY <3>1, <3>2
  <2>3. Filling(g, r, m + 1)
    <3>1. \A k \in 0 .. m + 1 : g[k] = h(k) BY <2>2
    <3>2. g = [k \in 0 .. m + 1 |-> g[k]] OBVIOUS
    <3> HIDE DEF g
    <3>3. g = [k \in 0 .. m + 1 |-> h(k)] BY <3>1, <3>2
    <3> QED BY <3>3 DEF Filling
  <2> HIDE DEF g
  <2> QED BY <2>3
<1>3. LINE \in T
  <2> HIDE DEF T
  <2>1. Nat \subseteq T BY <1>1, <1>2, Induction
  <2> QED BY <2>1, MeshtasticAssumption
<1> DEFINE s == CHOOSE ring : Filling(ring, r, LINE)
<1>4. Filling(s, r, LINE)
  <2>1. \E ring : Filling(ring, r, LINE) BY <1>3
  <2> QED BY <2>1
<1>5. txBufEnqueue(r, Sentence) = s[LINE]
  BY SentenceBytes DEF txBufEnqueue, Filling
<1> QED BY <1>4, <1>5

\* The first m bytes of a sentence are in.
RoomIn(r) == MESH_TX_BUF_SIZE - 1 - Queued(r)
Fitting(r, n) == IF n <= RoomIn(r) THEN n ELSE RoomIn(r)
BytesIn(r, l, q, m) ==
    /\ InOrder(q, l) /\ q.tail = r.tail /\ Queued(q) = Queued(r) + m
    /\ m >= 1 => q.buf[SlotBefore(q.head)] = m
    /\ Cardinality(LineEnds(q)) = Cardinality(LineEnds(r)) + IF m = LINE THEN 1 ELSE 0

LEMMA QueuedIs ==
  ASSUME NEW r \in Rings
  PROVE  /\ Queued(r) \in Nat /\ Queued(r) <= MESH_TX_BUF_SIZE - 1
         /\ RoomIn(r) \in Nat
<1>1. r.head \in Slots /\ r.tail \in Slots BY DEF Rings
<1> QED BY <1>1, LagIs, MeshtasticAssumption DEF Queued, RoomIn

\* A sentence goes in as far as it fits.
LEMMA SentenceIn ==
  ASSUME NEW r, NEW l, InOrder(r, l)
  PROVE  BytesIn(r, l, txBufEnqueue(r, Sentence), Fitting(r, LINE))
<1>1. PICK ring : Filling(ring, r, LINE) /\ txBufEnqueue(r, Sentence) = ring[LINE]
  BY FillingExists
<1> DEFINE T == {k \in Nat : k <= LINE => BytesIn(r, l, ring[k], Fitting(r, k))}
<1>2. LINE \in Nat /\ LINE >= 3 BY MeshtasticAssumption
<1>3. ring[0] = r
  <2>1. 0 \in 0 .. LINE BY <1>2
  <2> QED BY <1>1, <2>1 DEF Filling
<1>4. r \in Rings /\ Queued(r) \in Nat /\ RoomIn(r) \in Nat BY QueuedIs DEF InOrder
<1>5. Cardinality(LineEnds(r)) \in Nat BY LineEndsFinite
<1>6. 0 \in T
  <2>1. Fitting(r, 0) = 0 BY <1>4 DEF Fitting
  <2> QED BY <1>2, <1>3, <1>4, <1>5, <2>1 DEF BytesIn
<1>7. ASSUME NEW k \in Nat, k \in T PROVE k + 1 \in T
  <2> SUFFICES ASSUME k + 1 <= LINE PROVE BytesIn(r, l, ring[k + 1], Fitting(r, k + 1)) OBVIOUS
  <2> DEFINE q == ring[k]
  <2>1. ring[k + 1] = put(q, k + 1)
    <3>1. k + 1 \in 0 .. LINE /\ k + 1 \in 1 .. LINE /\ k + 1 # 0 /\ (k + 1) - 1 = k BY <1>2
    <3>2. Sentence[k + 1] = k + 1 BY <3>1, SentenceBytes
    <3> QED BY <1>1, <3>1, <3>2 DEF Filling
  <2>2. BytesIn(r, l, q, Fitting(r, k)) BY <1>2, <1>7
  <2> HIDE DEF q
  <2>3. CASE k < RoomIn(r)
    <3>1. Fitting(r, k) = k /\ Fitting(r, k + 1) = k + 1 BY <1>4, <2>3 DEF Fitting
    <3>2. /\ InOrder(q, l) /\ q.tail = r.tail /\ Queued(q) = Queued(r) + k
          /\ k >= 1 => q.buf[SlotBefore(q.head)] = k
          /\ Cardinality(LineEnds(q)) = Cardinality(LineEnds(r))
      BY <1>5, <2>2, <3>1 DEF BytesIn
    <3>3. Continues(q, k + 1) BY <1>4, <3>2 DEF Continues
    <3>4. Queued(q) < MESH_TX_BUF_SIZE - 1
      BY <1>4, <2>3, <3>2, MeshtasticAssumption DEF RoomIn
    <3>5. k + 1 \in 1 .. LINE BY <1>2
    <3>6. PutIn(q, l, k + 1, put(q, k + 1)) BY <3>2, <3>3, <3>4, <3>5, PutWithRoom
    <3> QED BY <1>4, <1>5, <2>1, <3>1, <3>2, <3>6 DEF PutIn, BytesIn
  <2>4. CASE ~(k < RoomIn(r))
    <3>1. Fitting(r, k) = RoomIn(r) /\ Fitting(r, k + 1) = RoomIn(r) BY <1>4, <2>4 DEF Fitting
    <3>2. Queued(q) = MESH_TX_BUF_SIZE - 1
      BY <1>4, <2>2, <3>1, MeshtasticAssumption DEF BytesIn, RoomIn
    <3>3. q \in Rings BY <2>2 DEF BytesIn, InOrder
    <3>4. put(q, k + 1) = q BY <3>2, <3>3, PutWhenFull
    <3> QED BY <2>1, <2>2, <3>1, <3>4
  <2> QED BY <2>3, <2>4
<1>8. LINE \in T
  <2> HIDE DEF T
  <2>1. Nat \subseteq T BY <1>6, <1>7, Induction
  <2> QED BY <1>2, <2>1
<1> QED BY <1>1, <1>2, <1>8

-----------------------------------------------------------------------------
(* A byte goes out *)

Popped(r) ==
    [buf |-> [s \in Slots |-> IF s = r.tail THEN Nothing ELSE r.buf[s]],
     head |-> r.head, tail |-> NextSlot(r.tail)]

\* The node reads it: a line that it completes is no longer in the ring.
ReadsOn(r, q, before, after) ==
    /\ after.line \in 0 .. LINE - 1 /\ after.taken \in Nat
    /\ InOrder(q, after.line) /\ Queued(q) = Queued(r) - 1
    /\ Cardinality(LineEnds(q)) + after.taken = Cardinality(LineEnds(r)) + before.taken

LEMMA PoppedReads ==
  ASSUME NEW r, NEW e, InOrder(r, e.line), Queued(r) > 0, e.line \in 0 .. LINE - 1,
         e.taken \in Nat, e = [line |-> e.line, taken |-> e.taken]
  PROVE  /\ ReadsOn(r, Popped(r), e, NodeHears(e, r.buf[r.tail]))
         /\ NodeHears(e, r.buf[r.tail])
              = [line |-> NodeHears(e, r.buf[r.tail]).line,
                 taken |-> NodeHears(e, r.buf[r.tail]).taken]
<1> DEFINE q == Popped(r)
           t == r.tail
           g == NextSlot(t)
           b == r.buf[t]
           a == NodeHears(e, b)
<1>1. /\ r \in Rings /\ r.head \in Slots /\ t \in Slots /\ r.buf \in [Slots -> 0 .. LINE]
      /\ LINE \in Nat /\ LINE >= 3
  BY MeshtasticAssumption DEF InOrder, Rings
<1>2. g \in Slots /\ g # t /\ t # r.head /\ Queued(r) \in Nat
  <2>1. Queued(r) \in Nat BY <1>1, QueuedIs
  <2>2. g \in Slots /\ (t = r.head => Queued(r) = 0) BY <1>1, SlotFacts DEF Queued
  <2>3. g # t BY <1>1, MeshtasticAssumption DEF NextSlot, Slots
  <2> QED BY <2>1, <2>2, <2>3
<1>3. b \in 1 .. LINE
  <2>1. Lag(t, t) = 0 BY <1>1, SlotFacts
  <2>2. b # Nothing BY <1>1, <2>1 DEF InOrder
  <2> QED BY <1>1, <2>2 DEF Nothing
<1>4. b = 1 \/ (b > 1 /\ e.line = b - 1)
  BY <1>1, <1>3 DEF InOrder
<1> HIDE DEF b
<1>5. /\ a = [line |-> a.line, taken |-> a.taken]
      /\ a.line = (IF b = LINE THEN 0 ELSE b)
      /\ a.taken = e.taken + (IF b = LINE THEN 1 ELSE 0)
  <2>1. CASE b = 1
    <3>1. a = [e EXCEPT !.line = 1] BY <2>1 DEF NodeHears
    <3>2. a = [line |-> 1, taken |-> e.taken] BY <3>1
    <3> QED BY <1>1, <2>1, <3>2
  <2>2. CASE b # 1 /\ b = LINE
    <3>1. a = [line |-> 0, taken |-> e.taken + 1]
      <4>1. b = e.line + 1 BY <1>3, <1>4, <2>2
      <4> QED BY <2>2, <4>1 DEF NodeHears
    <3> QED BY <2>2, <3>1
  <2>3. CASE b # 1 /\ b # LINE
    <3>1. a = [e EXCEPT !.line = b]
      <4>1. b = e.line + 1 BY <1>3, <1>4, <2>3
      <4> QED BY <2>3, <4>1 DEF NodeHears
    <3>2. a = [line |-> b, taken |-> e.taken] BY <3>1
    <3> QED BY <2>3, <3>2
  <2> QED BY <2>1, <2>2, <2>3
<1> HIDE DEF a
<1>6. /\ q.head = r.head /\ q.tail = g
      /\ \A s \in Slots : q.buf[s] = IF s = t THEN Nothing ELSE r.buf[s]
      /\ q \in Rings
  BY <1>1, <1>2 DEF Popped, Rings, Nothing
<1> HIDE DEF q
<1>7. Queued(q) = Queued(r) - 1 BY <1>1, <1>2, <1>6, SlotFacts DEF Queued
<1>8. ASSUME NEW s \in Slots PROVE q.buf[s] # Nothing <=> Lag(s, q.tail) < Queued(q)
  <2>1. Lag(s, t) \in Nat /\ Lag(s, g) \in Nat BY <1>1, <1>2, LagIs
  <2>2. CASE s = t
    <3>1. Lag(s, g) = MESH_TX_BUF_SIZE - 1 BY <1>1, <2>2, SlotFacts
    <3>2. Queued(r) <= MESH_TX_BUF_SIZE - 1 BY <1>1, QueuedIs
    <3> QED BY <1>2, <1>6, <1>7, <2>2, <3>1, <3>2, MeshtasticAssumption
  <2>3. CASE s # t
    <3>1. Lag(s, g) = Lag(s, t) - 1 BY <1>1, <2>3, SlotFacts
    <3>2. r.buf[s] # Nothing <=> Lag(s, t) < Queued(r) BY DEF InOrder
    <3> QED BY <1>2, <1>6, <1>7, <2>1, <2>3, <3>1, <3>2
  <2> QED BY <2>2, <2>3
<1>9. ASSUME NEW s \in Slots, q.buf[s] > 1
      PROVE  IF s = q.tail THEN a.line = q.buf[s] - 1
             ELSE q.buf[SlotBefore(s)] = q.buf[s] - 1
  <2>1. s # t /\ q.buf[s] = r.buf[s] /\ r.buf[s] > 1 BY <1>6, <1>9 DEF Nothing
  <2>2. r.buf[SlotBefore(s)] = r.buf[s] - 1 BY <2>1 DEF InOrder
  <2>3. r.buf[s] \in 0 .. LINE BY <1>1
  <2>4. CASE s = g
    <3>1. SlotBefore(s) = t BY <1>1, <2>4, SlotFacts
    <3>2. b = r.buf[s] - 1 BY <2>2, <3>1 DEF b
    <3>3. b # LINE BY <1>1, <2>3, <3>2
    <3> QED BY <1>5, <1>6, <2>1, <2>4, <3>2, <3>3
  <2>5. CASE s # g
    <3>1. SlotBefore(s) # t /\ SlotBefore(s) \in Slots BY <1>1, <2>5, SlotFacts
    <3> QED BY <1>6, <2>1, <2>2, <2>5, <3>1
  <2> QED BY <2>4, <2>5
<1>10. InOrder(q, a.line) BY <1>6, <1>8, <1>9 DEF InOrder
<1>11. Cardinality(LineEnds(q)) + a.taken = Cardinality(LineEnds(r)) + e.taken
  <2>1. /\ IsFiniteSet(LineEnds(q)) /\ Cardinality(LineEnds(q)) \in Nat
        /\ Cardinality(LineEnds(r)) \in Nat
    BY LineEndsFinite
  <2>2. t \notin LineEnds(q) BY <1>1, <1>6 DEF LineEnds, Nothing
  <2>3. CASE b = LINE
    <3>1. LineEnds(r) = LineEnds(q) \cup {t}
      BY <1>1, <1>6, <2>3 DEF LineEnds, Nothing, b
    <3>2. Cardinality(LineEnds(r)) = Cardinality(LineEnds(q)) + 1
      BY <2>1, <2>2, <3>1, FS_AddElement
    <3> QED BY <1>5, <2>1, <2>3, <3>2
  <2>4. CASE b # LINE
    <3>1. LineEnds(r) = LineEnds(q) BY <1>1, <1>6, <2>4 DEF LineEnds, Nothing, b
    <3> QED BY <1>5, <2>1, <2>4, <3>1
  <2> QED BY <2>3, <2>4
<1>12. a.line \in 0 .. LINE - 1 /\ a.taken \in Nat BY <1>1, <1>3, <1>5
<1>13. ReadsOn(r, q, e, a) BY <1>7, <1>10, <1>11, <1>12 DEF ReadsOn
<1> QED BY <1>5, <1>13 DEF q, a, b

-----------------------------------------------------------------------------
(* A pass writes some bytes *)

\* What the node makes of the next bytes of the ring, one more at a time.
Hearing(ear, n) ==
    ear = [j \in 0 .. n |->
             IF j = 0 THEN [line |-> line, taken |-> 0]
             ELSE NodeHears(ear[j - 1], txBuf[advanced(txTail, j - 1)])]

LEMMA HearingExists ==
  ASSUME NEW n \in Nat
  PROVE  \E ear : Hearing(ear, n) /\ Heard(n) = ear[n]
<1> DEFINE first == [line |-> line, taken |-> 0]
           byte(j) == txBuf[advanced(txTail, j)]
           T == {m \in Nat : \E ear : Hearing(ear, m)}
<1>1. 0 \in T
  <2> DEFINE ear == [j \in 0 .. 0 |-> first]
  <2>1. Hearing(ear, 0) BY DEF Hearing
  <2> QED BY <2>1
<1>2. ASSUME NEW m \in Nat, m \in T PROVE m + 1 \in T
  <2>1. PICK ear : Hearing(ear, m) BY <1>2
  <2> DEFINE next == NodeHears(ear[m], byte(m))
             g == [j \in 0 .. m + 1 |-> IF j = m + 1 THEN next ELSE ear[j]]
             h(j) == IF j = 0 THEN first ELSE NodeHears(g[j - 1], byte(j - 1))
  <2>2. ASSUME NEW j \in 0 .. m + 1 PROVE g[j] = h(j)
    <3>1. CASE j = m + 1
      <4>1. j # 0 /\ j - 1 = m /\ m \in 0 .. m + 1 /\ m # m + 1 BY <3>1
      <4>2. g[m] = ear[m] /\ g[j] = next BY <3>1, <4>1
      <4> HIDE DEF g
      <4> QED BY <3>1, <4>1, <4>2
    <3>2. CASE j # m + 1
      <4>1. j \in 0 .. m /\ g[j] = ear[j] BY <3>2
      <4>2. j # 0 => j - 1 \in 0 .. m + 1 /\ j - 1 # m + 1 BY <3>2
      <4>3. j # 0 => g[j - 1] = ear[j - 1] BY <4>2
      <4> HIDE DEF g
      <4>4. ear[j] = IF j = 0 THEN first ELSE NodeHears(ear[j - 1], byte(j - 1))
        BY <2>1, <4>1 DEF Hearing
      <4> QED BY <4>1, <4>3, <4>4
    <3> QED BY <3>1, <3>2
  <2>3. Hearing(g, m + 1)
    <3>1. \A j \in 0 .. m + 1 : g[j] = h(j) BY <2>2
    <3>2. g = [j \in 0 .. m + 1 |-> g[j]] OBVIOUS
    <3> HIDE DEF g
    <3>3. g = [j \in 0 .. m + 1 |-> h(j)] BY <3>1, <3>2
    <3> QED BY <3>3 DEF Hearing
  <2> HIDE DEF g
  <2> QED BY <2>3
<1>3. n \in T
  <2> HIDE DEF T
  <2>1. Nat \subseteq T BY <1>1, <1>2, Induction
  <2> QED BY <2>1
<1> DEFINE s == CHOOSE ear : Hearing(ear, n)
<1>4. Hearing(s, n)
  <2>1. \E ear : Hearing(ear, n) BY <1>3
  <2> QED BY <2>1
<1>5. Heard(n) = s[n] BY DEF Heard, Hearing
<1> QED BY <1>4, <1>5

\* The ring when its first j bytes are out.
RingAfter(j) ==
    [buf |-> [s \in Slots |-> IF Lag(s, txTail) < j THEN Nothing ELSE txBuf[s]],
     head |-> txHead, tail |-> advanced(txTail, j)]

LEMMA SlotAfter ==
  ASSUME NEW t \in Slots, NEW j \in Nat, j < MESH_TX_BUF_SIZE
  PROVE  /\ advanced(t, j) \in Slots /\ Lag(advanced(t, j), t) = j
         /\ j + 1 < MESH_TX_BUF_SIZE => advanced(t, j + 1) = NextSlot(advanced(t, j))
<1> DEFINE N == MESH_TX_BUF_SIZE
           x == t + j
           y == t + (j + 1)
<1>1. N \in Nat \ {0} /\ t \in Nat /\ t < N BY MeshtasticAssumption DEF Slots
<1>2. x \in Nat /\ x < 2 * N /\ (j + 1 < N => y \in Nat /\ y < 2 * N) BY <1>1
<1>3. x = t + j /\ y = t + (j + 1) OBVIOUS
<1> HIDE DEF x, y
<1>4. x % N = IF x < N THEN x ELSE x - N BY <1>1, <1>2, Wrapped
<1>5. j + 1 < N => y % N = IF y < N THEN y ELSE y - N BY <1>1, <1>2, Wrapped
<1>6. advanced(t, j) = x % N /\ advanced(t, j + 1) = y % N BY <1>3 DEF advanced
<1> QED BY <1>1, <1>2, <1>3, <1>4, <1>5, <1>6 DEF Lag, NextSlot, Slots

LEMMA AfterNone == ASSUME InOrder(Ring, line) PROVE RingAfter(0) = Ring
<1>1. txTail \in Slots /\ txBuf \in [Slots -> 0 .. LINE] BY DEF InOrder, Rings, Ring
<1>2. \A s \in Slots : ~(Lag(s, txTail) < 0) BY <1>1, LagIs
<1>3. [s \in Slots |-> IF Lag(s, txTail) < 0 THEN Nothing ELSE txBuf[s]] = txBuf
  BY <1>1, <1>2
<1>4. advanced(txTail, 0) = txTail
  <2>1. 0 \in Nat /\ 0 < MESH_TX_BUF_SIZE BY MeshtasticAssumption
  <2>2. advanced(txTail, 0) \in Slots /\ Lag(advanced(txTail, 0), txTail) = 0
    BY <1>1, <2>1, SlotAfter
  <2> QED BY <1>1, <2>2, SlotFacts
<1> QED BY <1>3, <1>4 DEF RingAfter, Ring

LEMMA AfterOneMore ==
  ASSUME InOrder(Ring, line), NEW j \in Nat, j < Queued(Ring)
  PROVE  /\ RingAfter(j + 1) = Popped(RingAfter(j))
         /\ RingAfter(j).buf[RingAfter(j).tail] = txBuf[advanced(txTail, j)]
<1> DEFINE t == advanced(txTail, j)
<1>1. txTail \in Slots /\ Queued(Ring) <= MESH_TX_BUF_SIZE - 1 /\ Queued(Ring) \in Nat
  <2>1. Ring \in Rings BY DEF InOrder
  <2> QED BY <2>1, QueuedIs DEF Rings, Ring
<1>2. j < MESH_TX_BUF_SIZE /\ j + 1 < MESH_TX_BUF_SIZE BY <1>1, MeshtasticAssumption
<1>3. /\ t \in Slots /\ Lag(t, txTail) = j
      /\ advanced(txTail, j + 1) = NextSlot(t)
  BY <1>1, <1>2, SlotAfter
<1> HIDE DEF t
<1>4. \A s \in Slots : Lag(s, txTail) < j + 1 <=> Lag(s, txTail) < j \/ s = t
  <2> TAKE s \in Slots
  <2>1. Lag(s, txTail) \in Nat BY <1>1, LagIs
  <2>2. Lag(s, txTail) = j <=> s = t BY <1>1, <1>3, OneSlot
  <2> QED BY <2>1, <2>2
<1> DEFINE r == RingAfter(j)
<1>5. /\ r.head = txHead /\ r.tail = t
      /\ \A s \in Slots : r.buf[s] = IF Lag(s, txTail) < j THEN Nothing ELSE txBuf[s]
  BY DEF RingAfter, t
<1>6. r.buf[r.tail] = txBuf[t] BY <1>3, <1>5
<1> DEFINE left == [s \in Slots |-> IF s = r.tail THEN Nothing ELSE r.buf[s]]
           right == [s \in Slots |-> IF Lag(s, txTail) < j + 1 THEN Nothing ELSE txBuf[s]]
<1>7. left = right BY <1>4, <1>5
<1>8. RingAfter(j + 1) = [buf |-> right, head |-> txHead, tail |-> NextSlot(t)]
  BY <1>3 DEF RingAfter
<1>9. Popped(r) = [buf |-> left, head |-> txHead, tail |-> NextSlot(t)]
  BY <1>5 DEF Popped
<1>10. RingAfter(j + 1) = Popped(r)
  <2> HIDE DEF left, right, r
  <2> QED BY <1>7, <1>8, <1>9
<1> QED BY <1>6, <1>10 DEF t

\* What the node has behind j bytes, and what is left in the ring for it.
After(j, e) ==
    /\ e = [line |-> e.line, taken |-> e.taken] /\ e.line \in 0 .. LINE - 1 /\ e.taken \in Nat
    /\ InOrder(RingAfter(j), e.line) /\ Queued(RingAfter(j)) = Queued(Ring) - j
    /\ Cardinality(LineEnds(RingAfter(j))) + e.taken = Cardinality(LineEnds(Ring))

LEMMA DrainedReads ==
  ASSUME InOrder(Ring, line), line \in 0 .. LINE - 1, NEW n \in Nat, n <= Queued(Ring)
  PROVE  After(n, Heard(n))
<1>1. PICK ear : Hearing(ear, n) /\ Heard(n) = ear[n] BY HearingExists
<1> DEFINE T == {j \in Nat : j <= n => After(j, ear[j])}
<1>2. Queued(Ring) \in Nat
  <2>1. Ring \in Rings BY DEF InOrder
  <2> QED BY <2>1, QueuedIs
<1>3. Cardinality(LineEnds(Ring)) \in Nat BY LineEndsFinite
<1>4. 0 \in T
  <2>1. ear[0] = [line |-> line, taken |-> 0]
    <3>1. 0 \in 0 .. n OBVIOUS
    <3> QED BY <1>1, <3>1 DEF Hearing
  <2>2. After(0, [line |-> line, taken |-> 0]) BY <1>2, <1>3, AfterNone DEF After
  <2> QED BY <2>1, <2>2
<1>5. ASSUME NEW j \in Nat, j \in T PROVE j + 1 \in T
  <2> SUFFICES ASSUME j + 1 <= n PROVE After(j + 1, ear[j + 1]) OBVIOUS
  <2> DEFINE e == ear[j]
             r == RingAfter(j)
             a == NodeHears(e, r.buf[r.tail])
  <2>1. After(j, e) BY <1>5
  <2>2. ear[j + 1] = NodeHears(ear[j], txBuf[advanced(txTail, j)])
    <3>1. j + 1 \in 0 .. n /\ j + 1 # 0 /\ (j + 1) - 1 = j OBVIOUS
    <3> QED BY <1>1, <3>1 DEF Hearing
  <2>3. j < Queued(Ring) BY <1>2
  <2>4. RingAfter(j + 1) = Popped(r) /\ ear[j + 1] = a BY <2>2, <2>3, AfterOneMore
  <2> HIDE DEF e, r
  <2>5. /\ InOrder(r, e.line) /\ Queued(r) > 0 /\ e.line \in 0 .. LINE - 1
        /\ e.taken \in Nat /\ e = [line |-> e.line, taken |-> e.taken]
    BY <1>2, <2>1, <2>3 DEF After, r
  <2>6. ReadsOn(r, Popped(r), e, a) /\ a = [line |-> a.line, taken |-> a.taken]
    BY <2>5, PoppedReads
  <2> HIDE DEF a
  <2>7. Queued(r) = Queued(Ring) - j
        /\ Cardinality(LineEnds(r)) + e.taken = Cardinality(LineEnds(Ring))
    BY <2>1 DEF After, r
  <2>8. Queued(Popped(r)) = Queued(Ring) - (j + 1) BY <1>2, <2>6, <2>7 DEF ReadsOn
  <2>9. Cardinality(LineEnds(Popped(r))) + a.taken = Cardinality(LineEnds(Ring))
    BY <2>6, <2>7 DEF ReadsOn
  <2> QED BY <2>4, <2>6, <2>8, <2>9 DEF After, ReadsOn
<1>6. n \in T
  <2> HIDE DEF T
  <2>1. Nat \subseteq T BY <1>4, <1>5, Induction
  <2> QED BY <2>1
<1> QED BY <1>1, <1>6

-----------------------------------------------------------------------------
(* The feed *)

\* Every sentence that went in whole is on its way, in order and alone.
RingInv ==
    /\ InOrder(Ring, line) /\ line \in 0 .. LINE - 1
    /\ owed = Cardinality(LineEnds(Ring)) /\ ~garbled

\* Unless the ring was crowded: no more than a position is in it, or a position
\* was put on top of another and drains as the interval passes.  A pass has
\* written its share before it puts one in.
RoomInv ==
    ~crowded =>
    \/ Used + MAX_BYTES * elapsed <= 4 * LINE - MAX_BYTES
    \/ pass = "serial" /\ Used <= 2 * LINE
    \/ pass = "send" /\ (Used = 0 \/ Used <= 2 * LINE - MAX_BYTES)

FeedInv ==
    /\ pass \in {"serial", "send"} /\ crowded \in BOOLEAN /\ elapsed \in 0 .. INTERVAL
    /\ RingInv /\ RoomInv /\ ~dropped

LEMMA UsedIs ==
  ASSUME InOrder(Ring, line)
  PROVE  /\ Used = Queued(Ring) /\ Free = RoomIn(Ring)
         /\ Used \in Nat /\ Free \in Nat /\ Free = MESH_TX_BUF_SIZE - 1 - Used
         /\ Used = 0 <=> txHead = txTail
<1>1. Ring \in Rings /\ txHead \in Slots /\ txTail \in Slots BY DEF InOrder, Rings, Ring
<1>2. Used = Lag(txHead, txTail) BY <1>1, SlotFacts DEF Used
<1>3. Queued(Ring) = Lag(txHead, txTail) BY DEF Queued, Ring
<1> QED BY <1>1, <1>2, <1>3, QueuedIs, SlotFacts DEF Free, RoomIn

\* The same of the ring behind a step.
LEMMA UsedWillBe ==
  ASSUME InOrder(Ring', line')
  PROVE  /\ Used' = Queued(Ring') /\ Used' \in Nat
         /\ Used' = 0 <=> txHead' = txTail'
<1>1. Ring' \in Rings /\ txHead' \in Slots /\ txTail' \in Slots
  BY DEF InOrder, Rings, Ring
<1>2. Used' = Lag(txHead', txTail') BY <1>1, SlotFacts DEF Used
<1>3. Queued(Ring') = Lag(txHead', txTail') BY DEF Queued, Ring
<1> QED BY <1>1, <1>2, <1>3, QueuedIs, SlotFacts

LEMMA LinesIn ==
  ASSUME RingInv, NEW n \in {1, 2}, send_nmea_lines(n)
  PROVE  /\ RingInv' /\ Used' <= Used + n * LINE
         /\ n * LINE <= Free \/ crowded' => (dropped' => dropped)
<1> DEFINE one == txBufEnqueue(Ring, Sentence)
           r == IF n = 1 THEN one ELSE txBufEnqueue(one, Sentence)
           fit == IF Free >= n * LINE THEN n ELSE IF Free >= LINE THEN 1 ELSE 0
<1>1. /\ txBuf' = r.buf /\ txHead' = r.head /\ txTail' = txTail
      /\ owed' = owed + fit /\ dropped' = (dropped \/ (fit < n /\ ~crowded'))
      /\ line' = line /\ garbled' = garbled
  BY DEF send_nmea_lines
<1>2. BytesIn(Ring, line, one, Fitting(Ring, LINE)) BY SentenceIn DEF RingInv
<1> DEFINE two == txBufEnqueue(one, Sentence)
<1>3. BytesIn(one, line, two, Fitting(one, LINE)) BY <1>2, SentenceIn DEF BytesIn
<1>4. /\ Used = Queued(Ring) /\ Free = RoomIn(Ring) /\ Used \in Nat /\ Free \in Nat
      /\ Free = MESH_TX_BUF_SIZE - 1 - Used
  BY UsedIs DEF RingInv
<1>5. LINE \in Nat /\ LINE >= 3 /\ MESH_TX_BUF_SIZE \in Nat BY MeshtasticAssumption
<1> HIDE DEF one, two
<1> DEFINE m == Fitting(Ring, LINE)
           m2 == Fitting(one, LINE)
           c == Cardinality(LineEnds(Ring))
<1>6. c \in Nat /\ owed = c BY LineEndsFinite DEF RingInv
<1>7. m = IF LINE <= Free THEN LINE ELSE Free BY <1>4 DEF Fitting
<1>8. RoomIn(one) = Free - m /\ Queued(one) = Used + m
  BY <1>2, <1>4, <1>5, <1>7 DEF BytesIn, RoomIn
<1>9. m2 = IF LINE <= Free - m THEN LINE ELSE Free - m BY <1>8 DEF Fitting
<1>10. InOrder(one, line) /\ one.tail = txTail
       /\ Cardinality(LineEnds(one)) = c + IF m = LINE THEN 1 ELSE 0
  BY <1>2 DEF BytesIn, Ring
<1>11. InOrder(two, line) /\ two.tail = txTail /\ Queued(two) = Used + m + m2
       /\ Cardinality(LineEnds(two)) = c + (IF m = LINE THEN 1 ELSE 0) + IF m2 = LINE THEN 1 ELSE 0
  BY <1>3, <1>4, <1>8, <1>10 DEF BytesIn
<1> HIDE DEF m, m2, c
<1>12. \A q \in Rings : q = [buf |-> q.buf, head |-> q.head, tail |-> q.tail] BY DEF Rings
<1>13. n * LINE <= Free \/ crowded' => (dropped' => dropped)
  <2> SUFFICES ASSUME n * LINE <= Free \/ crowded', dropped' PROVE dropped OBVIOUS
  <2>1. n * LINE <= Free => ~(fit < n)
    <3>1. n \in Nat /\ n * LINE \in Nat BY <1>5
    <3> QED BY <1>4, <3>1
  <2> HIDE DEF fit
  <2>2. ~(fit < n /\ ~crowded') BY <2>1
  <2> QED BY Zenon, <1>1, <2>2
<1>14. CASE n = 1
  <2>1. Ring' = one BY <1>1, <1>10, <1>12, <1>14 DEF Ring, InOrder
  <2>2. Used' = Used + m BY <1>1, <1>8, <1>10, <2>1, UsedWillBe
  <2>3. owed' = Cardinality(LineEnds(Ring'))
    BY <1>1, <1>4, <1>5, <1>6, <1>7, <1>10, <1>14, <2>1
  <2>4. RingInv' BY <1>1, <1>10, <2>1, <2>3 DEF RingInv
  <2>5. m <= LINE /\ n * LINE = LINE /\ m \in Nat BY <1>4, <1>5, <1>7, <1>14
  <2>6. Used' <= Used + n * LINE BY <1>4, <1>5, <2>2, <2>5
  <2> QED BY <1>13, <2>4, <2>6
<1>15. CASE n = 2
  <2>1. Ring' = two BY <1>1, <1>11, <1>12, <1>15 DEF Ring, InOrder, two
  <2>2. Used' = Used + m + m2 BY <1>1, <1>11, <2>1, UsedWillBe
  <2>3. owed' = Cardinality(LineEnds(Ring'))
    BY <1>1, <1>4, <1>5, <1>6, <1>7, <1>9, <1>11, <1>15, <2>1
  <2>4. RingInv' BY <1>1, <1>11, <2>1, <2>3 DEF RingInv
  <2>5. /\ m <= LINE /\ n * LINE = LINE + LINE /\ m \in Nat
        /\ m2 <= LINE /\ m2 \in Nat
    BY <1>4, <1>5, <1>7, <1>9, <1>15
  <2>6. Used' <= Used + n * LINE BY <1>4, <1>5, <2>2, <2>5
  <2> QED BY <1>13, <2>4, <2>6
<1> QED BY <1>14, <1>15

LEMMA UpdateRing ==
  ASSUME RingInv, MeshtasticInterface_update
  PROVE  RingInv' /\ Used' = IF MAX_BYTES <= Used THEN Used - MAX_BYTES ELSE 0
<1> DEFINE k == drained(MAX_BYTES)
           out == {advanced(txTail, j - 1) : j \in 1 .. k}
           ear == Heard(k)
<1>1. /\ txTail' = advanced(txTail, k) /\ txHead' = txHead
      /\ txBuf' = [s \in Slots |-> IF s \in out THEN Nothing ELSE txBuf[s]]
      /\ line' = ear.line
      /\ owed' = IF ear.taken <= owed THEN owed - ear.taken ELSE 0
      /\ garbled' = (garbled \/ ear.taken > owed)
  BY DEF MeshtasticInterface_update
<1>2. /\ Used = Queued(Ring) /\ Used \in Nat /\ Used < MESH_TX_BUF_SIZE
      /\ txTail \in Slots
  <2>1. Ring \in Rings BY DEF RingInv, InOrder
  <2> QED BY <2>1, UsedIs, QueuedIs, MeshtasticAssumption DEF RingInv, Rings, Ring
<1>3. k \in Nat /\ k <= Used /\ k = IF MAX_BYTES <= Used THEN MAX_BYTES ELSE Used
  BY <1>2, MeshtasticAssumption DEF drained
<1> HIDE DEF k
<1>4. After(k, ear) BY <1>2, <1>3, DrainedReads DEF RingInv
<1>5. \A s \in Slots : s \in out <=> Lag(s, txTail) < k
  <2> TAKE s \in Slots
  <2>1. Lag(s, txTail) \in Nat BY <1>2, LagIs
  <2>2. ASSUME s \in out PROVE Lag(s, txTail) < k
    <3>1. PICK j \in 1 .. k : s = advanced(txTail, j - 1) BY <2>2
    <3>2. j - 1 \in Nat /\ j - 1 < MESH_TX_BUF_SIZE /\ j - 1 < k
      BY <1>2, <1>3, MeshtasticAssumption
    <3>3. Lag(s, txTail) = j - 1 BY <1>2, <3>1, <3>2, SlotAfter
    <3> QED BY <3>2, <3>3
  <2>3. ASSUME Lag(s, txTail) < k PROVE s \in out
    <3> DEFINE i == Lag(s, txTail)
    <3>1. i \in Nat /\ i < MESH_TX_BUF_SIZE /\ i + 1 \in 1 .. k /\ (i + 1) - 1 = i
      BY <1>2, <1>3, <2>1, <2>3, MeshtasticAssumption
    <3>2. advanced(txTail, i) \in Slots /\ Lag(advanced(txTail, i), txTail) = i
      BY <1>2, <3>1, SlotAfter
    <3>3. s = advanced(txTail, i) BY <1>2, <3>2, OneSlot
    <3> HIDE DEF i
    <3> QED BY <3>1, <3>3
  <2> QED BY <2>2, <2>3
<1> HIDE DEF out, ear
<1>6. Ring' = RingAfter(k)
  <2>1. txBuf' = [s \in Slots |-> IF Lag(s, txTail) < k THEN Nothing ELSE txBuf[s]]
    BY <1>1, <1>5
  <2> QED BY <1>1, <2>1 DEF Ring, RingAfter
<1>7. InOrder(Ring', line') /\ Queued(Ring') = Used - k /\ line' \in 0 .. LINE - 1
  BY <1>1, <1>2, <1>4, <1>6 DEF After
<1>8. owed' = Cardinality(LineEnds(Ring')) /\ ~garbled'
  <2> DEFINE c == Cardinality(LineEnds(RingAfter(k)))
  <2>1. c \in Nat /\ ear.taken \in Nat /\ owed = c + ear.taken
    BY <1>4, LineEndsFinite DEF After, RingInv
  <2>2. Cardinality(LineEnds(Ring')) = c BY <1>6
  <2> HIDE DEF c
  <2>3. ~(ear.taken > owed) /\ owed' = c BY <1>1, <2>1
  <2>4. ~garbled' BY Zenon, <1>1, <2>3 DEF RingInv
  <2> QED BY <2>2, <2>3, <2>4
<1>9. RingInv' BY <1>7, <1>8 DEF RingInv
<1>10. Used' = Used - k BY <1>7, UsedWillBe
<1> QED BY <1>2, <1>3, <1>9, <1>10, MeshtasticAssumption

LEMMA Paces ==
  ASSUME NEW e \in 0 .. INTERVAL
  PROVE  /\ MAX_BYTES * e \in Nat /\ MAX_BYTES * (e + 1) = MAX_BYTES * e + MAX_BYTES
         /\ MAX_BYTES * INTERVAL \in Nat /\ MAX_BYTES * 0 = 0
BY MeshtasticAssumption

\* The bounds of the ring's headroom, the product of the interval apart.
LEMMA Headroom ==
  /\ LINE \in Nat /\ LINE >= 3 /\ MAX_BYTES \in Nat /\ MAX_BYTES > 0
  /\ INTERVAL \in Nat /\ INTERVAL > 0
  /\ MESH_TX_BUF_SIZE \in Nat /\ 2 * LINE < MESH_TX_BUF_SIZE
  /\ 4 * LINE < MESH_TX_BUF_SIZE + MAX_BYTES
BY MeshtasticAssumption, HeadroomAssumption

LEMMA IntervalDrains == 2 * LINE <= MAX_BYTES * INTERVAL
BY HeadroomAssumption

LEMMA Emptied ==
  ASSUME MeshtasticInterface_init
  PROVE  FeedInv
<1>1. MESH_TX_BUF_SIZE \in Nat /\ MESH_TX_BUF_SIZE >= 2 /\ LINE \in Nat /\ LINE >= 3
  BY MeshtasticAssumption
<1>2. 0 \in Slots /\ 0 \in 0 .. LINE BY <1>1 DEF Slots
<1>3. txBuf = [s \in Slots |-> 0] /\ txHead = 0 /\ txTail = 0 /\ line = 0
  BY DEF MeshtasticInterface_init, Nothing
<1>4. Ring \in Rings /\ Queued(Ring) = 0
  BY <1>2, <1>3 DEF Rings, Ring, Queued, Lag
<1>5. \A s \in Slots : Ring.buf[s] = 0 /\ Lag(s, Ring.tail) >= 0
  BY <1>2, <1>3, LagIs DEF Ring
<1>6. InOrder(Ring, line)
  <2>1. \A s \in Slots : ~(Lag(s, Ring.tail) < 0)
    BY <1>2, <1>3, LagIs DEF Ring
  <2>2. \A s \in Slots : ~(Ring.buf[s] > 1) BY <1>5
  <2> QED BY <1>4, <1>5, <2>1, <2>2 DEF InOrder, Nothing
<1>7. LineEnds(Ring) = {} BY <1>1, <1>5 DEF LineEnds
<1>8. Cardinality(LineEnds(Ring)) = 0 BY <1>7, FS_EmptySet
<1>9. RingInv
  BY <1>1, <1>3, <1>6, <1>8 DEF RingInv, MeshtasticInterface_init
<1>10. Used = 0 BY <1>3, <1>6, UsedIs
<1>11. 0 \in 0 .. INTERVAL /\ Used <= 2 * LINE BY <1>10, Headroom
<1> QED BY <1>9, <1>10, <1>11 DEF FeedInv, RoomInv, MeshtasticInterface_init

LEMMA TestSentencesKeep ==
  ASSUME FeedInv, sendTestNMEA
  PROVE  FeedInv'
<1>1. 2 \in {1, 2} /\ RingInv /\ send_nmea_lines(2) /\ crowded' = TRUE
  BY DEF sendTestNMEA, FeedInv
<1>2. RingInv' /\ (dropped' => dropped) BY <1>1, LinesIn
<1> QED BY <1>1, <1>2 DEF FeedInv, RoomInv, sendTestNMEA

LEMMA UpdateKeeps ==
  ASSUME FeedInv, MeshtasticInterface_update
  PROVE  FeedInv'
<1> DEFINE u == Used
           e == elapsed
           p == MAX_BYTES * elapsed
           q == MAX_BYTES * INTERVAL
<1>1. RingInv' /\ Used' = IF MAX_BYTES <= u THEN u - MAX_BYTES ELSE 0
  BY UpdateRing DEF FeedInv
<1>2. /\ pass = "serial" /\ pass' = "send"
      /\ elapsed' = IF e < INTERVAL THEN e + 1 ELSE e
      /\ crowded' = (crowded /\ txTail' # txHead) /\ txHead' = txHead /\ dropped' = dropped
  BY DEF MeshtasticInterface_update
<1>3. u \in Nat /\ e \in 0 .. INTERVAL BY UsedIs DEF FeedInv, RingInv
<1>4. /\ p \in Nat /\ MAX_BYTES * (e + 1) = p + MAX_BYTES /\ q \in Nat
      /\ (e = INTERVAL => p = q) /\ 2 * LINE <= q
  BY <1>3, Paces, IntervalDrains
<1>5. RoomInv'
  <2> SUFFICES ASSUME ~crowded' PROVE RoomInv' BY DEF RoomInv
  <2>1. CASE Used' = 0 BY <1>2, <2>1 DEF RoomInv
  <2>2. CASE Used' # 0
    <3>1. u = Used' + MAX_BYTES /\ u # 0 BY <1>1, <1>3, <2>2, Headroom
    <3>2. ~crowded
      <4>1. txTail' # txHead'
        <5>1. InOrder(Ring', line') BY <1>1 DEF RingInv
        <5> QED BY <2>2, <5>1, UsedWillBe
      <4> QED BY <1>2, <4>1
    <3> DEFINE w == Used'
               b == MAX_BYTES
    <3>3. w \in Nat /\ b \in Nat /\ u \in Nat /\ u = w + b
      BY <1>1, <1>3, <3>1, Headroom
    <3> HIDE DEF u, w, b
    <3>4. CASE u <= 2 * LINE
      <4>1. w <= 2 * LINE - b BY <3>3, <3>4, Headroom
      <4>2. Used' <= 2 * LINE - MAX_BYTES BY <4>1 DEF w, b
      <4> QED BY <1>2, <4>2 DEF RoomInv
    <3>5. CASE u + p <= 4 * LINE - MAX_BYTES /\ e < INTERVAL
      <4>1. elapsed' = e + 1 BY <1>2, <3>5
      <4>2. MAX_BYTES * elapsed' = p + MAX_BYTES BY <1>4, <4>1
      <4>3. w + (p + b) <= 4 * LINE - MAX_BYTES
        <5> HIDE DEF p
        <5>1. u + p <= 4 * LINE - b BY <3>5 DEF b
        <5>2. w + (p + b) <= 4 * LINE - b BY <1>4, <3>3, <5>1, Headroom
        <5> QED BY <5>2 DEF b
      <4>4. Used' + MAX_BYTES * elapsed' <= 4 * LINE - MAX_BYTES BY <4>2, <4>3 DEF w, b
      <4> QED BY <4>4 DEF RoomInv
    <3>6. CASE u + p <= 4 * LINE - MAX_BYTES /\ e = INTERVAL
      <4>1. u + q <= 4 * LINE - b BY <1>4, <3>6 DEF b
      <4> HIDE DEF q
      <4>2. u <= 2 * LINE BY <1>4, <3>3, <4>1, Headroom
      <4> QED BY <3>4, <4>2
    <3>7. u <= 2 * LINE \/ u + p <= 4 * LINE - MAX_BYTES
      BY <1>2, <3>2 DEF FeedInv, RoomInv, u
    <3>8. e < INTERVAL \/ e = INTERVAL BY <1>3, Headroom
    <3> QED BY <3>4, <3>5, <3>6, <3>7, <3>8
  <2> QED BY <2>1, <2>2
<1>6. elapsed' \in 0 .. INTERVAL BY <1>2, <1>3, Headroom
<1>7. crowded' \in BOOLEAN BY <1>2 DEF FeedInv
<1> QED BY <1>1, <1>2, <1>5, <1>6, <1>7 DEF FeedInv

\* A position is due with an empty ring, or on top of one that has begun to go.
LEMMA FeedKeeps ==
  ASSUME FeedInv, NEW n \in {1, 2}, Feed(n)
  PROVE  FeedInv'
<1> DEFINE q == MAX_BYTES * INTERVAL
<1>1. /\ pass = "send" /\ elapsed >= INTERVAL /\ crowded' = crowded
      /\ send_nmea_lines(n) /\ elapsed' = 0 /\ pass' = "serial"
  BY DEF Feed
<1>2. RingInv' /\ Used' <= Used + n * LINE
      /\ ((n * LINE <= Free \/ crowded') => (dropped' => dropped))
  BY <1>1, LinesIn DEF FeedInv
<1>3. /\ Used \in Nat /\ Free = MESH_TX_BUF_SIZE - 1 - Used
  BY UsedIs DEF FeedInv, RingInv
<1>4. Used' \in Nat
  <2>1. InOrder(Ring', line') BY <1>2 DEF RingInv
  <2> QED BY <2>1, UsedWillBe
<1>5. elapsed \in 0 .. INTERVAL /\ elapsed = INTERVAL BY <1>1, Headroom DEF FeedInv
<1>6. /\ MAX_BYTES * elapsed = q /\ q \in Nat /\ MAX_BYTES * elapsed' = 0
      /\ 2 * LINE <= q
  BY <1>1, <1>5, Paces, Headroom, IntervalDrains
<1>7. n * LINE \in Nat /\ n * LINE <= 2 * LINE BY Headroom
<1>8. ~crowded => RoomInv' /\ ~dropped'
  <2> SUFFICES ASSUME ~crowded PROVE RoomInv' /\ ~dropped' OBVIOUS
  <2>1. Used = 0 \/ Used <= 2 * LINE - MAX_BYTES
    <3>1. \/ Used + q <= 4 * LINE - MAX_BYTES
          \/ Used = 0 \/ Used <= 2 * LINE - MAX_BYTES
      BY <1>1, <1>6 DEF FeedInv, RoomInv
    <3> HIDE DEF q
    <3> QED BY <1>3, <1>6, <3>1, Headroom
  <2> HIDE DEF q
  <2>2. CASE Used = 0
    <3>1. n * LINE <= Free /\ Used' <= 2 * LINE BY <1>2, <1>3, <1>4, <1>7, <2>2, Headroom
    <3> QED BY <1>1, <1>2, <3>1 DEF RoomInv, FeedInv
  <2>3. CASE Used <= 2 * LINE - MAX_BYTES
    <3>1. n * LINE <= Free /\ Used' <= 4 * LINE - MAX_BYTES
      BY <1>2, <1>3, <1>4, <1>7, <2>3, Headroom
    <3>2. Used' + MAX_BYTES * elapsed' <= 4 * LINE - MAX_BYTES BY <1>4, <1>6, <3>1, Headroom
    <3> QED BY <1>2, <3>1, <3>2 DEF RoomInv, FeedInv
  <2> QED BY <2>1, <2>2, <2>3
<1>9. crowded => RoomInv' /\ ~dropped' BY <1>1, <1>2 DEF RoomInv, FeedInv
<1>10. elapsed' \in 0 .. INTERVAL BY <1>1, <1>5, Headroom
<1> QED BY <1>1, <1>2, <1>8, <1>9, <1>10 DEF FeedInv

LEMMA NotDueKeeps ==
  ASSUME FeedInv, NotDue
  PROVE  FeedInv'
<1>1. /\ txBuf' = txBuf /\ txHead' = txHead /\ txTail' = txTail /\ elapsed' = elapsed
      /\ line' = line /\ owed' = owed /\ garbled' = garbled
      /\ crowded' = crowded /\ dropped' = dropped /\ pass = "send" /\ pass' = "serial"
  BY DEF NotDue
<1>2. Ring' = Ring /\ Used' = Used BY <1>1 DEF Ring, Used
<1>3. RingInv' BY <1>1, <1>2 DEF RingInv, FeedInv
<1>4. Used \in Nat BY UsedIs DEF FeedInv, RingInv
<1>5. Used = 0 \/ Used <= 2 * LINE - MAX_BYTES => Used <= 2 * LINE BY <1>4, Headroom
<1>6. RoomInv' BY <1>1, <1>2, <1>5 DEF RoomInv, FeedInv
<1> QED BY <1>1, <1>3, <1>6 DEF FeedInv

\* A delay begins with no more than a position in the ring, or crowds it.
LEMMA BlockingCallKeeps ==
  ASSUME FeedInv, BlockingCall
  PROVE  FeedInv'
<1>1. /\ txBuf' = txBuf /\ txHead' = txHead /\ txTail' = txTail
      /\ elapsed' \in elapsed + 1 .. INTERVAL
      /\ line' = line /\ owed' = owed /\ garbled' = garbled /\ pass' = pass
      /\ dropped' = dropped /\ pass = "serial"
      /\ crowded' = (crowded \/ Used > 2 * LINE)
  BY DEF BlockingCall
<1>2. Ring' = Ring /\ Used' = Used BY <1>1 DEF Ring, Used
<1>3. RingInv' BY <1>1, <1>2 DEF RingInv, FeedInv
<1>4. Used \in Nat /\ elapsed \in 0 .. INTERVAL BY UsedIs DEF FeedInv, RingInv
<1>5. RoomInv'
  <2> SUFFICES ASSUME ~crowded' PROVE RoomInv' BY DEF RoomInv
  <2>1. ~(Used > 2 * LINE) BY Zenon, <1>1
  <2>2. Used <= 2 * LINE BY <1>4, <2>1, Headroom
  <2> QED BY <1>1, <1>2, <2>2 DEF RoomInv
<1>6. elapsed' \in 0 .. INTERVAL BY <1>1, <1>4, Headroom
<1>7. crowded' \in BOOLEAN BY <1>1 DEF FeedInv
<1> QED BY <1>1, <1>3, <1>5, <1>6, <1>7 DEF FeedInv

\* The ring holds the sentences that went in whole, in order and alone, and has
\* room for the next position, calls that hold the loop up included, unless the
\* operator fills it or such a call begins with more than a position in it.
THEOREM FeedInvariant == MeshSpec => []FeedInv
<1>1. MeshtasticInterface_init => FeedInv BY Emptied
<1>2. FeedInv /\ [MeshNext]_meshVars => FeedInv'
  <2> SUFFICES ASSUME FeedInv, [MeshNext]_meshVars PROVE FeedInv' OBVIOUS
  <2>1. CASE sendTestNMEA BY <2>1, TestSentencesKeep
  <2>2. CASE MeshtasticInterface_update BY <2>2, UpdateKeeps
  <2>3. CASE NotDue BY <2>3, NotDueKeeps
  <2>4. CASE BlockingCall BY <2>4, BlockingCallKeeps
  <2>5. CASE \E lines \in {1, 2} : Feed(lines) BY <2>5, FeedKeeps
  <2>6. CASE UNCHANGED meshVars
    <3>1. Ring' = Ring /\ Used' = Used BY <2>6 DEF meshVars, Ring, Used
    <3>2. RingInv' BY <2>6, <3>1 DEF meshVars, RingInv, FeedInv
    <3>3. RoomInv' BY <2>6, <3>1 DEF meshVars, RoomInv, FeedInv
    <3> QED BY <2>6, <3>2, <3>3 DEF meshVars, FeedInv
  <2> QED BY <2>1, <2>2, <2>3, <2>4, <2>5, <2>6 DEF MeshNext
<1> QED BY <1>1, <1>2, PTL DEF MeshSpec

\* WholeSentencesArrive: the node takes as many sentences as fitted and none
\* glued together, an empty ring owes none, and the wire keeps every byte.
THEOREM SentencesArriveWhole == MeshSpec => []WholeSentencesArrive
<1>1. FeedInv => WholeSentencesArrive
  <2> SUFFICES ASSUME FeedInv PROVE WholeSentencesArrive OBVIOUS
  <2>1. InOrder(Ring, line) /\ owed = Cardinality(LineEnds(Ring)) /\ ~garbled
    BY DEF FeedInv, RingInv
  <2>2. ASSUME txHead = txTail PROVE owed = 0
    <3>1. Queued(Ring) = 0 BY <2>1, <2>2, UsedIs
    <3>2. \A s \in Slots : Lag(s, txTail) \in Nat
      <4>1. txTail \in Slots BY <2>1 DEF InOrder, Rings, Ring
      <4> QED BY <4>1, LagIs
    <3>3. \A s \in Slots : Ring.buf[s] = 0 BY <2>1, <3>1, <3>2 DEF InOrder, Ring, Nothing
    <3>4. LineEnds(Ring) = {} BY <3>3, Headroom DEF LineEnds
    <3> QED BY <2>1, <3>4, FS_EmptySet
  <2> QED BY <2>1, <2>2, SampledBytesArrive DEF WholeSentencesArrive
<1> QED BY <1>1, FeedInvariant, PTL

\* PositionsFit: no position loses a byte, reports, upgrades, manual sessions and
\* receiver restarts in any pass included, unless the operator adds test
\* sentences or such a call begins with more than a position still in the ring.
THEOREM PositionsAlwaysFit == MeshSpec => []PositionsFit
<1>1. FeedInv => PositionsFit BY DEF FeedInv, PositionsFit
<1> QED BY <1>1, FeedInvariant, PTL
=============================================================================
