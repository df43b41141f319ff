------------------------- MODULE NeoPixelController -------------------------
(***************************************************************************)
(* The light strip (modules/neopixel_controller.cpp): a mode, a buffer     *)
(* that a pattern paints, and the strip itself, which keeps what the last  *)
(* ws_show clocked out.  Patterns are told apart by colour, brightness and *)
(* whether they are in their lit phase; the positions of an animation are  *)
(* not.                                                                    *)
(***************************************************************************)
EXTENDS Naturals

CONSTANTS NEOPIXEL_BRIGHTNESS, FULL_BRIGHTNESS,
          LUA_COMMAND_TIMEOUT   \* age at which a command of Lua's is over

ASSUME NeoPixelAssumption ==
    /\ NEOPIXEL_BRIGHTNESS \in Nat \ {0} /\ FULL_BRIGHTNESS \in Nat
    /\ FULL_BRIGHTNESS > NEOPIXEL_BRIGHTNESS
    /\ LUA_COMMAND_TIMEOUT \in Nat \ {0}

LEDModes == {"STANDBY", "READY", "ERROR", "DIVING", "LUA", "RECOVERY"}

\* What a strip shows.
Dark == [colour |-> "none", level |-> 0]
Lit(colour, level) == IF level = 0 THEN Dark ELSE [colour |-> colour, level |-> level]

ledsInit ==
    [currentMode |-> "STANDBY", forceRefresh |-> TRUE, lastBlinkOn |-> FALSE,
     brightness |-> NEOPIXEL_BRIGHTNESS,
     luaPattern |-> "OFF", luaCommanded |-> FALSE, luaAge |-> LUA_COMMAND_TIMEOUT,
     strip |-> Dark]

LedsElapse(l, d) ==
    [l EXCEPT !.luaAge = IF @ + d > LUA_COMMAND_TIMEOUT THEN LUA_COMMAND_TIMEOUT ELSE @ + d]

setMode(l, mode) ==
    [l EXCEPT !.currentMode = mode, !.forceRefresh = @ \/ mode # l.currentMode]

\* A brightness of zero means the one before.
setLuaCommand(l, pattern, brt) ==
    [l EXCEPT !.luaPattern = pattern, !.luaCommanded = TRUE, !.luaAge = 0,
              !.brightness = IF brt > 0 THEN brt ELSE @]

isLuaActive(l) == l.luaCommanded /\ l.luaAge < LUA_COMMAND_TIMEOUT

\* Seeded fault: the strip turns white and the mode stays.
solidWhiteKeepsMode(l) == [l EXCEPT !.strip = Lit("white", FULL_BRIGHTNESS)]

\* Painted at once, whatever the pattern; the next pass sets its mode anew.
setSolidWhite(l) ==
    [l EXCEPT !.strip = Lit("white", FULL_BRIGHTNESS), !.currentMode = "RECOVERY"]

\* A full channel at brightness b: (255 * b) >> 8.
Scaled(b) == (255 * b) \div 256

Blinks(mode) == mode \in {"STANDBY", "READY", "ERROR", "RECOVERY"}

\* What the pattern of the mode paints in a lit phase or a dark one.
PaintedWith(l, on, beacon) ==
    CASE l.currentMode = "DIVING" -> Dark
      [] l.currentMode = "LUA" ->
           IF l.luaPattern = "OFF" \/ (l.luaPattern = "STROBE" /\ ~on) THEN Dark
           ELSE Lit("lua", Scaled(l.brightness))
      [] Blinks(l.currentMode) /\ ~on -> Dark
      [] l.currentMode = "STANDBY" /\ on -> Lit("white", Scaled(l.brightness))
      [] l.currentMode = "READY" /\ on -> Lit("green", Scaled(l.brightness))
      [] l.currentMode = "ERROR" /\ on -> Lit("red", Scaled(l.brightness))
      [] l.currentMode = "RECOVERY" /\ on -> Lit("white", beacon)

\* Only the beacon's bypasses the brightness.
Painted(l, on) == PaintedWith(l, on, FULL_BRIGHTNESS)

\* NeoPixelController_update behind its 20 ms throttle, on the phase of the
\* clock at that moment: shown when the mode is new, when the beat turns and
\* always for Lua.
update(l, on) ==
    LET blinkOn == on /\ Blinks(l.currentMode)
        needsShow == l.forceRefresh \/ l.currentMode = "LUA" \/ blinkOn # l.lastBlinkOn IN
    [l EXCEPT !.lastBlinkOn = blinkOn, !.forceRefresh = @ /\ ~needsShow,
              !.strip = IF needsShow THEN Painted(l, on) ELSE @]
=============================================================================
