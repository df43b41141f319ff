# Doris AGT firmware: verification project

The AGT (an Artemis Global Tracker board) is the safety monitor and the
communications relay of the Doris dive vehicle. Its firmware decides when a
dive has failed, when the payload may lose its power at the surface, and when
the vehicle reports its position by satellite. This project models those
decisions in TLA+, checks the models with TLC and proves the properties that
matter most with TLAPS.

Paths are relative to the repository; line numbers are in `PROJECT.json`
(`map`), which names the source lines of every definition.

## 1. The system

One superloop, `loop()` in `src/src/main.cpp`, polls everything; there are no
threads, and no interrupt handler touches the mission state. Concurrency comes
from outside: the autopilot, the Lua dive script, BlueOS, an operator, the GNSS
receiver and the sea act between any two passes, and a satellite session blocks
a pass for minutes. The board may lose its power at any point.

| Component | State | Operations | Called by, acts on |
|---|---|---|---|
| Mission state machine (`state_machine.cpp`) | mission state, failsafe source, latches and stamps of the power handshake, voltage timer, depth window | `update` (leak, heartbeat, voltage), `updateSurfacePower`, `acknowledgeShutdown`, `updateSurfaceBackstop`, `enterDiving/Recovery`, `reset`, `canTransmitIridium` | loop(), MAVLink; drives the relay |
| Mission data (`mission_data.cpp`) | last STATE, depth, voltage, heartbeat, leak and their stamps | one setter per sample, freshness | MAVLink and serial write, the state machine reads |
| Iridium schedule (`iridium_schedule.cpp`) | stamp of the last attempt, sent, position owed | reset, note attempt/sent, two "due" tests | loop() |
| Main loop (`main.cpp`) | `lastSeenState`, `iridiumTestRequested`, `now` | one pass: monitors, handshake, input, Lua follower, backstop, test, report | all modules |
| MAVLink (`mavlink_interface.cpp`) | parser, outgoing stamps | dispatch of HEARTBEAT, SYS_STATUS, VFR_HUD, STATE, PWR_ACK; `serviceLink` discards input in a session | writes mission data, acknowledges the shutdown |
| Relay (`relay_controller.cpp`) | believed payload power, pins | init, set; three drivers | state machine, `setupPins` |
| GPS manager (`gps_manager.cpp`) | fix, stamp of the last PVT, I2C failures | poll, PVT watchdog, I2C recovery, re-initialisation | loop(), Iridium manager |
| Iridium manager (`iridium_manager.cpp`) | power switches, modem | one session: antenna, supercapacitors, modem, sends, back | loop() |
| RTC discipline (`main.cpp`, `rtc_time_guard.h`) | RTC, in sync or not, last accepted time | take over a PVT's time, tell the vehicle | loop(), MAVLink |
| Meshtastic (`meshtastic_interface.cpp`) | ring of bytes to send | enqueue NMEA, drain | loop() |
| Configuration (`config_manager.cpp`) | `sysConfig`, EEPROM | load, save, set commands | setup(), serial |
| GNSS link (`gps_manager.cpp`) | parser, configuration flags; the receiver's RAM and battery-backed memory | configure, save, parse a chunk | setup(), the watchdog, a session |
| LED controller (`neopixel_controller.cpp`) | mode, Lua's command, buffer, the strip | set mode, command, refresh, solid white | loop(), MAVLink, a session |
| Serial port (`main.cpp`) | MAVLink parser, line buffer | frames and lines from one stream of bytes | loop() |
| Iridium message, DORIS protocol (`iridium_message.cpp`, `doris_protocol.h`) | none | format, pack, parse | Iridium manager |
| Software serial (`SoftwareSerial.cpp`) | the wire | write, poll | Meshtastic |
| Self-test (`main_selftest.cpp`) | fix, cycle, result, lights | a second image with a superloop of its own | drives the same board |
| PSM, RTC driver, tools | not modelled | | |

What is hard here: three monitors with early returns share one function; the
handshake spreads three latches over three calls by two partners who repeat
themselves; `now` is captured at the head of a pass and used after a session of
minutes; everything heard in a session is lost; the last STATE is kept however
old; every error path of a session has to give the antenna back; a reset may
fall between two pin operations or two bytes of a save; frames and lines share a
port byte by byte; a receiver restarts a moment after it was told to, and loses
what it was told since. `PROJECT.json` (`hazards`) lists these at their lines with
the properties that cover them.

What makes the components correct:

- *state machine*: a dive past its grace ends on a leak, a lost heartbeat or a
  held critical voltage, and only then; the payload goes off in one way only;
  the failsafe on record explains the current recovery; the backstop surfaces a
  floating vehicle and never a frozen depth channel.
- *main loop and schedule*: the first report goes out at once, later ones keep
  the interval, and they go on for ever; only what Lua says in a dive begins the
  handshake behind it.
- *radio*: one user of the antenna; the receiver is given back; a receiver that
  falls mute is restarted and a talking one is left alone.
- *RTC*: only real dates, no jumps, and nothing told that GNSS did not say.
- *relay, settings*: resets never cut the payload and never leave settings
  nobody chose.
- *GNSS link*: only whole frames count, the parser finds its place again, an
  initialised receiver speaks and keeps its ephemeris.
- *strip and port*: the strip shows what the state says whatever painted it
  before; lines and frames are acted on whole and in order.
- *messages*: whoever reads a report has the position the firmware had, the autopilot
  to a unit of its fields.
- *feed*: the node gets whole sentences, and every position unless the ring is crowded.

## 2. The modules

| Module | Models | Kind |
|---|---|---|
| `MissionData` | `mission_data.cpp` | operators on a record |
| `StateMachine` | `state_machine.cpp` | operators on a record |
| `StateMachineApi` | any caller of both | a next-state relation and the safety properties |
| `SurfacePower` | what the handshake promises | abstract specification |
| `IridiumSchedule` | `iridium_schedule.cpp` | operators |
| `MainLoop` | `loop()`, the dispatcher, `processCommand` | composition of the above |
| `DiveSafety`, `Reporting` | MainLoop and an observer | properties of what really happened |
| `SafetyStatus` | what BlueOS is told of the handshake, and when | operators |
| `Partners` | MainLoop with Lua, BlueOS and a depth stream | liveness |
| `GpsManager`, `IridiumSession` | the receiver's record, the power switches | operators |
| `Radio` | GPS manager, every call that opens a session and their order in loop() | composition |
| `SelfTest` | `main_selftest.cpp` on the switches and the receiver of `Radio` | a second image of the board |
| `IridiumMessage`, `NmeaSentence`, `PositionTold`, `DorisProtocol` | the numbers in a report, a sentence, a GPS message, a binary message | pure operators |
| `Board` | either image, and the position it tells everybody | composition of the two rows above |
| `UbxParser`, `GnssReceiver` | the byte parser; the receiver and the commands that configure it | operators |
| `GnssLink` | both, the reinitialisation, sessions and the watchdog, byte by byte | state machine |
| `RtcCalendar` | `rtc_time_guard.h`, `apollo_rtc_time.h` | pure operators |
| `RtcClock` | the discipline in `main.cpp`, the RTC, the receiver | composition |
| `PayloadRelay` | the three drivers, `setupPins`, the pins | state machine |
| `ConfigManager` | `config_manager.cpp` | operators on the bytes of a record |
| `PowerLoss` | `PayloadRelay` and `ConfigManager` with a reset at any point | composition |
| `NeoPixelController`, `SerialInput` | the strip; the parser and the line buffer | operators |
| `Panel` | the strip and the port in the passes of `loop()` | composition |
| `SoftwareSerial` | a byte on the wire | pure operators |
| `Meshtastic` | the transmit ring and its calls in loop() | state machine |
| `MCStateMachineApi`, `MCRtcClock`, `MCPowerLoss`, `MCGnssLink`, `MCPanel`, `MCBoard` | | values for TLC |
| `StateMachineProofs` | lemmas about the operators of `StateMachine` | proofs |
| `StateMachineApiProofs`, `MainLoopProofs`, `BoardProofs`, `RtcClockProofs`, `PowerLossProofs`, `GnssLinkProofs` | | theorems about the module in the name (section 4) |
| `PeripheralProofs` | | theorems about `Panel`, `Meshtastic` and `SoftwareSerial` |

**State.** `md` is `data` of `mission_data.cpp`; `sm` is `status` with the
stamps beside it, its handshake part in `sm.hs`. Every `millis()` stamp is the
*age* of what it stamps, saturated at the largest number any comparison asks
for (`Aged`, `Older`). That makes the state finite and is exact as long as no
age reaches the wrap of `millis()`. The one place where the code subtracts a
*later* stamp from an *earlier* `now` is the schedule after a manual test; there
`lag` keeps how far `now` is behind, and `SinceAttempt` subtracts modulo
`MILLIS_WRAP` as the code does.

**Actions.** `MainLoop` cuts a pass where `loop()` calls: `Monitor`, `Power`,
`Serial` (any number of messages), `Follow`, `Backstop`, the manual test, the
report, `Delay`. Each is the whole call, with every call it makes inside. Time
passes in `Delay` (for the pass) and in a session. `Again` is a pass that takes
less than a tick. `StateMachineApi` has one action per operation of the API
instead, in any order, and a delay between any two. The theorem `LoopCallsTheApi` says that
`MainLoop` is one such caller (`ApiSpec`), so what is proved of any caller holds of it.

`Radio` and `SelfTest` cut a session where a switch is written; every call of the
Iridium manager that opens one is an action of its own, with its attempts.
`GnssLink` cuts at every command to the receiver and every byte from it, `PayloadRelay` at
every pin operation, `PowerLoss` at every byte of a save as well, `Panel` at
every byte of the port.

**Abstractions.** In `MainLoop` the features are all enabled and the report interval
is fixed, as in `ConfigManager_setDefaults`. The fix and the outcome of a session
are free choices there; `Radio` models both in detail. The fix changes in `Power`
only, since the re-initialisation behind a session keeps `valid`. Maximum depth and
minimum temperature are left out: nothing but a report reads them. Telemetry is
modelled where somebody in the model acts on it (the safety status) or where it
repeats a position or a time. In `Radio` the I2C recovery always frees the bus and a
dive lasts longer than the watchdog's time. In `RtcClock` hours, minutes and seconds
are one field and the crystal does not drift; a PVT is at most `LAG` ticks old.
In `PayloadRelay` configuring and writing the coil's pin is one operation: a
relay does not follow microseconds; the Pololu does, so its operations stay apart.
In `Meshtastic` a byte is its place in its sentence, and a written slot is
emptied, which the code does not trouble to do; the length guard of
`send_nmea_line` is never met by the bodies the module builds (127 characters at
most). The short sentence of no fix counts as long as a full one. A call that holds
the loop up is one step of any length in any pass, whoever makes it. A pattern of the strip is its colour, its brightness and whether it is
in its lit phase. In the messages a reading is a whole number of the unit it
arrives in. Where the code casts a product of floats (the message to the autopilot),
either neighbour the cast may give is taken (`Cast`, `CastCourse`); where it rounds (reports,
sentences, text), a reading closer to a half than the floats are fine is left out. A line of
the port is a sequence of keys with a meaning, a frame is three bytes with a
checksum that is a byte, and is queued whole: frames come between the keys of a line,
keys never within a frame; `mavlink_parse_char` is the library's, modelled from
its documented states as `processSerialInput` relies on them.

## 3. The runs

| Run | Question |
|---|---|
| `api` | In any order of calls, what may never happen to the handshake, the relay, the failsafe and the backstop; do they implement `SurfacePower`? |
| `dive` | Do the failsafes fire on what really happened outside, and only then? |
| `tested` | With manual tests in any pass: is the first report at once, is the interval kept, is the handshake begun only by what Lua said in this dive, is every pass a sequence of API calls? |
| `partners` | With live partners and lost messages: does the handshake end, do the reports go on for ever; with a wedged script, does the backstop surface a floating vehicle? |
| `radio` | With either image, on every error path of every session and for every mute receiver: antenna, switches, watchdog; and does whoever is told a position read it back? |
| `rtc` | Around New Year and leap days, with late, odd and invalid PVTs: dates, steps, truth. |
| `powerloss` | With a reset between any two pin operations and any two bytes of a save: the payload's power and the settings. |
| `gnss` | With garbled bytes, sessions within a frame, unanswered commands and dead coin cells: frames, parser, receiver. |
| `panel` | What the strip shows and what the port acts on. |
| `mesh` | With a ring that fills and wraps: what the node hears. |
| `glitch`, `stale_fix` | Two statements of a comment and a document that the code does not keep (section 5). |

**Bounds.** Times are small numbers whose *order* is that of the code: the
freshness below every timeout, the grace below the heartbeat timeout, a session
(2 or 5 ticks) both longer and shorter than a timeout or an interval. `Durations` of
1 and 3 in `api` let a wait step over one threshold and over two. `STATE` is
drawn from a value of each class the code tells apart (<= 0, 1..3, >= 4); depth
from a shallow value, a deep one and `NotFinite`; voltage from a critical one and a
good one. `MILLIS_WRAP` is 64: all that matters is that a negative difference
becomes larger than any interval.

- `rtc`: `MAX_TICKS` is four ticks of half a day, enough to cross a date boundary and
  to let a PVT of the other side arrive; the three starts lie before a New Year,
  a leap day and a February that has none.
- `radio`: two retries, a watchdog, a failure count and a cycle of two are the
  least at which "not yet" and "due" differ. The four positions lie at a pole and the
  date line, either side of zero, and where a rounded digit carries to the degree; the
  five readings at the width of a field and where the rounding turns.
- `gnss`: `MaxFaults` bounds what goes wrong in one behaviour to two events, one to
  disturb the link and one to disturb its repair. `Acquire` gives a receiver its ephemeris
  back at any quiet moment, so that it has one to lose again (1.2 million states). A payload is 2 bytes instead of
  92 and a chunk 4 instead of 32, so that a frame ends within a chunk, at its end
  and in the next one.
- `powerloss`: a byte counts to 4, so that 16 and 32 bits are 16 and 256 values; the
  record has its 44 bytes where `SystemConfig` has them, padding included. The interval of
  77 s wraps, and two of its bytes change by amounts that cancel; the timed event changes
  three bytes the same way. `Put` passes over the bytes that stay, so a reset falls
  between any two that change. The commands that are not tried here are covered by the
  theorems, which take any.
- `panel`: `MaxQueue` of 5 bytes holds a frame and two keys, `PASS_BYTES` of 3 ends a
  pass within either, the line buffer of 3 overflows. A behaviour either types or runs a
  mission: the two meet in the commands only, which both have.
- `mesh`: sentences of 3 bytes, 2 bytes a pass, a ring of 11 and an interval of 3 passes
  are the tightest that keep the proportions (`HeadroomAssumption`): a position on top of
  another just fits, a test or a third position does not, and the ring wraps at every
  offset. A blocking call comes in any pass and lasts for any part of the interval. The wire is checked for five bytes
  (none, all, alternating, mixed) and clocks 4 % apart.

**Observers.** `obs`, `log`, `seen`, `kept`, `owed`, `lost` and the like watch a
behaviour and are read by no action; they are the only way to say what really
happened (how long the autopilot has really been silent) against what the
firmware believes.

**Fairness.** `PartnersFairness` says that `loop()` and the depth stream go on
(weak fairness of their steps) and that passes do not all fit into one tick
(strong fairness of `Wait`, which `Again` may interrupt). Of the partners it says
what their side promises: a script that is alive repeats STATE=4, BlueOS repeats
its ACK while it is told that one is awaited, not every status is lost. These are
strong, as the phase of a pass in which they can act comes and goes. A wedged
script owes nothing. `Radio` assumes weak fairness of the update and of the
steps of a session, strong fairness of time and of a restart that succeeds: a
receiver that fails every restart stays mute. `SelfTest` assumes the same of its
superloop: supply, modem and receiver work again and again. `Meshtastic` assumes the
pass. `GnssLink` and `Panel` have safety properties only.

## 4. What is proved

Every safety property of a passing run but `PvtAsSent` is a theorem, for every value of
the constants that meets the named assumptions of the modules. They are what the code
or the hardware gives:

- times are natural numbers, and positive or ordered where the code's are
  (`StateMachineAssumption`, `MissionDataAssumption`, `ScheduleAssumption`,
  `MainLoopAssumption`, `DurationsAssumption`, `GpsManagerAssumption`, `SessionAssumption`,
  `SelfTestAssumption`, `SafetyStatusAssumption`, `NeoPixelAssumption`, `PanelAssumption`,
  `MeshtasticAssumption`, `UbxAssumption`, `RtcCalendarAssumption`); the voltage's hold is
  no longer than the grace (`HoldAssumption`: 10 s); a behaviour of the clock starts on a
  date from 2025 on and ends before 2100 (`RtcClockAssumption`);
- what comes in has the width it comes in: readings and fields (`BoardAssumption`),
  payloads of bytes (`GnssLinkAssumption`), numbers that `toInt()` makes of a text
  (`PowerLossAssumption`); what makes a line is neither a newline nor the start of a
  frame (`SerialAssumption`);
- forty bytes add up to less than an erased checksum reads (`ConfigAssumption`:
  40 * 255 against 2^32 - 1);
- the ring has room for a position on top of another of which a pass has written its share,
  and an interval of passes writes one (`HeadroomAssumption`: a ring of 320 bytes, sentences
  of up to 76, four bytes a pass, 38 passes or more in an interval, which is 10 s unless
  configured; an interval of 0 is excluded). It says nothing of sessions.

| Theorems | State |
|---|---|
| `StateMachineApiProofs`: `TypeCorrect`, `CutoffIsEarned`, `HandshakeIsOfThisDive`, `RelayIsFollowed`, `FailsafeIsExplained`, `NeverStepsBack`, `FrozenStaysDown` | the run `api`, and of the relay and the handshake's order more than it |
| `ImplementsPower` | the flags and timers implement `SurfacePower` |
| `MainLoopProofs`: `LoopCallsTheApi` | `loop()` implements `StateMachineApi` |
| `NoUnsafeDive`, `VoltageIsHeld`, `AutopilotIsSilent` | all of the run `dive` |
| `ReportsAtOnce`, `ReportsAreSpaced`, `AskedInItsDive` | all of the run `tested` |
| `BoardProofs`: `TypeCorrect`, `AntennaIsExclusive`, `SessionsGiveBack`, `WatchdogWaits`, `ReportsReadBack` | both images: the run `radio` but for its liveness |
| `ReportSpellsThePosition`, `LineSpellsTheCoordinate`, `SentenceSpellsTheCoordinate` | the numbers alone, for every position, depth and voltage |
| `RtcClockProofs`: `TicksCount`, `TruthTold`, `CorrectionsAreSmall` | all of the run `rtc`, until 2099 |
| `PowerLossProofs`: `PayloadIsAsRequested`, `BootsCutNothing`, `SettingsSurvive`, `TornSavesShow` | all of the run `powerloss` |
| `GnssLinkProofs`: `ReceiverSpeaks`, `EphemerisSurvives`, `ParserBackInStep` | the run `gnss` but for `PvtAsSent` |
| `PeripheralProofs`: `StripIsRight`, `OrderIsKept`, `NothingIsForgotten` | all of the run `panel` |
| `EveryByteArrives`, `SentencesArriveWhole`, `PositionsAlwaysFit` | the run `mesh` but for its liveness; on the wire every byte and clock, not only the five it tries |

**The state machine.** None of the properties is inductive. `IInv` adds the
order of the latches (`LatchOrder`): the ACK implies the request, the request
implies a dwell that is over, and a payload that is off implies an ACK whose grace
is over. Without it a step from an unreachable state with an ACK and no request
would cut the power early. `Good` also ties the latches and the failsafe to a
recovery out of a dive. `StateMachineProofs` has one lemma per operation of the C++
module ("keeps a good status good"); the step of `Next` only cites them. The
refinement maps the latches to the stage they stand for and the two stamps to the
one clock: each operation is at most one abstract step.

**The backstop.** `FrozenStaysDown` is wider than what the run tries: a depth channel whose
readings all lie in a band narrower than `SURFACE_DEPTH_LIVENESS`, frozen or noisy, never
surfaces the vehicle. `StillInv` says that the depth in store and both ends of a
window that is open lie in the band; the theorem is conditional on such a
channel (`HardlyMoves`), which the run's is.

**From the API to the loop.** Each step of `MainLoop`, sessions and reboots included, is
one call of the API, a lapse of time, or leaves both records alone; the lengths of its
pauses and sessions are positive, which is all that `DurationsAssumption` asks. What the
module proves of any caller therefore holds of the passes of `loop()`.

**The watched dive.** The observer of `DiveSafety` counts what really happens.
`SilenceTimed` says that the firmware's age of the last heartbeat *is* the real
silence, unless a session has discarded heartbeats. `VoltageTimed` says that a running
voltage timer has not outrun the truth, with an exception the proof brought to
light: a leak returns before the timer is looked at and leaves it running, so a
timer may be older than the critical reading that seems to run it. It is harmless
because the recovery it is left in cannot become a dive again without a pass
outside the monitors, which stops it, or a dive of that very pass, whose grace then
lasts longer than the hold (`HoldAssumption`). With a shorter grace a timer left
running could end the next dive early.

**The log of reports.** `ReportInv` relates the schedule's stamps to the attempts
really made: `QuietTimed` (the firmware's clock is never ahead of the real
silence), `TriedHere` (whatever was tried was tried in a recovery the loop has
seen), `Restarted` (a recovery out of a dive that has tried nothing has its schedule as the
restart left it) and `UpgradeOwed` (a position is owed only to a status report
without one). `StateSeen` and `WindowOfDive` exclude the passes in which the loop would miss
a recovery: the backstop's window opens only after the loop has seen the dive, so no
dive begins and surfaces within one pass.

`AskedInThisDive` relates the latch of the dwell to what Lua has said since the dive began. Its
strengthening `AskedInv` says that in a dive, and in the recovery behind it, a 4 in store was
said in that dive or after it: a dive begins on a STATE of 1 to 3, which overwrites any 4 from
before it, and neither a session that discards messages nor a recovery left and
re-entered within a pass brings one back.

**The radio.** `InOrder` says, for each place in a session of the vehicle's image, which
switches are on, `BenchOrder` the same for each place in a cycle of the bench;
`ClockBehind` says that the watchdog's clock is never ahead of the real silence, but for
a receiver that did not come back from the last session. `BoardInv` joins them: exclusiveness follows by looking at each place.

**The numbers.** `BoardInv` also carries what the messages rest on: every fix is one that
the fields can spell. In an even unit `roundedPositive` is nearest (`RoundedIsNearest`), a cap
that is a multiple of the unit stays a cap after rounding (`CappedSpelled`), and a
heading that rounds to a full turn is as near to north (`HeadingSpelled`). What a
carry moves from a fraction to the whole leaves the sum as it was. A binary field
reads back what was written when it fits its width (`FieldReadsBack`), and the fields of
a message lie one behind the other, however many there are. The readings are
integers of the units in which the receiver gives them. The C++ goes through
`double`, and through `float` for the course. The message to the autopilot casts the
products, so any of them may come out a unit short and the course a unit either way; what is
proved of it is that: never more than a unit off, never on the other side of zero,
never wrapped, never a position where there is none or the reverse. In
the rounded texts a reading closer to a half than the format is fine may go to the other
side, which the models leave out.

**The clock.** `ClockInv`: while no PVT has lied, what the RTC holds and what an unread PVT
says is the truth of a few ticks ago (`Trusted`). Whatever the
step guard makes of a PVT, the RTC then holds one trusted time or the other. The count of seconds rests on
day counts summed over months and years, which are recursive functions here; that a
tick adds one to the sum, over every month's end and leap day, is an induction over
years and one over months. Both stop at 2099, as `rtc_time_guard.h` does.

**The relay.** `RelayInv` has a part for each driver and says, for every rest of the
routine still in `todo`, what the latches, the pads, the belief and the payload are there;
a reset may leave any latches, so the boot's first operations assume nothing
of them. `PowerLoss` without its settings is `PayloadRelay`, which carries
the results over.

**The settings.** `SaveInv` looks at the byte being written: those before it hold the new
record, those from it on the old one, so between saves the EEPROM is a record that
loads. What a boot finds in the middle of a save is a mixture; if it loads and has the
old checksum, its bytes add up to the old sum. Sums rise with the bytes (`SumsRise`) and
never wrap (`SumFits`), so changes in one direction show, and a single change always has
one. If it has bytes of the new checksum, all settings are the new ones. A whole image
of ones is refused because its checksum is larger than any sum (`BlankRefused`).

**The strip.** `PanelInv`: unless a refresh is due, the strip shows a phase of its
mode. Sessions and commands paint over the strip, and each of them sets `forceRefresh`.

**The port.** `PortInv` says that the bytes in flight have exactly one reading, given what
the parser and the line buffer hold: as the rest of a frame begun, then whole frames,
keys and lines. Each byte taken moves one step along that reading, so what is acted on
is what was sent first.

**The receiver.** `LinkInv` takes what is left to send as the tail of one script, from
some command on, and says for every such place what the receiver's RAM and its
battery-backed copy hold and whether a restart may be pending. The critical ones are behind
the constellation's and before the save, where a restart loses what was set since; and
`stored`, after which a restart is pending only if something went unanswered.

**The parser.** A session or a wrong byte leaves it anywhere, a wrong length deep in a
payload that never ends. `StepInv` says that no more whole frames are missed than seconds
pass on the watchdog's clock, or that the parser stands where the part of the frame read
so far leaves it. The watchdog's restart resets the parser, which bounds the first case.

**The feed.** `InOrder` of the ring says that every byte continues the one before it, the
first one the line the node has begun: a sentence cut off at a full ring is followed by a
"$", which ends it for the node as well. `RoomInv` sets what the ring
still holds against the passes since the last position. A pass in which a call holds the
loop up lets the next position fall due behind one pass's writing, so there has to be
room for a position on top of another, which is all that `HeadroomAssumption` asks. A second such
call straight behind the first finds both in the ring; `crowded` notes that, as it notes
an operator's test, and `PositionsFit` is about rings that have been empty since.
The two rest on ring arithmetic modulo its size.

**How induction is done.** The prover cannot instantiate the library's induction rules,
which take a predicate. The modules state the predicate as the *set* of numbers that have
it and derive induction from a least element outside it (`WFMin` of
`WellFoundedInduction`, lemma `Induction`). A sum or a fold is met as *a* function that
satisfies its recursion (`SumExists` and the like), shown to exist by the same lemma.

**Only model-checked**, and why:

- `HandshakeCompletes`, `ReportsRecur`, `AfloatSurfaces`, `LostReceiverRecovers`,
  `MuteReceiverRestarted`: liveness, and `EachByteIsWritten`, which needs the fairness of the
  pass; fairness speaks of ENABLED, which is out of the prover's reach;
- `PvtAsSent`: two checksum bytes can be met by chance by bytes glued from two frames, so it
  is not true of every set of payloads, only of those the run takes; that set is in no
  assumption worth stating.

## 5. What the models say about the text around the code

Two runs expect a violation; `findings` quotes the lines.

- `glitch`: a `STATE <= 0` heard in a dive is ignored there, but kept: it takes
  the vehicle to PRE_DIVE as soon as a failsafe has ended the dive. The backstop, which needs
  a STATE of 3 or more, cannot be what ends it.
- `stale_fix`: a receiver that falls mute in a dive leaves the fix of before it,
  and the first report offers it.

Further observations, made while modelling and not runs of their own.

*Mission and reports*

- After a manual test in the same pass the stale `now` (`main.cpp:440`) makes an
  automatic report due at once, where `docs/STATE_MACHINE.md:112-114` counts the
  interval from the end of the session; `SpacedButForTest` names this exception.
- With a wedged Lua script the backstop's recovery never gets its payload cut off, so
  no automatic report goes out (`state_machine.cpp:22-23` against 247).
- A manual test in a recovery counts as an attempt, so the first automatic
  report after it waits for the interval (`docs/STATE_MACHINE.md:107-108`).
- A manual test in a dive discards heartbeats for minutes; `AutopilotSilent`
  names this exception.
- A reading above the surface is clamped to 0 and counts as no movement for the
  backstop.
- A `STATE <= 0` heard in a dive also clears the maximum depth of that dive
  (`mission_data.cpp:133-142`), which the reports tell.
- No code fills a `DorisReport` or calls `IridiumManager_sendDorisReport`.
- `doris_protocol.h:31` counts 38 bytes of payload and 40 on the wire; the
  structure has 40, with its header 42. The states and failsafe bits that
  `docs/doris_protocol.py:80-104` names are not those of `doris_protocol.h:36-47`.

- A leak found by the monitors leaves the voltage timer as it was, since it returns first
  (`state_machine.cpp`, `StateMachine_update`). A timer left running is stopped by
  the next pass outside a monitored dive; a dive begun before that pass inherits it,
  which only its grace makes harmless (`HoldAssumption`).
- A dive that a failsafe ends and that is reset and begun again on STATE 1..3 within one
  pass inherits the backstop's window, which only `init` and the backstop itself clear.

*Receiver and position*

- The watchdog of `GPSManager_update` does not watch a receiver that has been
  mute since the board started (`lastPVTTime > 0`, line 502); `MuteReceiverRestarted` is
  about those that have spoken.
- A length field taken out of place makes the parser swallow up to 64 kB, which
  only the watchdog's reset ends; `BackInStep` allows for it.
- A question that goes unanswered once reads as "not configured": the receiver is
  configured again, restarts and forgets its ephemeris. `EphemerisKept` is
  conditional on answers.
- If the command that enables GLONASS goes unanswered and the save behind it does not,
  the save is reported as done without that setting; the next boot's question
  finds it missing.
- The verdict on the coin cell is that of the first PVT after the start, whenever
  it comes.
- `GPS_INPUT` tells the ground speed as northward, whatever the course; its time
  of week has no leap seconds; a dilution of 99.99, the receiver's "unknown", is
  told as 9999, since only more than that is made unknown.
- The message to the autopilot casts where the reports round (`mavlink_interface.cpp:76-82`): a
  latitude of 11300000 is told as 11299999, a dilution of 1.05 as 104, 1050 mm/s as 104 cm/s,
  and a course of 128.05999 degrees as 12806 hundredths. `PositionTold` takes either
  outcome.
- A report without a position and its located upgrade hold the loop up one straight behind
  the other when a fix comes back (`iridium_schedule.cpp:30-33`, `main.cpp:440-475`), with a
  position before, between and behind them. A sentence of no fix (about 43 bytes) and two
  positions (about 140 each) less the 8 bytes written are some 315 of the 319 that the ring
  takes: they fit by a hair, and the end of the last one is dropped when
  the numbers are long (a dilution of 10 or more, a speed or an altitude with another digit).
- `$GPRMC` multiplies m/s by the factor for km/h (`meshtastic_interface.cpp:174`), so
  its knots (`docs/MESHTASTIC_PROTOCOL.md:65`) are 3.6 times too few. Altitudes between
  -1 and 0 m lose their sign there.
- `meshtastic_interface.h:15` says 4800 baud, `config.h:71` sets 9600.
- A wrong but plausible first GNSS time is taken, and then every right one is
  refused until the next boot (`rtc_time_guard.h:141`); `TruthIsTold` is conditional
  on PVTs that do not lie.

*Payload, settings, strip and port*

- A Pololu that loses its own supply stays off until the next boot or OFF and
  ON, as the documents say; `PayloadFollows` names it.
- The serial command `reset` is taken by `processCommand` before the configuration's
  `reset` (`docs/EXAMPLE_CONFIGURATIONS.md:23`) can see it, and the defaults that
  page lists (lines 25-32) are not those of `config.h:252-255`.
- `set_timed_event` documents a duration in milliseconds
  (`config_manager.cpp:183`) or seconds (`docs/BLUEOS_INTEGRATION.md:95`) and keeps
  16 bits of it; intervals in seconds wrap at 2^32 ms and 0 is accepted.
- The checksum adds the bytes of the record (`config_manager.cpp:15-17`): a save torn
  between two changes that cancel, a byte that rises by what another falls, passes.
  `TornSaveDetected` is about changes that cannot.
- Disabling the strip leaves it lit as it was. `luaLastCmdTime` doubles as "no
  command yet" with the value 0. A chase of less than 30 ms has
  steps of 0 ms, and the position divides by them.

*The bench image*

- Once a re-initialisation has failed nobody asks the receiver, and
  `hasGoodFix` keeps its value: the old position goes out every 90 s until a cycle
  brings the receiver back. The header of `main_selftest.cpp` promises "verify GPS
  fix" every 30 s.
- The lights show blue after a message that got out though the receiver was lost
  behind it, and yellow for one that was absent at the start; the header has red
  for an initialisation that failed.
- The text of a message loses the sign of a coordinate between -1 and 0 degrees;
  the tenths of an altitude carry nothing (14.97 m reads 14.10,
  `main_selftest.cpp:240-241`); the test fix is sent as a valid one while it is
  still searching.

## 6. Not modelled

| Part | Why |
|---|---|
| Mission records (maximum depth, minimum temperature), sensor health | Only reports and displays read them; `Board` takes the depth of a report as an input. |
| Outgoing heartbeat, battery status, debug texts | Told at intervals, read by nobody in this code. |
| `millis()` wrap-around | Stamps are ages here, exact until the counter wraps after 49.7 days; of the differences that code takes the wrong way round, the schedule's is modelled modulo the wrap. |
| GPS diagnostics, IMEI text, console output | Wording. |
| PSM | Disabled by default and not called from `loop()`. |
| Software serial's receive ring | Nothing calls it; a byte's way through `pollRX` is modelled. |
| RTC driver | A placeholder in this repository; `RtcClock` takes a set that reads back or one that does not. |
| The receiver's settings one by one in the bench image, the bit-banging of the strips | Register-level code without a decision anything depends on. |
| Tools, tests, vendored headers | Build scripts; the tests were read for what they promise; the headers are generated. |

What would come next, in this order: the mission records beside `MainLoop`, with the
depth and temperature that a report tells; the liveness of the handshake as a chain of
proved steps, each enabled until it is taken, of which only the last inference is left
to TLC; the float arithmetic behind the messages.
