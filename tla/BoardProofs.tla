---------------------------- MODULE BoardProofs -----------------------------
(***************************************************************************)
(* Theorems about Board: the receiver, the antenna and the modem under     *)
(* either image, for every watchdog time, every number of refusals, of     *)
(* sends and of passes between messages; and the numbers in a report, an   *)
(* NMEA sentence and a line of text, for every reading a receiver gives.   *)
(***************************************************************************)
EXTENDS Board, WellFoundedInduction, TLAPS

-----------------------------------------------------------------------------
(* The vehicle's image *)

\* What the switches are at each point of a session.
Powered == antennaToGPS(setupPins)
Charging == chargeSupercaps(setupPins)

InOrder ==
    /\ pc \in {"update", "pass", "reinit"} => sw = Powered
    /\ pc \in {"charge", "back"} => sw = setupPins
    /\ pc = "power" => sw = Charging
    /\ pc = "begin" => sw = modemPowerUp(Charging)
    /\ pc \in {"send", "down"} =>
        \E ok \in BOOLEAN : sw = modemBegin(modemPowerUp(Charging), ok)
    /\ pc = "send" => left > 0

\* The watchdog's clock is never ahead of the receiver's silence, but for a
\* receiver that did not come back from the last session.
ClockBehind == gps.stamped /\ ~seen.failed => gps.age <= seen.silent

IInv == TypeOK /\ InOrder /\ ClockBehind

USE GpsManagerAssumption, SessionAssumption
    DEF GpsManagerAssumption, SessionAssumption, PoweredReceiver

-----------------------------------------------------------------------------

\* The receiver's record stays a record of its type under each of its calls.
LEMMA GpsTypes ==
    ASSUME NEW g \in Gps
    PROVE  /\ stamp(g) \in Gps
           /\ answered(g) \in Gps
           /\ refused(g) \in Gps
           /\ GpsElapse(g, 1) \in Gps
           /\ \A fix \in BOOLEAN : processPVT(g, fix) \in Gps
<1>1. stamp(g) \in Gps
    <2>1. ASSUME NEW b \in BOOLEAN, NEW a \in 0 .. PVT_WATCHDOG + 1
          PROVE  [g EXCEPT !.stamped = b, !.age = a] \in Gps
        BY DEF Gps
    <2>2. 0 \in 0 .. PVT_WATCHDOG + 1
        OBVIOUS
    <2> QED BY <2>1, <2>2 DEF stamp
<1>2. answered(g) \in Gps
    BY DEF answered, Gps
<1>3. refused(g) \in Gps
    BY DEF refused, recoversBus, Gps
<1>4. GpsElapse(g, 1) \in Gps
    BY DEF GpsElapse, Gps
<1>5. ASSUME NEW fix \in BOOLEAN PROVE processPVT(g, fix) \in Gps
    <2>1. ASSUME NEW h \in Gps, NEW n \in 0 .. I2C_FAIL_RECOVERY - 1
          PROVE  [h EXCEPT !.valid = fix, !.fails = n] \in Gps
        BY DEF Gps
    <2>2. 0 \in 0 .. I2C_FAIL_RECOVERY - 1
        OBVIOUS
    <2> QED BY <1>1, <2>1, <2>2 DEF processPVT
<1> QED BY <1>1, <1>2, <1>3, <1>4, <1>5

\* Before it has been called.
LEMMA GpsInitType == GPSManager_init \in Gps
<1>1. 0 \in 0 .. PVT_WATCHDOG + 1 /\ 0 \in 0 .. I2C_FAIL_RECOVERY - 1
    OBVIOUS
<1> QED BY <1>1 DEF GPSManager_init, Gps

\* So do the switches.
LEMMA SwitchTypes ==
    ASSUME NEW r \in Switches, NEW ok \in BOOLEAN
    PROVE  /\ antennaToGPS(r) \in Switches /\ antennaToIridium(r) \in Switches
           /\ chargeSupercaps(r) \in Switches /\ chargeTimeout(r) \in Switches
           /\ modemPowerUp(r) \in Switches /\ modemPowerDown(r) \in Switches
           /\ modemBegin(r, ok) \in Switches
BY DEF Switches, antennaToGPS, antennaToIridium, chargeSupercaps, chargeTimeout,
   modemPowerUp, modemPowerDown, modemBegin

\* The receiver powered and the modem off, as setup() leaves them.
LEMMA PoweredType == Powered \in Switches
BY DEF Powered, antennaToGPS, setupPins, Switches

\* What an action does to the observer.
LEMMA SeenTypes ==
    ASSUME NEW e \in Seen, NEW p \in BOOLEAN, NEW q \in BOOLEAN
    PROVE  /\ [e EXCEPT !.silent = 0, !.failed = p, !.looked = q] \in Seen
           /\ [e EXCEPT !.failed = p, !.silent = IF q THEN 0 ELSE @] \in Seen
           /\ [e EXCEPT !.current = p, !.looked = q] \in Seen
           /\ [e EXCEPT !.silent = IF @ > PVT_WATCHDOG THEN @ ELSE @ + 1] \in Seen
           /\ [silent |-> 0, failed |-> FALSE, current |-> p, looked |-> q] \in Seen
<1>0. 0 \in 0 .. PVT_WATCHDOG + 1
    OBVIOUS
<1>1. [e EXCEPT !.silent = 0, !.failed = p, !.looked = q] \in Seen
    <2>1. ASSUME NEW n \in 0 .. PVT_WATCHDOG + 1
          PROVE  [e EXCEPT !.silent = n, !.failed = p, !.looked = q] \in Seen
        BY DEF Seen
    <2> QED BY <1>0, <2>1
<1>2. [e EXCEPT !.failed = p, !.silent = IF q THEN 0 ELSE @] \in Seen
    <2>1. ASSUME NEW n \in 0 .. PVT_WATCHDOG + 1
          PROVE  [e EXCEPT !.failed = p, !.silent = n] \in Seen
        BY DEF Seen
    <2>2. (IF q THEN 0 ELSE e.silent) \in 0 .. PVT_WATCHDOG + 1
        BY DEF Seen
    <2> QED BY <2>1, <2>2
<1>3. [e EXCEPT !.current = p, !.looked = q] \in Seen
    BY DEF Seen
<1>4. [e EXCEPT !.silent = IF @ > PVT_WATCHDOG THEN @ ELSE @ + 1] \in Seen
    BY DEF Seen
<1>5. [silent |-> 0, failed |-> FALSE, current |-> p, looked |-> q] \in Seen
    BY DEF Seen
<1> QED BY <1>1, <1>2, <1>3, <1>4, <1>5

-----------------------------------------------------------------------------

\* The attempts a session may begin with, and one less while there are any.
LEMMA AttemptsType ==
    /\ {0, 1, MAX_IRIDIUM_RETRY} \subseteq 0 .. MAX_IRIDIUM_RETRY
    /\ \A n \in 0 .. MAX_IRIDIUM_RETRY :
        n > 0 => n - 1 \in 0 .. MAX_IRIDIUM_RETRY
OBVIOUS

\* Every call that takes the modem opens a session with some of them.
LEMMA CallsOpen ==
    OpenReport \/ OpenOther => \E n \in {0, 1, MAX_IRIDIUM_RETRY} : Open(n)
BY DEF OpenReport, OpenOther, IridiumManager_sendMissionReport, IridiumManager_sendPosition,
   IridiumManager_sendStatusReport, IridiumManager_sendDorisReport,
   IridiumManager_sendMessage, IridiumManager_sendBinary, IridiumManager_checkMessages,
   IridiumManager_checkMT, IridiumManager_getSignalQuality, IridiumManager_init,
   iridiumSendPayload

\* Whatever the environment and the program do, a step keeps the types.
LEMMA TypeStep == TypeOK /\ InOrder /\ [Next]_vars => TypeOK'
<1> SUFFICES ASSUME TypeOK, InOrder, [Next]_vars PROVE TypeOK'
    OBVIOUS
<1> USE GpsTypes, SwitchTypes, SeenTypes DEF TypeOK
<1>1. CASE Update
    <2>1. ASSUME NEW s \in PoweredReceiver, Watchdog(s) PROVE TypeOK'
        BY <2>1 DEF Watchdog, Updating, gpsFullReinit
    <2>2. CASE Refused
        BY <2>2 DEF Refused, Polling, Updating
    <2>3. CASE Answered
        BY <2>3 DEF Answered, Polling, Updating
    <2>4. ASSUME NEW fix \in BOOLEAN, Pvt(fix) PROVE TypeOK'
        BY <2>4 DEF Pvt, Polling, Updating
    <2> QED BY <1>1, <2>1, <2>2, <2>3, <2>4 DEF Update
<1>2. CASE NoSession
    BY <1>2 DEF NoSession, world
<1>3. CASE InSession
    <2>1. ASSUME NEW n \in {0, 1, MAX_IRIDIUM_RETRY}, Open(n) PROVE TypeOK'
        BY <2>1, AttemptsType DEF Open
    <2>2. CASE Charge \/ ChargeFails \/ PowerUp \/ PowerDown
        BY <2>2 DEF Charge, ChargeFails, PowerUp, PowerDown, Step, world
    <2>3. CASE Back
        BY <2>3 DEF Back
    <2>4. ASSUME NEW ok \in BOOLEAN, Begin(ok) PROVE TypeOK'
        BY <2>4 DEF Begin, Step, world
    <2>5. ASSUME NEW ok \in BOOLEAN, Send(ok) PROVE TypeOK'
        BY <2>5, AttemptsType DEF Send, InOrder, world
    <2>6. ASSUME NEW ok \in BOOLEAN, NEW s \in PoweredReceiver, Reinit(ok, s)
          PROVE TypeOK'
        BY <2>6 DEF Reinit, reinit
    <2> QED BY <1>3, <2>1, <2>2, <2>3, <2>4, <2>5, <2>6, CallsOpen DEF InSession
<1>4. CASE Boot
    <2>1. Unseen \in Seen
        BY DEF Unseen, Seen
    <2> QED BY <1>4, <2>1, GpsInitType, AttemptsType, PoweredType DEF Boot, Powered
<1>5. CASE FallMute \/ WedgeBus \/ Dive \/ Surface
    BY <1>5 DEF FallMute, WedgeBus, Dive, Surface, firmware
<1>6. CASE Tick
    BY <1>6 DEF Tick, world
<1>7. CASE UNCHANGED vars
    BY <1>7 DEF vars, firmware, world
<1> QED BY <1>1, <1>2, <1>3, <1>4, <1>5, <1>6, <1>7 DEF Next

-----------------------------------------------------------------------------

\* The ways back: from the antenna at the modem, from a charge that timed out,
\* from a session whether or not the modem began, and to where the antenna is.
LEMMA WaysBack ==
    /\ antennaToIridium(Powered) = setupPins
    /\ chargeTimeout(Charging) = setupPins
    /\ \A ok \in BOOLEAN :
        modemPowerDown(modemBegin(modemPowerUp(Charging), ok)) = setupPins
    /\ antennaToGPS(Powered) = Powered
<1>0. ASSUME NEW r \in Switches,
             ~r.gnss, ~r.power, ~r.charge, ~r.awake
      PROVE  r = setupPins
    BY <1>0 DEF Switches, setupPins
<1>1. setupPins \in Switches /\ Powered \in Switches /\ Charging \in Switches
    BY DEF setupPins, Powered, Charging, antennaToGPS, chargeSupercaps, Switches
<1>2. antennaToIridium(Powered) = setupPins
    <2> DEFINE r == antennaToIridium(Powered)
    <2>1. r \in Switches
        BY <1>1, SwitchTypes
    <2>2. ~r.gnss /\ ~r.power /\ ~r.charge /\ ~r.awake
        BY DEF antennaToIridium, Powered, antennaToGPS, setupPins
    <2> HIDE DEF r
    <2>3. r = setupPins
        BY <1>0, <2>1, <2>2
    <2> QED BY <2>3 DEF r
<1>3. chargeTimeout(Charging) = setupPins
    <2> DEFINE r == chargeTimeout(Charging)
    <2>1. r \in Switches
        BY <1>1, SwitchTypes
    <2>2. ~r.gnss /\ ~r.power /\ ~r.charge /\ ~r.awake
        BY DEF chargeTimeout, Charging, chargeSupercaps, setupPins
    <2> HIDE DEF r
    <2>3. r = setupPins
        BY <1>0, <2>1, <2>2
    <2> QED BY <2>3 DEF r
<1>4. ASSUME NEW ok \in BOOLEAN
      PROVE  modemPowerDown(modemBegin(modemPowerUp(Charging), ok)) = setupPins
    <2> DEFINE r == modemPowerDown(modemBegin(modemPowerUp(Charging), ok))
    <2>1. r \in Switches
        BY <1>1, SwitchTypes
    <2>2. ~r.gnss /\ ~r.power /\ ~r.charge /\ ~r.awake
        BY DEF modemPowerDown, modemBegin, modemPowerUp, Charging, chargeSupercaps,
           setupPins
    <2> HIDE DEF r
    <2>3. r = setupPins
        BY <1>0, <2>1, <2>2
    <2> QED BY <2>3 DEF r
<1>5. antennaToGPS(Powered) = Powered
    BY DEF antennaToGPS, Powered, setupPins
<1> QED BY <1>2, <1>3, <1>4, <1>5

\* A session walks through the switches in one order only.
LEMMA OrderStep == TypeOK /\ InOrder /\ [Next]_vars => InOrder'
<1> SUFFICES ASSUME TypeOK, InOrder, [Next]_vars PROVE InOrder'
    OBVIOUS
<1> USE DEF InOrder
<1>1. CASE Update
    <2>1. UNCHANGED <<sw, left>> /\ pc = "update" /\ pc' = "pass"
        BY <1>1 DEF Update, Watchdog, Refused, Answered, Pvt, Polling, Updating
    <2> QED BY <2>1
<1>2. CASE NoSession
    BY <1>2 DEF NoSession
<1>3. CASE InSession
    <2>1. ASSUME NEW n \in {0, 1, MAX_IRIDIUM_RETRY}, Open(n) PROVE InOrder'
        BY <2>1, WaysBack DEF Open
    <2>2. CASE Charge
        BY <2>2 DEF Charge, Step, Charging
    <2>3. CASE ChargeFails
        BY <2>3, WaysBack DEF ChargeFails, Step
    <2>4. CASE PowerUp
        BY <2>4 DEF PowerUp, Step
    <2>5. CASE PowerDown
        BY <2>5, WaysBack DEF PowerDown, Step
    <2>6. CASE Back
        BY <2>6 DEF Back, Powered
    <2>7. ASSUME NEW ok \in BOOLEAN, Begin(ok) PROVE InOrder'
        BY <2>7 DEF Begin, Step
    <2>8. ASSUME NEW ok \in BOOLEAN, Send(ok) PROVE InOrder'
        BY <2>8 DEF Send, TypeOK
    <2>9. ASSUME NEW ok \in BOOLEAN, NEW s \in PoweredReceiver, Reinit(ok, s)
          PROVE InOrder'
        BY <2>9, WaysBack DEF Reinit
    <2> QED BY <1>3, <2>1, <2>2, <2>3, <2>4, <2>5, <2>6, <2>7, <2>8, <2>9, CallsOpen
            DEF InSession
<1>4. CASE Boot
    BY <1>4 DEF Boot, Powered
<1>5. CASE FallMute \/ WedgeBus \/ Dive \/ Surface \/ Tick \/ UNCHANGED vars
    BY <1>5 DEF FallMute, WedgeBus, Dive, Surface, Tick, vars, firmware
<1> QED BY <1>1, <1>2, <1>3, <1>4, <1>5 DEF Next

\* Only time ages the watchdog's clock, and it ages the silence with it.
LEMMA ClockStep == TypeOK /\ ClockBehind /\ [Next]_vars => ClockBehind'
<1> SUFFICES ASSUME TypeOK, ClockBehind, [Next]_vars PROVE ClockBehind'
    OBVIOUS
<1> USE DEF ClockBehind
<1>1. CASE Update
    <2>1. ASSUME NEW s \in PoweredReceiver, Watchdog(s) PROVE ClockBehind'
        BY <2>1 DEF Watchdog, gpsFullReinit, stamp, TypeOK, Gps, Seen
    <2>2. CASE Refused
        BY <2>2 DEF Refused, refused, TypeOK, Gps
    <2>3. CASE Answered
        BY <2>3 DEF Answered, answered, TypeOK, Gps
    <2>4. ASSUME NEW fix \in BOOLEAN, Pvt(fix) PROVE ClockBehind'
        BY <2>4 DEF Pvt, processPVT, stamp, TypeOK, Gps
    <2> QED BY <1>1, <2>1, <2>2, <2>3, <2>4 DEF Update
<1>2. CASE NoSession
    BY <1>2 DEF NoSession
<1>3. CASE InSession
    <2>0. ASSUME NEW n \in {0, 1, MAX_IRIDIUM_RETRY}, Open(n) PROVE ClockBehind'
        BY <2>0 DEF Open
    <2>1. CASE Charge \/ ChargeFails \/ PowerUp \/ PowerDown \/ Back
        BY <2>1 DEF Charge, ChargeFails, PowerUp, PowerDown, Back, Step
    <2>2. ASSUME NEW ok \in BOOLEAN, Begin(ok) \/ Send(ok) PROVE ClockBehind'
        BY <2>2 DEF Begin, Send, Step
    <2>3. ASSUME NEW ok \in BOOLEAN, NEW s \in PoweredReceiver, Reinit(ok, s)
          PROVE ClockBehind'
        BY <2>3 DEF Reinit, reinit, stamp, TypeOK, Gps, Seen
    <2> QED BY <1>3, <2>0, <2>1, <2>2, <2>3, CallsOpen DEF InSession
<1>4. CASE Boot
    BY <1>4 DEF Boot, GPSManager_init
<1>5. CASE FallMute \/ WedgeBus \/ Dive \/ Surface \/ UNCHANGED vars
    BY <1>5 DEF FallMute, WedgeBus, Dive, Surface, vars, firmware, TypeOK, Seen
<1>6. CASE Tick
    BY <1>6 DEF Tick, GpsElapse, TypeOK, Gps, Seen
<1> QED BY <1>1, <1>2, <1>3, <1>4, <1>5, <1>6 DEF Next

-----------------------------------------------------------------------------

(* The bench image *)

TestPlaces ==
    {"update", "pass", "modem_on", "to_charge", "charging", "waking", "sending", "give_up",
     "sent", "give_up_gps", "sent_gps", "reinit_ignored", "reinit_sent"}

Tests == [initOK : BOOLEAN, good : BOOLEAN, wait : 0 .. CYCLE_INTERVAL,
          result : {"none", "sent", "failed"},
          shown : {"green", "red", "blue", "yellow", "magenta"}]

BenchType ==
    /\ gps = GPSManager_init /\ pc \in TestPlaces /\ test \in Tests /\ sw \in Switches

\* With the modem powered, the charger on and the modem begun.
CycleOn == modemPowerUp(setupPins)
CycleFull == chargeSupercaps(CycleOn)
CycleAwake == modemBegin(CycleFull, TRUE)

\* What the switches are at each place of a cycle.
BenchOrder ==
    /\ pc \in {"update", "pass", "reinit_ignored", "reinit_sent"} => sw = Powered
    /\ pc \in {"modem_on", "give_up_gps", "sent_gps"} => sw = setupPins
    /\ pc \in {"to_charge", "give_up", "sent"} => sw = CycleOn
    /\ pc \in {"charging", "waking"} => sw = CycleFull
    /\ pc = "sending" => sw = CycleAwake

\* The lights name the last message's fate; a receiver that nothing was sent
\* with yet is initialised if it has a fix, and behind a send the fate is known.
StripInv ==
    /\ test.result = "none" /\ test.good => test.initOK
    /\ pc \in {"sent", "sent_gps", "reinit_sent"} => test.result # "none"
    /\ pc \in {"update", "pass"} =>
        /\ test.shown = "blue" => test.result = "sent"
        /\ test.shown = "red" => test.result = "failed" \/ ~test.initOK
        /\ test.shown = "green" => test.result = "none" /\ test.initOK
        /\ test.shown # "magenta"

BenchInv == BenchType /\ BenchOrder /\ StripInv

BenchStep == image = "selftest" /\ (TestLoop \/ TestFaults)

LEMMA SameSwitches ==
    ASSUME NEW r \in Switches, NEW s \in Switches,
           r.gnss = s.gnss, r.power = s.power, r.charge = s.charge, r.awake = s.awake
    PROVE  r = s
BY DEF Switches

\* What a routine does to the pins.
LEMMA PinsAfter ==
    ASSUME NEW r \in Switches
    PROVE  /\ chargeTimeout(r) \in Switches /\ ~chargeTimeout(r).charge
           /\ chargeTimeout(r).gnss = r.gnss /\ chargeTimeout(r).power = r.power
           /\ chargeTimeout(r).awake = r.awake
           /\ chargeSupercaps(r) \in Switches /\ chargeSupercaps(r).charge
           /\ chargeSupercaps(r).gnss = r.gnss /\ chargeSupercaps(r).power = r.power
           /\ chargeSupercaps(r).awake = r.awake
           /\ modemPowerUp(r) \in Switches /\ modemPowerUp(r).power
           /\ modemPowerUp(r).gnss = r.gnss /\ modemPowerUp(r).charge = r.charge
           /\ modemPowerUp(r).awake = r.awake
           /\ modemOff(r) \in Switches /\ ~modemOff(r).power /\ ~modemOff(r).awake
           /\ modemOff(r).gnss = r.gnss /\ modemOff(r).charge = r.charge
           /\ antennaToGPS(r) \in Switches /\ antennaToGPS(r).gnss
           /\ antennaToGPS(r).power = r.power /\ antennaToGPS(r).charge = r.charge
           /\ antennaToGPS(r).awake = r.awake
<1>1. /\ chargeTimeout(r) \in Switches /\ ~chargeTimeout(r).charge
      /\ chargeTimeout(r).gnss = r.gnss /\ chargeTimeout(r).power = r.power
      /\ chargeTimeout(r).awake = r.awake
    BY DEF Switches, chargeTimeout
<1>2. /\ chargeSupercaps(r) \in Switches /\ chargeSupercaps(r).charge
      /\ chargeSupercaps(r).gnss = r.gnss /\ chargeSupercaps(r).power = r.power
      /\ chargeSupercaps(r).awake = r.awake
    BY DEF Switches, chargeSupercaps
<1>3. /\ modemPowerUp(r) \in Switches /\ modemPowerUp(r).power
      /\ modemPowerUp(r).gnss = r.gnss /\ modemPowerUp(r).charge = r.charge
      /\ modemPowerUp(r).awake = r.awake
    BY DEF Switches, modemPowerUp
<1>4. /\ modemOff(r) \in Switches /\ ~modemOff(r).power /\ ~modemOff(r).awake
      /\ modemOff(r).gnss = r.gnss /\ modemOff(r).charge = r.charge
    BY DEF Switches, modemOff
<1>5. /\ antennaToGPS(r) \in Switches /\ antennaToGPS(r).gnss
      /\ antennaToGPS(r).power = r.power /\ antennaToGPS(r).charge = r.charge
      /\ antennaToGPS(r).awake = r.awake
    BY DEF Switches, antennaToGPS
<1> QED BY <1>1, <1>2, <1>3, <1>4, <1>5

LEMMA PinsBegun ==
    ASSUME NEW r \in Switches, NEW ok \in BOOLEAN
    PROVE  /\ modemBegin(r, ok) \in Switches /\ modemBegin(r, ok).awake = ok
           /\ modemBegin(r, ok).gnss = r.gnss /\ modemBegin(r, ok).power = r.power
           /\ modemBegin(r, ok).charge = r.charge
BY DEF Switches, modemBegin

\* The pins of each place of a cycle.
LEMMA CycleFields ==
    /\ {Powered, setupPins, CycleOn, CycleFull, CycleAwake} \subseteq Switches
    /\ ~setupPins.gnss /\ ~setupPins.power /\ ~setupPins.charge /\ ~setupPins.awake
    /\ Powered.gnss /\ ~Powered.power /\ ~Powered.charge /\ ~Powered.awake
    /\ ~CycleOn.gnss /\ CycleOn.power /\ ~CycleOn.charge /\ ~CycleOn.awake
    /\ ~CycleFull.gnss /\ CycleFull.power /\ CycleFull.charge /\ ~CycleFull.awake
    /\ ~CycleAwake.gnss /\ CycleAwake.power /\ CycleAwake.charge /\ CycleAwake.awake
<1>1. setupPins \in Switches
      /\ ~setupPins.gnss /\ ~setupPins.power /\ ~setupPins.charge /\ ~setupPins.awake
    BY DEF setupPins, Switches
<1>2. Powered \in Switches
      /\ Powered.gnss /\ ~Powered.power /\ ~Powered.charge /\ ~Powered.awake
    BY <1>1, PinsAfter DEF Powered
<1>3. CycleOn \in Switches
      /\ ~CycleOn.gnss /\ CycleOn.power /\ ~CycleOn.charge /\ ~CycleOn.awake
    BY <1>1, PinsAfter DEF CycleOn
<1>4. CycleFull \in Switches
      /\ ~CycleFull.gnss /\ CycleFull.power /\ CycleFull.charge /\ ~CycleFull.awake
    BY <1>3, PinsAfter DEF CycleFull
<1>5. CycleAwake \in Switches
      /\ ~CycleAwake.gnss /\ CycleAwake.power /\ CycleAwake.charge /\ CycleAwake.awake
    BY <1>4, PinsBegun DEF CycleAwake
<1> QED BY <1>1, <1>2, <1>3, <1>4, <1>5

\* The ways through a cycle and back, whichever of its steps fail.
LEMMA CycleSwitches ==
    /\ chargeTimeout(CycleFull) = CycleOn
    /\ chargeTimeout(modemBegin(CycleFull, FALSE)) = CycleOn
    /\ chargeTimeout(modemBegin(CycleAwake, FALSE)) = CycleOn
    /\ modemOff(CycleOn) = setupPins
    /\ antennaToGPS(modemOff(Powered)) = Powered
    /\ antennaToGPS(setupPins) = Powered
<1>1. ASSUME NEW r \in Switches
      PROVE  /\ ~r.gnss /\ r.power /\ ~r.charge /\ ~r.awake => r = CycleOn
             /\ ~r.gnss /\ ~r.power /\ ~r.charge /\ ~r.awake => r = setupPins
             /\ r.gnss /\ ~r.power /\ ~r.charge /\ ~r.awake => r = Powered
    BY CycleFields, SameSwitches DEF Switches
<1>2. chargeTimeout(CycleFull) = CycleOn
    BY <1>1, CycleFields, PinsAfter
<1>3. ASSUME NEW r \in {CycleFull, CycleAwake}
      PROVE  chargeTimeout(modemBegin(r, FALSE)) = CycleOn
    <2> DEFINE q == modemBegin(r, FALSE)
    <2>1. r \in Switches /\ ~r.gnss /\ r.power
        BY <1>3, CycleFields
    <2>2. q \in Switches /\ q.gnss = r.gnss /\ q.power = r.power /\ q.awake = FALSE
        BY <2>1, PinsBegun
    <2> HIDE DEF q
    <2>3. /\ chargeTimeout(q) \in Switches /\ ~chargeTimeout(q).charge
          /\ chargeTimeout(q).gnss = q.gnss /\ chargeTimeout(q).power = q.power
          /\ chargeTimeout(q).awake = q.awake
        BY <2>2, PinsAfter
    <2>4. chargeTimeout(q) = CycleOn
        BY <1>1, <2>1, <2>2, <2>3
    <2> QED BY <2>4 DEF q
<1>4. modemOff(CycleOn) = setupPins
    BY <1>1, CycleFields, PinsAfter
<1>5. antennaToGPS(modemOff(Powered)) = Powered
    <2>1. modemOff(Powered) \in Switches /\ ~modemOff(Powered).power
          /\ ~modemOff(Powered).charge /\ ~modemOff(Powered).awake
        BY CycleFields, PinsAfter
    <2> QED BY <1>1, <2>1, PinsAfter
<1>6. antennaToGPS(setupPins) = Powered
    BY DEF Powered
<1> QED BY <1>2, <1>3, <1>4, <1>5, <1>6

LEMMA BenchOrderStep == BenchInv /\ BenchStep => BenchOrder' /\ sw' \in Switches
<1> SUFFICES ASSUME BenchInv, BenchStep PROVE BenchOrder' /\ sw' \in Switches
    OBVIOUS
<1>1. antennaToIridium(Powered) = setupPins /\ antennaToGPS(Powered) = Powered
    BY WaysBack
<1>2. \A r \in Switches : chargeSupercaps(r) \in Switches /\ modemPowerUp(r) \in Switches
    BY SwitchTypes
<1>5. pc \in TestPlaces /\ sw \in Switches /\ BenchOrder
    BY DEF BenchInv, BenchType
<1>6. CASE TestFaults
    BY <1>5, <1>6 DEF TestFaults, FallMute, WedgeBus, firmware, BenchOrder
<1>7. ASSUME NEW from, NEW to, Bench(from, to), UNCHANGED sw,
             <<from, to>> \in {<<"update", "pass">>, <<"pass", "update">>,
                              <<"charging", "waking">>}
      PROVE  BenchOrder' /\ sw' \in Switches
    BY <1>5, <1>7 DEF Bench, BenchOrder
<1>8. CASE TestLoop
    <2>1. ASSUME NEW b \in BOOLEAN, getPVT(b) \/ NoPVT(b) PROVE BenchOrder' /\ sw' \in Switches
        BY <1>7, <2>1 DEF getPVT, NoPVT, Polled
    <2>2. CASE NotAsked
        BY <1>7, <2>2 DEF NotAsked, Polled
    <2>3. CASE NoCycle
        BY <1>7, <2>3 DEF NoCycle
    <2>4. CASE Cycle
        BY <1>1, <1>5, <2>4, CycleFields DEF Cycle, Bench, BenchOrder
    <2>5. CASE TestPowerUp
        BY <1>5, <2>5, CycleFields DEF TestPowerUp, Pins, Bench, BenchOrder, CycleOn
    <2>6. CASE TestCharge
        BY <1>5, <2>6, CycleFields DEF TestCharge, Pins, Bench, BenchOrder, CycleFull
    <2>7. CASE TestCharged
        BY <1>7, <2>7 DEF TestCharged, Pins
    <2>8. CASE TestChargeFails
        BY <1>5, <2>8, CycleFields, CycleSwitches DEF TestChargeFails, Pins, Bench, BenchOrder
    <2>9. ASSUME NEW ok \in BOOLEAN, TestBegin(ok) PROVE BenchOrder' /\ sw' \in Switches
        BY <1>5, <2>9, CycleFields, CycleSwitches
           DEF TestBegin, Pins, Bench, BenchOrder, CycleAwake
    <2>10. ASSUME NEW ok \in BOOLEAN, TestSend(ok) PROVE BenchOrder' /\ sw' \in Switches
        BY <1>5, <2>10, CycleFields, CycleSwitches DEF TestSend, Bench, BenchOrder
    <2>11. CASE TestModemOff
        BY <1>5, <2>11, CycleFields, CycleSwitches DEF TestModemOff, Pins, Bench, BenchOrder
    <2>12. CASE TestReceiverOn
        BY <1>5, <2>12, CycleFields, CycleSwitches
           DEF TestReceiverOn, ReceiverOn, Bench, BenchOrder
    <2>13. ASSUME NEW ok \in BOOLEAN, NEW s \in PoweredReceiver,
                  InitIgnored(ok, s) \/ InitCounts(ok, s)
           PROVE  BenchOrder' /\ sw' \in Switches
        BY <1>5, <2>13, CycleFields, CycleSwitches
           DEF InitIgnored, InitCounts, initGPS, Bench, BenchOrder
    <2> QED
        BY <1>8, <2>1, <2>2, <2>3, <2>4, <2>5, <2>6, <2>7, <2>8, <2>9, <2>10, <2>11, <2>12, <2>13
           DEF TestLoop
<1> QED BY <1>6, <1>8 DEF BenchStep

USE SelfTestAssumption DEF SelfTestAssumption

Results == {"none", "sent", "failed"}
Colours == {"green", "red", "blue", "yellow", "magenta"}

\* What an assignment does to the bench's record.
LEMMA TestFields ==
    ASSUME NEW t \in Tests
    PROVE  /\ \A ok \in BOOLEAN :
                LET u == [t EXCEPT !.good = ok]
                IN  u \in Tests /\ u.good = ok /\ u.initOK = t.initOK /\ u.wait = t.wait
                      /\ u.result = t.result /\ u.shown = t.shown
           /\ \A ok \in BOOLEAN :
                LET u == [t EXCEPT !.initOK = ok]
                IN  u \in Tests /\ u.good = t.good /\ u.initOK = ok /\ u.wait = t.wait
                      /\ u.result = t.result /\ u.shown = t.shown
           /\ \A n \in 0 .. CYCLE_INTERVAL :
                LET u == [t EXCEPT !.wait = n]
                IN  u \in Tests /\ u.good = t.good /\ u.initOK = t.initOK /\ u.wait = n
                      /\ u.result = t.result /\ u.shown = t.shown
           /\ \A result \in Results :
                LET u == [t EXCEPT !.result = result]
                IN  u \in Tests /\ u.good = t.good /\ u.initOK = t.initOK /\ u.wait = t.wait
                      /\ u.result = result /\ u.shown = t.shown
           /\ \A colour \in Colours :
                LET u == [t EXCEPT !.shown = colour]
                IN  u \in Tests /\ u.good = t.good /\ u.initOK = t.initOK /\ u.wait = t.wait
                      /\ u.result = t.result /\ u.shown = colour
<1>1. ASSUME NEW ok \in BOOLEAN
      PROVE  LET u == [t EXCEPT !.good = ok]
             IN  u \in Tests /\ u.good = ok /\ u.initOK = t.initOK /\ u.wait = t.wait
                      /\ u.result = t.result /\ u.shown = t.shown
    BY DEF Tests
<1>2. ASSUME NEW ok \in BOOLEAN
      PROVE  LET u == [t EXCEPT !.initOK = ok]
             IN  u \in Tests /\ u.good = t.good /\ u.initOK = ok /\ u.wait = t.wait
                      /\ u.result = t.result /\ u.shown = t.shown
    BY DEF Tests
<1>3. ASSUME NEW n \in 0 .. CYCLE_INTERVAL
      PROVE  LET u == [t EXCEPT !.wait = n]
             IN  u \in Tests /\ u.good = t.good /\ u.initOK = t.initOK /\ u.wait = n
                      /\ u.result = t.result /\ u.shown = t.shown
    BY DEF Tests
<1>4. ASSUME NEW result \in Results
      PROVE  LET u == [t EXCEPT !.result = result]
             IN  u \in Tests /\ u.good = t.good /\ u.initOK = t.initOK /\ u.wait = t.wait
                      /\ u.result = result /\ u.shown = t.shown
    BY DEF Tests, Results
<1>5. ASSUME NEW colour \in Colours
      PROVE  LET u == [t EXCEPT !.shown = colour]
             IN  u \in Tests /\ u.good = t.good /\ u.initOK = t.initOK /\ u.wait = t.wait
                      /\ u.result = t.result /\ u.shown = colour
    BY DEF Tests, Colours
<1> QED BY <1>1, <1>2, <1>3, <1>4, <1>5

LEMMA ColourType ==
    /\ \A result \in Results : resultColour(result) \in Colours \ {"magenta", "yellow"}
    /\ resultColour("none") = "green" /\ resultColour("sent") = "blue"
    /\ resultColour("failed") = "red"
BY DEF Results, Colours, resultColour

\* What the end of a cycle leaves.
LEMMA CycleEnds ==
    ASSUME NEW t \in Tests, NEW result \in Results
    PROVE  LET u == CycleDone(t, result)
           IN  /\ u \in Tests /\ u.result = result /\ u.shown = resultColour(result)
               /\ u.initOK = t.initOK /\ u.good = t.good
<1> DEFINE v == [t EXCEPT !.wait = CYCLE_INTERVAL]
           w == [v EXCEPT !.result = result]
<1>1. v \in Tests /\ v.initOK = t.initOK /\ v.good = t.good
    BY TestFields
<1>2. [t EXCEPT !.wait = CYCLE_INTERVAL, !.result = result] = w
    BY DEF Tests
<1> HIDE DEF v
<1>3. w \in Tests /\ w.initOK = t.initOK /\ w.good = t.good /\ w.result = result
    BY <1>1, TestFields
<1> HIDE DEF w
<1>4. CycleDone(t, result) = [w EXCEPT !.shown = resultColour(result)]
    BY <1>2 DEF CycleDone, showStatus
<1>5. resultColour(result) \in Colours
    BY ColourType
<1> QED BY <1>3, <1>4, <1>5, TestFields

\* What a pass leaves that does not begin one.
LEMMA Waiting ==
    ASSUME test \in Tests, NEW colour \in Colours
    PROVE  LET u == showStatus(Waited, colour)
           IN  /\ u \in Tests /\ u.result = test.result /\ u.shown = colour
               /\ u.initOK = test.initOK /\ u.good = test.good
<1> DEFINE n == IF test.wait > 0 THEN test.wait - 1 ELSE 0
<1>1. n \in 0 .. CYCLE_INTERVAL
    BY DEF Tests
<1>2. Waited = [test EXCEPT !.wait = n]
    BY DEF Waited
<1> HIDE DEF n
<1> DEFINE v == [test EXCEPT !.wait = n]
<1>3. v \in Tests /\ v.initOK = test.initOK /\ v.good = test.good /\ v.result = test.result
    BY <1>1, TestFields
<1>4. Waited = v
    BY <1>2
<1> HIDE DEF v
<1> QED BY <1>3, <1>4, TestFields DEF showStatus

LEMMA StripStep == BenchInv /\ BenchStep => StripInv' /\ test' \in Tests
<1> SUFFICES ASSUME BenchInv, BenchStep PROVE StripInv' /\ test' \in Tests
    OBVIOUS
<1>1. pc \in TestPlaces /\ test \in Tests /\ StripInv
    BY DEF BenchInv, BenchType
<1>2. test.result \in Results /\ test.good \in BOOLEAN /\ test.initOK \in BOOLEAN
    BY <1>1 DEF Tests, Results
<1>3. CASE TestFaults
    BY <1>1, <1>3 DEF TestFaults, FallMute, WedgeBus, firmware, StripInv
<1>4. ASSUME UNCHANGED test, NEW from, NEW to, Bench(from, to),
             \/ <<from, to>> = <<"update", "pass">>
             \/ to \notin {"update", "pass"}
                  /\ (to \in {"sent", "sent_gps", "reinit_sent"} =>
                        from \in {"sent", "sent_gps", "reinit_sent"})
      PROVE  StripInv' /\ test' \in Tests
    BY <1>1, <1>4 DEF Bench, StripInv
<1>5. CASE TestLoop
    <2>1. ASSUME NEW b \in BOOLEAN, getPVT(b) PROVE StripInv' /\ test' \in Tests
        <3>0. test' = [test EXCEPT !.good = b]
            BY <2>1 DEF getPVT
        <3>1. test' \in Tests /\ test'.good = b /\ test'.initOK = test.initOK
              /\ test'.result = test.result /\ test'.shown = test.shown
            BY <1>1, <3>0, TestFields
        <3>2. pc = "update" /\ pc' = "pass" /\ test.initOK
            BY <2>1 DEF getPVT, Polled, Bench
        <3> QED BY <1>1, <3>1, <3>2 DEF StripInv
    <2>2. ASSUME NEW b \in BOOLEAN, NoPVT(b) \/ NotAsked PROVE StripInv' /\ test' \in Tests
        BY <1>4, <2>2 DEF NoPVT, NotAsked, Polled
    <2>3. CASE NoCycle
        <3> DEFINE colour == IF test.good THEN resultColour(test.result) ELSE "yellow"
        <3>1. colour \in Colours
            BY <1>2, ColourType DEF Colours
        <3>2. pc = "pass" /\ pc' = "update" /\ test' = showStatus(Waited, colour)
            BY <2>3 DEF NoCycle, Bench
        <3>3. colour = "yellow" \/ (test.good /\ colour = resultColour(test.result))
            OBVIOUS
        <3> HIDE DEF colour
        <3>4. test' \in Tests /\ test'.result = test.result /\ test'.shown = colour
              /\ test'.initOK = test.initOK /\ test'.good = test.good
            BY <1>1, <3>1, <3>2, Waiting
        <3> QED BY <1>1, <1>2, <3>2, <3>3, <3>4, ColourType DEF StripInv, Results
    <2>4. CASE Cycle
        <3>1. "magenta" \in Colours
            BY DEF Colours
        <3>2. test' = [test EXCEPT !.shown = "magenta"]
            BY <2>4 DEF Cycle, showStatus
        <3>3. test' \in Tests /\ test'.good = test.good /\ test'.initOK = test.initOK
              /\ test'.result = test.result
            BY <1>1, <3>1, <3>2, TestFields
        <3> QED BY <1>1, <2>4, <3>3 DEF Cycle, Bench, StripInv
    <2>5. ASSUME NEW ok \in BOOLEAN,
                 TestPowerUp \/ TestCharge \/ TestCharged \/ TestChargeFails \/ TestBegin(ok)
                   \/ TestModemOff \/ TestReceiverOn
          PROVE  StripInv' /\ test' \in Tests
        BY <1>4, <2>5 DEF TestPowerUp, TestCharge, TestCharged, TestChargeFails, TestBegin,
           TestModemOff, TestReceiverOn, ReceiverOn, Pins
    <2>6. ASSUME NEW ok \in BOOLEAN, TestSend(ok) PROVE StripInv' /\ test' \in Tests
        <3> DEFINE result == IF ok THEN "sent" ELSE "failed"
        <3>1. result \in Results /\ result # "none"
            BY DEF Results
        <3>2. test' = [test EXCEPT !.result = result] /\ pc' = "sent"
            BY <2>6 DEF TestSend, Bench
        <3> HIDE DEF result
        <3>3. test' \in Tests /\ test'.good = test.good /\ test'.initOK = test.initOK
              /\ test'.result = result
            BY <1>1, <3>1, <3>2, TestFields
        <3> QED BY <3>1, <3>2, <3>3 DEF StripInv
    <2>7. ASSUME NEW ok \in BOOLEAN, NEW s \in PoweredReceiver, InitIgnored(ok, s)
          PROVE  StripInv' /\ test' \in Tests
        <3>1. test' = CycleDone(test, "failed") /\ pc' = "update" /\ "failed" \in Results
            BY <2>7 DEF InitIgnored, initGPS, Bench, Results
        <3>2. test' \in Tests /\ test'.result = "failed" /\ test'.shown = "red"
            BY <1>1, <3>1, CycleEnds, ColourType
        <3> QED BY <3>1, <3>2 DEF StripInv
    <2>8. ASSUME NEW ok \in BOOLEAN, NEW s \in PoweredReceiver, InitCounts(ok, s)
          PROVE  StripInv' /\ test' \in Tests
        <3> DEFINE t == initGPSResult(test, ok)
        <3>1. t \in Tests
            BY <1>1, TestFields DEF initGPSResult
        <3>2. test' = CycleDone(t, test.result) /\ pc' = "update" /\ test.result # "none"
            BY <1>1, <2>8 DEF InitCounts, initGPS, Bench, StripInv
        <3> HIDE DEF t
        <3>3. test' \in Tests /\ test'.result = test.result
              /\ test'.shown = resultColour(test.result)
            BY <1>2, <3>1, <3>2, CycleEnds
        <3> QED BY <1>2, <3>2, <3>3, ColourType DEF StripInv, Results
    <2> QED BY <1>5, <2>1, <2>2, <2>3, <2>4, <2>5, <2>6, <2>7, <2>8 DEF TestLoop
<1> QED BY <1>3, <1>5 DEF BenchStep

LEMMA BenchTypeStep == BenchInv /\ BenchStep => BenchType'
<1> SUFFICES ASSUME BenchInv, BenchStep PROVE BenchType'
    OBVIOUS
<1>1. sw' \in Switches /\ test' \in Tests
    BY BenchOrderStep, StripStep
<1>2. gps = GPSManager_init /\ pc \in TestPlaces
    BY DEF BenchInv, BenchType
<1>3. gps' = gps
    BY DEF BenchStep, TestLoop, TestFaults, FallMute, WedgeBus, firmware, getPVT, NoPVT, NotAsked,
       Polled, NoCycle, Cycle, TestPowerUp, TestCharge, TestCharged, TestChargeFails, TestBegin,
       TestSend, TestModemOff, TestReceiverOn, ReceiverOn, InitIgnored, InitCounts, initGPS,
       Pins, Bench
<1>4. pc' \in TestPlaces
    BY <1>2 DEF TestPlaces, BenchStep, TestLoop, TestFaults, FallMute, WedgeBus, firmware, getPVT,
       NoPVT, NotAsked, Polled, NoCycle, Cycle, TestPowerUp, TestCharge, TestCharged,
       TestChargeFails, TestBegin, TestSend, TestModemOff, TestReceiverOn, ReceiverOn,
       InitIgnored, InitCounts, initGPS, Pins, Bench
<1> QED BY <1>1, <1>2, <1>3, <1>4 DEF BenchType

-----------------------------------------------------------------------------
(* Either image *)

boardVars == <<imageVars, position>>

\* A fix that is valid is one with a position: the vehicle's, since the bench
\* image keeps no record of the kind.
FixHasPosition == gps.valid => position.fixType >= 2

PositionType == position \in Positions \union {Nowhere}

BoardInv ==
    /\ image \in {"vehicle", "selftest"}
    /\ image = "vehicle" => IInv
    /\ image = "selftest" => BenchInv
    /\ FixHasPosition /\ PositionType

\* A step is one of the image that runs, and a position comes with a PVT.
LEMMA BoardSteps ==
    [BoardNext]_boardVars =>
        /\ image' = image
        /\ \/ image = "vehicle" /\ [Next]_vars
           \/ BenchStep
           \/ UNCHANGED <<vars, test>>
        /\ UNCHANGED position \/ (\E fix \in BOOLEAN : Moved(fix))
<1> SUFFICES ASSUME [BoardNext]_boardVars
             PROVE  /\ image' = image
                    /\ \/ image = "vehicle" /\ [Next]_vars
                       \/ BenchStep
                       \/ UNCHANGED <<vars, test>>
                    /\ UNCHANGED position \/ (\E fix \in BOOLEAN : Moved(fix))
    OBVIOUS
<1>1. ASSUME NEW fix \in BOOLEAN, Vehicle(Pvt(fix))
      PROVE  image = "vehicle" /\ Next /\ image' = image
    BY <1>1 DEF Vehicle, Next, Update
<1>2. ASSUME TestLoop PROVE BenchStep /\ image' = image
    BY <1>2 DEF BenchStep, TestLoop, getPVT, NoPVT, NotAsked, Polled, NoCycle, Cycle, TestPowerUp,
       TestCharge, TestCharged, TestChargeFails, TestBegin, TestSend, TestModemOff,
       TestReceiverOn, ReceiverOn, InitIgnored, InitCounts, initGPS, Pins, Bench
<1>3. ASSUME NEW fix \in BOOLEAN, getPVT(fix) PROVE TestLoop
    BY <1>3 DEF TestLoop
<1>4. ASSUME NEW fix \in BOOLEAN, Moved(fix)
      PROVE  /\ image' = image /\ ((image = "vehicle" /\ [Next]_vars) \/ BenchStep)
    BY <1>1, <1>2, <1>3, <1>4 DEF Moved, Located
<1>5. ASSUME ImageNext
      PROVE  /\ image' = image /\ ((image = "vehicle" /\ [Next]_vars) \/ BenchStep)
    <2>1. CASE Vehicle(Next)
        BY <2>1 DEF Vehicle
    <2>2. CASE TestFaults
        BY <2>2 DEF TestFaults, BenchStep
    <2> QED BY <1>2, <1>5, <2>1, <2>2 DEF ImageNext
<1>6. CASE UNCHANGED boardVars
    BY <1>6 DEF boardVars, imageVars
<1>7. CASE BoardNext
    BY <1>4, <1>5, <1>7 DEF BoardNext
<1> QED BY <1>6, <1>7

\* Nothing but a PVT with a fix makes the fix valid.
LEMMA FixStep ==
    ASSUME BoardInv, [BoardNext]_boardVars PROVE FixHasPosition' /\ PositionType'
<1>1. UNCHANGED position \/ (\E fix \in BOOLEAN : Moved(fix))
    BY BoardSteps
<1>2. PositionType'
    BY <1>1 DEF BoardInv, PositionType, Moved
<1>3. CASE image = "selftest"
    <2>1. image' = image /\ (BenchStep \/ UNCHANGED <<vars, test>>)
        BY <1>3, BoardSteps
    <2>2. gps' = GPSManager_init
        BY <1>3, <2>1, BenchTypeStep DEF BoardInv, BenchInv, BenchType, vars, firmware
    <2> QED BY <1>2, <2>2 DEF FixHasPosition, GPSManager_init
<1>4. CASE image = "vehicle"
    <2>1. ASSUME NEW fix \in BOOLEAN, Moved(fix) PROVE FixHasPosition'
        <3>1. Pvt(fix) /\ (fix => position'.fixType >= 2)
            BY <1>4, <2>1 DEF Moved, Located, Vehicle, getPVT, Polled, Bench, LeastFix
        <3>2. gps'.valid = fix
            BY <1>4, <3>1 DEF Pvt, processPVT, stamp, BoardInv, IInv, TypeOK, Gps
        <3> QED BY <3>1, <3>2 DEF FixHasPosition
    <2>2. FixHasPosition
        BY DEF BoardInv
    <2>3. CASE UNCHANGED boardVars
        <3>1. gps' = gps /\ position' = position
            BY <2>3 DEF boardVars, imageVars, vars, firmware
        <3> QED BY <1>2, <2>2, <3>1 DEF FixHasPosition
    <2>4. ASSUME ImageNext, ~(\E fix \in BOOLEAN : Located(fix)), UNCHANGED position
          PROVE  FixHasPosition'
        <3>1. Next /\ ~(\E fix \in BOOLEAN : Pvt(fix))
            BY <1>4, <2>4 DEF ImageNext, Located, Vehicle, TestFaults, TestLoop, getPVT, NoPVT,
               NotAsked, Polled, NoCycle, Cycle, TestPowerUp, TestCharge, TestCharged,
               TestChargeFails, TestBegin, TestSend, TestModemOff, TestReceiverOn,
               ReceiverOn, InitIgnored, InitCounts, initGPS, Pins, Bench
        <3>2. gps \in Gps
            BY <1>4 DEF BoardInv, IInv, TypeOK
        <3>3. gps' = gps \/ gps' = stamp(gps) \/ gps' = refused(gps) \/ gps' = answered(gps)
                \/ gps' = GPSManager_init \/ gps' = GpsElapse(gps, 1)
            BY <3>1 DEF Next, Update, Watchdog, gpsFullReinit, Refused, Answered, NoSession,
               InSession, OpenReport, OpenOther,
               IridiumManager_sendMissionReport, IridiumManager_sendPosition,
               IridiumManager_sendStatusReport, IridiumManager_sendDorisReport,
               IridiumManager_sendMessage, IridiumManager_sendBinary, IridiumManager_checkMessages,
               IridiumManager_checkMT, IridiumManager_getSignalQuality, IridiumManager_init,
               iridiumSendPayload, Open, Charge, ChargeFails, PowerUp, PowerDown, Back, Begin,
               Send, Step, Reinit, reinit, Boot, FallMute, WedgeBus, Dive, Surface, firmware, Tick
        <3>4. gps'.valid => gps.valid
            <4>1. /\ stamp(gps).valid = gps.valid /\ refused(gps).valid = gps.valid
                  /\ answered(gps).valid = gps.valid
                BY <3>2 DEF stamp, refused, answered, Gps
            <4>2. GpsElapse(gps, 1).valid = gps.valid /\ ~GPSManager_init.valid
                BY <3>2 DEF GPSManager_init, GpsElapse, Gps
            <4> QED BY <3>3, <4>1, <4>2
        <3> QED BY <2>2, <2>4, <3>4 DEF FixHasPosition
    <2> QED BY <1>2, <2>1, <2>3, <2>4 DEF BoardNext
<1> QED BY <1>2, <1>3, <1>4 DEF BoardInv

\* Either image keeps its invariant, and no step changes the image.
LEMMA BoardStep == BoardInv /\ [BoardNext]_boardVars => BoardInv'
<1> SUFFICES ASSUME BoardInv, [BoardNext]_boardVars PROVE BoardInv'
    OBVIOUS
<1>1. image' = image /\ image \in {"vehicle", "selftest"}
    BY BoardSteps DEF BoardInv
<1>2. CASE image = "vehicle"
    <2>1. IInv /\ [Next]_vars
        BY <1>2, BoardSteps DEF BoardInv, BenchStep, vars
    <2>2. IInv'
        BY <2>1, TypeStep, OrderStep, ClockStep DEF IInv
    <2> QED BY <1>1, <1>2, <2>2, FixStep DEF BoardInv
<1>3. CASE image = "selftest"
    <2>1. BenchInv /\ (BenchStep \/ UNCHANGED <<vars, test>>)
        BY <1>3, BoardSteps DEF BoardInv
    <2>2. BenchInv'
        <3>1. CASE BenchStep
            BY <2>1, <3>1, BenchTypeStep, BenchOrderStep, StripStep DEF BenchInv
        <3>2. CASE UNCHANGED <<vars, test>>
            BY <2>1, <3>2 DEF vars, firmware, BenchInv, BenchType, BenchOrder, StripInv
        <3> QED BY <2>1, <3>1, <3>2
    <2> QED BY <1>1, <1>3, <2>2, FixStep DEF BoardInv
<1> QED BY <1>1, <1>2, <1>3

LEMMA BoardStart == BoardInit => BoardInv
<1> SUFFICES ASSUME BoardInit PROVE BoardInv
    OBVIOUS
<1>1. IInv
    <2>1. Unseen \in Seen
        BY DEF Unseen, Seen
    <2>2. TypeOK
        BY <2>1, GpsInitType, PoweredType, AttemptsType
           DEF BoardInit, ImageInit, Init, TypeOK, Powered
    <2>3. InOrder
        BY DEF BoardInit, ImageInit, Init, InOrder, Powered
    <2>4. ClockBehind
        BY DEF BoardInit, ImageInit, Init, ClockBehind, GPSManager_init
    <2> QED BY <2>2, <2>3, <2>4 DEF IInv
<1>2. /\ test \in Tests /\ ~test.good /\ test.result = "none"
      /\ test.shown = (IF test.initOK THEN "green" ELSE "red")
    <2>1. PICK ok \in BOOLEAN :
            test = [initOK |-> ok, good |-> FALSE, wait |-> 0, result |-> "none",
                    shown |-> IF ok THEN "green" ELSE "red"]
        BY DEF BoardInit, ImageInit, TestInit
    <2>2. 0 \in 0 .. CYCLE_INTERVAL
        OBVIOUS
    <2> QED BY <2>1, <2>2 DEF Tests
<1>3. StripInv
    BY <1>2 DEF StripInv, BoardInit, ImageInit, Init, Tests
<1>4. BenchInv
    BY <1>2, <1>3, PoweredType
       DEF BenchInv, BenchType, BenchOrder, BoardInit, ImageInit, Init, TestPlaces, Powered
<1>5. FixHasPosition /\ PositionType
    BY DEF FixHasPosition, PositionType, BoardInit, ImageInit, Init, GPSManager_init
<1> QED BY <1>1, <1>4, <1>5 DEF BoardInv, BoardInit, ImageInit

\* The inductive invariant holds of every behaviour of either image.
THEOREM BoardInvariant == BoardSpec => []BoardInv
BY BoardStart, BoardStep, PTL DEF BoardSpec, boardVars

\* The GNSS record, the switches, the place in the loop and the bench's record
\* keep their types (gps_manager.cpp, iridium_manager.cpp, main_selftest.cpp).
BoardTypeOK ==
    /\ gps \in Gps /\ sw \in Switches /\ (image = "vehicle" => TypeOK)
    /\ image = "selftest" => test \in Tests /\ pc \in TestPlaces

THEOREM TypeCorrect == BoardSpec => []BoardTypeOK
<1>1. BoardInv => BoardTypeOK
    BY GpsInitType DEF BoardInv, BoardTypeOK, IInv, TypeOK, BenchInv, BenchType
<1> QED BY <1>1, BoardInvariant, PTL

\* The receiver and the modem are never powered together, on any error path of
\* either image (the comment over configureGnssEnPin).
THEOREM AntennaIsExclusive == BoardSpec => []AntennaExclusive
<1>1. ASSUME IInv PROVE AntennaExclusive
    <2> USE <1>1 DEF IInv, InOrder, AntennaExclusive
    <2>1. ~Powered.power /\ ~setupPins.gnss /\ ~Charging.gnss
          /\ ~modemPowerUp(Charging).gnss
          /\ \A ok \in BOOLEAN : ~modemBegin(modemPowerUp(Charging), ok).gnss
        BY DEF Powered, Charging, setupPins, antennaToGPS, chargeSupercaps,
           modemPowerUp, modemBegin
    <2>2. \/ sw \in {Powered, setupPins, Charging, modemPowerUp(Charging)}
          \/ \E ok \in BOOLEAN : sw = modemBegin(modemPowerUp(Charging), ok)
        BY DEF TypeOK
    <2> HIDE <1>1 DEF IInv, InOrder
    <2> QED BY <2>1, <2>2
<1>2. ASSUME BenchInv PROVE AntennaExclusive
    <2>1. sw \in {Powered, setupPins, CycleOn, CycleFull, CycleAwake}
        BY <1>2 DEF BenchInv, BenchType, BenchOrder, TestPlaces
    <2> QED BY <2>1, CycleFields DEF AntennaExclusive
<1>3. BoardInv => AntennaExclusive
    BY <1>1, <1>2 DEF BoardInv
<1> QED BY <1>3, BoardInvariant, PTL

\* The superloop of either image goes on with the antenna at the receiver and
\* the modem off (iridiumSendPayload, switchToGPS).
THEOREM SessionsGiveBack == BoardSpec => []SessionGivesBack
<1>1. BoardInv => SessionGivesBack
    BY DEF BoardInv, IInv, InOrder, BenchInv, BenchOrder, SessionGivesBack, Powered
<1> QED BY <1>1, BoardInvariant, PTL

\* The watchdog restarts no receiver that has not been silent for its time,
\* but one that did not come back from a session (GPSManager_update).
THEOREM WatchdogWaits == BoardSpec => WatchdogIsPatient
<1>1. BoardInv /\ [BoardNext]_boardVars =>
        [(\E s \in PoweredReceiver : Watchdog(s))
            => seen.silent > PVT_WATCHDOG \/ seen.failed]_vars
    <2> SUFFICES ASSUME BoardInv, NEW s \in PoweredReceiver, Watchdog(s)
                 PROVE  seen.silent > PVT_WATCHDOG \/ seen.failed
        OBVIOUS
    <2>1. gps.stamped /\ gps.age > PVT_WATCHDOG
        BY DEF Watchdog, watchdogDue
    <2>2. CASE image = "vehicle"
        BY <2>1, <2>2 DEF BoardInv, IInv, TypeOK, Gps, Seen, ClockBehind
    <2>3. CASE image = "selftest"
        BY <2>1, <2>3 DEF BoardInv, BenchInv, BenchType, GPSManager_init
    <2> QED BY <2>2, <2>3 DEF BoardInv
<1> QED BY <1>1, BoardInvariant, PTL DEF BoardSpec, WatchdogIsPatient, boardVars

-----------------------------------------------------------------------------
(* The library's minimum and maximum of two *)

LEMMA MinOfTwo ==
    ASSUME NEW a \in Int, NEW b \in Int
    PROVE  Min({a, b}) = IF a <= b THEN a ELSE b
  <1>1. ASSUME a <= b
        PROVE  Min({a, b}) = a
    <2>1. \A x \in {a, b} : (\A y \in {a, b} : x <= y) <=> x = a
      BY <1>1
    <2> QED
      BY <2>1 DEF Min
  <1>2. ASSUME ~(a <= b)
        PROVE  Min({a, b}) = b
    <2>1. \A x \in {a, b} : (\A y \in {a, b} : x <= y) <=> x = b
      BY <1>2
    <2> QED
      BY <2>1 DEF Min
  <1> QED
    BY <1>1, <1>2

LEMMA MaxOfTwo ==
    ASSUME NEW a \in Int, NEW b \in Int
    PROVE  Max({a, b}) = IF a >= b THEN a ELSE b
  <1>1. ASSUME a >= b
        PROVE  Max({a, b}) = a
    <2>1. \A x \in {a, b} : (\A y \in {a, b} : x >= y) <=> x = a
      BY <1>1
    <2> QED
      BY <2>1 DEF Max
  <1>2. ASSUME ~(a >= b)
        PROVE  Max({a, b}) = b
    <2>1. \A x \in {a, b} : (\A y \in {a, b} : x >= y) <=> x = b
      BY <1>2
    <2> QED
      BY <2>1 DEF Max
  <1> QED
    BY <1>1, <1>2

LEMMA BetweenIsWithin ==
    ASSUME NEW lo \in Int, NEW x \in Int, NEW hi \in Int, lo <= hi
    PROVE  Between(lo, x, hi) = IF x < lo THEN lo ELSE IF x > hi THEN hi ELSE x
  <1>1. Min({x, hi}) = IF x <= hi THEN x ELSE hi
    BY MinOfTwo
  <1>2. Between(lo, x, hi) = IF lo >= Min({x, hi}) THEN lo ELSE Min({x, hi})
    BY <1>1, MaxOfTwo DEF Between
  <1> QED
    BY <1>1, <1>2

-----------------------------------------------------------------------------
(* Rounding *)

\* The rounded number is the nearest, in any even unit.
LEMMA RoundedIsNearest ==
    ASSUME NEW n \in Nat, NEW unit \in Nat \ {0}, unit % 2 = 0
    PROVE  /\ roundedPositive(n, unit) \in Nat
           /\ Nearest(roundedPositive(n, unit), unit, n)
  <1> DEFINE half == unit \div 2
             k == (n + half) \div unit
  <1>1. half \in Nat /\ 2 * half = unit
    OBVIOUS
  <1>2. k \in Nat /\ k * unit <= n + half /\ n + half < k * unit + unit
    BY <1>1
  <1> QED
    BY <1>1, <1>2 DEF roundedPositive, Nearest, Magnitude

LEMMA MagnitudeIsNatural ==
    ASSUME NEW n \in Int
    PROVE  Magnitude(n) \in Nat /\ (n < 0 => Magnitude(n) = -n) /\ (n >= 0 => Magnitude(n) = n)
  BY DEF Magnitude

LEMMA FieldsOfCoordinate ==
    ASSUME NEW minus, NEW scaled, NEW c, c = [minus |-> minus, scaled |-> scaled]
    PROVE  c.minus = minus /\ c.scaled = scaled
  OBVIOUS

LEMMA CoordinateSpelled ==
    ASSUME NEW limit \in Nat, NEW d \in -limit * DEGREE .. limit * DEGREE
    PROVE  CoordinateReadsBack(Coordinate(d, limit), d, limit)
  <1> DEFINE bound == limit * DEGREE
             top == limit * COORDINATE_SCALE
             rounded == roundedPositive(Magnitude(d), 100)
  <1>1. bound \in Nat /\ top \in Nat /\ bound = 100 * top /\ d \in Int
        /\ -bound <= d /\ d <= bound
    BY SMT DEF DEGREE, COORDINATE_SCALE
  <1>2. Between(-limit * DEGREE, d, limit * DEGREE) = d
    BY SMT, <1>1, BetweenIsWithin DEF DEGREE
  <1>3. Magnitude(d) \in 0 .. bound
    BY SMT, <1>1, MagnitudeIsNatural
  <1>4. rounded \in Nat /\ Nearest(rounded, 100, Magnitude(d))
    BY SMT, <1>3, RoundedIsNearest
  <1>5. rounded <= top
    BY SMT, <1>1, <1>3, <1>4 DEF roundedPositive
  <1>6. DEGREE \div COORDINATE_SCALE = 100
    BY SMT DEF DEGREE, COORDINATE_SCALE
  <1>7. Coordinate(d, limit) = [minus |-> d < 0, scaled |-> rounded]
    BY SMT, <1>1, <1>2, <1>4, <1>5, <1>6, MinOfTwo DEF Coordinate
  <1>8. Nearest(IF d < 0 THEN -rounded ELSE rounded, 100, d)
    BY SMT, <1>1, <1>4 DEF Nearest, Magnitude
  <1>9. Coordinate(d, limit).scaled = rounded /\ Coordinate(d, limit).minus = (d < 0)
    <2> HIDE DEF rounded
    <2> QED
      BY Zenon, <1>7, FieldsOfCoordinate
  <1>10. CASE d < 0
    <2>1. Coordinate(d, limit).minus
      BY Zenon, <1>9, <1>10
    <2>2. Nearest(-rounded, 100, d)
      BY Zenon, <1>8, <1>10
    <2> QED
      BY Zenon, <1>5, <1>9, <2>1, <2>2 DEF CoordinateReadsBack
  <1>11. CASE ~(d < 0)
    <2>1. ~Coordinate(d, limit).minus
      BY Zenon, <1>9, <1>11
    <2>2. Nearest(rounded, 100, d)
      BY Zenon, <1>8, <1>11
    <2> QED
      BY Zenon, <1>5, <1>9, <2>1, <2>2 DEF CoordinateReadsBack
  <1> QED
    BY <1>10, <1>11

\* Of a field's own cap: speed, depth and battery are one pattern.
LEMMA CappedSpelled ==
    ASSUME NEW cap \in Nat, cap % 100 = 0, NEW n \in Nat
    PROVE  /\ roundedPositive(Between(0, n, cap), 100) \in Nat
           /\ 100 * roundedPositive(Between(0, n, cap), 100) <= cap
           /\ n <= cap => Nearest(roundedPositive(Between(0, n, cap), 100), 100, n)
  <1>1. /\ Between(0, n, cap) \in Nat /\ Between(0, n, cap) <= cap
        /\ n <= cap => Between(0, n, cap) = n
    BY SMT, BetweenIsWithin
  <1>2. ASSUME NEW k \in Nat, k <= cap
        PROVE  /\ roundedPositive(k, 100) \in Nat /\ 100 * roundedPositive(k, 100) <= cap
               /\ Nearest(roundedPositive(k, 100), 100, k)
    <2>1. roundedPositive(k, 100) \in Nat /\ Nearest(roundedPositive(k, 100), 100, k)
      BY SMT, RoundedIsNearest
    <2>2. 100 * roundedPositive(k, 100) <= cap
      BY SMT, <1>2 DEF roundedPositive
    <2> QED
      BY SMT, <2>1, <2>2
  <1> QED
    BY SMT, <1>1, <1>2

LEMMA SpeedSpelled ==
    ASSUME NEW s \in Nat
    PROVE  Speed(s) <= 99 /\ (s <= 9900 => Nearest(Speed(s), 100, s))
  <1>1. ASSUME NEW cap \in Nat, cap = 9900
        PROVE  /\ roundedPositive(Between(0, s, cap), 100) <= 99
               /\ s <= cap => Nearest(roundedPositive(Between(0, s, cap), 100), 100, s)
    <2> DEFINE spelled == roundedPositive(Between(0, s, cap), 100)
    <2>1. cap % 100 = 0
      BY SMT, <1>1
    <2>2. spelled \in Nat /\ 100 * spelled <= cap /\ (s <= cap => Nearest(spelled, 100, s))
      BY Zenon, <2>1, CappedSpelled
    <2> HIDE DEF spelled
    <2>3. spelled <= 99
      BY SMT, <1>1, <2>2
    <2> QED
      BY SMT, <2>2, <2>3 DEF spelled
  <1>2. 9900 \in Nat
    BY SMT
  <1> QED
    BY SMT, <1>1, <1>2 DEF Speed

LEMMA DepthSpelled ==
    ASSUME NEW d \in Nat
    PROVE  Depth(d) <= 9999 /\ (d <= 999900 => Nearest(Depth(d), 100, d))
  <1>1. ASSUME NEW cap \in Nat, cap = 999900
        PROVE  /\ roundedPositive(Between(0, d, cap), 100) <= 9999
               /\ d <= cap => Nearest(roundedPositive(Between(0, d, cap), 100), 100, d)
    <2> DEFINE spelled == roundedPositive(Between(0, d, cap), 100)
    <2>1. cap % 100 = 0
      BY SMT, <1>1
    <2>2. spelled \in Nat /\ 100 * spelled <= cap /\ (d <= cap => Nearest(spelled, 100, d))
      BY Zenon, <2>1, CappedSpelled
    <2> HIDE DEF spelled
    <2>3. spelled <= 9999
      BY SMT, <1>1, <2>2
    <2> QED
      BY SMT, <2>2, <2>3 DEF spelled
  <1>2. 999900 \in Nat
    BY SMT
  <1> QED
    BY SMT, <1>1, <1>2 DEF Depth

LEMMA BatterySpelled ==
    ASSUME NEW v \in Nat
    PROVE  Battery(v) <= 999 /\ (v <= 99900 => Nearest(Battery(v), 100, v))
  <1>1. ASSUME NEW cap \in Nat, cap = 99900
        PROVE  /\ roundedPositive(Between(0, v, cap), 100) <= 999
               /\ v <= cap => Nearest(roundedPositive(Between(0, v, cap), 100), 100, v)
    <2> DEFINE spelled == roundedPositive(Between(0, v, cap), 100)
    <2>1. cap % 100 = 0
      BY SMT, <1>1
    <2>2. spelled \in Nat /\ 100 * spelled <= cap /\ (v <= cap => Nearest(spelled, 100, v))
      BY Zenon, <2>1, CappedSpelled
    <2> HIDE DEF spelled
    <2>3. spelled <= 999
      BY SMT, <1>1, <2>2
    <2> QED
      BY SMT, <2>2, <2>3 DEF spelled
  <1>2. 99900 \in Nat
    BY SMT
  <1> QED
    BY SMT, <1>1, <1>2 DEF Battery

\* A heading of whole units, whatever a turn and a unit are.
LEMMA HeadingSpelled ==
    ASSUME NEW unit \in Nat \ {0}, unit % 2 = 0, NEW turned \in Nat, turned < 360 * unit
    PROVE  LET degrees == roundedPositive(turned, unit)
           IN  /\ degrees \in 0 .. 360
               /\ degrees = 360 => Nearest(0, unit, turned - 360 * unit)
               /\ degrees # 360 => Nearest(degrees, unit, turned - 0)
  <1> DEFINE degrees == roundedPositive(turned, unit)
  <1>1. degrees \in Nat /\ Nearest(degrees, unit, turned)
    BY SMT, RoundedIsNearest
  <1>2. degrees <= 360
    BY SMT, <1>1 DEF Nearest, Magnitude
  <1>3. degrees = 360 => Nearest(0, unit, turned - 360 * unit)
    BY SMT, <1>1 DEF Nearest, Magnitude
  <1>4. turned - 0 = turned
    BY SMT
  <1> QED
    BY SMT, <1>1, <1>2, <1>3, <1>4

LEMMA CourseSpelled ==
    ASSUME NEW c \in Int
    PROVE  CourseReadsBack(normalizedCourse(c), c)
  <1>1. ASSUME NEW unit \in Nat, unit = 100000, NEW turned \in Nat, turned < 36000000
        PROVE  /\ roundedPositive(turned, unit) \in 0 .. 360
               /\ roundedPositive(turned, unit) = 360 => Nearest(0, unit, turned - 36000000)
               /\ roundedPositive(turned, unit) # 360 =>
                    Nearest(roundedPositive(turned, unit), unit, turned - 0)
    <2>1. unit \in Nat \ {0} /\ unit % 2 = 0
      BY SMT, <1>1
    <2>2. 360 * unit = 36000000
      BY SMT, <1>1
    <2>3. turned < 360 * unit
      BY SMT, <1>1, <2>2
    <2>4. /\ roundedPositive(turned, unit) \in 0 .. 360
          /\ roundedPositive(turned, unit) = 360 => Nearest(0, unit, turned - 360 * unit)
          /\ roundedPositive(turned, unit) # 360 =>
               Nearest(roundedPositive(turned, unit), unit, turned - 0)
      BY Zenon, <2>1, <2>3, HeadingSpelled
    <2> QED
      BY SMT, <2>2, <2>4
  <1> DEFINE turned == c % 36000000
             degrees == roundedPositive(turned, 100000)
  <1>2. turned \in Nat /\ turned < 36000000 /\ 100000 \in Nat
    BY SMT
  <1>3. /\ degrees \in 0 .. 360
        /\ degrees = 360 => Nearest(0, 100000, turned - 36000000)
        /\ degrees # 360 => Nearest(degrees, 100000, turned - 0)
    <2> HIDE DEF turned
    <2> QED
      BY SMT, <1>1, <1>2
  <1> QED
    BY SMT, <1>3 DEF CourseReadsBack, normalizedCourse

-----------------------------------------------------------------------------
(* A report *)

\* A P/1 report with a position spells every position on Earth, every depth and
\* every voltage to the last digit, and fills no field beyond its width
\* (IridiumMessage_formatP1).
THEOREM ReportSpellsThePosition ==
    ASSUME NEW p, p.lat \in Latitudes, p.lon \in Longitudes, p.speed \in Nat, p.course \in Int,
           NEW depth \in Nat, NEW volts \in Nat
    PROVE  P1ReadsBack(IridiumMessage_formatP1(TRUE, p, depth, volts), p, depth, volts)
  <1> DEFINE r == IridiumMessage_formatP1(TRUE, p, depth, volts)
  <1>1. /\ r.lat = Coordinate(p.lat, 90) /\ r.lon = Coordinate(p.lon, 180)
        /\ r.speed = Speed(p.speed) /\ r.course = normalizedCourse(p.course)
        /\ r.depth = Depth(depth) /\ r.battery = Battery(volts)
    BY SMT DEF IridiumMessage_formatP1
  <1> HIDE DEF r
  <1>2. CoordinateReadsBack(Coordinate(p.lat, 90), p.lat, 90)
        /\ CoordinateReadsBack(Coordinate(p.lon, 180), p.lon, 180)
    BY SMT, CoordinateSpelled DEF Latitudes, Longitudes
  <1>3. Speed(p.speed) <= 99 /\ (p.speed <= 9900 => Nearest(Speed(p.speed), 100, p.speed))
    BY SMT, SpeedSpelled
  <1>4. CourseReadsBack(normalizedCourse(p.course), p.course)
    BY SMT, CourseSpelled
  <1>5. Depth(depth) <= 9999 /\ (depth <= 999900 => Nearest(Depth(depth), 100, depth))
    BY SMT, DepthSpelled
  <1>6. Battery(volts) <= 999 /\ (volts <= 99900 => Nearest(Battery(volts), 100, volts))
    BY SMT, BatterySpelled
  <1>7. P1ReadsBack(r, p, depth, volts)
    <2>1. CoordinateReadsBack(r.lat, p.lat, 90) /\ CoordinateReadsBack(r.lon, p.lon, 180)
      BY SMT, <1>1, <1>2
    <2>2. CourseReadsBack(r.course, p.course)
      BY SMT, <1>1, <1>4
    <2>3. /\ r.speed <= 99 /\ (p.speed <= 9900 => Nearest(r.speed, 100, p.speed))
          /\ r.depth <= 9999 /\ (depth <= 999900 => Nearest(r.depth, 100, depth))
          /\ r.battery <= 999 /\ (volts <= 99900 => Nearest(r.battery, 100, volts))
      BY SMT, <1>1, <1>3, <1>5, <1>6
    <2> QED
      BY SMT, <2>1, <2>2, <2>3 DEF P1ReadsBack
  <1> QED
    BY Zenon, <1>7 DEF r

-----------------------------------------------------------------------------
(* A line of text and a sentence *)

LEMMA FieldsOfDecimal ==
    ASSUME NEW minus, NEW whole, NEW part, NEW c,
           c = [minus |-> minus, whole |-> whole, part |-> part]
    PROVE  c.minus = minus /\ c.whole = whole /\ c.part = part
  OBVIOUS

LEMMA Division ==
    ASSUME NEW n \in Nat, NEW m \in Nat \ {0}
    PROVE  /\ n \div m \in Nat /\ n % m \in Nat /\ n % m < m
           /\ n = m * (n \div m) + (n % m)
  BY SMT

LEMMA DegreeIsPositive == DEGREE \in Nat \ {0}
  BY SMT DEF DEGREE

\* Every coordinate in a line of text reads back, with a fraction of six digits
\* (GPSManager_getDataString).
THEOREM LineSpellsTheCoordinate ==
    ASSUME NEW d \in Int
    PROVE  DecimalReadsBack(Decimal(d), d)
  <1> DEFINE whole == Magnitude(d) \div DEGREE
             rest == Magnitude(d) % DEGREE
             millionths == roundedPositive(rest, 10)
  <1>1. whole \in Nat /\ rest \in Nat /\ rest < DEGREE
    BY SMT, MagnitudeIsNatural, DegreeIsPositive, Division
  <1> HIDE DEF whole, rest
  <1>2. millionths \in Nat /\ Nearest(millionths, 10, rest)
    BY SMT, <1>1, RoundedIsNearest
  <1>3. millionths <= 1000000
    BY SMT, <1>1 DEF roundedPositive, DEGREE
  <1> HIDE DEF millionths
  <1>4. ASSUME NEW s, s.minus = (d < 0), s.part \in Nat, s.part < 1000000,
               (s.whole - whole) * 1000000 + s.part = millionths
        PROVE  DecimalReadsBack(s, d)
    BY SMT, <1>2, <1>4 DEF DecimalReadsBack, whole, rest
  <1>5. CASE millionths = 1000000
    <2>1. Decimal(d) = [minus |-> d < 0, whole |-> whole + 1, part |-> 0]
      BY SMT, <1>5 DEF Decimal, millionths, rest, whole
    <2>2. /\ Decimal(d).minus = (d < 0) /\ Decimal(d).whole = whole + 1
          /\ Decimal(d).part = 0
      BY SMT, <2>1, FieldsOfDecimal
    <2>3. (whole + 1 - whole) * 1000000 + 0 = millionths
      BY SMT, <1>1, <1>5
    <2>4. /\ Decimal(d).part \in Nat /\ Decimal(d).part < 1000000
          /\ (Decimal(d).whole - whole) * 1000000 + Decimal(d).part = millionths
      BY SMT, <1>1, <2>2, <2>3
    <2> QED
      BY SMT, <1>4, <2>2, <2>4
  <1>6. CASE millionths # 1000000
    <2>1. Decimal(d) = [minus |-> d < 0, whole |-> whole, part |-> millionths]
      BY SMT, <1>6 DEF Decimal, millionths, rest, whole
    <2>2. /\ Decimal(d).minus = (d < 0) /\ Decimal(d).whole = whole
          /\ Decimal(d).part = millionths
      BY SMT, <2>1, FieldsOfDecimal
    <2>3. (whole - whole) * 1000000 + millionths = millionths
      BY SMT, <1>1, <1>2
    <2>4. millionths < 1000000
      BY SMT, <1>2, <1>3, <1>6
    <2> QED
      BY SMT, <1>2, <1>4, <2>2, <2>3, <2>4
  <1> QED
    BY <1>5, <1>6

\* Every coordinate in a sentence reads back, with four digits of a minute
\* (format_lat, format_lon).
THEOREM SentenceSpellsTheCoordinate ==
    ASSUME NEW d \in Int
    PROVE  MinutesReadBack(Minutes(d), d)
  <1> DEFINE degree == Magnitude(d) \div DEGREE
             sixty == (Magnitude(d) % DEGREE) * 60
             minute == sixty \div DEGREE
             rest == sixty % DEGREE
             part == roundedPositive(rest, 1000)
             c == [degree |-> degree, minute |-> minute, part |-> part]
  <1>1. degree \in Nat /\ sixty \in Nat /\ sixty < 60 * DEGREE
    <2>1. degree \in Nat /\ Magnitude(d) % DEGREE \in Nat /\ Magnitude(d) % DEGREE < DEGREE
      BY SMT, MagnitudeIsNatural, DegreeIsPositive, Division
    <2> QED
      BY SMT, <2>1 DEF DEGREE
  <1>2. Minutes(d) = carried(c)
    BY DEF Minutes
  <1> HIDE DEF degree, sixty
  <1>3. minute \in Nat /\ rest \in Nat /\ rest < DEGREE /\ sixty = DEGREE * minute + rest
    BY SMT, <1>1, DegreeIsPositive, Division
  <1> HIDE DEF minute, rest
  <1>4. minute < 60
    BY SMT, <1>1, <1>3 DEF DEGREE
  <1>5. part \in Nat /\ Nearest(part, 1000, rest)
    BY SMT, <1>3, RoundedIsNearest
  <1>6. part <= 10000
    BY SMT, <1>3 DEF roundedPositive, DEGREE
  <1> HIDE DEF part
  <1>7. Nearest(minute * 10000 + part, 1000, sixty)
    <2>1. (minute * 10000 + part) * 1000 - sixty = part * 1000 - rest
      BY SMT, <1>1, <1>3, <1>5 DEF DEGREE
    <2> QED
      BY SMT, <1>5, <2>1 DEF Nearest
  <1>8. /\ carried(c).minute < 60 /\ carried(c).part < 10000
        /\ PartsFrom(degree, carried(c)) = minute * 10000 + part
    BY SMT, <1>1, <1>3, <1>4, <1>5, <1>6 DEF carried, PartsFrom
  <1> QED
    BY SMT, <1>2, <1>7, <1>8 DEF MinutesReadBack, degree, sixty

\* Without a position its fields read as none, whatever is at hand.
LEMMA StatusSpells ==
    ASSUME NEW p, NEW depth \in Nat, NEW volts \in Nat
    PROVE  P1ReadsBack(IridiumMessage_formatP1(FALSE, p, depth, volts), Nowhere, depth, volts)
  <1>1. /\ Nowhere.lat = 0 /\ Nowhere.lon = 0 /\ Nowhere.speed = 0 /\ Nowhere.course = 0
    BY DEF Nowhere
  <1>2. Nowhere.lat \in Latitudes /\ Nowhere.lon \in Longitudes /\ Nowhere.speed \in Nat
        /\ Nowhere.course \in Int
    BY SMT, <1>1, DegreeIsPositive DEF Latitudes, Longitudes
  <1>3. Speed(0) = 0 /\ normalizedCourse(0) = 0
    <2>1. Speed(0) = 0
      <3>1. Between(0, 0, 9900) = 0
        BY SMT, BetweenIsWithin
      <3> QED
        BY SMT, <3>1 DEF Speed, roundedPositive
    <2>2. normalizedCourse(0) = 0
      BY SMT DEF normalizedCourse, roundedPositive
    <2> QED
      BY <2>1, <2>2
  <1>4. IridiumMessage_formatP1(FALSE, p, depth, volts) =
        IridiumMessage_formatP1(TRUE, Nowhere, depth, volts)
    BY Zenon, <1>1, <1>3 DEF IridiumMessage_formatP1
  <1>5. P1ReadsBack(IridiumMessage_formatP1(TRUE, Nowhere, depth, volts), Nowhere, depth, volts)
    BY Zenon, <1>2, ReportSpellsThePosition
  <1> QED
    BY Zenon, <1>4, <1>5

\* The report's voltage is the autopilot's, or without one the board's own.
LEMMA VoltsReported ==
    ASSUME NEW r, r.battery \in Nat, r.vbat \in Nat
    PROVE  LET volts == IF r.battery = 0 THEN r.vbat ELSE r.battery
           IN  volts \in Nat /\ ReportedVolts(r.battery, r.vbat) = volts
  BY DEF ReportedVolts

LEMMA WidthIsPositive == UINT16_MAX \in Nat /\ UINT16_MAX > 0 /\ ACC_MAX_MM \in Nat
  BY SMT DEF UINT16_MAX, ACC_MAX_MM

LEMMA CastIsShort ==
    ASSUME NEW n \in Int, NEW m \in Cast(n)
    PROVE  m \in Int /\ AtMostOneShort(m, n)
  <1>1. m \in n - 1 .. n + 1 /\ Magnitude(m) \in Magnitude(n) - 1 .. Magnitude(n)
    BY SMT DEF Cast
  <1> QED
    BY SMT, <1>1 DEF AtMostOneShort, Magnitude

\* Of a number that is not negative.
LEMMA CastIsBelow ==
    ASSUME NEW n \in Nat, NEW m \in Cast(n)
    PROVE  m \in Nat /\ n - m \in 0 .. 1
  <1>1. m \in Int /\ AtMostOneShort(m, n)
    BY SMT, CastIsShort
  <1> QED
    BY SMT, <1>1 DEF AtMostOneShort, Magnitude

LEMMA CourseIsNear ==
    ASSUME NEW c \in Nat, NEW m \in CastCourse(c)
    PROVE  m \in Nat /\ m - c \in -1 .. 1
  <1>1. Max({c - 1, 0}) = IF c - 1 >= 0 THEN c - 1 ELSE 0
    BY SMT, MaxOfTwo
  <1> QED
    BY SMT, <1>1 DEF CastCourse

\* The autopilot is told the position to a unit, and of no better one than that.
LEMMA AutopilotIsTold ==
    ASSUME NEW p \in Fixes, NEW valid \in BOOLEAN, valid => p.fixType >= 2
    PROVE  PositionReadsBack(p, valid)
  <1>1. /\ p.lat \in Int /\ p.lon \in Int /\ p.fixType \in Nat /\ p.accuracy \in Nat
        /\ p.hdop \in Nat /\ p.hdop <= UINT16_MAX
        /\ p.speed \in Nat /\ p.speed <= UINT16_MAX * 10 + 9
        /\ p.course \in Nat /\ p.course <= UINT16_MAX * 1000 - 1
    BY SMT, DegreeIsPositive, WidthIsPositive DEF Fixes, Latitudes, Longitudes
  <1>2. ASSUME NEW told \in MAVLinkInterface_sendGPS(p)
        PROVE  AutopilotReadsBack(told, p, valid)
    <2>1. /\ told.fixType = Max({p.fixType, 1})
          /\ told.lat \in Cast(p.lat) /\ told.lon \in Cast(p.lon)
          /\ told.eph \in {IF e > 9999 THEN UINT16_MAX ELSE e : e \in Cast(p.hdop)}
          /\ told.vel \in Cast(p.speed \div 10) /\ told.cog \in CastCourse(p.course \div 1000)
          /\ told.h_acc = Min({p.accuracy, ACC_MAX_MM})
      BY SMT DEF MAVLinkInterface_sendGPS
    <2>2. told.fixType = IF p.fixType >= 1 THEN p.fixType ELSE 1
      BY SMT, <1>1, <2>1, MaxOfTwo
    <2>3. told.h_acc = IF p.accuracy <= ACC_MAX_MM THEN p.accuracy ELSE ACC_MAX_MM
      BY SMT, <1>1, <2>1, MinOfTwo, WidthIsPositive
    <2>4. AtMostOneShort(told.lat, p.lat) /\ AtMostOneShort(told.lon, p.lon)
      BY SMT, <1>1, <2>1, CastIsShort
    <2>5. told.eph >= p.hdop - 1
      <3>1. PICK e \in Cast(p.hdop) : told.eph = IF e > 9999 THEN UINT16_MAX ELSE e
        BY <2>1
      <3>2. e \in Nat /\ p.hdop - e \in 0 .. 1
        BY SMT, <1>1, CastIsBelow
      <3> QED
        BY SMT, <1>1, <3>1, <3>2, WidthIsPositive
    <2>6. p.speed - told.vel * 10 \in 0 .. 19 /\ told.vel <= UINT16_MAX
      <3> DEFINE n == p.speed \div 10
      <3>1. n \in Nat /\ p.speed - n * 10 \in 0 .. 9 /\ n <= UINT16_MAX
        BY SMT, <1>1, WidthIsPositive
      <3> HIDE DEF n
      <3>2. told.vel \in Nat /\ n - told.vel \in 0 .. 1
        BY SMT, <2>1, <3>1, CastIsBelow DEF n
      <3> QED
        BY SMT, <1>1, <3>1, <3>2, WidthIsPositive
    <2>7. p.course - told.cog * 1000 \in -1000 .. 1999 /\ told.cog <= UINT16_MAX
      <3> DEFINE n == p.course \div 1000
      <3>1. p.course \in Nat /\ UINT16_MAX \in Nat /\ p.course < UINT16_MAX * 1000
        BY SMT, <1>1, WidthIsPositive
      <3>2. n \in Nat /\ p.course - n * 1000 \in 0 .. 999
        BY SMT, <3>1
      <3>3. n + 1 <= UINT16_MAX
        BY SMT, <3>1
      <3>4. n \in Nat /\ p.course - n * 1000 \in 0 .. 999 /\ n + 1 <= UINT16_MAX
        BY SMT, <3>1, <3>2, <3>3
      <3> HIDE DEF n
      <3>5. told.cog \in Nat /\ told.cog - n \in -1 .. 1
        BY SMT, <2>1, <3>4, CourseIsNear DEF n
      <3>6. told.cog <= UINT16_MAX
        BY SMT, <3>4, <3>5, <3>1
      <3>7. told.cog = n - 1 \/ told.cog = n \/ told.cog = n + 1
        BY SMT, <3>4, <3>5
      <3>8. CASE told.cog = n - 1
        <4>1. (n - 1) * 1000 = n * 1000 - 1000
          BY SMT, <3>4
        <4> QED
          BY SMT, <3>4, <3>1, <3>6, <3>8, <4>1
      <3>9. CASE told.cog = n
        BY SMT, <3>4, <3>1, <3>6, <3>9
      <3>10. CASE told.cog = n + 1
        <4>1. (n + 1) * 1000 = n * 1000 + 1000
          BY SMT, <3>4
        <4> QED
          BY SMT, <3>4, <3>1, <3>6, <3>10, <4>1
      <3> QED
        BY Zenon, <3>7, <3>8, <3>9, <3>10
    <2>8. /\ told.fixType > 0 /\ (told.fixType > 1 <=> p.fixType > 1)
          /\ valid => told.fixType > 1
      BY SMT, <1>1, <2>2
    <2>9. told.h_acc < p.accuracy => told.h_acc = ACC_MAX_MM
      BY SMT, <1>1, <2>3, WidthIsPositive
    <2> QED
      BY SMT, <2>4, <2>5, <2>6, <2>7, <2>8, <2>9 DEF AutopilotReadsBack
  <1>3. DecimalReadsBack(Decimal(p.lat), p.lat) /\ DecimalReadsBack(Decimal(p.lon), p.lon)
    BY SMT, <1>1, LineSpellsTheCoordinate
  <1>4. GPSManager_getDataString(p).lat = Decimal(p.lat)
        /\ GPSManager_getDataString(p).lon = Decimal(p.lon)
    BY SMT DEF GPSManager_getDataString
  <1> QED
    BY Zenon, <1>2, <1>3, <1>4 DEF PositionReadsBack

LEMMA NmeaSpells ==
    ASSUME NEW p, p.lat \in Int, p.lon \in Int
    PROVE  NmeaReadsBack(meshSendPosition(p), p)
  <1>1. /\ meshSendPosition(p).lat.place = Minutes(p.lat)
        /\ meshSendPosition(p).lat.south = (p.lat < 0)
        /\ meshSendPosition(p).lon.place = Minutes(p.lon)
        /\ meshSendPosition(p).lon.west = (p.lon < 0)
    BY DEF meshSendPosition, format_lat, format_lon
  <1>2. MinutesReadBack(Minutes(p.lat), p.lat) /\ MinutesReadBack(Minutes(p.lon), p.lon)
    BY SentenceSpellsTheCoordinate
  <1> QED
    BY Zenon, <1>1, <1>2 DEF NmeaReadsBack

-----------------------------------------------------------------------------
(* The binary messages: what is packed is read back, whole or not at all *)

HIDE DEF GpsManagerAssumption, SessionAssumption, PoweredReceiver

LEMMA Induction ==
  ASSUME NEW T, 0 \in T, \A n \in Nat : n \in T => n + 1 \in T
  PROVE  Nat \subseteq T
<1> DEFINE R == OpToRel(<, Nat)
           U == {n \in Nat : n \notin T}
<1>1. IsWellFoundedOn(R, Nat) BY NatLessThanWellFounded
<1>2. \A x, y \in Nat : y < x => <<y, x>> \in R BY DEF OpToRel
<1> HIDE DEF R
<1>3. SUFFICES ASSUME U # {} PROVE FALSE OBVIOUS
<1>4. PICK x \in U : \A y \in U : <<y, x>> \notin R BY <1>1, <1>3, WFMin
<1>5. x # 0 OBVIOUS
<1>6. x - 1 \in Nat /\ x - 1 < x BY <1>5
<1>7. x - 1 \notin U BY <1>2, <1>4, <1>6
<1> QED BY <1>6, <1>7

\* The table of a message's fields: a name once, a width of its own.
Names ==
    Fields(DorisReport) \cup Fields(DorisConfig) \cup Fields(DorisCommand)
    \cup Fields(DorisAck)

Layouts ==
    {layout \in Seq(Names \X {1, 2, 4}) :
        /\ Len(layout) > 0
        /\ \A i, j \in DOMAIN layout : layout[i][1] = layout[j][1] => i = j}

LEMMA OffsetIs ==
    ASSUME NEW layout \in Layouts, NEW i \in 1 .. Len(layout) + 1
    PROVE  \E at : /\ at = [j \in 1 .. i |-> IF j = 1 THEN 0 ELSE at[j - 1] + layout[j - 1][2]]
                   /\ Offset(layout, i) = at[i]
<1> DEFINE Is(at, m) == at = [j \in 1 .. m |-> IF j = 1 THEN 0 ELSE at[j - 1] + layout[j - 1][2]]
           T == {m \in Nat : \E at : Is(at, m + 1)}
<1>1. 0 \in T
    <2> DEFINE at == [j \in 1 .. 1 |-> 0]
    <2>1. Is(at, 1) OBVIOUS
    <2> HIDE DEF at, Is
    <2> QED BY <2>1
<1>2. ASSUME NEW m \in Nat, m \in T PROVE m + 1 \in T
    <2>1. PICK at : Is(at, m + 1) BY <1>2
    <2> DEFINE g == [j \in 1 .. m + 2 |->
                        IF j = m + 2 THEN at[m + 1] + layout[m + 1][2] ELSE at[j]]
    <2>2. Is(g, m + 2)
        <3>1. ASSUME NEW j \in 1 .. m + 2
              PROVE g[j] = IF j = 1 THEN 0 ELSE g[j - 1] + layout[j - 1][2]
            BY <2>1
        <3> QED BY <3>1
    <2> HIDE DEF g, Is
    <2> QED BY <2>2
<1> HIDE DEF Is
<1>3. Nat \subseteq T
    <2> HIDE DEF T
    <2> QED BY <1>1, <1>2, Induction
<1>4. \E at : Is(at, i)
    <2>1. i - 1 \in T /\ (i - 1) + 1 = i BY <1>3
    <2> QED BY <2>1
<1> DEFINE a == CHOOSE at : Is(at, i)
<1>5. Is(a, i) BY <1>4
<1>6. Offset(layout, i) = a[i] BY DEF Offset, Is
<1> HIDE DEF a
<1>7. a = [j \in 1 .. i |-> IF j = 1 THEN 0 ELSE a[j - 1] + layout[j - 1][2]]
    BY <1>5 DEF Is
<1> QED BY Zenon, <1>6, <1>7

LEMMA OffsetOne == ASSUME NEW layout \in Layouts PROVE Offset(layout, 1) = 0
<1>1. 1 \in 1 .. Len(layout) + 1 BY DEF Layouts
<1> QED BY <1>1, OffsetIs

LEMMA SameOffset ==
    ASSUME NEW layout \in Layouts, NEW i \in 1 .. Len(layout),
           NEW f, f = [j \in 1 .. i |-> IF j = 1 THEN 0 ELSE f[j - 1] + layout[j - 1][2]],
           NEW g, g = [j \in 1 .. i + 1 |-> IF j = 1 THEN 0 ELSE g[j - 1] + layout[j - 1][2]]
    PROVE  f[i] = g[i] /\ f[i] \in Nat
<1> DEFINE T == {m \in Nat : m + 1 <= i => f[m + 1] = g[m + 1] /\ f[m + 1] \in Nat}
<1>1. 0 \in T
    BY DEF Layouts
<1>2. ASSUME NEW m \in Nat, m \in T PROVE m + 1 \in T
    <2>1. SUFFICES ASSUME m + 2 <= i PROVE f[m + 2] = g[m + 2] /\ f[m + 2] \in Nat
        OBVIOUS
    <2>2. f[m + 1] = g[m + 1] /\ f[m + 1] \in Nat
        BY <1>2, <2>1
    <2>3. /\ f[m + 2] = f[m + 1] + layout[m + 1][2]
          /\ g[m + 2] = g[m + 1] + layout[m + 1][2]
        <3>1. m + 2 \in 1 .. i /\ m + 2 # 1 /\ (m + 2) - 1 = m + 1
            BY <2>1
        <3> QED BY <3>1
    <2>4. layout[m + 1][2] \in Nat
        BY <2>1 DEF Layouts
    <2> QED BY <2>2, <2>3, <2>4
<1>3. Nat \subseteq T
    <2> HIDE DEF T
    <2> QED BY <1>1, <1>2, Induction
<1>4. i - 1 \in T /\ (i - 1) + 1 = i /\ i <= i
    BY <1>3
<1> QED BY <1>4

\* Each field begins where the one before it ends.
LEMMA OffsetNext ==
    ASSUME NEW layout \in Layouts, NEW i \in 1 .. Len(layout)
    PROVE  Offset(layout, i) \in Nat /\ Offset(layout, i + 1) = Offset(layout, i) + layout[i][2]
<1>0. Len(layout) \in Nat BY DEF Layouts
<1>1. PICK f : /\ f = [j \in 1 .. i |-> IF j = 1 THEN 0 ELSE f[j - 1] + layout[j - 1][2]]
               /\ Offset(layout, i) = f[i]
    <2>1. i \in 1 .. Len(layout) + 1 BY <1>0
    <2> QED BY <2>1, OffsetIs
<1>2. PICK g : /\ g = [j \in 1 .. i + 1 |-> IF j = 1 THEN 0 ELSE g[j - 1] + layout[j - 1][2]]
               /\ Offset(layout, i + 1) = g[i + 1]
    <2>1. i + 1 \in 1 .. Len(layout) + 1 BY <1>0
    <2> QED BY <2>1, OffsetIs
<1>3. f[i] = g[i] /\ f[i] \in Nat
    BY <1>1, <1>2, SameOffset
<1>4. g[i + 1] = g[i] + layout[i][2]
    <2>1. i + 1 \in 1 .. i + 1 /\ i + 1 # 1 /\ (i + 1) - 1 = i
        BY <1>0
    <2> QED BY <1>2, <2>1
<1> QED BY <1>1, <1>2, <1>3, <1>4

\* Where a field lies it lies alone.
LEMMA OffsetGrows ==
    ASSUME NEW layout \in Layouts, NEW i \in 1 .. Len(layout) + 1
    PROVE  /\ Offset(layout, i) \in Nat
           /\ \A j \in 1 .. i : Offset(layout, j) \in Nat /\ Offset(layout, j) <= Offset(layout, i)
<1> DEFINE T == {m \in Nat : m + 1 <= Len(layout) + 1 =>
                    /\ Offset(layout, m + 1) \in Nat
                    /\ \A j \in 1 .. m + 1 :
                        /\ Offset(layout, j) \in Nat
                        /\ Offset(layout, j) <= Offset(layout, m + 1)}
<1>0. Len(layout) \in Nat BY DEF Layouts
<1>1. 0 \in T
    BY OffsetOne
<1>2. ASSUME NEW m \in Nat, m \in T PROVE m + 1 \in T
    <2>1. SUFFICES ASSUME m + 2 <= Len(layout) + 1
                   PROVE  /\ Offset(layout, m + 2) \in Nat
                          /\ \A j \in 1 .. m + 2 :
                              /\ Offset(layout, j) \in Nat
                              /\ Offset(layout, j) <= Offset(layout, m + 2)
        OBVIOUS
    <2>2. /\ Offset(layout, m + 1) \in Nat
          /\ \A j \in 1 .. m + 1 :
              Offset(layout, j) \in Nat /\ Offset(layout, j) <= Offset(layout, m + 1)
        BY <1>0, <1>2, <2>1
    <2>3. m + 1 \in 1 .. Len(layout) /\ (m + 1) + 1 = m + 2
        BY <1>0, <2>1
    <2>4. Offset(layout, m + 2) = Offset(layout, m + 1) + layout[m + 1][2]
        BY <2>3, OffsetNext
    <2>5. layout[m + 1][2] \in Nat
        BY <2>3 DEF Layouts
    <2>6. ASSUME NEW j \in 1 .. m + 2
          PROVE  Offset(layout, j) \in Nat /\ Offset(layout, j) <= Offset(layout, m + 2)
        <3>1. j = m + 2 \/ j \in 1 .. m + 1 OBVIOUS
        <3> QED BY <2>2, <2>4, <2>5, <3>1
    <2> QED BY <2>2, <2>4, <2>5, <2>6
<1>3. Nat \subseteq T
    <2> HIDE DEF T
    <2> QED BY <1>1, <1>2, Induction
<1>4. PICK m \in Nat : m \in T /\ i = m + 1 /\ i <= Len(layout) + 1
    <2> HIDE DEF T
    <2>1. i - 1 \in T /\ i - 1 \in Nat /\ i = (i - 1) + 1 BY <1>0, <1>3
    <2> QED BY <1>0, <2>1
<1> QED BY <1>4

\* The bytes of the message lie in data where the layout has them, from the
\* byte after the first so many.
Lies(layout, message, data, shift) ==
    \A i \in 1 .. Len(layout) : \A k \in 1 .. layout[i][2] :
        data[shift + Offset(layout, i) + k] = Bytes(message[layout[i][1]], layout[i][2])[k]

LEMMA BytesAre ==
    ASSUME NEW width \in {1, 2, 4}, NEW n \in Int
    PROVE  /\ Bytes(n, width) \in Seq(Int) /\ Len(Bytes(n, width)) = width
           /\ \A k \in 1 .. width : Bytes(n, width)[k] \in Int
<1>1. ASSUME NEW k \in 1 .. width PROVE (n \div Weight[k]) % 256 \in Int
    <2>1. Weight[k] \in Nat \ {0}
        <3>1. k = 1 \/ k = 2 \/ k = 3 \/ k = 4 OBVIOUS
        <3>2. Weight[1] = 1 /\ Weight[2] = 256 /\ Weight[3] = 65536 /\ Weight[4] = 16777216
            BY SMT DEF Weight
        <3> QED BY SMT, <3>1, <3>2
    <2>2. \A w \in Nat \ {0} : (n \div w) % 256 \in Int
        OBVIOUS
    <2> QED BY <2>1, <2>2
<1> QED BY <1>1 DEF Bytes

LEMMA Appended ==
    ASSUME NEW s \in Seq(Int), NEW t \in Seq(Int)
    PROVE  /\ s \o t \in Seq(Int) /\ Len(s \o t) = Len(s) + Len(t)
           /\ \A k \in 1 .. Len(s) : (s \o t)[k] = s[k]
           /\ \A k \in 1 .. Len(t) : (s \o t)[Len(s) + k] = t[k]
OBVIOUS

LEMMA PackedLies ==
    ASSUME NEW layout \in Layouts, NEW message, Fits(layout, message)
    PROVE  /\ Packed(layout, message) \in Seq(Int)
           /\ Len(Packed(layout, message)) = Size(layout)
           /\ Lies(layout, message, Packed(layout, message), 0)
<1> DEFINE n == Len(layout)
           seqs == [i \in DOMAIN layout |-> Bytes(message[layout[i][1]], layout[i][2])]
           Is(f, m) == f = [i \in 1 .. m |-> IF i = 1 THEN seqs[i] ELSE f[i - 1] \o seqs[i]]
<1>0. /\ n \in Nat /\ n > 0 /\ DOMAIN layout = 1 .. n
      /\ \A i \in 1 .. n : layout[i][2] \in {1, 2, 4}
    BY DEF Layouts
<1>1. \A i \in 1 .. n :
        /\ seqs[i] = Bytes(message[layout[i][1]], layout[i][2])
        /\ seqs[i] \in Seq(Int) /\ Len(seqs[i]) = layout[i][2]
    <2>1. ASSUME NEW i \in 1 .. n
          PROVE  /\ seqs[i] = Bytes(message[layout[i][1]], layout[i][2])
                 /\ seqs[i] \in Seq(Int) /\ Len(seqs[i]) = layout[i][2]
        <3>1. message[layout[i][1]] \in Int /\ layout[i][2] \in {1, 2, 4}
            BY <1>0 DEF Fits, Holds
        <3>2. seqs[i] = Bytes(message[layout[i][1]], layout[i][2])
            BY <1>0
        <3> QED BY <3>1, <3>2, BytesAre
    <2> HIDE DEF seqs
    <2> QED BY <2>1
<1>2. seqs = [i \in 1 .. n |-> seqs[i]] /\ Len(seqs) = n
    BY <1>0
<1> HIDE DEF seqs
<1>3. \E f : Is(f, n)
    <2> DEFINE T == {m \in Nat : \E f : Is(f, m + 1)}
    <2>1. 0 \in T
        <3> DEFINE f == [i \in 1 .. 1 |-> seqs[i]]
        <3>1. Is(f, 1) OBVIOUS
        <3> HIDE DEF f, Is
        <3> QED BY <3>1
    <2>2. ASSUME NEW m \in Nat, m \in T PROVE m + 1 \in T
        <3>1. PICK f : Is(f, m + 1) BY <2>2
        <3> DEFINE g == [i \in 1 .. m + 2 |-> IF i = m + 2 THEN f[m + 1] \o seqs[m + 2] ELSE f[i]]
        <3>2. Is(g, m + 2)
            <4>1. ASSUME NEW i \in 1 .. m + 2
                  PROVE g[i] = IF i = 1 THEN seqs[i] ELSE g[i - 1] \o seqs[i]
                <5>1. CASE i = m + 2
                    <6>1. i # 1 /\ i - 1 = m + 1 /\ i - 1 \in 1 .. m + 2 /\ i - 1 # m + 2
                        BY <5>1
                    <6>2. g[i] = f[m + 1] \o seqs[m + 2] /\ g[i - 1] = f[m + 1]
                        BY <5>1, <6>1
                    <6> QED BY <5>1, <6>1, <6>2
                <5>2. CASE i # m + 2
                    <6>1. i \in 1 .. m + 1 BY <5>2
                    <6>2. g[i] = IF i = 1 THEN seqs[i] ELSE f[i - 1] \o seqs[i]
                        BY <3>1, <5>2, <6>1
                    <6>3. i # 1 => g[i - 1] = f[i - 1]
                        BY <6>1
                    <6> QED BY <6>2, <6>3
                <5> QED BY <5>1, <5>2
            <4> QED BY <4>1
        <3> HIDE DEF g, Is
        <3> QED BY <3>2
    <2> HIDE DEF Is
    <2>3. Nat \subseteq T
        <3> HIDE DEF T
        <3> QED BY <2>1, <2>2, Induction
    <2> QED
        <3>1. PICK m \in Nat : m \in T /\ n = m + 1 /\ n <= n
            <4> HIDE DEF T
            <4>1. n - 1 \in Nat /\ n = (n - 1) + 1 /\ n <= n BY <1>0
            <4> QED BY <2>3, <4>1
        <3> QED BY <3>1
<1> DEFINE flat == CHOOSE f : Is(f, n)
<1>4. Is(flat, n) BY <1>3
<1>5. Packed(layout, message) = flat[n]
    BY <1>0, <1>2 DEF Packed, FlattenSeq, seqs
<1> HIDE DEF flat
<1>6. /\ flat[1] = seqs[1]
      /\ \A i \in 1 .. n : i # 1 => flat[i] = flat[i - 1] \o seqs[i]
    <2>1. ASSUME NEW i \in 1 .. n
          PROVE  flat[i] = IF i = 1 THEN seqs[i] ELSE flat[i - 1] \o seqs[i]
        BY <1>4
    <2>2. 1 \in 1 .. n BY <1>0
    <2> HIDE DEF Is
    <2> QED BY <2>1, <2>2
<1> HIDE DEF Is
<1> DEFINE ReadsTo(m) ==
        /\ flat[m] \in Seq(Int) /\ Len(flat[m]) = Offset(layout, m + 1)
        /\ \A i \in 1 .. m : \A k \in 1 .. layout[i][2] :
            flat[m][Offset(layout, i) + k] = seqs[i][k]
<1>7. ReadsTo(1)
    <2>1. 1 \in 1 .. n /\ Offset(layout, 1) = 0 BY <1>0, OffsetOne
    <2>2. Offset(layout, 1 + 1) = layout[1][2] BY <1>0, <2>1, OffsetNext
    <2>3. \A i \in 1 .. 1 : i = 1 OBVIOUS
    <2> QED BY <1>0, <1>1, <1>6, <2>1, <2>2, <2>3
<1>8. ASSUME NEW m \in Nat \ {0}, m + 1 <= n, ReadsTo(m) PROVE ReadsTo(m + 1)
    <2>0. m + 1 \in 1 .. n /\ m + 1 # 1 /\ (m + 1) - 1 = m
        BY <1>0, <1>8
    <2>1. flat[m + 1] = flat[m] \o seqs[m + 1]
        BY <1>6, <2>0
    <2>2. /\ flat[m] \in Seq(Int) /\ Len(flat[m]) = Offset(layout, m + 1)
          /\ seqs[m + 1] \in Seq(Int) /\ Len(seqs[m + 1]) = layout[m + 1][2]
        BY <1>1, <1>8, <2>0
    <2>3. /\ flat[m + 1] \in Seq(Int)
          /\ Len(flat[m + 1]) = Offset(layout, m + 1) + layout[m + 1][2]
          /\ \A k \in 1 .. Offset(layout, m + 1) : flat[m + 1][k] = flat[m][k]
          /\ \A k \in 1 .. layout[m + 1][2] :
              flat[m + 1][Offset(layout, m + 1) + k] = seqs[m + 1][k]
        <3> DEFINE s == flat[m]
                   b == seqs[m + 1]
        <3>1. s \in Seq(Int) /\ b \in Seq(Int) BY <2>2
        <3> HIDE DEF s, b
        <3>2. /\ s \o b \in Seq(Int) /\ Len(s \o b) = Len(s) + Len(b)
              /\ \A k \in 1 .. Len(s) : (s \o b)[k] = s[k]
              /\ \A k \in 1 .. Len(b) : (s \o b)[Len(s) + k] = b[k]
            BY <3>1, Appended
        <3>3. flat[m + 1] = s \o b BY <2>1 DEF s, b
        <3> QED BY <2>2, <3>2, <3>3 DEF s, b
    <2>4. Offset(layout, (m + 1) + 1) = Offset(layout, m + 1) + layout[m + 1][2]
        BY <2>0, OffsetNext
    <2>5. ASSUME NEW i \in 1 .. m + 1, NEW k \in 1 .. layout[i][2]
          PROVE  flat[m + 1][Offset(layout, i) + k] = seqs[i][k]
        <3>1. CASE i = m + 1
            BY <2>3, <3>1
        <3>2. CASE i # m + 1
            <4>1. i \in 1 .. m /\ i \in 1 .. n BY <1>0, <1>8, <3>2
            <4>2. Offset(layout, i) \in Nat
                  /\ Offset(layout, i + 1) = Offset(layout, i) + layout[i][2]
                BY <4>1, OffsetNext
            <4>3. Offset(layout, i + 1) <= Offset(layout, m + 1)
                <5>1. m + 1 \in 1 .. n + 1 /\ i + 1 \in 1 .. m + 1 BY <1>0, <1>8, <4>1
                <5> QED BY <5>1, OffsetGrows
            <4>4. Offset(layout, m + 1) \in Nat BY <2>0, OffsetNext
            <4>5. Offset(layout, i) + k \in 1 .. Offset(layout, m + 1)
                BY <1>0, <4>1, <4>2, <4>3, <4>4
            <4>6. flat[m][Offset(layout, i) + k] = seqs[i][k]
                BY <1>8, <4>1
            <4> QED BY <2>3, <4>5, <4>6
        <3> QED BY <3>1, <3>2
    <2> QED BY <2>3, <2>4, <2>5
<1>9. ReadsTo(n)
    <2> DEFINE T == {m \in Nat : m + 1 <= n => ReadsTo(m + 1)}
    <2> HIDE DEF ReadsTo
    <2>1. 0 \in T BY <1>7
    <2>2. ASSUME NEW m \in Nat, m \in T PROVE m + 1 \in T
        <3>1. SUFFICES ASSUME (m + 1) + 1 <= n PROVE ReadsTo((m + 1) + 1)
            OBVIOUS
        <3>2. m + 1 \in Nat \ {0} /\ m + 1 <= n
            BY <1>0, <3>1
        <3>3. ReadsTo(m + 1)
            BY <2>2, <3>2
        <3> QED BY <1>8, <3>1, <3>2, <3>3
    <2>3. Nat \subseteq T
        <3> HIDE DEF T
        <3> QED BY <2>1, <2>2, Induction
    <2>4. PICK m \in Nat : m \in T /\ n = m + 1 /\ n <= n
        <3> HIDE DEF T
        <3>1. n - 1 \in Nat /\ n = (n - 1) + 1 /\ n <= n BY <1>0
        <3> QED BY <2>3, <3>1
    <2> QED BY <2>4
<1>10. \A i \in 1 .. n : \A k \in 1 .. layout[i][2] :
         0 + Offset(layout, i) + k = Offset(layout, i) + k
    <2>1. ASSUME NEW i \in 1 .. n, NEW k \in 1 .. layout[i][2]
          PROVE  0 + Offset(layout, i) + k = Offset(layout, i) + k
        BY <1>0, <2>1, OffsetNext
    <2> QED BY <2>1
<1> QED BY <1>0, <1>1, <1>5, <1>9, <1>10 DEF Lies, Size

LEMMA ByteSteps ==
    ASSUME NEW v \in Int
    PROVE  /\ v \div 1 = v /\ v \div 65536 = (v \div 256) \div 256
           /\ v \div 16777216 = ((v \div 256) \div 256) \div 256
           /\ v = 256 * (v \div 256) + (v % 256) /\ v % 256 \in Nat /\ v % 256 <= 255
           /\ v \div 256 \in Int
<1>1. v \div 1 = v
  OBVIOUS
<1>2. v = 256 * (v \div 256) + (v % 256)
  OBVIOUS
<1>3. v \div 65536 = (v \div 256) \div 256
   OBVIOUS
<1>4. v \div 16777216 = ((v \div 256) \div 256) \div 256
   OBVIOUS
<1>5. v \div 256 \in Int
  OBVIOUS
<1>6. v % 256 \in Nat
  OBVIOUS
<1>7. v % 256 <= 255
  OBVIOUS
<1> QED BY <1>1, <1>2, <1>3, <1>4, <1>5, <1>6, <1>7

\* What the bytes of a field are worth, for each of the widths a field has.
LEMMA ValueIs ==
    ASSUME NEW bytes \in Seq(Int), Len(bytes) \in {1, 2, 4}
    PROVE  LET top == IF Len(bytes) = 4 /\ Last(bytes) > 127
                      THEN Last(bytes) - 256 ELSE Last(bytes)
           IN  Value(bytes) =
                IF Len(bytes) = 1 THEN top
                ELSE IF Len(bytes) = 2 THEN bytes[1] + 256 * top
                ELSE bytes[1] + 256 * (bytes[2] + 256 * (bytes[3] + 256 * top))
<1> DEFINE top == IF Len(bytes) = 4 /\ Last(bytes) > 127
                  THEN Last(bytes) - 256 ELSE Last(bytes)
           Is(f) == f = [i \in DOMAIN bytes |->
                            IF i = Len(bytes) THEN top ELSE bytes[i] + 256 * f[i + 1]]
           from == CHOOSE f : Is(f)
<1>1. Value(bytes) = from[1]
    BY DEF Value
<1>2. DOMAIN bytes = 1 .. Len(bytes)
    OBVIOUS
<1> HIDE DEF top
<1>3. \E f : Is(f)
    <2>1. CASE Len(bytes) = 1
        <3> DEFINE f == [i \in DOMAIN bytes |-> top]
        <3>1. Is(f) BY <1>2, <2>1
        <3> HIDE DEF f, Is
        <3> QED BY <3>1
    <2>2. CASE Len(bytes) = 2
        <3> DEFINE f == [i \in DOMAIN bytes |-> IF i = 2 THEN top ELSE bytes[1] + 256 * top]
        <3>1. Is(f) BY <1>2, <2>2
        <3> HIDE DEF f, Is
        <3> QED BY <3>1
    <2>3. CASE Len(bytes) = 4
        <3> DEFINE third == bytes[3] + 256 * top
                   second == bytes[2] + 256 * third
                   first == bytes[1] + 256 * second
                   g == [i \in DOMAIN bytes |-> IF i = 4 THEN top ELSE IF i = 3 THEN third
                                                ELSE IF i = 2 THEN second ELSE first]
                   e(i) == IF i = Len(bytes) THEN top ELSE bytes[i] + 256 * g[i + 1]
        <3>1. ASSUME NEW i \in DOMAIN bytes PROVE g[i] = e(i)
            <4> HIDE DEF third, second, first
            <4>1. i = 1 \/ i = 2 \/ i = 3 \/ i = 4 BY <1>2, <2>3
            <4>2. 1 \in DOMAIN bytes /\ 2 \in DOMAIN bytes /\ 3 \in DOMAIN bytes
                  /\ 4 \in DOMAIN bytes
                BY <1>2, <2>3
            <4>3. g[1] = first /\ g[2] = second /\ g[3] = third /\ g[4] = top
                BY <4>2
            <4> HIDE DEF g
            <4> QED BY <2>3, <4>1, <4>3 DEF third, second, first
        <3>2. g = [i \in DOMAIN bytes |-> e(i)]
            <4>1. g = [i \in DOMAIN bytes |-> g[i]]
                OBVIOUS
            <4> HIDE DEF g, e
            <4> QED BY <3>1, <4>1
        <3>3. Is(g) BY <3>2
        <3> HIDE DEF g, Is
        <3> QED BY <3>3
    <2> QED BY <2>1, <2>2, <2>3
<1>4. Is(from) BY <1>3
<1> HIDE DEF from
<1>5. \A i \in DOMAIN bytes :
        from[i] = IF i = Len(bytes) THEN top ELSE bytes[i] + 256 * from[i + 1]
    BY <1>4
<1> HIDE DEF Is
<1>6. from[1] =
        IF Len(bytes) = 1 THEN top
        ELSE IF Len(bytes) = 2 THEN bytes[1] + 256 * top
        ELSE bytes[1] + 256 * (bytes[2] + 256 * (bytes[3] + 256 * top))
    <2>1. CASE Len(bytes) = 1
        BY <1>2, <1>5, <2>1
    <2>2. CASE Len(bytes) = 2
        <3>1. 1 \in DOMAIN bytes /\ 2 \in DOMAIN bytes BY <1>2, <2>2
        <3> QED BY <1>5, <2>2, <3>1
    <2>3. CASE Len(bytes) = 4
        <3>1. 1 \in DOMAIN bytes /\ 2 \in DOMAIN bytes /\ 3 \in DOMAIN bytes
              /\ 4 \in DOMAIN bytes
            BY <1>2, <2>3
        <3>2. from[1] = bytes[1] + 256 * from[1 + 1] BY <1>5, <2>3, <3>1
        <3>3. from[2] = bytes[2] + 256 * from[2 + 1] BY <1>5, <2>3, <3>1
        <3>4. from[3] = bytes[3] + 256 * from[3 + 1] BY <1>5, <2>3, <3>1
        <3>5. from[4] = top BY <1>5, <2>3, <3>1
        <3> QED BY <2>3, <3>2, <3>3, <3>4, <3>5
    <2> QED BY <2>1, <2>2, <2>3
<1> QED BY <1>1, <1>6 DEF top

\* A field is read as it was written.
LEMMA FieldReadsBack ==
    ASSUME NEW width \in {1, 2, 4}, NEW v, Holds(width, v)
    PROVE  Value(Bytes(v, width)) = v
<1>0. v \in Int /\ v \div Weight[width] \in IF width = 4 THEN -128 .. 127 ELSE 0 .. 255
    BY DEF Holds
<1> DEFINE b == Bytes(v, width)
<1>1. Weight[1] = 1 /\ Weight[2] = 256 /\ Weight[3] = 65536 /\ Weight[4] = 16777216
    BY SMT DEF Weight
<1>2. /\ b \in Seq(Int) /\ Len(b) = width /\ Last(b) = b[width]
      /\ \A k \in 1 .. width : b[k] = (v \div Weight[k]) % 256
    BY <1>0, BytesAre DEF Bytes, Last
<1> HIDE DEF b
<1> DEFINE v1 == v \div 256
           v2 == v1 \div 256
           v3 == v2 \div 256
<1>3. /\ v1 \in Int /\ v2 \in Int /\ v3 \in Int
      /\ v = 256 * v1 + (v % 256) /\ v1 = 256 * v2 + (v1 % 256) /\ v2 = 256 * v3 + (v2 % 256)
      /\ v \div 1 = v /\ v \div 256 = v1 /\ v \div 65536 = v2 /\ v \div 16777216 = v3
    BY <1>0, ByteSteps
<1> HIDE DEF v1, v2, v3
<1> DEFINE top == IF width = 4 /\ b[width] > 127 THEN b[width] - 256 ELSE b[width]
<1>5. Value(b) = IF width = 1 THEN top
                 ELSE IF width = 2 THEN b[1] + 256 * top
                 ELSE b[1] + 256 * (b[2] + 256 * (b[3] + 256 * top))
    <2>1. Len(b) \in {1, 2, 4} BY <1>2
    <2>2. LET last == IF Len(b) = 4 /\ Last(b) > 127 THEN Last(b) - 256 ELSE Last(b)
          IN  Value(b) = IF Len(b) = 1 THEN last
                         ELSE IF Len(b) = 2 THEN b[1] + 256 * last
                         ELSE b[1] + 256 * (b[2] + 256 * (b[3] + 256 * last))
        BY Zenon, <1>2, <2>1, ValueIs
    <2> QED BY <1>2, <2>2
<1>4. Value(b) = v
    <2>1. CASE width = 1
        <3>1. b[1] = v % 256 BY <1>1, <1>2, <1>3, <2>1
        <3>2. v \in 0 .. 255 BY <1>0, <1>1, <1>3, <2>1
        <3>3. v % 256 = v BY <3>2
        <3>4. Value(b) = b[1] BY <1>5, <2>1
        <3> QED BY <3>1, <3>3, <3>4
    <2>2. CASE width = 2
        <3>1. b[1] = v % 256 /\ b[2] = v1 % 256
            <4>1. b[1] = (v \div Weight[1]) % 256 /\ b[2] = (v \div Weight[2]) % 256
                BY <1>2, <2>2
            <4>2. b[1] = (v \div 1) % 256 /\ b[2] = (v \div 256) % 256
                BY <1>1, <4>1
            <4> QED BY <1>3, <4>2
        <3>2. v1 \in 0 .. 255 BY <1>0, <1>1, <1>3, <2>2
        <3>3. v1 % 256 = v1 BY <3>2
        <3>4. Value(b) = b[1] + 256 * b[2] BY <1>5, <2>2
        <3> QED BY <1>0, <1>3, <3>1, <3>3, <3>4
    <2>3. CASE width = 4
        <3>1. b[1] = v % 256 /\ b[2] = v1 % 256 /\ b[3] = v2 % 256 /\ b[4] = v3 % 256
            <4>1. 1 \in 1 .. width /\ 2 \in 1 .. width /\ 3 \in 1 .. width /\ 4 \in 1 .. width
                BY <2>3
            <4>2. /\ b[1] = (v \div Weight[1]) % 256 /\ b[2] = (v \div Weight[2]) % 256
                  /\ b[3] = (v \div Weight[3]) % 256 /\ b[4] = (v \div Weight[4]) % 256
                BY <1>2, <4>1
            <4>3. b[1] = (v \div 1) % 256 /\ b[2] = (v \div 256) % 256
                BY <1>1, <4>2
            <4>4. b[3] = (v \div 65536) % 256 /\ b[4] = (v \div 16777216) % 256
                BY <1>1, <4>2
            <4>5. b[1] = v % 256 BY <1>3, <4>3
            <4>6. b[2] = v1 % 256 BY <1>3, <4>3
            <4>7. b[3] = v2 % 256 BY <1>3, <4>4
            <4>8. b[4] = v3 % 256 BY <1>3, <4>4
            <4> QED BY <4>5, <4>6, <4>7, <4>8
        <3>2. v3 \in -128 .. 127 BY <1>0, <1>1, <1>3, <2>3
        <3>3. v3 = IF v3 % 256 > 127 THEN (v3 % 256) - 256 ELSE v3 % 256
            BY <3>2
        <3>4. Value(b) = b[1] + 256 * (b[2] + 256 * (b[3] + 256 * v3))
            BY <1>5, <2>3, <3>1, <3>3
        <3> QED BY <1>0, <1>3, <3>1, <3>4
    <2> QED BY <2>1, <2>2, <2>3
<1> QED BY <1>4 DEF b

\* A byte of a field lies within the message.
LEMMA FieldWithin ==
    ASSUME NEW layout \in Layouts, NEW i \in 1 .. Len(layout), NEW k \in 1 .. layout[i][2]
    PROVE  /\ Offset(layout, i) \in Nat /\ k \in Nat
           /\ Offset(layout, i) + k \in 1 .. Size(layout)
           /\ 2 + Offset(layout, i) + k \in 1 .. 2 + Size(layout)
<1> DEFINE o == Offset(layout, i)
           w == layout[i][2]
           size == Size(layout)
<1>0. Len(layout) \in Nat BY DEF Layouts
<1>1. /\ i + 1 \in 1 .. Len(layout) + 1 /\ Len(layout) + 1 \in 1 .. Len(layout) + 1
    BY <1>0
<1>2. o \in Nat /\ Offset(layout, i + 1) = o + w
    BY OffsetNext
<1>3. size \in Nat /\ Offset(layout, i + 1) <= size
    BY <1>1, OffsetGrows DEF Size
<1>4. w \in {1, 2, 4} BY DEF Layouts
<1> HIDE DEF o, w, size
<1>5. k \in 1 .. w BY DEF w
<1>6. k \in Nat /\ o + k \in 1 .. size /\ 2 + o + k \in 1 .. 2 + size
    <2>1. o + w <= size BY <1>2, <1>3
    <2> QED BY <1>2, <1>3, <1>4, <1>5, <2>1
<1> QED BY <1>2, <1>6 DEF o, size

LEMMA UnpacksWhatLies ==
    ASSUME NEW layout \in Layouts, NEW message, Fits(layout, message),
           NEW data \in Seq(Int), Len(data) >= Size(layout), Lies(layout, message, data, 0)
    PROVE  Unpacked(layout, data) = message
<1>0. Len(layout) \in Nat /\ DOMAIN layout = 1 .. Len(layout) /\ Size(layout) \in Nat
    <2>1. Len(layout) \in Nat /\ DOMAIN layout = 1 .. Len(layout) BY DEF Layouts
    <2>2. Len(layout) + 1 \in 1 .. Len(layout) + 1 BY <2>1
    <2> QED BY <2>1, <2>2, OffsetGrows DEF Size
<1>1. ASSUME NEW name \in Fields(layout), NEW i \in DOMAIN layout, layout[i][1] = name
      PROVE  Value(SubSeq(data, Offset(layout, i) + 1, Offset(layout, i) + layout[i][2]))
             = message[name]
    <2> DEFINE at == Offset(layout, i)
               width == layout[i][2]
               b == Bytes(message[name], width)
    <2>1. i \in 1 .. Len(layout) BY <1>0
    <2>2. width \in {1, 2, 4} BY <1>0 DEF Layouts
    <2>3. Holds(width, message[name]) /\ message[name] \in Int
        BY <1>0, <1>1 DEF Fits, Holds
    <2>4. at \in Nat /\ at + width <= Len(data)
        <3>1. at \in Nat /\ Offset(layout, i + 1) = at + width
            BY <2>1, OffsetNext
        <3>2. Offset(layout, i + 1) <= Size(layout)
            <4>1. /\ i + 1 \in 1 .. Len(layout) + 1
                  /\ Len(layout) + 1 \in 1 .. Len(layout) + 1
                BY <1>0, <2>1
            <4> QED BY <4>1, OffsetGrows DEF Size
        <3>3. Len(data) \in Nat OBVIOUS
        <3> HIDE DEF at, width
        <3> QED BY <1>0, <2>2, <3>1, <3>2, <3>3
    <2>5. \A k \in 1 .. width : data[at + k] = b[k]
        <3>1. \A k \in 1 .. width : data[0 + at + k] = b[k]
            BY <1>1, <2>1 DEF Lies
        <3>2. \A k \in 1 .. width : 0 + at + k = at + k
            BY <2>2, <2>4
        <3> QED BY <3>1, <3>2
    <2>6. b \in Seq(Int) /\ Len(b) = width
        BY <2>2, <2>3, BytesAre
    <2> HIDE DEF at, width, b
    <2>7. SubSeq(data, at + 1, at + width) = b
        BY <2>2, <2>4, <2>5, <2>6
    <2>8. Value(Bytes(message[name], width)) = message[name]
        BY <2>2, <2>3, FieldReadsBack
    <2> QED BY <2>7, <2>8 DEF at, width, b
<1>2. ASSUME NEW name \in Fields(layout)
      PROVE  LET i == CHOOSE j \in DOMAIN layout : layout[j][1] = name
                 at == Offset(layout, i)
             IN  Value(SubSeq(data, at + 1, at + layout[i][2])) = message[name]
    <2>1. \E j \in DOMAIN layout : layout[j][1] = name
        BY DEF Fields
    <2> DEFINE i == CHOOSE j \in DOMAIN layout : layout[j][1] = name
    <2>2. i \in DOMAIN layout /\ layout[i][1] = name
        BY <2>1
    <2> HIDE DEF i
    <2>3. Value(SubSeq(data, Offset(layout, i) + 1, Offset(layout, i) + layout[i][2]))
          = message[name]
        BY <1>1, <2>2
    <2> QED BY <2>3 DEF i
<1>3. message = [name \in Fields(layout) |-> message[name]]
    BY DEF Fits
<1> DEFINE u(name) == LET i == CHOOSE j \in DOMAIN layout : layout[j][1] = name
                          at == Offset(layout, i)
                      IN  Value(SubSeq(data, at + 1, at + layout[i][2]))
<1>4. Unpacked(layout, data) = [name \in Fields(layout) |-> u(name)]
    BY DEF Unpacked
<1>5. \A name \in Fields(layout) : u(name) = message[name]
    BY <1>2
<1> HIDE DEF u
<1> QED BY <1>3, <1>4, <1>5

LEMMA FramedIs ==
    ASSUME NEW layout \in Layouts, NEW message, Fits(layout, message), NEW id \in Int
    PROVE  LET data == Framed(id, layout, message)
           IN  /\ data \in Seq(Int) /\ Len(data) = 2 + Size(layout) /\ Size(layout) \in Nat
               /\ data[1] = DORIS_MSG_START /\ data[2] = id
               /\ Lies(layout, message, data, 2)
<1> DEFINE head == <<DORIS_MSG_START, id>>
           packed == Packed(layout, message)
           data == head \o packed
<1>1. packed \in Seq(Int) /\ Len(packed) = Size(layout) /\ Lies(layout, message, packed, 0)
    BY PackedLies
<1>2. head \in Seq(Int) /\ Len(head) = 2 /\ head[1] = DORIS_MSG_START /\ head[2] = id
    BY DEF DORIS_MSG_START
<1> HIDE DEF head, packed
<1>3. /\ data \in Seq(Int) /\ Len(data) = Len(head) + Len(packed)
      /\ \A k \in 1 .. Len(head) : data[k] = head[k]
      /\ \A k \in 1 .. Len(packed) : data[Len(head) + k] = packed[k]
    BY <1>1, <1>2, Appended
<1> HIDE DEF data
<1>4. /\ Len(data) = 2 + Size(layout) /\ Size(layout) \in Nat
      /\ data[1] = DORIS_MSG_START /\ data[2] = id
    BY <1>1, <1>2, <1>3
<1>5. Lies(layout, message, data, 2)
    <2>1. ASSUME NEW i \in 1 .. Len(layout), NEW k \in 1 .. layout[i][2]
          PROVE  data[2 + Offset(layout, i) + k] = Bytes(message[layout[i][1]], layout[i][2])[k]
        <3>1. packed[0 + Offset(layout, i) + k] = Bytes(message[layout[i][1]], layout[i][2])[k]
            BY <1>1 DEF Lies
        <3>2. Offset(layout, i) \in Nat /\ k \in Nat
              /\ Offset(layout, i) + k \in 1 .. Len(packed)
            BY <1>1, FieldWithin
        <3>7. data[2 + (Offset(layout, i) + k)] = packed[Offset(layout, i) + k]
            BY <1>2, <1>3, <3>2
        <3>8. /\ 2 + (Offset(layout, i) + k) = 2 + Offset(layout, i) + k
              /\ 0 + Offset(layout, i) + k = Offset(layout, i) + k
            BY <3>2
        <3> QED BY <3>1, <3>7, <3>8
    <2> QED BY <2>1 DEF Lies
<1> QED BY <1>3, <1>4, <1>5 DEF Framed, data, head, packed

LEMMA Rest ==
    ASSUME NEW data \in Seq(Int), NEW n \in Nat, n = Len(data), n >= 2
    PROVE  /\ SubSeq(data, 3, n) \in Seq(Int) /\ Len(SubSeq(data, 3, n)) = n - 2
           /\ \A k \in 1 .. n - 2 : SubSeq(data, 3, n)[k] = data[2 + k]
<1>1. SubSeq(data, 3, n) \in Seq(Int) /\ Len(SubSeq(data, 3, n)) = n - 2
    OBVIOUS
<1>2. ASSUME NEW k \in 1 .. n - 2 PROVE SubSeq(data, 3, n)[k] = data[2 + k]
    <2>1. 3 + k - 1 = 2 + k OBVIOUS
    <2>2. SubSeq(data, 3, n)[k] = data[3 + k - 1] OBVIOUS
    <2> QED BY <2>1, <2>2
<1> QED BY <1>1, <1>2

\* What follows the header of a message that came whole is read as it was sent.
LEMMA PayloadReadsBack ==
    ASSUME NEW layout \in Layouts, NEW message, Fits(layout, message),
           NEW data \in Seq(Int), Len(data) >= 2 + Size(layout),
           Lies(layout, message, data, 2)
    PROVE  Unpacked(layout, SubSeq(data, 3, Len(data))) = message
<1>0. Len(layout) \in Nat /\ Size(layout) \in Nat
    <2>1. Len(layout) \in Nat BY DEF Layouts
    <2>2. Len(layout) + 1 \in 1 .. Len(layout) + 1 BY <2>1
    <2> QED BY <2>1, <2>2, OffsetGrows DEF Size
<1> DEFINE n == Len(data)
           rest == SubSeq(data, 3, n)
<1>1. /\ rest \in Seq(Int) /\ Len(rest) = n - 2 /\ n \in Nat
      /\ \A k \in 1 .. n - 2 : rest[k] = data[2 + k]
    <2>1. n \in Nat /\ n >= 2 BY <1>0
    <2> HIDE DEF n
    <2>2. n = Len(data) BY DEF n
    <2> QED BY <2>1, <2>2, Rest
<1> HIDE DEF rest, n
<1>2. Len(rest) >= Size(layout)
    BY <1>0, <1>1 DEF n
<1>3. Lies(layout, message, rest, 0)
    <2>1. ASSUME NEW i \in 1 .. Len(layout), NEW k \in 1 .. layout[i][2]
          PROVE  rest[0 + Offset(layout, i) + k] = Bytes(message[layout[i][1]], layout[i][2])[k]
        <3>1. data[2 + Offset(layout, i) + k] = Bytes(message[layout[i][1]], layout[i][2])[k]
            BY DEF Lies
        <3>2. Offset(layout, i) \in Nat /\ k \in Nat
              /\ Offset(layout, i) + k \in 1 .. Size(layout)
            BY FieldWithin
        <3>3. n - 2 >= Size(layout) /\ n - 2 \in Int
            BY <1>0, <1>1, <1>2
        <3>5. Offset(layout, i) + k \in 1 .. n - 2
            <4> DEFINE x == Offset(layout, i) + k
                       m == n - 2
            <4>1. x \in 1 .. Size(layout) /\ m >= Size(layout) /\ m \in Int BY <3>2, <3>3
            <4> HIDE DEF x, m
            <4>2. x \in 1 .. m BY <1>0, <4>1
            <4> QED BY <4>2 DEF x, m
        <3>6. rest[Offset(layout, i) + k] = data[2 + (Offset(layout, i) + k)]
            BY <1>1, <3>5
        <3>7. /\ 2 + (Offset(layout, i) + k) = 2 + Offset(layout, i) + k
              /\ 0 + Offset(layout, i) + k = Offset(layout, i) + k
            BY <3>2
        <3> QED BY <3>1, <3>6, <3>7
    <2> QED BY <2>1 DEF Lies
<1>4. Unpacked(layout, rest) = message
    BY <1>1, <1>2, <1>3, UnpacksWhatLies
<1> QED BY <1>4 DEF rest, n

LEMMA TheLayouts ==
    DorisReport \in Layouts /\ DorisConfig \in Layouts /\ DorisCommand \in Layouts
    /\ DorisAck \in Layouts
<1>1. \A S : S \subseteq Names => Seq(S \X {1, 2, 4}) \subseteq Seq(Names \X {1, 2, 4})
    OBVIOUS
<1>2. DorisConfig \in Layouts
    <2>1. DorisConfig \in Seq(Fields(DorisConfig) \X {1, 2, 4})
        BY SMT DEF DorisConfig, Fields
    <2>2. /\ Len(DorisConfig) > 0
          /\ \A i, j \in DOMAIN DorisConfig : DorisConfig[i][1] = DorisConfig[j][1] => i = j
        BY SMT DEF DorisConfig
    <2>3. Fields(DorisConfig) \subseteq Names BY DEF Names
    <2> QED BY <1>1, <2>1, <2>2, <2>3 DEF Layouts
<1>3. DorisCommand \in Layouts
    <2>1. DorisCommand \in Seq(Fields(DorisCommand) \X {1, 2, 4})
        BY SMT DEF DorisCommand, Fields
    <2>2. /\ Len(DorisCommand) > 0
          /\ \A i, j \in DOMAIN DorisCommand : DorisCommand[i][1] = DorisCommand[j][1] => i = j
        BY SMT DEF DorisCommand
    <2>3. Fields(DorisCommand) \subseteq Names BY DEF Names
    <2> QED BY <1>1, <2>1, <2>2, <2>3 DEF Layouts
<1>4. DorisAck \in Layouts
    <2>1. DorisAck \in Seq(Fields(DorisAck) \X {1, 2, 4})
        BY SMT DEF DorisAck, Fields
    <2>2. /\ Len(DorisAck) > 0
          /\ \A i, j \in DOMAIN DorisAck : DorisAck[i][1] = DorisAck[j][1] => i = j
        BY SMT DEF DorisAck
    <2>3. Fields(DorisAck) \subseteq Names BY DEF Names
    <2> QED BY <1>1, <2>1, <2>2, <2>3 DEF Layouts
<1>5. DorisReport \in Layouts
    <2>1. DorisReport \in Seq(Fields(DorisReport) \X {1, 2, 4})
        BY SMT DEF DorisReport, Fields
    <2>2. /\ Len(DorisReport) > 0
          /\ \A i, j \in DOMAIN DorisReport : DorisReport[i][1] = DorisReport[j][1] => i = j
        BY SMT DEF DorisReport
    <2>3. Fields(DorisReport) \subseteq Names BY DEF Names
    <2> QED BY <1>1, <2>1, <2>2, <2>3 DEF Layouts
<1> QED BY <1>2, <1>3, <1>4, <1>5

\* What the ground reads of a report, and the sender of a message of its
\* acknowledgement.
LEMMA SentReadsBack ==
    ASSUME NEW layout \in Layouts, NEW message, Fits(layout, message), NEW id \in Int
    PROVE  LET data == Serialized(id, layout, message, DORIS_MSG_HEADER_SIZE + Size(layout))
           IN  Unpacked(layout, SubSeq(data, 3, Len(data))) = message
<1> DEFINE data == Framed(id, layout, message)
<1>1. /\ data \in Seq(Int) /\ Len(data) = 2 + Size(layout) /\ Size(layout) \in Nat
      /\ Lies(layout, message, data, 2)
    BY FramedIs
<1>2. Serialized(id, layout, message, DORIS_MSG_HEADER_SIZE + Size(layout)) = data
    BY <1>1 DEF Serialized, DORIS_MSG_HEADER_SIZE
<1> HIDE DEF data
<1>3. Unpacked(layout, SubSeq(data, 3, Len(data))) = message
    BY <1>1, PayloadReadsBack
<1> QED BY <1>2, <1>3

\* A message as it arrives: cut after so many bytes, or with padding.
LEMMA Arrival ==
    ASSUME NEW data \in Seq(Int), NEW n \in 0 .. Len(data) + 2
    PROVE  LET arrived == SubSeq(data \o <<0, 255>>, 1, n)
           IN  /\ arrived \in Seq(Int) /\ Len(arrived) = n
               /\ \A k \in 1 .. n : k <= Len(data) => arrived[k] = data[k]
<1> DEFINE padding == <<0, 255>>
           whole == data \o padding
           arrived == SubSeq(whole, 1, n)
<1>1. padding \in Seq(Int) /\ Len(padding) = 2
    OBVIOUS
<1> HIDE DEF padding
<1>2. /\ whole \in Seq(Int) /\ Len(whole) = Len(data) + 2
      /\ \A k \in 1 .. Len(data) : whole[k] = data[k]
    <2>1. /\ data \o padding \in Seq(Int)
          /\ Len(data \o padding) = Len(data) + Len(padding)
          /\ \A k \in 1 .. Len(data) : (data \o padding)[k] = data[k]
        BY Zenon, <1>1, Appended
    <2> QED BY <1>1, <2>1
<1> HIDE DEF whole
<1>3. /\ arrived \in Seq(Int) /\ Len(arrived) = n
      /\ \A k \in 1 .. n : arrived[k] = whole[k]
    <2>1. n \in Nat /\ n <= Len(whole) BY <1>2
    <2> QED BY <1>2, <2>1
<1> HIDE DEF arrived
<1>4. \A k \in 1 .. n : k <= Len(data) => arrived[k] = data[k]
    BY <1>2, <1>3
<1> QED BY <1>3, <1>4 DEF arrived, whole, padding

\* What parseMTResponse makes of a message that carries a configuration, a
\* command, neither.
LEMMA ParsedAs ==
    ASSUME NEW held, held.id # DORIS_MSG_ID_CONFIG, "id" \in DOMAIN held,
           held = [x \in DOMAIN held |-> held[x]], NEW data
    PROVE  LET payload == SubSeq(data, 3, Len(data)) IN
           /\ Carries(data, DORIS_MSG_ID_CONFIG, DorisConfig) =>
                parseMTResponse(data, held) =
                    [held EXCEPT !.id = DORIS_MSG_ID_CONFIG,
                                 !.config = Unpacked(DorisConfig, payload)]
           /\ ~Carries(data, DORIS_MSG_ID_CONFIG, DorisConfig) =>
                /\ Carries(data, DORIS_MSG_ID_COMMAND, DorisCommand) =>
                    parseMTResponse(data, held) =
                        [held EXCEPT !.id = DORIS_MSG_ID_COMMAND,
                                     !.command = Unpacked(DorisCommand, payload)]
                /\ ~Carries(data, DORIS_MSG_ID_COMMAND, DorisCommand) =>
                    parseMTResponse(data, held) = held
<1> DEFINE payload == SubSeq(data, 3, Len(data))
           config == Unpacked(DorisConfig, payload)
           command == Unpacked(DorisCommand, payload)
<1>1. DorisProtocol_parseMT(data, held) =
        IF Carries(data, DORIS_MSG_ID_CONFIG, DorisConfig)
        THEN [held EXCEPT !.id = DORIS_MSG_ID_CONFIG, !.config = config]
        ELSE IF Carries(data, DORIS_MSG_ID_COMMAND, DorisCommand)
        THEN [held EXCEPT !.id = DORIS_MSG_ID_COMMAND, !.command = command]
        ELSE [held EXCEPT !.id = 0]
    <2>1. DORIS_MSG_HEADER_SIZE + 1 = 3 BY DEF DORIS_MSG_HEADER_SIZE
    <2> QED BY <2>1 DEF DorisProtocol_parseMT
<1> HIDE DEF config, command
<1>2. /\ [held EXCEPT !.id = DORIS_MSG_ID_CONFIG, !.config = config].id # 0
      /\ [held EXCEPT !.id = DORIS_MSG_ID_COMMAND, !.command = command].id # 0
      /\ [held EXCEPT !.id = 0].id = 0
    BY DEF DORIS_MSG_ID_CONFIG, DORIS_MSG_ID_COMMAND
<1>3. parseMTResponse(data, held) =
        IF DorisProtocol_parseMT(data, held).id = 0 THEN held
        ELSE DorisProtocol_parseMT(data, held)
    BY DEF parseMTResponse
<1> QED BY Zenon, <1>1, <1>2, <1>3 DEF config, command, payload

\* As much of a message as came, or with padding.
Arrived(data, n) == SubSeq(data \o <<0, 255>>, 1, n)

\* Of a message sent with an id so many bytes came: they carry it when they are
\* the whole of it, never another, and are read as it was written.
ComesAs(id, layout, message, other, table, n) ==
    LET data == Framed(id, layout, message)
        arrived == Arrived(data, n)
    IN  /\ Carries(arrived, id, layout) <=> n >= Len(data)
        /\ ~Carries(arrived, other, table)
        /\ n >= Len(data) => Unpacked(layout, SubSeq(arrived, 3, Len(arrived))) = message

\* A framed message that came, cut or padded, carries what it was framed as
\* when it is whole and nothing when it is not.
LEMMA ArrivesWhole ==
    ASSUME NEW layout \in Layouts, NEW message, Fits(layout, message), NEW id \in Int,
           NEW other \in Int, other # id, NEW table \in Layouts,
           NEW n \in 0 .. Len(Framed(id, layout, message)) + 2
    PROVE  ComesAs(id, layout, message, other, table, n)
<1> DEFINE data == Framed(id, layout, message)
           arrived == Arrived(data, n)
<1>1. /\ data \in Seq(Int) /\ Len(data) = 2 + Size(layout) /\ Size(layout) \in Nat
      /\ data[1] = DORIS_MSG_START /\ data[2] = id /\ Lies(layout, message, data, 2)
    BY FramedIs
<1> HIDE DEF data
<1>2. /\ arrived \in Seq(Int) /\ Len(arrived) = n
      /\ \A k \in 1 .. n : k <= Len(data) => arrived[k] = data[k]
    <2>1. n \in 0 .. Len(data) + 2 BY DEF data
    <2> QED BY <1>1, <2>1, Arrival DEF Arrived
<1> HIDE DEF arrived
<1>3. n \in Nat BY <1>2
<1>4. n >= 2 => arrived[1] = DORIS_MSG_START /\ arrived[2] = id
    <2>1. n >= 2 => 1 \in 1 .. n /\ 2 \in 1 .. n /\ 1 <= Len(data) /\ 2 <= Len(data)
        BY <1>1, <1>3
    <2> QED BY <1>1, <1>2, <2>1
<1>5. Carries(arrived, id, layout) <=> n >= Len(data)
    <2>1. Carries(arrived, id, layout) <=>
            n >= 2 + Size(layout) /\ arrived[1] = DORIS_MSG_START /\ arrived[2] = id
        BY <1>2 DEF Carries, DORIS_MSG_HEADER_SIZE
    <2> QED BY <1>1, <1>3, <1>4, <2>1
<1>6. ~Carries(arrived, other, table)
    <2>1. Size(table) \in Nat
        <3>1. Len(table) + 1 \in 1 .. Len(table) + 1
            <4>1. Len(table) \in Nat BY DEF Layouts
            <4> QED BY <4>1
        <3> QED BY <3>1, OffsetGrows DEF Size
    <2>2. Carries(arrived, other, table) => n >= 2 + Size(table) /\ arrived[2] = other
        BY <1>2 DEF Carries, DORIS_MSG_HEADER_SIZE
    <2>3. n >= 2 + Size(table) => n >= 2
        BY <1>3, <2>1
    <2> QED BY <1>4, <2>2, <2>3
<1>7. ASSUME n >= Len(data)
      PROVE  Unpacked(layout, SubSeq(arrived, 3, Len(arrived))) = message
    <2>1. Len(arrived) >= 2 + Size(layout) BY <1>1, <1>2, <1>7
    <2>2. Lies(layout, message, arrived, 2)
        <3>1. ASSUME NEW i \in 1 .. Len(layout), NEW k \in 1 .. layout[i][2]
              PROVE  arrived[2 + Offset(layout, i) + k]
                     = Bytes(message[layout[i][1]], layout[i][2])[k]
            <4> DEFINE at == 2 + Offset(layout, i) + k
            <4>1. data[at] = Bytes(message[layout[i][1]], layout[i][2])[k]
                BY <1>1 DEF Lies
            <4>2. at \in 1 .. Len(data)
                BY <1>1, FieldWithin
            <4>3. at \in 1 .. n /\ at <= Len(data)
                <5> HIDE DEF at
                <5> QED BY <1>1, <1>3, <1>7, <4>2
            <4> HIDE DEF at
            <4>4. arrived[at] = data[at] BY <1>2, <4>3
            <4> QED BY <4>1, <4>4 DEF at
        <3> QED BY <3>1 DEF Lies
    <2> QED BY <1>2, <2>1, <2>2, PayloadReadsBack
<1> QED BY <1>5, <1>6, <1>7 DEF ComesAs, arrived, data

LEMMA ConfigTakenWhole ==
    ASSUME NEW held, held.id = 0, "id" \in DOMAIN held,
           held = [x \in DOMAIN held |-> held[x]],
           NEW config, Fits(DorisConfig, config)
    PROVE  TakenWhole(Framed(DORIS_MSG_ID_CONFIG, DorisConfig, config), held,
                      [held EXCEPT !.id = DORIS_MSG_ID_CONFIG, !.config = config])
<1> DEFINE data == Framed(DORIS_MSG_ID_CONFIG, DorisConfig, config)
           taken == [held EXCEPT !.id = DORIS_MSG_ID_CONFIG, !.config = config]
<1>0. /\ DORIS_MSG_ID_CONFIG \in Int /\ DORIS_MSG_ID_COMMAND \in Int
      /\ DORIS_MSG_ID_CONFIG # DORIS_MSG_ID_COMMAND /\ held.id # DORIS_MSG_ID_CONFIG
    BY DEF DORIS_MSG_ID_CONFIG, DORIS_MSG_ID_COMMAND
<1>1. ASSUME NEW n \in 0 .. Len(data) + 2
      PROVE  parseMTResponse(Arrived(data, n), held) = IF n >= Len(data) THEN taken ELSE held
    <2> DEFINE arrived == Arrived(data, n)
    <2>1. /\ Carries(arrived, DORIS_MSG_ID_CONFIG, DorisConfig) <=> n >= Len(data)
          /\ ~Carries(arrived, DORIS_MSG_ID_COMMAND, DorisCommand)
          /\ n >= Len(data) =>
                Unpacked(DorisConfig, SubSeq(arrived, 3, Len(arrived))) = config
        <3>1. ComesAs(DORIS_MSG_ID_CONFIG, DorisConfig, config,
                      DORIS_MSG_ID_COMMAND, DorisCommand, n)
            BY <1>0, TheLayouts, ArrivesWhole
        <3> QED BY <3>1 DEF ComesAs
    <2> HIDE DEF arrived, data
    <2>3. ASSUME n >= Len(data) PROVE parseMTResponse(arrived, held) = taken
        <3>1. parseMTResponse(arrived, held) =
                [held EXCEPT !.id = DORIS_MSG_ID_CONFIG,
                             !.config = Unpacked(DorisConfig, SubSeq(arrived, 3, Len(arrived)))]
            BY Zenon, <1>0, <2>1, <2>3, ParsedAs
        <3>2. Unpacked(DorisConfig, SubSeq(arrived, 3, Len(arrived))) = config
            BY <2>1, <2>3
        <3> QED BY <3>1, <3>2
    <2>4. ~(n >= Len(data)) => parseMTResponse(arrived, held) = held
        BY Zenon, <1>0, <2>1, ParsedAs
    <2> QED BY Zenon, <2>3, <2>4 DEF arrived
<1> QED BY <1>1 DEF TakenWhole, Arrived

LEMMA CommandTakenWhole ==
    ASSUME NEW held, held.id = 0, "id" \in DOMAIN held,
           held = [x \in DOMAIN held |-> held[x]],
           NEW command, Fits(DorisCommand, command)
    PROVE  TakenWhole(Framed(DORIS_MSG_ID_COMMAND, DorisCommand, command), held,
                      [held EXCEPT !.id = DORIS_MSG_ID_COMMAND, !.command = command])
<1> DEFINE data == Framed(DORIS_MSG_ID_COMMAND, DorisCommand, command)
           taken == [held EXCEPT !.id = DORIS_MSG_ID_COMMAND, !.command = command]
<1>0. /\ DORIS_MSG_ID_CONFIG \in Int /\ DORIS_MSG_ID_COMMAND \in Int
      /\ DORIS_MSG_ID_CONFIG # DORIS_MSG_ID_COMMAND /\ held.id # DORIS_MSG_ID_CONFIG
    BY DEF DORIS_MSG_ID_CONFIG, DORIS_MSG_ID_COMMAND
<1>1. ASSUME NEW n \in 0 .. Len(data) + 2
      PROVE  parseMTResponse(Arrived(data, n), held) = IF n >= Len(data) THEN taken ELSE held
    <2> DEFINE arrived == Arrived(data, n)
    <2>1. /\ Carries(arrived, DORIS_MSG_ID_COMMAND, DorisCommand) <=> n >= Len(data)
          /\ ~Carries(arrived, DORIS_MSG_ID_CONFIG, DorisConfig)
          /\ n >= Len(data) =>
                Unpacked(DorisCommand, SubSeq(arrived, 3, Len(arrived))) = command
        <3>1. ComesAs(DORIS_MSG_ID_COMMAND, DorisCommand, command,
                      DORIS_MSG_ID_CONFIG, DorisConfig, n)
            BY <1>0, TheLayouts, ArrivesWhole
        <3> QED BY <3>1 DEF ComesAs
    <2> HIDE DEF arrived, data
    <2>3. ASSUME n >= Len(data) PROVE parseMTResponse(arrived, held) = taken
        <3>1. parseMTResponse(arrived, held) =
                [held EXCEPT !.id = DORIS_MSG_ID_COMMAND,
                             !.command = Unpacked(DorisCommand, SubSeq(arrived, 3, Len(arrived)))]
            BY Zenon, <1>0, <2>1, <2>3, ParsedAs
        <3>2. Unpacked(DorisCommand, SubSeq(arrived, 3, Len(arrived))) = command
            BY <2>1, <2>3
        <3> QED BY <3>1, <3>2
    <2>4. ~(n >= Len(data)) => parseMTResponse(arrived, held) = held
        BY Zenon, <1>0, <2>1, ParsedAs
    <2> QED BY Zenon, <2>3, <2>4 DEF arrived
<1> QED BY <1>1 DEF TakenWhole, Arrived

LEMMA ProtocolIsReadBack == ProtocolReadsBack
<1>1. \A r \in Reports : ReportUnpacks(r)
    <2>1. ASSUME NEW r \in Reports PROVE ReportUnpacks(r)
        <3>1. Fits(DorisReport, r) BY BoardAssumption DEF BoardAssumption
        <3>2. DORIS_MSG_ID_REPORT \in Int BY DEF DORIS_MSG_ID_REPORT
        <3> QED BY <3>1, <3>2, TheLayouts, SentReadsBack
            DEF ReportUnpacks, DorisProtocol_serializeReport
    <2> QED BY <2>1
<1>2. ASSUME NEW n \in {DORIS_MSG_ID_CONFIG, DORIS_MSG_ID_COMMAND}
      PROVE  AckUnpacks([acked_msg_id |-> n, result |-> 255])
    <2> DEFINE ack == [acked_msg_id |-> n, result |-> 255]
    <2>1. Fits(DorisAck, ack)
        <3>1. n \in 0 .. 255 BY DEF DORIS_MSG_ID_CONFIG, DORIS_MSG_ID_COMMAND
        <3>2. Weight[1] = 1 BY DEF Weight
        <3>3. \A v \in 0 .. 255 : Holds(1, v) BY <3>2 DEF Holds
        <3>4. Holds(1, n) /\ Holds(1, 255) BY <3>1, <3>3
        <3>5. /\ DOMAIN DorisAck = 1 .. 2 /\ DorisAck[1] = <<"acked_msg_id", 1>>
              /\ DorisAck[2] = <<"result", 1>>
            BY DEF DorisAck
        <3>6. Fields(DorisAck) = {"acked_msg_id", "result"}
            BY <3>5 DEF Fields
        <3>7. ack = [name \in Fields(DorisAck) |-> ack[name]]
            BY <3>6
        <3>8. ack["acked_msg_id"] = n /\ ack["result"] = 255
            OBVIOUS
        <3> HIDE DEF ack
        <3>9. \A i \in DOMAIN DorisAck : Holds(DorisAck[i][2], ack[DorisAck[i][1]])
            BY <3>4, <3>5, <3>8
        <3> QED BY <3>7, <3>9 DEF Fits
    <2>2. DORIS_MSG_ID_ACK \in Int BY DEF DORIS_MSG_ID_ACK
    <2> HIDE DEF ack
    <2>3. AckUnpacks(ack)
        BY <2>1, <2>2, TheLayouts, SentReadsBack DEF AckUnpacks, DorisProtocol_serializeAck
    <2> QED BY <2>3 DEF ack
<1>3. ASSUME NEW config \in Configs, NEW command \in Commands
      PROVE  MailTaken(config, command, Held)
    <2>1. Fits(DorisConfig, config) /\ Fits(DorisCommand, command)
        BY BoardAssumption DEF BoardAssumption
    <2>2. Held.id = 0 /\ "id" \in DOMAIN Held /\ Held = [x \in DOMAIN Held |-> Held[x]]
        BY DEF Held
    <2>3. TakenWhole(Framed(DORIS_MSG_ID_CONFIG, DorisConfig, config), Held,
                     [Held EXCEPT !.id = DORIS_MSG_ID_CONFIG, !.config = config])
        BY <2>1, <2>2, ConfigTakenWhole
    <2>4. TakenWhole(Framed(DORIS_MSG_ID_COMMAND, DorisCommand, command), Held,
                     [Held EXCEPT !.id = DORIS_MSG_ID_COMMAND, !.command = command])
        BY <2>1, <2>2, CommandTakenWhole
    <2> QED BY <2>3, <2>4 DEF MailTaken
<1> QED BY <1>1, <1>2, <1>3 DEF ProtocolReadsBack

-----------------------------------------------------------------------------
(* What is told of the position *)

LEMMA SomewhereOnEarth ==
    /\ Nowhere \in Fixes
    /\ TestFix.lat \in Int /\ TestFix.lon \in Int
<1>1. /\ 0 \in Latitudes /\ 0 \in Longitudes /\ 0 \in 0 .. UINT16_MAX
      /\ 0 \in 0 .. UINT16_MAX * 10 + 9 /\ 0 \in 0 .. UINT16_MAX * 1000 - 1
    BY SMT, DegreeIsPositive, WidthIsPositive DEF Latitudes, Longitudes
<1>2. Nowhere \in Fixes
    BY <1>1 DEF Nowhere, Fixes
<1> QED BY <1>2, SMT DEF TestFix

\* ReportReadsBack: the report, the sentence, the message to the autopilot and
\* the binary messages say what the board knows, for every position and every
\* reading, in every reachable state of either image.
THEOREM ReportsReadBack == BoardSpec => []ReportReadsBack
<1>1. BoardInv => ReportReadsBack
    <2> SUFFICES ASSUME BoardInv PROVE ReportReadsBack
        OBVIOUS
    <2>1. position \in Fixes /\ (gps.valid => position.fixType >= 2)
        BY BoardAssumption, SomewhereOnEarth
        DEF BoardInv, FixHasPosition, PositionType, BoardAssumption
    <2>2. gps.valid \in BOOLEAN
        <3>1. CASE image = "vehicle"
            BY <3>1 DEF BoardInv, IInv, TypeOK, Gps
        <3>2. CASE image = "selftest"
            <4>1. gps = GPSManager_init
                BY <3>2 DEF BoardInv, BenchInv, BenchType
            <4>2. GPSManager_init.valid \in BOOLEAN
                BY Zenon DEF GPSManager_init
            <4> QED BY Zenon, <4>1, <4>2
        <3> QED BY <3>1, <3>2 DEF BoardInv
    <2>3. /\ position.lat \in Latitudes /\ position.lon \in Longitudes
          /\ position.speed \in Nat /\ position.course \in Int
          /\ position.lat \in Int /\ position.lon \in Int
        BY SMT, <2>1, DegreeIsPositive, WidthIsPositive DEF Fixes, Latitudes, Longitudes
    <2>4. PositionReadsBack(position, gps.valid)
        BY <2>1, <2>2, AutopilotIsTold
    <2>5. NmeaReadsBack(meshSendPosition(MeshPosition), MeshPosition)
        <3>1. MeshPosition \in {position, TestFix, Nowhere}
            BY DEF MeshPosition
        <3>2. Nowhere.lat \in Int /\ Nowhere.lon \in Int BY DEF Nowhere
        <3> QED BY <2>3, <3>1, <3>2, SomewhereOnEarth, NmeaSpells
    <2>6. StripReadsBack
        BY DEF BoardInv, BenchInv, StripInv, StripReadsBack
    <2>7. ASSUME NEW r \in Readings
          PROVE  LET volts == IF r.battery = 0 THEN r.vbat ELSE r.battery IN
                 /\ P1ReadsBack(StatusReport(r), Nowhere, r.depth, volts)
                 /\ gps.valid => P1ReadsBack(PositionReport(r), position, r.depth, volts)
        <3> DEFINE volts == IF r.battery = 0 THEN r.vbat ELSE r.battery
        <3>1. r.depth \in Nat /\ r.battery \in Nat /\ r.vbat \in Nat
            BY BoardAssumption DEF BoardAssumption
        <3>2. volts \in Nat /\ ReportedVolts(r.battery, r.vbat) = volts
            BY <3>1, VoltsReported
        <3> HIDE DEF volts
        <3>3. P1ReadsBack(StatusReport(r), Nowhere, r.depth, volts)
            BY <3>1, <3>2, StatusSpells DEF StatusReport
        <3>4. ASSUME gps.valid
              PROVE  P1ReadsBack(PositionReport(r), position, r.depth, volts)
            <4>1. PositionReport(r) = IridiumMessage_formatP1(TRUE, position, r.depth, volts)
                BY <2>2, <3>2, <3>4 DEF PositionReport
            <4>2. P1ReadsBack(IridiumMessage_formatP1(TRUE, position, r.depth, volts),
                              position, r.depth, volts)
                BY Zenon, <2>3, <3>1, <3>2, ReportSpellsThePosition
            <4> QED BY <4>1, <4>2
        <3> QED BY <3>3, <3>4 DEF volts
    <2> QED BY <2>4, <2>5, <2>6, <2>7, ProtocolIsReadBack DEF ReportReadsBack
<1> QED BY <1>1, BoardInvariant, PTL
=============================================================================
