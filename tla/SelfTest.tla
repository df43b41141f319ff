------------------------------ MODULE SelfTest ------------------------------
(***************************************************************************)
(* The bench image of the same board (main_selftest.cpp): a superloop that *)
(* waits for a good fix and then sends a message every CYCLE_INTERVAL,     *)
(* with antenna and power sequences of its own.  A behaviour runs one of   *)
(* the two images on the receiver, the bus and the switches of Radio.      *)
(*                                                                         *)
(* "update" and "pass" are the two halves of loop() in both; a reset of    *)
(* the bench image is a behaviour of its own.                              *)
(***************************************************************************)
EXTENDS Radio

CONSTANT CYCLE_INTERVAL   \* passes between two messages
ASSUME SelfTestAssumption == CYCLE_INTERVAL \in Nat \ {0}

VARIABLES image,   \* "vehicle" or "selftest"
          test     \* main_selftest.cpp

imageVars == <<vars, image, test>>

\* initOK, good are gpsInitOK and hasGoodFix; wait counts down the passes to
\* the next cycle, zero before the first; result is what the last message came
\* to (hasSentMessage, lastSendOK), shown the colour of the upward lights.
TestInit ==
    {[initOK |-> ok, good |-> FALSE, wait |-> 0, result |-> "none",
      shown |-> IF ok THEN "green" ELSE "red"] : ok \in BOOLEAN}

\* The colour that a pass leaves.
resultColour(result) ==
    CASE result = "none" -> "green" [] result = "sent" -> "blue" [] result = "failed" -> "red"

showStatus(t, colour) == [t EXCEPT !.shown = colour]

\* setup() switches to the receiver whether or not it answers.
ImageInit == Init /\ image \in {"vehicle", "selftest"} /\ test \in TestInit

Vehicle(A) == image = "vehicle" /\ A /\ UNCHANGED <<image, test>>

\* A step of the bench image.
Bench(from, to) ==
    /\ image = "selftest" /\ pc = from /\ pc' = to
    /\ UNCHANGED <<gps, left, submerged, seen, image>>

\* One that is a write to the pins.
Pins(from, to, switches) == Bench(from, to) /\ sw' = switches /\ UNCHANGED <<rx, stuck, test>>

-----------------------------------------------------------------------------
(* loop(): the receiver *)

Polled == Bench("update", "pass") /\ UNCHANGED <<sw, rx>>

\* A PVT that came in time, with the fix type and the satellites or without.
getPVT(fix) ==
    /\ Polled /\ test.initOK /\ rx = "talking" /\ ~stuck
    /\ test' = [test EXCEPT !.good = fix] /\ UNCHANGED stuck

\* None came, which changes no fix; after five seconds the bus is freed.
NoPVT(slow) ==
    /\ Polled /\ test.initOK
    /\ stuck' = (stuck /\ ~slow) /\ UNCHANGED test

\* Nobody asks a receiver that failed its initialisation.
NotAsked == Polled /\ ~test.initOK /\ UNCHANGED <<stuck, test>>

-----------------------------------------------------------------------------
(* loop(): the cycle *)

Waited == [test EXCEPT !.wait = IF @ > 0 THEN @ - 1 ELSE 0]

\* Searching, or between two cycles.
NoCycle ==
    /\ Bench("pass", "update") /\ (~test.good \/ test.wait > 0)
    /\ test' = showStatus(Waited, IF test.good THEN resultColour(test.result) ELSE "yellow")
    /\ UNCHANGED <<sw, rx, stuck>>

\* switchToIridium: the receiver off, then the modem on, then the charger.
Cycle ==
    /\ Bench("pass", "modem_on") /\ test.good /\ test.wait = 0
    /\ sw' = antennaToIridium(sw) /\ rx' = "off"
    /\ test' = showStatus(test, "magenta") /\ UNCHANGED stuck

TestPowerUp == Pins("modem_on", "to_charge", modemPowerUp(sw))
TestCharge == Pins("to_charge", "charging", chargeSupercaps(sw))
TestCharged == Pins("charging", "waking", sw)
TestChargeFails == Pins("charging", "give_up", chargeTimeout(sw))

\* A modem that does not begin is put to sleep all the same.
TestBegin(ok) ==
    Pins("waking", IF ok THEN "sending" ELSE "give_up",
         IF ok THEN modemBegin(sw, TRUE) ELSE chargeTimeout(modemBegin(sw, FALSE)))

\* One attempt, sent or not.
TestSend(ok) ==
    /\ Bench("sending", "sent") /\ sw' = chargeTimeout(modemBegin(sw, FALSE))
    /\ test' = [test EXCEPT !.result = IF ok THEN "sent" ELSE "failed"]
    /\ UNCHANGED <<rx, stuck>>

\* switchToGPS: the modem off, then the receiver on.
modemOff(r) == [r EXCEPT !.power = FALSE, !.awake = FALSE]

TestModemOff ==
    \/ Pins("give_up", "give_up_gps", modemOff(sw))
    \/ Pins("sent", "sent_gps", modemOff(sw))

ReceiverOn(from, to) ==
    /\ Bench(from, to) /\ sw' = antennaToGPS(sw)
    /\ rx' \in PoweredReceiver /\ UNCHANGED <<stuck, test>>

TestReceiverOn == ReceiverOn("give_up_gps", "reinit_ignored") \/ ReceiverOn("sent_gps", "reinit_sent")

\* Seeded fault: a fix is forgotten with the receiver it came from.
initGPSForgets(t, ok) == [t EXCEPT !.initOK = ok, !.good = @ /\ ok]

\* Only behind a send does the result count.
initGPSResult(t, ok) == [t EXCEPT !.initOK = ok]

\* initGPS frees the bus and configures the receiver.
initGPS(from, ok, state) ==
    /\ Bench(from, "update")
    /\ sw' = antennaToGPS(modemOff(sw)) /\ rx' = state /\ stuck' = FALSE

\* The end of a cycle, which shows what it came to.
CycleDone(t, result) ==
    showStatus([t EXCEPT !.wait = CYCLE_INTERVAL, !.result = result], resultColour(result))

InitIgnored(ok, state) ==
    /\ initGPS("reinit_ignored", ok, state)
    /\ test' = CycleDone(test, "failed")

InitCounts(ok, state) ==
    /\ initGPS("reinit_sent", ok, state)
    /\ test' = CycleDone(initGPSResult(test, ok), test.result)

TestLoop ==
    \/ \E b \in BOOLEAN : getPVT(b) \/ NoPVT(b) \/ TestBegin(b) \/ TestSend(b)
    \/ NotAsked \/ NoCycle \/ Cycle \/ TestPowerUp \/ TestCharge \/ TestCharged
    \/ TestChargeFails \/ TestModemOff \/ TestReceiverOn
    \/ \E ok \in BOOLEAN, s \in PoweredReceiver : InitIgnored(ok, s) \/ InitCounts(ok, s)

\* The receiver and its bus fail on the bench as they do at sea.
TestFaults ==
    image = "selftest" /\ (FallMute \/ WedgeBus) /\ UNCHANGED <<image, test>>

ImageNext == Vehicle(Next) \/ TestLoop \/ TestFaults

\* The vehicle's fairness, and on the bench: loop() runs for ever, and supply,
\* modem and receiver work again and again.
ImageFairness ==
    /\ WF_imageVars(Vehicle(Update)) /\ WF_imageVars(Vehicle(NoSession \/ InSession))
    /\ SF_imageVars(Vehicle(Tick)) /\ SF_imageVars(Vehicle(Restart))
    /\ WF_imageVars(TestLoop) /\ SF_imageVars(TestCharged) /\ SF_imageVars(TestBegin(TRUE))
    /\ SF_imageVars(InitCounts(TRUE, "talking"))

-----------------------------------------------------------------------------

\* A receiver that was lost behind a send comes back though loop() asks it no
\* more: the fix at hand keeps the cycles going, and each initialises the
\* receiver again (iridiumSend, gpsInitOK).
LostReceiverRecovers ==
    image = "selftest" /\ test.wait > 0 /\ ~test.initOK ~> test.initOK
=============================================================================
