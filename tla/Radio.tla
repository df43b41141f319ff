------------------------------- MODULE Radio --------------------------------
(***************************************************************************)
(* The GNSS receiver and the modem sharing an antenna and the superloop:   *)
(* GPSManager_update once a pass, a session when loop() asks for one, and  *)
(* the re-initialisation of the receiver behind it.                        *)
(*                                                                         *)
(* The receiver, its bus and the sea are the environment.  The receiver    *)
(* loses its power in every session, may come up mute (its RAM             *)
(* configuration races begin()) and may fall mute or wedge the bus at any  *)
(* time.  Under water it reports that it has no fix.                       *)
(***************************************************************************)
EXTENDS GpsManager, IridiumSession

VARIABLES gps,      \* gps_manager.cpp
          sw,       \* the switches
          pc,       \* where the superloop is
          left,     \* attempts left to this session
          rx,       \* the receiver: "off", "mute" or "talking"
          stuck,    \* the receiver holds SDA low
          submerged,
          seen      \* observes: how long the receiver may have been silent
                    \* through no fault of the firmware's, whether its restart
                    \* after the last session failed, whether the fix at hand was taken after
                    \* the last dive, and whether that dive lasted for a PVT
                    \* or the watchdog

firmware == <<gps, sw, pc, left>>
world == <<rx, stuck, submerged>>
vars == <<firmware, world, seen>>

Seen == [silent : 0 .. PVT_WATCHDOG + 1, failed : BOOLEAN, current : BOOLEAN, looked : BOOLEAN]

TypeOK ==
    /\ gps \in Gps /\ sw \in Switches /\ left \in 0 .. MAX_IRIDIUM_RETRY
    /\ pc \in {"update", "pass", "charge", "power", "begin", "send", "down",
               "back", "reinit"}
    /\ rx \in {"off", "mute", "talking"} /\ stuck \in BOOLEAN /\ submerged \in BOOLEAN
    /\ seen \in Seen

PoweredReceiver == {"mute", "talking"}

Unseen == [silent |-> 0, failed |-> FALSE, current |-> FALSE, looked |-> FALSE]

\* The end of setup().
Init ==
    /\ gps = GPSManager_init /\ sw = antennaToGPS(setupPins)
    /\ pc = "update" /\ left = 0
    /\ rx \in PoweredReceiver /\ stuck = FALSE /\ submerged = FALSE /\ seen = Unseen

\* A power cycle at any point.
Boot ==
    /\ gps' = GPSManager_init /\ sw' = antennaToGPS(setupPins)
    /\ pc' = "update" /\ left' = 0
    /\ rx' \in PoweredReceiver /\ stuck' = FALSE /\ UNCHANGED submerged /\ seen' = Unseen

-----------------------------------------------------------------------------
(* GPSManager_update *)

Updating == pc = "update" /\ pc' = "pass" /\ UNCHANGED <<sw, left, submerged>>

\* The watchdog comes before the bus is looked at.
Watchdog(state) ==
    /\ Updating /\ watchdogDue(gps)
    /\ gps' = gpsFullReinit(gps)
    /\ rx' = state /\ stuck' = FALSE
    /\ seen' = [seen EXCEPT !.silent = 0, !.failed = FALSE, !.looked = TRUE]

Polling == Updating /\ ~watchdogDue(gps)

Refused ==
    /\ Polling /\ stuck
    /\ gps' = refused(gps) /\ stuck' = ~recoversBus(gps)
    /\ UNCHANGED <<rx, seen>>

Answered ==
    /\ Polling /\ ~stuck
    /\ gps' = answered(gps)
    /\ UNCHANGED <<rx, stuck, seen>>

Pvt(fix) ==
    /\ Polling /\ ~stuck /\ rx = "talking" /\ (fix => ~submerged)
    /\ gps' = processPVT(gps, fix)
    /\ seen' = [silent |-> 0, failed |-> FALSE, current |-> fix, looked |-> TRUE]
    /\ UNCHANGED <<rx, stuck>>

-----------------------------------------------------------------------------
(* A session, from loop()'s decision to the re-initialisation behind it *)

\* The rest of the pass without one.
NoSession == pc = "pass" /\ pc' = "update" /\ UNCHANGED <<gps, sw, left, world, seen>>

\* antennaToIridium cuts the receiver's power.
Open(attempts) ==
    /\ pc = "pass" /\ pc' = "charge" /\ left' = attempts
    /\ sw' = antennaToIridium(sw) /\ rx' = "off"
    /\ UNCHANGED <<gps, stuck, submerged, seen>>

iridiumSendPayload == Open(MAX_IRIDIUM_RETRY)

\* A position is reported only with a fix, however old; a status without.
IridiumManager_sendMissionReport == gps.valid /\ iridiumSendPayload
IridiumManager_sendPosition == gps.valid /\ iridiumSendPayload
IridiumManager_sendStatusReport == iridiumSendPayload
IridiumManager_sendMessage == iridiumSendPayload

\* The others write the sequence out again, each with attempts of its own.
IridiumManager_sendDorisReport == Open(MAX_IRIDIUM_RETRY)
IridiumManager_sendBinary == Open(1)
IridiumManager_checkMessages == Open(1)
IridiumManager_checkMT == Open(1)
IridiumManager_getSignalQuality == Open(1)
IridiumManager_init == Open(0)

OpenReport ==
    \/ IridiumManager_sendMissionReport \/ IridiumManager_sendPosition
    \/ IridiumManager_sendStatusReport \/ IridiumManager_sendDorisReport

OpenOther ==
    \/ IridiumManager_sendMessage \/ IridiumManager_sendBinary
    \/ IridiumManager_checkMessages \/ IridiumManager_checkMT
    \/ IridiumManager_getSignalQuality \/ IridiumManager_init

Step(from, to, switches) ==
    /\ pc = from /\ pc' = to /\ sw' = switches
    /\ UNCHANGED <<gps, left, world, seen>>

Charge == Step("charge", "power", chargeSupercaps(sw))

\* PGOOD never came.
ChargeFails == Step("power", "back", chargeTimeout(sw))

PowerUp == Step("power", "begin", modemPowerUp(sw))

\* A modem that was only to begin is powered down at once.
Begin(ok) ==
    Step("begin", IF ok /\ left > 0 THEN "send" ELSE "down", modemBegin(sw, ok))

\* A send, a look into the mailbox or at the signal.
Send(ok) ==
    /\ pc = "send" /\ left' = left - 1
    /\ pc' = IF ok \/ left' = 0 THEN "down" ELSE "send"
    /\ UNCHANGED <<gps, sw, world, seen>>

PowerDown == Step("down", "back", modemPowerDown(sw))

\* antennaToGPS powers the receiver again.
Back ==
    /\ pc = "back" /\ pc' = "reinit"
    /\ sw' = antennaToGPS(sw) /\ rx' \in PoweredReceiver
    /\ UNCHANGED <<gps, left, stuck, submerged, seen>>

\* GPSManager_reinit, its second try included; it frees the bus either way.
Reinit(ok, state) ==
    /\ pc = "reinit" /\ pc' = "update"
    /\ gps' = reinit(gps, ok) /\ sw' = antennaToGPS(sw)
    /\ rx' = state /\ stuck' = FALSE
    /\ seen' = [seen EXCEPT !.failed = ~ok, !.silent = IF ok THEN 0 ELSE @]
    /\ UNCHANGED <<left, submerged>>

-----------------------------------------------------------------------------
(* The environment *)

FallMute == rx = "talking" /\ rx' = "mute" /\ UNCHANGED <<firmware, stuck, submerged, seen>>

WedgeBus ==
    rx # "off" /\ stuck' = TRUE /\ UNCHANGED <<firmware, rx, submerged, seen>>

\* A dive makes every fix taken before it one of the past.
Dive ==
    /\ ~submerged /\ submerged' = TRUE
    /\ seen' = [seen EXCEPT !.current = FALSE, !.looked = FALSE]
    /\ UNCHANGED <<firmware, rx, stuck>>

\* It lasts longer than the watchdog's time, if that runs at all.
Surface ==
    /\ submerged /\ submerged' = FALSE /\ (gps.stamped => seen.looked)
    /\ UNCHANGED <<firmware, rx, stuck, seen>>

Tick ==
    /\ gps' = GpsElapse(gps, 1)
    /\ seen' = [seen EXCEPT !.silent = IF @ > PVT_WATCHDOG THEN @ ELSE @ + 1]
    /\ UNCHANGED <<sw, pc, left, world>>

Update ==
    \/ \E s \in PoweredReceiver : Watchdog(s)
    \/ Refused \/ Answered
    \/ \E fix \in BOOLEAN : Pvt(fix)

InSession ==
    \/ OpenReport \/ OpenOther
    \/ Charge \/ ChargeFails \/ PowerUp \/ PowerDown \/ Back
    \/ \E ok \in BOOLEAN : Begin(ok) \/ Send(ok)
    \/ \E ok \in BOOLEAN, s \in PoweredReceiver : Reinit(ok, s)

Next == Update \/ NoSession \/ InSession \/ Boot
          \/ FallMute \/ WedgeBus \/ Dive \/ Surface \/ Tick

\* The superloop and time go on, a session does not go on for ever, and a
\* receiver that is restarted again and again speaks in the end.
Restart == Watchdog("talking") \/ Reinit(TRUE, "talking")

Fairness ==
    /\ WF_vars(Update) /\ WF_vars(NoSession \/ InSession) /\ SF_vars(Tick)
    /\ SF_vars(Restart)

Spec == Init /\ [][Next]_vars
FairSpec == Spec /\ Fairness

-----------------------------------------------------------------------------

\* The receiver and the modem are never powered together, on whichever of the
\* error paths a session ends (the comment over configureGnssEnPin).
AntennaExclusive == ~(sw.gnss /\ sw.power)

\* Every session gives back what it took: the superloop goes on with the
\* receiver powered and the modem asleep, unpowered and uncharged
\* (iridiumSendPayload, modemPowerDown).
SessionGivesBack ==
    pc \in {"update", "pass"} => sw = antennaToGPS(setupPins)

\* The watchdog acts on silence: never within its time of a PVT, of its own
\* last try or of a session, the minutes without power included; only a
\* receiver that did not come back from the session is tried at once
\* (the comment in GPSManager_reinit).
WatchdogIsPatient ==
    [][(\E s \in PoweredReceiver : Watchdog(s)) => seen.silent > PVT_WATCHDOG \/ seen.failed]_vars

\* A receiver that has spoken once and falls mute, on a bus that wedges and is
\* recovered, is restarted until it speaks or the board is (the PVT watchdog).
MuteReceiverRestarted ==
    gps.stamped /\ rx = "mute" ~> rx = "talking" \/ ~gps.stamped

\* A position offered for a report was taken after the last dive
\* (docs/STATE_MACHINE.md, "no stale pre-dive position is used").
NoStaleFix == [][IridiumManager_sendMissionReport /\ ~submerged => seen.current]_vars
=============================================================================
