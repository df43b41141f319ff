--------------------------- MODULE IridiumSession ---------------------------
(***************************************************************************)
(* The power and antenna switches of a modem session                       *)
(* (modules/iridium_manager.cpp, iridiumSendPayload).  The GNSS receiver   *)
(* and the modem share one antenna through an RF switch that their power   *)
(* pins drive.  The switches are a record, a routine of the session is an  *)
(* operator on it; Radio steps through them in the order of the code.      *)
(***************************************************************************)
EXTENDS Naturals

CONSTANT MAX_IRIDIUM_RETRY   \* sends in one session
ASSUME SessionAssumption == MAX_IRIDIUM_RETRY \in Nat \ {0}

\* gnss is GNSS_EN pulled low; power, charge are IRIDIUM_PWR_EN and
\* SUPERCAP_CHG_EN; awake is the modem library's begin without a sleep.
Switches == [gnss : BOOLEAN, power : BOOLEAN, charge : BOOLEAN, awake : BOOLEAN]

\* setupPins, before GPSManager_init.
setupPins == [gnss |-> FALSE, power |-> FALSE, charge |-> FALSE, awake |-> FALSE]

antennaToIridium(r) == [r EXCEPT !.gnss = FALSE]

antennaToGPS(r) == [r EXCEPT !.gnss = TRUE]

chargeSupercaps(r) == [r EXCEPT !.charge = TRUE]

\* Seeded fault: the charger stays on after a timeout.
chargeTimeoutLeaks(r) == r

chargeTimeout(r) == [r EXCEPT !.charge = FALSE]

modemPowerUp(r) == [r EXCEPT !.power = TRUE]

modemBegin(r, ok) == [r EXCEPT !.awake = ok]

\* Seeded fault: a modem that is not awake is not powered down.
modemPowerDownAwake(r) ==
    IF r.awake THEN [r EXCEPT !.awake = FALSE, !.power = FALSE, !.charge = FALSE] ELSE r

modemPowerDown(r) == [r EXCEPT !.awake = FALSE, !.power = FALSE, !.charge = FALSE]
=============================================================================
