---------------------------- MODULE GnssReceiver ----------------------------
(***************************************************************************)
(* The configuration of the GNSS receiver (modules/gps_manager.cpp,        *)
(* initI2CAndGPS) and the receiver it talks to.  The receiver works from   *)
(* its RAM, which a power-up loads from the battery-backed copy (BBR).     *)
(* Enabling a constellation makes it restart a moment later: it keeps that *)
(* setting, loses the others of its RAM to BBR and forgets its ephemeris   *)
(* (the comments in initI2CAndGPS).                                        *)
(*                                                                         *)
(* A receiver is a record; initI2CAndGPS is the sequence of the commands   *)
(* it sends, of which any may go unanswered.                               *)
(***************************************************************************)
EXTENDS Naturals, Sequences

\* What the firmware sets: UBX on the I2C port, the rate and dynamic model,
\* GLONASS, the output of NAV-PVT, autonomous orbits.
Items == {"ubx", "rate", "glonass", "pvt", "aop"}

Receivers == [ram : SUBSET Items, bbr : SUBSET Items, cell : BOOLEAN,
              ephemeris : BOOLEAN, restarting : BOOLEAN]

\* V_MAIN goes; the coin cell keeps BBR and the ephemeris or does not.
Unpowered(r) ==
    [r EXCEPT !.ram = {}, !.restarting = FALSE,
              !.bbr = IF r.cell THEN @ ELSE {}, !.ephemeris = @ /\ r.cell]

Powered(r) == [r EXCEPT !.ram = r.bbr]

\* The delayed restart.
Restarted(r) ==
    [r EXCEPT !.ram = r.bbr \cup (@ \cap {"glonass"}), !.restarting = FALSE,
              !.ephemeris = FALSE]

Configured(r, item) ==
    [r EXCEPT !.ram = @ \cup {item}, !.restarting = @ \/ item = "glonass"]

-----------------------------------------------------------------------------
(* The commands of initI2CAndGPS *)

Set(item) == [op |-> "set", item |-> item]
Ensure(item) == [op |-> "ensure", item |-> item]
Do(op) == [op |-> op, item |-> ""]

\* Seeded fault: the output of NAV-PVT is enabled behind the save.
firstBootPvtLate == <<Set("ubx"), Set("rate"), Set("glonass"), Do("save"), Set("pvt")>>

firstBoot == <<Set("ubx"), Set("rate"), Set("glonass"), Set("pvt"), Do("save")>>

\* GPS_ENABLE_AOP: written, and saved, only where it differs.
aopConfig == <<Ensure("aop"), Ensure("rate"), Do("save_changed")>>

lastCommands == <<Set("ubx"), Set("pvt")>>

initI2CAndGPS(fullConfig) ==
    (IF fullConfig THEN <<Do("begin"), Do("ask_glonass")>> ELSE <<Do("begin")>>) \o lastCommands

\* Whether the receiver is taken for one configured before: the answer to
\* isGNSSenabled, which is no when none comes.
alreadyConfigured(r, ok) == ok /\ "glonass" \in r.ram

\* Seeded fault: a receiver configured before is configured again.
askedInVain(r, ok) == firstBoot \o aopConfig

\* The commands behind a question answered.
Asked(r, ok) == (IF alreadyConfigured(r, ok) THEN <<>> ELSE firstBoot) \o aopConfig
=============================================================================
