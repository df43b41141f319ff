----------------------------- MODULE GpsManager -----------------------------
(***************************************************************************)
(* What the firmware knows of the GNSS receiver (modules/gps_manager.cpp): *)
(* the fix of the last UBX-NAV-PVT, the watchdog over the PVT stream and   *)
(* the count of I2C failures.  A store is a record, a call an operator.    *)
(*                                                                         *)
(* lastPVTTime is zero until a PVT or a re-initialisation sets it; stamped *)
(* says that it is not, age is millis() minus it.                          *)
(***************************************************************************)
EXTENDS Integers

CONSTANTS PVT_WATCHDOG,        \* silence after which the pipeline is broken
          I2C_FAIL_RECOVERY    \* refused transfers in a row before a bus recovery

ASSUME GpsManagerAssumption ==
    PVT_WATCHDOG \in Nat \ {0} /\ I2C_FAIL_RECOVERY \in Nat \ {0}

Gps == [valid : BOOLEAN, stamped : BOOLEAN, age : 0 .. PVT_WATCHDOG + 1,
        fails : 0 .. I2C_FAIL_RECOVERY - 1]

GPSManager_init == [valid |-> FALSE, stamped |-> FALSE, age |-> 0, fails |-> 0]

GpsElapse(g, d) ==
    [g EXCEPT !.age = IF ~g.stamped THEN 0
                      ELSE IF @ + d > PVT_WATCHDOG THEN PVT_WATCHDOG + 1 ELSE @ + d]

stamp(g) == [g EXCEPT !.stamped = TRUE, !.age = 0]

processPVT(g, fix) == [stamp(g) EXCEPT !.valid = fix, !.fails = 0]

watchdogDue(g) == g.stamped /\ g.age > PVT_WATCHDOG

\* The watchdog restarts its clock whether or not the receiver came back.
gpsFullReinit(g) == stamp(g)

\* Seeded fault: any answer of the receiver is as good as a PVT.
answeredStamps(g) == [stamp(g) EXCEPT !.fails = 0]

\* The receiver answered, with nothing to read or with bytes that end no PVT.
answered(g) == [g EXCEPT !.fails = 0]

recoversBus(g) == g.fails + 1 >= I2C_FAIL_RECOVERY

refused(g) == [g EXCEPT !.fails = IF recoversBus(g) THEN 0 ELSE @ + 1]

\* Seeded fault: the clock still runs from before the session.
reinitKeepsStamp(g, ok) == g

\* GPSManager_reinit: a failure leaves the old clock running.
reinit(g, ok) == IF ok THEN stamp(g) ELSE g
=============================================================================
