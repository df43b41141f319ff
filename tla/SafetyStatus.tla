---------------------------- MODULE SafetyStatus ----------------------------
(***************************************************************************)
(* What the AGT tells BlueOS of the power handshake, at most once in       *)
(* POWER_STATUS_INTERVAL (MAVLinkInterface_sendSafetyStatus): whether it   *)
(* asks for the shutdown and how far it is.  A blocking session tells      *)
(* nothing, and what is told may be lost on the way.                       *)
(***************************************************************************)
EXTENDS StateMachine

CONSTANT POWER_STATUS_INTERVAL

ASSUME SafetyStatusAssumption == POWER_STATUS_INTERVAL \in Nat

\* What BlueOS heard last, and the age of lastSafetyStatus.
NothingTold == [shutdown |-> FALSE, stage |-> "IDLE", since |-> 0]

ToldElapse(t, d) == [t EXCEPT !.since = Aged(@, d, POWER_STATUS_INTERVAL)]

statusDue(t) == t.since >= POWER_STATUS_INTERVAL

sendNamedFloats(t, s) ==
    [t EXCEPT !.shutdown = s.hs.requested, !.stage = PowerShutdownStage(s.hs)]

sendSafetyStatus(t, s, heard) ==
    IF ~statusDue(t) THEN t
    ELSE [(IF heard THEN sendNamedFloats(t, s) ELSE t) EXCEPT !.since = 0]
=============================================================================
