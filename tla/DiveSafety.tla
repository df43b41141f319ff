----------------------------- MODULE DiveSafety -----------------------------
(***************************************************************************)
(* The main loop's failsafes against what really happened outside it.  obs *)
(* watches the loop and the world and is read by no action of theirs:      *)
(*   silence  how long the autopilot has not transmitted a heartbeat,      *)
(*            those that a blocking session discards included;             *)
(*   drained  whether a session has discarded one since the last heard;    *)
(*   held     how long every pass has seen a dive's voltage critical;      *)
(*   glitch   whether the last STATE came in a dive and denied it.         *)
(***************************************************************************)
EXTENDS MainLoop

\* DIVE_HEARTBEAT_GRACE_MS is 90 s and the hold 10 s.  A leak leaves the voltage
\* timer as it is, so a dive begun in the same pass inherits it: what keeps it
\* from firing early is that the new dive's grace is the longer of the two.
ASSUME HoldAssumption == CRITICAL_VOLTAGE_HOLD <= DIVE_HEARTBEAT_GRACE

VARIABLE obs
watchedVars == <<vars, obs>>

\* The autopilot runs on the payload's power.
mayTransmit == sm.hs.relay /\ "HEARTBEAT" \in Commands

\* d ticks pass without, or with, a heartbeat transmitted and lost.
Silent(o, d) == [o EXCEPT !.silence = Aged(@, d, FAILSAFE_HEARTBEAT_TIMEOUT),
                          !.held = Aged(@, d, CRITICAL_VOLTAGE_HOLD)]
Drained(o, d) == [Silent(o, d) EXCEPT !.silence = 0, !.drained = TRUE]

ObsInit ==
    /\ Init
    /\ obs = [silence |-> FAILSAFE_HEARTBEAT_TIMEOUT, held |-> 0, glitch |-> FALSE,
              drained |-> FALSE]

ObsNext ==
    \/ Monitor /\ obs' = [obs EXCEPT !.held =
                            IF Monitoring(sm) /\ criticalVoltage(md) THEN @ ELSE 0]
    \/ \E v \in DorisStates :
         HearState(v) /\ obs' = [obs EXCEPT !.glitch = v <= 0 /\ sm.state = "DIVING"]
    \/ "HEARTBEAT" \in Commands /\ HearHeartbeat
         /\ obs' = [obs EXCEPT !.silence = 0, !.drained = FALSE]
    \/ \E b \in SessionTimes, ok \in BOOLEAN :
         /\ ManualTest(b, ok) \/ Report(b, ok)
         /\ obs' = Silent(obs, b) \/ (mayTransmit /\ obs' = Drained(obs, b))
    \/ \E d \in Durations : Delay(d) /\ obs' = Silent(obs, d)
    \/ /\ Power \/ HearOther \/ SerialDone \/ Follow \/ Backstop
            \/ SkipTest \/ SkipReport \/ Again \/ Boot
       /\ UNCHANGED obs

SafetySpec == ObsInit /\ [][ObsNext]_watchedVars

-----------------------------------------------------------------------------

\* A dive past its grace never leaves the monitors with a leak, a lost
\* heartbeat or a voltage critical for the whole hold: no monitor shadows
\* another, whatever its early returns (StateMachine_update).
NoDiveContinuesUnsafe ==
    pc = "power" /\ sm.state = "DIVING" /\ sm.stateAge = DIVE_HEARTBEAT_GRACE =>
        ~md.leak /\ ~heartbeatLost(md) /\ ~voltageHeld(sm)

\* The low-voltage failsafe takes an unbroken hold: every pass since its start
\* found the voltage fresh and critical (criticalVoltageTimingActive).
VoltageHeld ==
    [][sm'.failsafe = "LOW_VOLTAGE" /\ sm.failsafe # "LOW_VOLTAGE" =>
         obs.held = CRITICAL_VOLTAGE_HOLD]_watchedVars

\* The heartbeat failsafe takes an autopilot that is really silent for the
\* whole timeout; a session that discards its heartbeats is the one exception
\* (StateMachine_update, MAVLinkInterface_serviceLink).
AutopilotSilent ==
    [][sm'.failsafe = "NO_HEARTBEAT" /\ sm.failsafe # "NO_HEARTBEAT" =>
         obs.silence = FAILSAFE_HEARTBEAT_TIMEOUT \/ obs.drained]_watchedVars

\* A STATE <= 0 received in a dive is a glitch and never takes the vehicle back
\* to PRE_DIVE (the comment in checkStateTransitions).
GlitchNeverResets ==
    [][pc = "follow" /\ obs.glitch =>
         ~(sm'.state = "PRE_DIVE" /\ sm.state # "PRE_DIVE")]_watchedVars
=============================================================================
