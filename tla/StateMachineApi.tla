-------------------------- MODULE StateMachineApi ---------------------------
(***************************************************************************)
(* The state machine and its mission data under any caller: each call of   *)
(* the API of modules/state_machine.h and each handler of mission_data.cpp *)
(* is an action, in any order, with any time between two of them.  What    *)
(* holds here holds whatever loop() does; MainLoop is shown to be one such *)
(* caller.                                                                 *)
(***************************************************************************)
EXTENDS StateMachine

CONSTANT Durations   \* lengths of the pauses between two calls
ASSUME DurationsAssumption == Durations \subseteq Nat \ {0}

VARIABLES md,   \* mission_data.cpp: data
          sm    \* state_machine.cpp: status and the stamps beside it

vars == <<md, sm>>

TypeOK == md \in MissionStore /\ sm \in Status

Init == md = MissionData_init /\ sm = StateMachine_init

-----------------------------------------------------------------------------
(* Calls *)

Update             == sm' = update(sm, md)                /\ UNCHANGED md
UpdateSurfacePower == sm' = updateSurfacePower(sm, md)    /\ UNCHANGED md
UpdateBackstop     == sm' = updateSurfaceBackstop(sm, md) /\ UNCHANGED md
AcknowledgeShutdown == sm' = acknowledgeShutdown(sm)      /\ UNCHANGED md
EnterDiving        == sm' = enterDiving(sm)               /\ UNCHANGED md
EnterRecovery      == sm' = enterRecovery(sm)             /\ UNCHANGED md
Reset              == sm' = reset(sm)                     /\ UNCHANGED md

UpdateDoris == \E v \in DorisStates : md' = update_doris_state(md, v) /\ UNCHANGED sm
UpdateDepth == \E v \in Depths : md' = update_depth(md, v) /\ UNCHANGED sm
UpdateVolt  == \E v \in Volts : md' = update_autopilot_voltage(md, v) /\ UNCHANGED sm
UpdateHeartbeat == md' = update_heartbeat(md) /\ UNCHANGED sm
SetLeak == \E b \in BOOLEAN : md' = set_leak(md, b) /\ UNCHANGED sm

\* setup(): a power cycle or a software reboot forgets both modules' RAM.
Boot == md' = MissionData_init /\ sm' = StateMachine_init

Elapse ==
    \E d \in Durations : md' = MissionElapse(md, d) /\ sm' = StatusElapse(sm, d)

Next ==
    \/ Update \/ UpdateSurfacePower \/ UpdateBackstop \/ AcknowledgeShutdown
    \/ EnterDiving \/ EnterRecovery \/ Reset
    \/ UpdateDoris \/ UpdateDepth \/ UpdateVolt \/ UpdateHeartbeat \/ SetLeak
    \/ Boot \/ Elapse

Spec == Init /\ [][Next]_vars

-----------------------------------------------------------------------------
(* Safety *)

\* The payload is off only at the end of a whole handshake: after a dive, with
\* the dwell and the final grace both waited out and the ACK in hand
\* (updateSurfacePower, acknowledgeShutdown, enterState).
CutoffEarned ==
    ~sm.hs.powered =>
        /\ sm.state = "RECOVERY" /\ sm.prev = "DIVING"
        /\ sm.hs.qualified /\ sm.hs.requested
        /\ sm.hs.dwell = [on |-> TRUE, age |-> SURFACE_LOGGING_DWELL]
        /\ sm.hs.ack = [on |-> TRUE, age |-> POWER_SHUTDOWN_FINAL_GRACE]

\* No step of the handshake outlives the recovery it belongs to, though
\* entering RECOVERY clears none of its latches: a boot, or a recovery that
\* did not come out of a dive, finds none of them up (enterState).
HandshakeOfThisDive ==
    sm.hs.dwell.on \/ sm.hs.qualified \/ sm.hs.requested \/ sm.hs.ack.on =>
        sm.state = "RECOVERY" /\ sm.prev = "DIVING"

\* What the firmware believes and reports to BlueOS is what the relay was told.
RelayFollowsPower == sm.hs.relay = sm.hs.powered

\* A recorded failsafe always explains the recovery the vehicle is in: it is
\* never left over into the next mission (reset) nor overtaken by it.
FailsafeExplainsRecovery ==
    sm.failsafe # "NONE" => sm.state = "RECOVERY" /\ sm.prev = "DIVING"

\* The stages of the handshake in order; the dwell is one the firmware reports
\* as IDLE.
Stage(h) == IF PowerShutdownStage(h) = "IDLE" /\ h.dwell.on
            THEN "LOGGING" ELSE PowerShutdownStage(h)

Progress == [IDLE |-> 0, LOGGING |-> 1, AWAITING_ACK |-> 2, ACKNOWLEDGED |-> 3,
             PAYLOAD_OFF |-> 4]

\* Within one recovery the handshake never steps back: a stale STATE, a silent
\* link, a repeated or premature ACK and a quiet hour leave it where it is
\* (the latches of updateSurfacePower).
HandshakeNeverStepsBack ==
    [][sm'.state = sm.state =>
        Progress[Stage(sm'.hs)] >= Progress[Stage(sm.hs)]]_vars

\* With a depth channel that reads one value, however long and in whatever
\* order the calls come, the backstop surfaces nobody: afloat and frozen look
\* alike but for the movement (SURFACE_DEPTH_LIVENESS_M).
FrozenNeverSurfaces == updateSurfaceBackstop(sm, md).state = sm.state

-----------------------------------------------------------------------------
(* The handshake implements its abstract specification. *)

Clock(h) == IF h.ack.on THEN h.ack.age ELSE h.dwell.age

Power == INSTANCE SurfacePower
    WITH Dwell <- SURFACE_LOGGING_DWELL, Grace <- POWER_SHUTDOWN_FINAL_GRACE,
         stage <- Stage(sm.hs), clock <- Clock(sm.hs)

\* Every behaviour of the firmware's flags and timers is one of the abstract
\* handshake: no stage is skipped and no timer is cut short.
PowerSpec == Power!Spec
=============================================================================
