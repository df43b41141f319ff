---------------------------- MODULE SurfacePower ----------------------------
(***************************************************************************)
(* What the surface power handshake promises, without the flags, stamps    *)
(* and early returns that implement it: payload power is removed in one    *)
(* way only, by walking every stage in order and waiting out both timers,  *)
(* and the single shortcut is back to the beginning.  The stages are those *)
(* of PowerShutdownStage (include/modules/state_machine.h); "Logging" is   *)
(* the dwell, which the firmware reports to BlueOS as idle.                *)
(***************************************************************************)
EXTENDS Integers

CONSTANTS Dwell,       \* powered logging before the request
          Grace,       \* ACK to power off
          Durations    \* how long nothing may happen

VARIABLES stage,
          clock   \* time since LOGGING began, then since ACKNOWLEDGED did

power == <<stage, clock>>

Bounded(t, cap) == IF t >= cap THEN cap ELSE t

Init == stage = "IDLE" /\ clock = 0

\* Lua says the mission is over after a dive.
Authorize == stage = "IDLE" /\ stage' = "LOGGING" /\ clock' = 0

Request ==
    stage = "LOGGING" /\ clock = Dwell /\ stage' = "AWAITING_ACK" /\ clock' = clock

\* BlueOS says its storage is safe.
Acknowledge == stage = "AWAITING_ACK" /\ stage' = "ACKNOWLEDGED" /\ clock' = 0

PowerOff ==
    stage = "ACKNOWLEDGED" /\ clock = Grace /\ stage' = "PAYLOAD_OFF" /\ clock' = clock

\* A new mission, an operator's reset or a power cycle.
Abandon == stage # "IDLE" /\ stage' = "IDLE" /\ clock' = 0

Wait ==
    \E d \in Durations :
        /\ stage # "IDLE" /\ stage' = stage
        /\ clock' = Bounded(clock + d, IF stage \in {"LOGGING", "AWAITING_ACK"}
                                       THEN Dwell ELSE Grace)

Next == Authorize \/ Request \/ Acknowledge \/ PowerOff \/ Abandon \/ Wait

Spec == Init /\ [][Next]_power
=============================================================================
