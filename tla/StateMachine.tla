---------------------------- MODULE StateMachine ----------------------------
(***************************************************************************)
(* The mission state machine (modules/state_machine.cpp) as operators from *)
(* its status record to the next one: the failsafe monitors, the surface   *)
(* power handshake, the depth backstop and the transitions they share in   *)
(* enterState.  StateMachineApi lets its callers call them in any order;   *)
(* MainLoop calls them in the order of loop().                             *)
(*                                                                         *)
(* millis() is read several times in one call; the calls take no time, so  *)
(* one age per stamp serves them all.                                      *)
(***************************************************************************)
EXTENDS MissionData

CONSTANTS
    DIVE_HEARTBEAT_GRACE,        \* DIVING time before a monitor runs
    CRITICAL_VOLTAGE_HOLD,       \* the literal 10000UL
    SURFACE_LOGGING_DWELL,       \* STATE=4 to the shutdown request
    POWER_SHUTDOWN_FINAL_GRACE,  \* ACK to the relay
    RECOVERY_DEPTH_THRESHOLD,    \* shallower than this is the surface
    SURFACE_QUALIFY,             \* how long the backstop window must last
    SURFACE_DEPTH_LIVENESS       \* how far the depth must move in it

ASSUME StateMachineAssumption ==
    /\ DIVE_HEARTBEAT_GRACE \in Nat
    /\ CRITICAL_VOLTAGE_HOLD \in Nat
    /\ SURFACE_LOGGING_DWELL \in Nat \ {0}
    /\ POWER_SHUTDOWN_FINAL_GRACE \in Nat \ {0}
    /\ RECOVERY_DEPTH_THRESHOLD \in Nat
    /\ SURFACE_QUALIFY \in Nat \ {0}
    /\ SURFACE_DEPTH_LIVENESS \in Nat

-----------------------------------------------------------------------------
(* A flag and the stamp read only while it is up; the age rests at zero     *)
(* while the flag is down.                                                  *)

Stopwatches(cap) == [on : BOOLEAN, age : 0 .. cap]

Stopped == [on |-> FALSE, age |-> 0]
Started == [on |-> TRUE, age |-> 0]

Run(w, d, cap) == IF w.on THEN [w EXCEPT !.age = Aged(@, d, cap)] ELSE w

-----------------------------------------------------------------------------
(* The status *)

States == {"PRE_DIVE", "DIVING", "RECOVERY"}
Failsafes == {"NONE", "LOW_VOLTAGE", "LEAK", "NO_HEARTBEAT"}

\* powered is nonessentialsPowered; relay is what the relay was last told
\* (RelayController_setPowerManagement).
Handshakes ==
    [powered : BOOLEAN, relay : BOOLEAN, qualified : BOOLEAN, requested : BOOLEAN,
     dwell : Stopwatches(SURFACE_LOGGING_DWELL),
     ack : Stopwatches(POWER_SHUTDOWN_FINAL_GRACE)]

\* The depths the backstop's window has seen, and for how long it is open.
Windows == [timer : Stopwatches(SURFACE_QUALIFY), min : Nat, max : Nat]

Status ==
    [state : States, prev : States, stateAge : 0 .. DIVE_HEARTBEAT_GRACE,
     failsafe : Failsafes, hs : Handshakes,
     crit : Stopwatches(CRITICAL_VOLTAGE_HOLD), win : Windows]

PoweredIdle ==
    [powered |-> TRUE, relay |-> TRUE, qualified |-> FALSE, requested |-> FALSE,
     dwell |-> Stopped, ack |-> Stopped]

NoWindow == [timer |-> Stopped, min |-> 0, max |-> 0]

StateMachine_init ==
    [state |-> "PRE_DIVE", prev |-> "PRE_DIVE", stateAge |-> 0,
     failsafe |-> "NONE", hs |-> PoweredIdle, crit |-> Stopped, win |-> NoWindow]

HandshakeElapse(h, d) ==
    [h EXCEPT !.dwell = Run(@, d, SURFACE_LOGGING_DWELL),
              !.ack = Run(@, d, POWER_SHUTDOWN_FINAL_GRACE)]

\* The same status d ticks later.
StatusElapse(s, d) ==
    [state |-> s.state, prev |-> s.prev,
     stateAge |-> Aged(s.stateAge, d, DIVE_HEARTBEAT_GRACE),
     failsafe |-> s.failsafe, hs |-> HandshakeElapse(s.hs, d),
     crit |-> Run(s.crit, d, CRITICAL_VOLTAGE_HOLD),
     win |-> [s.win EXCEPT !.timer = Run(@, d, SURFACE_QUALIFY)]]

-----------------------------------------------------------------------------
(* Transitions *)

\* Every entry closes the payload relay; entering PRE_DIVE or DIVING drops the
\* handshake, entering RECOVERY keeps whatever it finds of it.
repowered(h, t) ==
    IF t = "RECOVERY" THEN [h EXCEPT !.powered = TRUE, !.relay = TRUE]
    ELSE PoweredIdle

enterState(s, t) ==
    IF t = s.state THEN s
    ELSE [state |-> t, prev |-> s.state, stateAge |-> 0, failsafe |-> s.failsafe,
          hs |-> repowered(s.hs, t), crit |-> s.crit, win |-> s.win]

enterDiving(s) == IF s.state = "PRE_DIVE" THEN enterState(s, "DIVING") ELSE s

enterRecovery(s) == enterState(s, "RECOVERY")

\* Seeded fault: the failsafe of the last dive stays on record.
resetKeepsFailsafe(s) == enterState(s, "PRE_DIVE")

reset(s) == enterState([s EXCEPT !.failsafe = "NONE"], "PRE_DIVE")

triggerFailsafe(s, source) ==
    IF s.state = "DIVING"
    THEN enterState([s EXCEPT !.failsafe = source], "RECOVERY")
    ELSE s

-----------------------------------------------------------------------------
(* StateMachine_update: the failsafe monitors *)

criticalVoltage(m) ==
    Fresh(m.volt) /\ m.volt.value \in 1 .. BATTERY_CRITICAL_VOLTAGE

heartbeatLost(m) == m.hb.valid /\ m.hb.age >= FAILSAFE_HEARTBEAT_TIMEOUT

\* The monitors run only in a dive and only after its grace.
Monitoring(s) == s.state = "DIVING" /\ s.stateAge >= DIVE_HEARTBEAT_GRACE

\* Seeded fault: a healthy reading does not drop the timer.
timeVoltageKeeps(s, critical) ==
    [s EXCEPT !.crit = IF critical /\ ~@.on THEN Started ELSE @]

\* The 10 s voltage timer: started by a critical reading, dropped by any other.
timeVoltage(s, critical) ==
    [s EXCEPT !.crit = IF ~critical THEN Stopped ELSE IF @.on THEN @ ELSE Started]

voltageHeld(s) == s.crit.on /\ s.crit.age >= CRITICAL_VOLTAGE_HOLD

\* Seeded fault: a voltage being timed returns before the heartbeat is looked at.
monitorShadowsHeartbeat(s, m) ==
    IF voltageHeld(s) THEN triggerFailsafe(s, "LOW_VOLTAGE")
    ELSE IF heartbeatLost(m) /\ ~s.crit.on THEN triggerFailsafe(s, "NO_HEARTBEAT")
    ELSE s

\* The monitors after the leak's, once the voltage timer is up to date.
monitor(s, m) ==
    IF voltageHeld(s) THEN triggerFailsafe(s, "LOW_VOLTAGE")
    ELSE IF heartbeatLost(m) THEN triggerFailsafe(s, "NO_HEARTBEAT")
    ELSE s

update(s, m) ==
    IF ~Monitoring(s) THEN timeVoltage(s, FALSE)
    ELSE IF m.leak THEN triggerFailsafe(s, "LEAK")
    ELSE monitor(timeVoltage(s, criticalVoltage(m)), m)

-----------------------------------------------------------------------------
(* The surface power handshake *)

\* Seeded fault: any recovery will do, one straight from boot included.
AuthorizedWithoutDive(s, m) ==
    s.state = "RECOVERY" /\ Fresh(m.doris) /\ m.doris.value = 4

\* One fresh STATE=4 in a RECOVERY that came out of a dive.
Authorized(s, m) ==
    /\ s.state = "RECOVERY" /\ s.prev = "DIVING"
    /\ Fresh(m.doris) /\ m.doris.value = 4

\* Seeded fault: the relay opens with the ACK.
cutoffAtOnce(h) == [h EXCEPT !.relay = FALSE, !.powered = FALSE]

cutoff(h) ==
    IF h.ack.age >= POWER_SHUTDOWN_FINAL_GRACE
    THEN [h EXCEPT !.relay = FALSE, !.powered = FALSE]
    ELSE h

dwelled(h) == [h EXCEPT !.requested = h.dwell.age >= SURFACE_LOGGING_DWELL]

\* Seeded fault: every fresh STATE=4 starts the dwell over.
surfacePowerRestarts(h, authorized) ==
    IF h.ack.on THEN cutoff(h)
    ELSE IF authorized THEN dwelled([h EXCEPT !.qualified = TRUE, !.dwell = Started])
    ELSE IF h.dwell.on THEN dwelled(h)
    ELSE [h EXCEPT !.qualified = FALSE, !.requested = FALSE]

\* The ACK and the dwell are latches: past them nothing is asked of Lua.
surfacePower(h, authorized) ==
    IF h.ack.on THEN cutoff(h)
    ELSE IF h.dwell.on THEN dwelled(h)
    ELSE IF authorized THEN dwelled([h EXCEPT !.qualified = TRUE, !.dwell = Started])
    ELSE [h EXCEPT !.qualified = FALSE, !.requested = FALSE]

updateSurfacePower(s, m) == [s EXCEPT !.hs = surfacePower(@, Authorized(s, m))]

\* Seeded fault: a repeated ACK restarts the final grace.
acknowledgedAgain(h) ==
    IF h.requested /\ h.qualified THEN [h EXCEPT !.ack = Started] ELSE h

acknowledged(h) ==
    IF h.requested /\ h.qualified /\ ~h.ack.on THEN [h EXCEPT !.ack = Started] ELSE h

acknowledgeShutdown(s) == [s EXCEPT !.hs = acknowledged(@)]

PowerShutdownStage(h) ==
    IF ~h.powered THEN "PAYLOAD_OFF"
    ELSE IF h.ack.on THEN "ACKNOWLEDGED"
    ELSE IF h.requested THEN "AWAITING_ACK"
    ELSE "IDLE"

canTransmitIridium(s) == s.state = "RECOVERY" /\ ~s.hs.powered

-----------------------------------------------------------------------------
(* The depth backstop *)

\* Seeded fault: each sample opens a window of its own.
widenReopens(w, v) == [timer |-> Started, min |-> v, max |-> v]

\* The window after one more sample; the first sample opens it.
widen(w, v) ==
    IF w.timer.on
    THEN [w EXCEPT !.min = IF v < @ THEN v ELSE @, !.max = IF v > @ THEN v ELSE @]
    ELSE [timer |-> Started, min |-> v, max |-> v]

\* Seeded fault: steady is as good as moving.
windowQualifiedSteady(w) == w.timer.age >= SURFACE_QUALIFY

windowQualified(w) ==
    w.max - w.min >= SURFACE_DEPTH_LIVENESS /\ w.timer.age >= SURFACE_QUALIFY

Ascending(s, m) == s.state = "DIVING" /\ m.doris.value >= 3

Shallow(m) == Fresh(m.depth) /\ m.depth.value < RECOVERY_DEPTH_THRESHOLD

updateSurfaceBackstop(s, m) ==
    LET w == widen(s.win, m.depth.value)
        closed == [s EXCEPT !.win = NoWindow]
    IN  IF ~Ascending(s, m) \/ ~Shallow(m) THEN closed
        ELSE IF windowQualified(w) THEN enterState(closed, "RECOVERY")
        ELSE [s EXCEPT !.win = w]
=============================================================================
