---------------------------- MODULE MissionData ----------------------------
(***************************************************************************)
(* The mission data the MAVLink dispatcher writes and the state machine    *)
(* reads (modules/mission_data.cpp): the Lua mission state, the depth, the *)
(* autopilot's battery voltage, the leak flag and the heartbeat.           *)
(*                                                                         *)
(* The firmware stores millis() when a value arrives and later compares    *)
(* millis() minus that stamp with a threshold.  The specifications keep    *)
(* the difference itself, the AGE of the value.  An age stops growing at   *)
(* the first value at which every comparison the code makes of it has its  *)
(* final answer, so the ages of a run are finitely many.                   *)
(*                                                                         *)
(* The module has no variables: a store is a record, a handler is an       *)
(* operator from a store to the next one.  Whatever composes with it (the  *)
(* state machine's API, the main loop) decides when a handler runs.        *)
(***************************************************************************)
EXTENDS Integers

CONSTANTS
    MISSION_DATA_FRESHNESS,      \* oldest age at which a value is fresh
    FAILSAFE_HEARTBEAT_TIMEOUT,  \* heartbeat age that is a failsafe
    BATTERY_CRITICAL_VOLTAGE,
    DorisStates,                 \* values Lua publishes as STATE
    Depths,                      \* depth readings, above the surface included
    Volts,                       \* voltage readings
    NotFinite                    \* a NaN or infinite float

ASSUME MissionDataAssumption ==
    /\ MISSION_DATA_FRESHNESS \in Nat
    /\ FAILSAFE_HEARTBEAT_TIMEOUT \in Nat \ {0}
    /\ BATTERY_CRITICAL_VOLTAGE \in Nat \ {0}
    /\ DorisStates \subseteq -1 .. 4
    /\ Depths \subseteq Int \cup {NotFinite}
    /\ Volts \subseteq Nat \cup {NotFinite}
    /\ NotFinite \notin Int

-----------------------------------------------------------------------------
(* Values with a stamp *)

STALE == MISSION_DATA_FRESHNESS + 1

\* The age that was a, after d more ticks, for a clock compared up to cap.
Aged(a, d, cap) == IF a + d >= cap THEN cap ELSE a + d

Samples(V) == [value : V, valid : BOOLEAN, age : 0 .. STALE]
Heartbeats == [valid : BOOLEAN, age : 0 .. FAILSAFE_HEARTBEAT_TIMEOUT]

Never(v) == [value |-> v, valid |-> FALSE, age |-> STALE]
Now(v)   == [value |-> v, valid |-> TRUE, age |-> 0]

Older(x, d) == [x EXCEPT !.age = Aged(@, d, STALE)]

Fresh(x) == x.valid /\ x.age <= MISSION_DATA_FRESHNESS

-----------------------------------------------------------------------------
(* The store *)

MissionStore ==
    [doris : Samples(-1 .. 4), depth : Samples(Nat), volt : Samples(Nat),
     leak : BOOLEAN, hb : Heartbeats]

MissionData_init ==
    [doris |-> Never(-1), depth |-> Never(0), volt |-> Never(0), leak |-> FALSE,
     hb |-> [valid |-> FALSE, age |-> FAILSAFE_HEARTBEAT_TIMEOUT]]

\* The same store d ticks later.
MissionElapse(m, d) ==
    [doris |-> Older(m.doris, d), depth |-> Older(m.depth, d),
     volt |-> Older(m.volt, d), leak |-> m.leak,
     hb |-> [m.hb EXCEPT !.age = Aged(@, d, FAILSAFE_HEARTBEAT_TIMEOUT)]]

\* Seeded fault: readings above the surface are kept as they are.
update_depthUnclamped(m, v) ==
    IF v = NotFinite THEN m ELSE [m EXCEPT !.depth = Now(v)]

update_depth(m, v) ==
    IF v = NotFinite THEN m ELSE [m EXCEPT !.depth = Now(IF v < 0 THEN 0 ELSE v)]

update_autopilot_voltage(m, v) ==
    IF v = NotFinite \/ v = 0 THEN m ELSE [m EXCEPT !.volt = Now(v)]

\* Seeded fault: the stamp is that of the first heartbeat.
update_heartbeatOnce(m) ==
    [m EXCEPT !.hb = [valid |-> TRUE, age |-> IF m.hb.valid THEN m.hb.age ELSE 0]]

update_heartbeat(m) == [m EXCEPT !.hb = [valid |-> TRUE, age |-> 0]]

set_leak(m, b) == [m EXCEPT !.leak = b]

update_doris_state(m, v) == [m EXCEPT !.doris = Now(v)]
=============================================================================
