------------------------------ MODULE MainLoop ------------------------------
(***************************************************************************)
(* loop() of main.cpp: the order in which one pass runs the monitors, the  *)
(* power handshake, the input, the Lua follower, the depth backstop, the   *)
(* manual Iridium test and the recovery report.  pc is the next of those.  *)
(*                                                                         *)
(* Time passes in two places: at the end of a pass, and inside a modem     *)
(* session, which blocks the pass for one of SessionTimes while            *)
(* serviceLink() discards whatever arrives.  now is captured at the head   *)
(* of the pass; lag is how far millis() has left it behind.                *)
(*                                                                         *)
(* The GPS fix and the outcome of a session are the environment's choice.  *)
(***************************************************************************)
EXTENDS StateMachine, IridiumSchedule

CONSTANTS Durations,      \* what a pass may take, beside the sessions in it
          SessionTimes,   \* what a session may take
          Commands        \* the other inputs the environment may send

ASSUME MainLoopAssumption ==
    /\ Durations \subseteq Nat \ {0}
    /\ SessionTimes \subseteq Nat \ {0}
    /\ \A b \in SessionTimes : b + IRIDIUM_INTERVAL < MILLIS_WRAP
    /\ Commands \subseteq {"HEARTBEAT", "PWR_ACK", "set_leak", "reset",
                           "iridium_test", "reboot"}

VARIABLES md,         \* mission_data.cpp: data
          sm,         \* state_machine.cpp: status and the stamps beside it
          sched,      \* iridiumSchedule
          lastSeen,   \* lastSeenState
          test,       \* iridiumTestRequested
          fix,        \* GPSManager_hasFix()
          lag,        \* millis() - now
          pc          \* what the pass does next

machine == <<md, sm>>
vars == <<md, sm, sched, lastSeen, test, fix, lag, pc>>

Lags == {0} \cup SessionTimes

TypeOK ==
    /\ md \in MissionStore /\ sm \in Status /\ sched \in Schedules
    /\ lastSeen \in States /\ test \in BOOLEAN /\ fix \in BOOLEAN /\ lag \in Lags
    /\ pc \in {"update", "power", "serial", "follow", "backstop", "test",
               "report", "delay"}

Init ==
    /\ md = MissionData_init /\ sm = StateMachine_init
    /\ sched = schedule_boot /\ lastSeen = "PRE_DIVE"
    /\ test = FALSE /\ fix = FALSE /\ lag = 0 /\ pc = "update"

-----------------------------------------------------------------------------
(* One pass *)

Monitor ==
    /\ pc = "update" /\ pc' = "power"
    /\ sm' = update(sm, md)
    /\ UNCHANGED <<md, sched, lastSeen, test, fix, lag>>

\* GPSManager_update, then the handshake.
Power ==
    /\ pc = "power" /\ pc' = "serial"
    /\ fix' \in BOOLEAN
    /\ sm' = updateSurfacePower(sm, md)
    /\ UNCHANGED <<md, sched, lastSeen, test, lag>>

\* processSerialInput: a complete message or command line is handled as soon
\* as its last byte is read, any number of them in a pass.  Messages from
\* other sources than the autopilot's 1/1 and BlueOS's 1/191 are dropped by
\* the dispatcher and do not appear.
Reading == pc = "serial" /\ UNCHANGED <<sched, lastSeen, fix, lag, pc>>

HearState(v) == Reading /\ md' = update_doris_state(md, v) /\ UNCHANGED <<sm, test>>
HearDepth(v) == Reading /\ md' = update_depth(md, v) /\ UNCHANGED <<sm, test>>
HearVolt(v) == Reading /\ md' = update_autopilot_voltage(md, v) /\ UNCHANGED <<sm, test>>
HearHeartbeat == Reading /\ md' = update_heartbeat(md) /\ UNCHANGED <<sm, test>>
HearAck == Reading /\ sm' = acknowledgeShutdown(sm) /\ UNCHANGED <<md, test>>

SetLeak(b) == Reading /\ md' = set_leak(md, b) /\ UNCHANGED <<sm, test>>
OperatorReset == Reading /\ sm' = reset(sm) /\ UNCHANGED <<md, test>>
RequestTest == Reading /\ test' = TRUE /\ UNCHANGED machine

\* Everything but STATE and HEARTBEAT.
HearOther ==
    \/ \E v \in Depths : HearDepth(v)
    \/ \E v \in Volts : HearVolt(v)
    \/ "PWR_ACK" \in Commands /\ HearAck
    \/ "set_leak" \in Commands /\ \E b \in BOOLEAN : SetLeak(b)
    \/ "reset" \in Commands /\ OperatorReset
    \/ "iridium_test" \in Commands /\ RequestTest

Serial ==
    \/ \E v \in DorisStates : HearState(v)
    \/ "HEARTBEAT" \in Commands /\ HearHeartbeat
    \/ HearOther

SerialDone ==
    /\ pc = "serial" /\ pc' = "follow"
    /\ UNCHANGED <<md, sm, sched, lastSeen, test, fix, lag>>

\* Seeded fault: the dive is assigned, not entered, and keeps the old clock.
followedDirectly(s, doris) ==
    IF doris <= 0 /\ s.state = "RECOVERY" THEN reset(s)
    ELSE IF doris \in 1 .. 3 /\ s.state = "PRE_DIVE"
    THEN [s EXCEPT !.state = "DIVING", !.prev = "PRE_DIVE"]
    ELSE IF doris >= 4 /\ s.state # "RECOVERY" THEN enterRecovery(s)
    ELSE s

\* Seeded fault: any STATE of a mission begins the dive.
followedLate(s, doris) ==
    IF doris <= 0 /\ s.state = "RECOVERY" THEN reset(s)
    ELSE IF doris >= 1 /\ s.state = "PRE_DIVE" THEN enterDiving(s)
    ELSE IF doris >= 4 /\ s.state # "RECOVERY" THEN enterRecovery(s)
    ELSE s

\* checkStateTransitions, first half: the state follows the last STATE heard,
\* however old.  Its three conditions read the state once and exclude each
\* other.
followed(s, doris) ==
    IF doris <= 0 /\ s.state = "RECOVERY" THEN reset(s)
    ELSE IF doris \in 1 .. 3 /\ s.state = "PRE_DIVE" THEN enterDiving(s)
    ELSE IF doris >= 4 /\ s.state # "RECOVERY" THEN enterRecovery(s)
    ELSE s

Follow ==
    /\ pc = "follow" /\ pc' = "backstop"
    /\ sm' = followed(sm, md.doris.value)
    /\ UNCHANGED <<md, sched, lastSeen, test, fix, lag>>

\* Seeded fault: a failsafe surfacing does not restart the reports.
restartedExceptFailsafe(s, c) ==
    IF s.state # lastSeen /\ s.state = "RECOVERY" /\ s.failsafe = "NONE"
    THEN schedule_reset ELSE c

\* Second half: a state the last pass did not end in restarts the reports
\* when it is RECOVERY, whichever path led there.
restarted(s, c) ==
    IF s.state # lastSeen /\ s.state = "RECOVERY" THEN schedule_reset ELSE c

Backstop ==
    /\ pc = "backstop" /\ pc' = "test"
    /\ sm' = updateSurfaceBackstop(sm, md)
    /\ sched' = restarted(sm', sched)
    /\ lastSeen' = sm'.state
    /\ UNCHANGED <<md, test, fix, lag>>

\* A session of b ticks: the clocks run, nothing is heard, and its end is
\* stamped with a millis() of its own.
Session(b, located, ok) ==
    /\ md' = MissionElapse(md, b) /\ sm' = StatusElapse(sm, b)
    /\ sched' = IF ok THEN noteSent(sched, located) ELSE noteAttempt(sched, located)

\* No test, or no fix to test with.
SkipTest ==
    /\ pc = "test" /\ pc' = "report"
    /\ ~(test /\ fix) /\ test' = FALSE
    /\ UNCHANGED <<md, sm, sched, lastSeen, fix, lag>>

ManualTest(b, ok) ==
    /\ pc = "test" /\ pc' = "report"
    /\ test /\ fix /\ test' = FALSE
    /\ Session(b, TRUE, ok) /\ lag' = b
    /\ UNCHANGED <<lastSeen, fix>>

reportDue == canTransmitIridium(sm) /\ IF fix THEN locatedDue(sched, lag)
                                              ELSE unlocatedDue(sched, lag)

SkipReport ==
    /\ pc = "report" /\ pc' = "delay"
    /\ ~reportDue
    /\ UNCHANGED <<md, sm, sched, lastSeen, test, fix, lag>>

Report(b, ok) ==
    /\ pc = "report" /\ pc' = "delay"
    /\ reportDue
    /\ Session(b, fix, ok)
    /\ UNCHANGED <<lastSeen, test, fix, lag>>

\* The rest of the pass, and the next one reads its own now.
Delay(d) ==
    /\ pc = "delay" /\ pc' = "update" /\ lag' = 0
    /\ md' = MissionElapse(md, d) /\ sm' = StatusElapse(sm, d)
    /\ sched' = ScheduleElapse(sched, d)
    /\ UNCHANGED <<lastSeen, test, fix>>

\* Another pass within the same tick.
Again ==
    /\ pc = "delay" /\ pc' = "update" /\ lag' = 0
    /\ UNCHANGED <<md, sm, sched, lastSeen, test, fix>>

\* A power cycle at any point of a pass, or the reboot command: setup().
Boot ==
    /\ "reboot" \in Commands
    /\ md' = MissionData_init /\ sm' = StateMachine_init
    /\ sched' = schedule_boot /\ lastSeen' = "PRE_DIVE"
    /\ test' = FALSE /\ fix' = FALSE /\ lag' = 0 /\ pc' = "update"

\* The steps that take no time and hear nothing.
Instant == Monitor \/ Power \/ SerialDone \/ Follow \/ Backstop
             \/ SkipTest \/ SkipReport

AnyTest == \E b \in SessionTimes, ok \in BOOLEAN : ManualTest(b, ok)
AnyReport == \E b \in SessionTimes, ok \in BOOLEAN : Report(b, ok)
AnyDelay == \E d \in Durations : Delay(d)

Next == Instant \/ Serial \/ AnyTest \/ AnyReport \/ AnyDelay \/ Again \/ Boot

Spec == Init /\ [][Next]_vars

\* The superloop goes on, and its passes do not all fit in one tick.  Nothing
\* is assumed of what it hears.
LoopFairness ==
    WF_vars(Instant \/ AnyTest \/ AnyReport \/ AnyDelay) /\ SF_vars(AnyDelay)

-----------------------------------------------------------------------------
(* Whatever loop() does to the state machine is a call its API allows. *)

Api == INSTANCE StateMachineApi WITH Durations <- Durations \cup SessionTimes

\* The state machine keeps its promises in this order of calls, blocking
\* sessions and all: each step of a pass is one call of the API or none.
ApiSpec == Api!Spec
=============================================================================
