--------------------------- MODULE MainLoopProofs ---------------------------
(***************************************************************************)
(* What one pass of loop() after another does to the state machine, the    *)
(* failsafes and the Iridium schedule, for every timing of passes and      *)
(* sessions and every input.                                               *)
(***************************************************************************)
EXTENDS DiveSafety, Reporting, StateMachineProofs

LoopInv == TypeOK /\ Good(sm)

-----------------------------------------------------------------------------
(* The report schedule *)

LEMMA ScheduleType ==
  /\ schedule_boot \in Schedules /\ schedule_reset \in Schedules
  /\ \A c \in Schedules, d \in Nat : ScheduleElapse(c, d) \in Schedules
  /\ \A c \in Schedules, located \in BOOLEAN :
       noteAttempt(c, located) \in Schedules /\ noteSent(c, located) \in Schedules
<1>i. IRIDIUM_INTERVAL \in Nat BY ScheduleAssumption DEF ScheduleAssumption
<1>1. schedule_boot \in Schedules /\ schedule_reset \in Schedules
  BY <1>i DEF schedule_boot, schedule_reset, Schedules
<1>2. ASSUME NEW c \in Schedules, NEW d \in Nat
      PROVE  ScheduleElapse(c, d) \in Schedules
  <2> DEFINE a == IF ~c.attempted THEN 0
                  ELSE IF c.age + d >= IRIDIUM_INTERVAL THEN IRIDIUM_INTERVAL
                  ELSE c.age + d
  <2>1. a \in 0 .. IRIDIUM_INTERVAL BY <1>i DEF Schedules
  <2>2. ScheduleElapse(c, d) = [c EXCEPT !.age = a] BY DEF ScheduleElapse
  <2> HIDE DEF a
  <2> QED BY <2>1, <2>2 DEF Schedules
<1>3. ASSUME NEW c \in Schedules, NEW located \in BOOLEAN
      PROVE  noteAttempt(c, located) \in Schedules /\ noteSent(c, located) \in Schedules
  <2>1. ASSUME NEW u \in BOOLEAN
        PROVE  [c EXCEPT !.age = 0, !.attempted = TRUE, !.upgrade = u] \in Schedules
    <3>1. 0 \in 0 .. IRIDIUM_INTERVAL /\ TRUE \in BOOLEAN BY <1>i
    <3> QED BY <3>1, Zenon DEF Schedules
  <2>2. noteAttempt(c, located) \in Schedules
    <3>1. c.upgrade \in BOOLEAN BY DEF Schedules
    <3>2. CASE located BY <2>1, <3>2 DEF noteAttempt
    <3>3. CASE ~located BY <2>1, <3>1, <3>3 DEF noteAttempt
    <3> QED BY <3>2, <3>3
  <2>3. noteSent(c, located) \in Schedules BY <2>2 DEF noteSent, Schedules
  <2> QED BY <2>2, <2>3
<1> QED BY <1>1, <1>2, <1>3

-----------------------------------------------------------------------------
(* One step of the loop *)

LEMMA DurationTypes == Durations \subseteq Nat /\ SessionTimes \subseteq Nat
BY MainLoopAssumption DEF MainLoopAssumption

LEMMA FollowedGood ==
  ASSUME NEW s, Good(s), NEW doris \in -1 .. 4
  PROVE  Good(followed(s, doris))
BY CallsEnterGood DEF followed

LEMMA SessionType ==
  ASSUME LoopInv, NEW b \in SessionTimes, NEW located \in BOOLEAN, NEW ok \in BOOLEAN,
         Session(b, located, ok)
  PROVE  md' \in MissionStore /\ Good(sm') /\ sched' \in Schedules
<1>1. b \in Nat BY DurationTypes
<1>2. md' \in MissionStore BY <1>1, MissionType DEF Session, LoopInv, TypeOK
<1>3. Good(sm') BY <1>1, ElapseGood DEF Session, LoopInv
<1>4. sched' \in Schedules BY ScheduleType DEF Session, LoopInv, TypeOK
<1> QED BY <1>2, <1>3, <1>4

LEMMA LoopInductive == (Init => LoopInv) /\ (LoopInv /\ [Next]_vars => LoopInv')
<1>g. \A s : Good(s) => s \in Status BY DEF Good
<1>1. Init => LoopInv
  BY <1>g, MissionType, InitGood, ScheduleType, StateNames
  DEF Init, LoopInv, TypeOK, Lags
<1>2. ASSUME LoopInv, [Next]_vars PROVE LoopInv'
  <2> USE DEF LoopInv
  <2>1. CASE Monitor BY <1>2, <1>g, <2>1, UpdateGood DEF Monitor, TypeOK
  <2>2. CASE Power BY <1>2, <1>g, <2>2, UpdateSurfacePowerGood DEF Power, TypeOK
  <2>3. CASE Serial
    <3> USE DEF Reading
    <3>1. ASSUME NEW v \in DorisStates, HearState(v) PROVE LoopInv'
      BY <1>2, <3>1, MissionType DEF HearState, TypeOK
    <3>2. ASSUME NEW v \in Depths, HearDepth(v) PROVE LoopInv'
      BY <1>2, <3>2, MissionType DEF HearDepth, TypeOK
    <3>3. ASSUME NEW v \in Volts, HearVolt(v) PROVE LoopInv'
      BY <1>2, <3>3, MissionType DEF HearVolt, TypeOK
    <3>4. CASE HearHeartbeat BY <1>2, <3>4, MissionType DEF HearHeartbeat, TypeOK
    <3>5. CASE HearAck BY <1>2, <1>g, <3>5, AcknowledgeShutdownGood DEF HearAck, TypeOK
    <3>6. ASSUME NEW b \in BOOLEAN, SetLeak(b) PROVE LoopInv'
      BY <1>2, <3>6, MissionType DEF SetLeak, TypeOK
    <3>7. CASE OperatorReset BY <1>2, <1>g, <3>7, CallsEnterGood DEF OperatorReset, TypeOK
    <3>8. CASE RequestTest BY <1>2, <3>8 DEF RequestTest, machine, TypeOK
    <3> QED BY <2>3, <3>1, <3>2, <3>3, <3>4, <3>5, <3>6, <3>7, <3>8 DEF Serial, HearOther
  <2>4. CASE SerialDone BY <1>2, <2>4 DEF SerialDone, TypeOK
  <2>5. CASE Follow
    <3>1. md.doris.value \in -1 .. 4 BY <1>2 DEF TypeOK, MissionStore, Samples
    <3>2. Good(sm') BY <1>2, <2>5, <3>1, FollowedGood DEF Follow
    <3> QED BY <1>2, <1>g, <2>5, <3>2 DEF Follow, TypeOK
  <2>6. CASE Backstop
    <3>1. Good(sm') BY <1>2, <2>6, BackstopGood DEF Backstop, TypeOK
    <3>2. sm'.state \in States BY <1>g, <3>1, StatusFields
    <3>3. sched' \in Schedules BY <1>2, <2>6, ScheduleType DEF Backstop, restarted, TypeOK
    <3> QED BY <1>2, <1>g, <2>6, <3>1, <3>2, <3>3 DEF Backstop, TypeOK
  <2>7. CASE SkipTest BY <1>2, <2>7 DEF SkipTest, TypeOK
  <2>8. CASE SkipReport BY <1>2, <2>8 DEF SkipReport, TypeOK
  <2>9. ASSUME NEW b \in SessionTimes, NEW ok \in BOOLEAN, ManualTest(b, ok)
        PROVE  LoopInv'
    <3>1. md' \in MissionStore /\ Good(sm') /\ sched' \in Schedules
      BY <1>2, <2>9, SessionType DEF ManualTest
    <3> QED BY <1>2, <1>g, <2>9, <3>1 DEF ManualTest, TypeOK, Lags
  <2>10. ASSUME NEW b \in SessionTimes, NEW ok \in BOOLEAN, Report(b, ok)
         PROVE  LoopInv'
    <3>1. fix \in BOOLEAN BY <1>2 DEF TypeOK
    <3>2. md' \in MissionStore /\ Good(sm') /\ sched' \in Schedules
      BY <1>2, <2>10, <3>1, SessionType DEF Report
    <3> QED BY <1>2, <1>g, <2>10, <3>2 DEF Report, TypeOK
  <2>11. ASSUME NEW d \in Durations, Delay(d) PROVE LoopInv'
    <3>1. d \in Nat BY DurationTypes
    <3>2. md' \in MissionStore /\ sched' \in Schedules
      BY <1>2, <2>11, <3>1, MissionType, ScheduleType DEF Delay, TypeOK
    <3>3. Good(sm') BY <1>2, <2>11, <3>1, ElapseGood DEF Delay
    <3> QED BY <1>2, <1>g, <2>11, <3>2, <3>3 DEF Delay, TypeOK, Lags
  <2>12. CASE Again BY <1>2, <2>12 DEF Again, TypeOK, Lags
  <2>13. CASE Boot
    BY <1>g, <2>13, MissionType, InitGood, ScheduleType, StateNames DEF Boot, TypeOK, Lags
  <2>14. CASE UNCHANGED vars BY <1>2, <2>14 DEF vars, TypeOK
  <2> QED
    BY <1>2, <2>1, <2>2, <2>3, <2>4, <2>5, <2>6, <2>7, <2>8, <2>9, <2>10, <2>11, <2>12,
       <2>13, <2>14
    DEF Next, Instant, AnyTest, AnyReport, AnyDelay
<1> QED BY <1>1, <1>2

\* Whatever the pass hears and however long it blocks, the loop's variables and
\* the status stay within their types.
THEOREM LoopTypeCorrect == Spec => []TypeOK
<1>1. LoopInv => TypeOK BY DEF LoopInv
<1> QED BY <1>1, LoopInductive, PTL DEF Spec

-----------------------------------------------------------------------------
(* Whatever loop() does to the state machine is a call of its API. *)

\* The operators of StateMachineApi are those of StateMachine.
LEMMA ApiStore ==
  /\ Api!MissionData_init = MissionData_init
  /\ \A m, v : /\ Api!update_doris_state(m, v) = update_doris_state(m, v)
              /\ Api!update_depth(m, v) = update_depth(m, v)
              /\ Api!update_autopilot_voltage(m, v) = update_autopilot_voltage(m, v)
              /\ Api!update_heartbeat(m) = update_heartbeat(m)
              /\ Api!set_leak(m, v) = set_leak(m, v)
              /\ Api!MissionElapse(m, v) = MissionElapse(m, v)
BY DEF Api!MissionData_init, MissionData_init, Api!Never, Never, Api!STALE, STALE,
   Api!update_doris_state, update_doris_state, Api!Now, Now, Api!update_depth,
   update_depth, Api!update_autopilot_voltage, update_autopilot_voltage,
   Api!update_heartbeat, update_heartbeat, Api!set_leak, set_leak, Api!MissionElapse,
   MissionElapse, Api!Older, Older, Api!Aged, Aged

LEMMA ApiTimers ==
  /\ Api!NoWindow = NoWindow /\ Api!PoweredIdle = PoweredIdle
  /\ Api!Started = Started /\ Api!Stopped = Stopped
  /\ \A w, d, cap : Api!Run(w, d, cap) = Run(w, d, cap)
  /\ \A m : Api!Fresh(m) = Fresh(m)
BY DEF Api!NoWindow, NoWindow, Api!PoweredIdle, PoweredIdle, Api!Started, Started,
   Api!Stopped, Stopped, Api!Run, Run, Api!Aged, Aged, Api!Fresh, Fresh

LEMMA ApiTransitions ==
  /\ Api!StateMachine_init = StateMachine_init
  /\ \A s, t : Api!enterState(s, t) = enterState(s, t)
  /\ \A s, t : Api!triggerFailsafe(s, t) = triggerFailsafe(s, t)
  /\ \A s : /\ Api!enterDiving(s) = enterDiving(s)
            /\ Api!enterRecovery(s) = enterRecovery(s)
            /\ Api!reset(s) = reset(s)
<1>1. \A h, t : Api!repowered(h, t) = repowered(h, t)
  BY ApiTimers DEF Api!repowered, repowered
<1>2. \A s, t : Api!enterState(s, t) = enterState(s, t)
  BY <1>1, Zenon DEF Api!enterState, enterState
<1>3. Api!StateMachine_init = StateMachine_init
  BY ApiTimers, Zenon DEF Api!StateMachine_init, StateMachine_init
<1>4. \A s, t : Api!triggerFailsafe(s, t) = triggerFailsafe(s, t)
  BY <1>2, Zenon DEF Api!triggerFailsafe, triggerFailsafe
<1> QED
  BY <1>2, <1>3, <1>4, Zenon
  DEF Api!enterDiving, enterDiving, Api!enterRecovery, enterRecovery, Api!reset, reset

LEMMA ApiHandshake ==
  /\ \A s, m : Api!updateSurfacePower(s, m) = updateSurfacePower(s, m)
  /\ \A s : Api!acknowledgeShutdown(s) = acknowledgeShutdown(s)
<1>1. \A s, m : Api!Authorized(s, m) = Authorized(s, m)
  BY ApiTimers, Zenon DEF Api!Authorized, Authorized
<1>2. \A h : Api!cutoff(h) = cutoff(h) /\ Api!dwelled(h) = dwelled(h)
  BY Zenon DEF Api!cutoff, cutoff, Api!dwelled, dwelled
<1>3. \A h, b : Api!surfacePower(h, b) = surfacePower(h, b)
  BY <1>2, ApiTimers, Zenon DEF Api!surfacePower, surfacePower
<1>4. \A h : Api!acknowledged(h) = acknowledged(h)
  BY ApiTimers, Zenon DEF Api!acknowledged, acknowledged
<1> QED
  BY <1>1, <1>3, <1>4, Zenon
  DEF Api!updateSurfacePower, updateSurfacePower, Api!acknowledgeShutdown,
      acknowledgeShutdown

LEMMA ApiMonitors ==
  /\ \A s, m : Api!update(s, m) = update(s, m)
  /\ \A s, m : Api!updateSurfaceBackstop(s, m) = updateSurfaceBackstop(s, m)
<1>1. \A s, b : Api!timeVoltage(s, b) = timeVoltage(s, b)
  BY ApiTimers, Zenon DEF Api!timeVoltage, timeVoltage
<1>2. \A s, m : Api!monitor(s, m) = monitor(s, m)
  BY ApiTransitions, Zenon
  DEF Api!monitor, monitor, Api!voltageHeld, voltageHeld, Api!heartbeatLost, heartbeatLost
<1>3. \A m : Api!criticalVoltage(m) = criticalVoltage(m)
  BY ApiTimers, Zenon DEF Api!criticalVoltage, criticalVoltage
<1>4. \A s, m : Api!update(s, m) = update(s, m)
  BY <1>1, <1>2, <1>3, ApiTransitions, Zenon
  DEF Api!update, update, Api!Monitoring, Monitoring
<1>5. \A w, v : Api!widen(w, v) = widen(w, v)
  BY ApiTimers, Zenon DEF Api!widen, widen
<1>6. \A s, m : Api!Ascending(s, m) = Ascending(s, m) /\ Api!Shallow(m) = Shallow(m)
  BY ApiTimers, Zenon DEF Api!Ascending, Ascending, Api!Shallow, Shallow
<1>7. \A w : Api!windowQualified(w) = windowQualified(w)
  BY Zenon DEF Api!windowQualified, windowQualified
<1>8. \A s, m : Api!updateSurfaceBackstop(s, m) = updateSurfaceBackstop(s, m)
  BY <1>5, <1>6, <1>7, ApiTimers, ApiTransitions, Zenon
  DEF Api!updateSurfaceBackstop, updateSurfaceBackstop
<1> QED BY <1>4, <1>8

LEMMA ApiElapse == \A s, d : Api!StatusElapse(s, d) = StatusElapse(s, d)
BY ApiTimers DEF Api!StatusElapse, StatusElapse, Api!HandshakeElapse, HandshakeElapse,
   Api!Aged, Aged

\* The state machine keeps every promise of its API in the order loop() calls
\* it in: each step of a pass, sessions and reboots included, is one call of
\* the API or changes nothing of it.
THEOREM LoopCallsTheApi == Spec => ApiSpec
<1>1. Init => Api!Init
  BY ApiStore, ApiTransitions DEF Init, Api!Init
<1>2. ASSUME [Next]_vars PROVE [Api!Next]_(Api!vars)
  <2> DEFINE Idle == UNCHANGED <<md, sm>>
  <2> USE DEF Api!Next, Api!vars
  <2>1. CASE Monitor BY <2>1, ApiMonitors DEF Monitor, Api!Update
  <2>2. CASE Power BY <2>2, ApiHandshake DEF Power, Api!UpdateSurfacePower
  <2>3. CASE Serial
    <3>1. ASSUME NEW v \in DorisStates, HearState(v) PROVE Api!UpdateDoris
      BY <3>1, ApiStore DEF HearState, Api!UpdateDoris
    <3>2. ASSUME NEW v \in Depths, HearDepth(v) PROVE Api!UpdateDepth
      BY <3>2, ApiStore DEF HearDepth, Api!UpdateDepth
    <3>3. ASSUME NEW v \in Volts, HearVolt(v) PROVE Api!UpdateVolt
      BY <3>3, ApiStore DEF HearVolt, Api!UpdateVolt
    <3>4. HearHeartbeat => Api!UpdateHeartbeat
      BY ApiStore DEF HearHeartbeat, Api!UpdateHeartbeat
    <3>5. HearAck => Api!AcknowledgeShutdown
      BY ApiHandshake DEF HearAck, Api!AcknowledgeShutdown
    <3>6. ASSUME NEW b \in BOOLEAN, SetLeak(b) PROVE Api!SetLeak
      BY <3>6, ApiStore DEF SetLeak, Api!SetLeak
    <3>7. OperatorReset => Api!Reset
      BY ApiTransitions DEF OperatorReset, Api!Reset
    <3>8. RequestTest => Idle BY DEF RequestTest, machine
    <3> QED BY <2>3, <3>1, <3>2, <3>3, <3>4, <3>5, <3>6, <3>7, <3>8 DEF Serial, HearOther
  <2>4. CASE Follow
    BY <2>4, ApiTransitions
    DEF Follow, followed, Api!Reset, Api!EnterDiving, Api!EnterRecovery
  <2>5. CASE Backstop BY <2>5, ApiMonitors DEF Backstop, Api!UpdateBackstop
  <2>6. ASSUME NEW b \in SessionTimes, NEW located, NEW ok, Session(b, located, ok)
        PROVE  Api!Elapse
    BY <2>6, ApiStore, ApiElapse DEF Session, Api!Elapse
  <2>7. CASE AnyTest BY <2>6, <2>7 DEF AnyTest, ManualTest
  <2>8. CASE AnyReport BY <2>6, <2>8 DEF AnyReport, Report
  <2>9. CASE AnyDelay BY <2>9, ApiStore, ApiElapse DEF AnyDelay, Delay, Api!Elapse
  <2>10. CASE Boot BY <2>10, ApiStore, ApiTransitions DEF Boot, Api!Boot
  <2>11. CASE SerialDone \/ SkipTest \/ SkipReport \/ Again \/ UNCHANGED vars
    BY <2>11 DEF SerialDone, SkipTest, SkipReport, Again, vars
  <2> QED
    BY <1>2, <2>1, <2>2, <2>3, <2>4, <2>5, <2>7, <2>8, <2>9, <2>10, <2>11
    DEF Next, Instant
<1> QED BY <1>1, <1>2, PTL DEF Spec, ApiSpec, Api!Spec

-----------------------------------------------------------------------------
(* What the calls of a pass do to the fields the watchers look at *)

\* A transition restarts the clock of the state and leaves both timers alone.
LEMMA EnterAccount ==
  ASSUME NEW s, NEW t, t # s.state
  PROVE  LET e == enterState(s, t)
         IN  /\ e.state = t /\ e.prev = s.state /\ e.stateAge = 0
             /\ e.failsafe = s.failsafe /\ e.crit = s.crit /\ e.win = s.win
BY DEF enterState

SameState(s, t) == t.state = s.state /\ t.prev = s.prev /\ t.stateAge = s.stateAge

\* A pass of the monitors that ends a dive, and what it says of the reason.
Surfaced(s, m, t) ==
    /\ Monitoring(s) /\ t.state = "RECOVERY" /\ t.prev = "DIVING" /\ t.win = s.win
    /\ t.failsafe = "LOW_VOLTAGE" =>
         /\ criticalVoltage(m)
         /\ CRITICAL_VOLTAGE_HOLD = 0 \/ (s.crit.on /\ s.crit.age >= CRITICAL_VOLTAGE_HOLD)
    /\ t.failsafe = "NO_HEARTBEAT" => heartbeatLost(m)

\* A pass of the monitors that finds nothing to act on.
Passed(s, m, t) ==
    /\ SameState(s, t) /\ t.failsafe = s.failsafe /\ t.win = s.win
    /\ Monitoring(s) => ~m.leak /\ ~heartbeatLost(m) /\ ~voltageHeld(t)
    /\ t.crit.on => Monitoring(s) /\ criticalVoltage(m) /\ t.crit \in {s.crit, Started}

LEMMA TriggerAccount ==
  ASSUME NEW s \in Status, s.state = "DIVING", NEW source
  PROVE  LET t == triggerFailsafe(s, source)
         IN  /\ t.state = "RECOVERY" /\ t.prev = "DIVING" /\ t.win = s.win
             /\ t.failsafe = source
<1> DEFINE c == [s EXCEPT !.failsafe = source]
<1>1. c.state = "DIVING" /\ c.failsafe = source /\ c.win = s.win BY DEF Status
<1>2. triggerFailsafe(s, source) = enterState(c, "RECOVERY") BY DEF triggerFailsafe
<1> HIDE DEF c
<1> QED BY <1>1, <1>2, EnterAccount

LEMMA TimeVoltageAccount ==
  ASSUME NEW s \in Status, NEW b \in BOOLEAN
  PROVE  LET t == timeVoltage(s, b)
         IN  /\ t \in Status /\ SameState(s, t) /\ t.failsafe = s.failsafe /\ t.win = s.win
             /\ t.crit = IF ~b THEN Stopped ELSE IF s.crit.on THEN s.crit ELSE Started
<1> DEFINE c == IF ~b THEN Stopped ELSE IF s.crit.on THEN s.crit ELSE Started
<1>1. timeVoltage(s, b) = [s EXCEPT !.crit = c] BY DEF timeVoltage
<1>2. c \in Stopwatches(CRITICAL_VOLTAGE_HOLD)
  BY StatusFields, Thresholds, StopwatchType
<1> HIDE DEF c
<1>3. LET t == [s EXCEPT !.crit = c]
      IN  /\ t \in Status /\ SameState(s, t) /\ t.failsafe = s.failsafe
          /\ t.win = s.win /\ t.crit = c
  BY <1>2 DEF Status, SameState
<1> QED BY <1>1, <1>3 DEF c

LEMMA UpdateAccount ==
  ASSUME NEW s \in Status, NEW m \in MissionStore
  PROVE  LET t == update(s, m) IN Passed(s, m, t) \/ Surfaced(s, m, t)
<1> DEFINE critical == criticalVoltage(m)
           v == timeVoltage(s, critical)
           t == update(s, m)
<1>c. critical \in BOOLEAN BY DEF criticalVoltage, Fresh
<1>f. "LEAK" # "LOW_VOLTAGE" /\ "LEAK" # "NO_HEARTBEAT" /\ "LOW_VOLTAGE" # "NO_HEARTBEAT"
  OBVIOUS
<1>1. CASE ~Monitoring(s)
  <2>1. t = timeVoltage(s, FALSE) BY <1>1 DEF update
  <2>2. ~Stopped.on BY DEF Stopped
  <2>3. FALSE \in BOOLEAN OBVIOUS
  <2> HIDE DEF t
  <2>4. SameState(s, t) /\ t.failsafe = s.failsafe /\ t.win = s.win /\ t.crit = Stopped
    BY <2>1, <2>3, TimeVoltageAccount, Zenon
  <2> QED BY <1>1, <2>2, <2>4 DEF Passed, t
<1>2. CASE Monitoring(s) /\ m.leak
  <2>1. t = triggerFailsafe(s, "LEAK") BY <1>2 DEF update
  <2> HIDE DEF t
  <2>2. s.state = "DIVING" BY <1>2 DEF Monitoring
  <2>3. t.state = "RECOVERY" /\ t.prev = "DIVING" /\ t.win = s.win /\ t.failsafe = "LEAK"
    BY <2>1, <2>2, TriggerAccount
  <2> QED BY <1>f, <1>2, <2>3 DEF Surfaced, t
<1>3. CASE Monitoring(s) /\ ~m.leak
  <2>1. t = monitor(v, m) BY <1>3 DEF update
  <2>2. /\ v \in Status /\ SameState(s, v) /\ v.failsafe = s.failsafe /\ v.win = s.win
        /\ v.crit = IF ~critical THEN Stopped ELSE IF s.crit.on THEN s.crit ELSE Started
    BY <1>c, TimeVoltageAccount
  <2>3. v.state = "DIVING" BY <1>3, <2>2 DEF SameState, Monitoring
  <2>4. ~Stopped.on /\ Started.on /\ Started.age = 0 BY DEF Started, Stopped
  <2> HIDE DEF t, v, critical
  <2>5. CASE voltageHeld(v)
    <3>1. t = triggerFailsafe(v, "LOW_VOLTAGE") BY <2>1, <2>5 DEF monitor
    <3>2. /\ t.state = "RECOVERY" /\ t.prev = "DIVING" /\ t.win = v.win
          /\ t.failsafe = "LOW_VOLTAGE"
      BY <2>2, <2>3, <3>1, TriggerAccount
    <3>3. critical BY <2>2, <2>4, <2>5 DEF voltageHeld
    <3>4. CASE s.crit.on
      <4>1. s.crit.age >= CRITICAL_VOLTAGE_HOLD BY <2>2, <2>5, <3>3, <3>4 DEF voltageHeld
      <4> QED BY <1>3, <1>f, <2>2, <3>2, <3>3, <3>4, <4>1 DEF Surfaced, t, critical
    <3>5. CASE ~s.crit.on
      <4>1. CRITICAL_VOLTAGE_HOLD = 0
        BY <2>2, <2>4, <2>5, <3>3, <3>5, Thresholds DEF voltageHeld
      <4> QED BY <1>3, <1>f, <2>2, <3>2, <3>3, <4>1 DEF Surfaced, t, critical
    <3> QED BY <3>4, <3>5
  <2>6. CASE ~voltageHeld(v) /\ heartbeatLost(m)
    <3>1. t = triggerFailsafe(v, "NO_HEARTBEAT") BY <2>1, <2>6 DEF monitor
    <3>2. /\ t.state = "RECOVERY" /\ t.prev = "DIVING" /\ t.win = v.win
          /\ t.failsafe = "NO_HEARTBEAT"
      BY <2>2, <2>3, <3>1, TriggerAccount
    <3> QED BY <1>3, <1>f, <2>2, <2>6, <3>2 DEF Surfaced, t
  <2>7. CASE ~voltageHeld(v) /\ ~heartbeatLost(m)
    <3>1. t = v BY <2>1, <2>7 DEF monitor
    <3>2. v.crit.on => critical /\ v.crit \in {s.crit, Started} BY <2>2, <2>4
    <3> QED BY <1>3, <2>2, <2>7, <3>1, <3>2 DEF Passed, t, critical
  <2> QED BY <2>5, <2>6, <2>7
<1> QED BY <1>1, <1>2, <1>3

LEMMA BackstopAccount ==
  ASSUME NEW s \in Status, NEW m \in MissionStore
  PROVE  LET t == updateSurfaceBackstop(s, m)
         IN  /\ t.crit = s.crit /\ t.failsafe = s.failsafe
             /\ \/ SameState(s, t) /\ (t.win.timer.on => s.state = "DIVING")
                \/ /\ s.state = "DIVING" /\ s.win.timer.on
                   /\ t.state = "RECOVERY" /\ t.prev = "DIVING" /\ ~t.win.timer.on
<1> DEFINE w == widen(s.win, m.depth.value)
           closed == [s EXCEPT !.win = NoWindow]
           opened == [s EXCEPT !.win = w]
           t == updateSurfaceBackstop(s, m)
<1>0. ~NoWindow.timer.on BY DEF NoWindow, Stopped
<1>1. /\ closed.state = s.state /\ closed.win = NoWindow /\ closed.crit = s.crit
      /\ closed.failsafe = s.failsafe /\ SameState(s, closed)
  BY DEF Status, SameState
<1>w. ~s.win.timer.on => w.timer = Started BY DEF widen
<1> HIDE DEF w
<1>2. opened.crit = s.crit /\ opened.failsafe = s.failsafe /\ SameState(s, opened)
  BY DEF Status, SameState
<1>3. CASE ~Ascending(s, m) \/ ~Shallow(m)
  <2>1. t = closed BY <1>3 DEF updateSurfaceBackstop
  <2> HIDE DEF t, closed
  <2> QED BY <1>0, <1>1, <2>1 DEF t
<1>4. CASE Ascending(s, m) /\ Shallow(m) /\ windowQualified(w)
  <2>1. t = enterState(closed, "RECOVERY") BY <1>4 DEF updateSurfaceBackstop, w
  <2>2. s.state = "DIVING" BY <1>4 DEF Ascending
  <2>3. s.win.timer.on
    <3>1. w.timer.age >= SURFACE_QUALIFY BY <1>4 DEF windowQualified
    <3>2. SURFACE_QUALIFY \in Nat \ {0} BY StateMachineAssumption DEF StateMachineAssumption
    <3>3. Started.age = 0 BY DEF Started
    <3> QED BY <1>w, <3>1, <3>2, <3>3
  <2> HIDE DEF t, closed
  <2>4. /\ t.state = "RECOVERY" /\ t.prev = "DIVING" /\ t.failsafe = closed.failsafe
        /\ t.crit = closed.crit /\ t.win = closed.win
    BY <1>1, <2>1, <2>2, EnterAccount
  <2> QED BY <1>0, <1>1, <2>2, <2>3, <2>4 DEF t
<1>5. CASE Ascending(s, m) /\ Shallow(m) /\ ~windowQualified(w)
  <2>1. t = opened BY <1>5 DEF updateSurfaceBackstop, w
  <2>2. s.state = "DIVING" BY <1>5 DEF Ascending
  <2> HIDE DEF t, opened
  <2> QED BY <1>2, <2>1, <2>2 DEF t
<1> QED BY <1>3, <1>4, <1>5

\* Where the STATE followed and an operator's reset may lead.
Led(s, t) ==
    \/ SameState(s, t)
    \/ t.state = "PRE_DIVE"
    \/ s.state = "PRE_DIVE" /\ t.state = "DIVING" /\ t.stateAge = 0
    \/ s.state # "RECOVERY" /\ t.state = "RECOVERY" /\ t.prev = s.state

LEMMA FollowAccount ==
  ASSUME NEW s \in Status, NEW doris
  PROVE  /\ LET t == reset(s)
            IN  /\ t.crit = s.crit /\ t.win = s.win /\ t.failsafe = "NONE"
                /\ t.state = "PRE_DIVE"
         /\ LET t == followed(s, doris)
            IN  /\ t.crit = s.crit /\ t.win = s.win /\ t.failsafe \in {s.failsafe, "NONE"}
                /\ Led(s, t)
<1> DEFINE r == reset(s)
           t == followed(s, doris)
<1>1. r.crit = s.crit /\ r.win = s.win /\ r.failsafe = "NONE" /\ r.state = "PRE_DIVE"
  <2> DEFINE c == [s EXCEPT !.failsafe = "NONE"]
  <2>1. c.crit = s.crit /\ c.win = s.win /\ c.failsafe = "NONE" /\ c.state = s.state
    BY DEF Status
  <2>2. r = enterState(c, "PRE_DIVE") BY DEF reset
  <2> HIDE DEF c, r
  <2>3. CASE c.state = "PRE_DIVE" BY <2>1, <2>2, <2>3 DEF enterState
  <2>4. CASE c.state # "PRE_DIVE" BY <2>1, <2>2, <2>4, EnterAccount
  <2> QED BY <2>3, <2>4
<1>2. t.crit = s.crit /\ t.win = s.win /\ t.failsafe \in {s.failsafe, "NONE"} /\ Led(s, t)
  <2>1. CASE doris <= 0 /\ s.state = "RECOVERY"
    <3>1. t = r BY <2>1 DEF followed
    <3> HIDE DEF t, r
    <3> QED BY <1>1, <3>1 DEF Led
  <2>2. CASE ~(doris <= 0 /\ s.state = "RECOVERY") /\ doris \in 1 .. 3 /\ s.state = "PRE_DIVE"
    <3>1. t = enterState(s, "DIVING") BY <2>2 DEF followed, enterDiving
    <3> HIDE DEF t
    <3> QED BY <2>2, <3>1, EnterAccount DEF Led
  <2>3. CASE /\ ~(doris <= 0 /\ s.state = "RECOVERY")
             /\ ~(doris \in 1 .. 3 /\ s.state = "PRE_DIVE")
             /\ doris >= 4 /\ s.state # "RECOVERY"
    <3>1. t = enterState(s, "RECOVERY") BY <2>3 DEF followed, enterRecovery
    <3> HIDE DEF t
    <3> QED BY <2>3, <3>1, EnterAccount DEF Led
  <2>4. CASE /\ ~(doris <= 0 /\ s.state = "RECOVERY")
             /\ ~(doris \in 1 .. 3 /\ s.state = "PRE_DIVE")
             /\ ~(doris >= 4 /\ s.state # "RECOVERY")
    <3>1. t = s BY <2>4 DEF followed
    <3> HIDE DEF t
    <3> QED BY <3>1 DEF Led, SameState
  <2> QED BY <2>1, <2>2, <2>3, <2>4
<1> QED BY <1>1, <1>2

LEMMA ElapseAccount ==
  ASSUME NEW s \in Status, NEW d \in Nat
  PROVE  LET t == StatusElapse(s, d)
         IN  /\ t.state = s.state /\ t.prev = s.prev /\ t.failsafe = s.failsafe
             /\ t.stateAge = Aged(s.stateAge, d, DIVE_HEARTBEAT_GRACE)
             /\ t.crit.on = s.crit.on
             /\ s.crit.on => t.crit.age = Aged(s.crit.age, d, CRITICAL_VOLTAGE_HOLD)
             /\ t.win.timer.on = s.win.timer.on
             /\ t.hs.powered = s.hs.powered
<1> DEFINE t == StatusElapse(s, d)
<1>1. /\ t.state = s.state /\ t.prev = s.prev /\ t.failsafe = s.failsafe
      /\ t.stateAge = Aged(s.stateAge, d, DIVE_HEARTBEAT_GRACE)
      /\ t.crit = Run(s.crit, d, CRITICAL_VOLTAGE_HOLD)
      /\ t.win = [s.win EXCEPT !.timer = Run(@, d, SURFACE_QUALIFY)]
      /\ t.hs = HandshakeElapse(s.hs, d)
  BY DEF StatusElapse
<1> HIDE DEF t
<1>2. /\ s.crit \in Stopwatches(CRITICAL_VOLTAGE_HOLD) /\ s.win \in Windows
      /\ s.hs \in Handshakes
  BY StatusFields
<1>3. s.win.timer \in Stopwatches(SURFACE_QUALIFY) BY <1>2 DEF Windows
<1>4. t.win.timer = Run(s.win.timer, d, SURFACE_QUALIFY) BY <1>1, <1>2 DEF Windows
<1>5. t.win.timer.on = s.win.timer.on
  BY <1>3, <1>4, Thresholds, RunType DEF RunsOn
<1>6. t.crit.on = s.crit.on
  <2>1. RunsOn(s.crit, Run(s.crit, d, CRITICAL_VOLTAGE_HOLD), CRITICAL_VOLTAGE_HOLD)
    BY <1>2, Thresholds, RunType
  <2> QED BY <1>1, <2>1 DEF RunsOn
<1>7. s.crit.on => t.crit.age = Aged(s.crit.age, d, CRITICAL_VOLTAGE_HOLD)
  BY <1>1, <1>2 DEF Run, Stopwatches
<1>8. t.hs.powered = s.hs.powered BY <1>1, <1>2 DEF HandshakeElapse, Handshakes
<1> QED BY <1>1, <1>5, <1>6, <1>7, <1>8 DEF t

-----------------------------------------------------------------------------
(* The failsafes *)

Watches ==
    [silence : 0 .. FAILSAFE_HEARTBEAT_TIMEOUT, held : 0 .. CRITICAL_VOLTAGE_HOLD,
     glitch : BOOLEAN, drained : BOOLEAN]

\* The age the firmware has for the last heartbeat is the real silence, unless
\* a session has thrown heartbeats away.
SilenceTimed ==
    md.hb.valid => obs.drained \/ obs.silence = md.hb.age

\* A running voltage timer has not outrun the truth, but for one that a leak
\* left running: that one is either out of a dive or older than the dive is,
\* and the dive's grace will outlast the hold.
VoltageTimed ==
    sm.crit.on /\ sm.state = "DIVING" =>
        \/ obs.held >= sm.crit.age
        \/ obs.held >= sm.stateAge
        \/ obs.held = CRITICAL_VOLTAGE_HOLD

DiveInv ==
    /\ LoopInv /\ obs \in Watches
    /\ NoDiveContinuesUnsafe /\ SilenceTimed /\ VoltageTimed

LEMMA WatchTypes ==
  /\ FAILSAFE_HEARTBEAT_TIMEOUT \in Nat /\ CRITICAL_VOLTAGE_HOLD \in Nat
  /\ DIVE_HEARTBEAT_GRACE \in Nat /\ CRITICAL_VOLTAGE_HOLD <= DIVE_HEARTBEAT_GRACE
BY MissionDataAssumption, HoldAssumption, Thresholds DEF MissionDataAssumption

\* A step of the loop under its watcher is a step of the loop.
LEMMA WatchedStep == [ObsNext]_watchedVars => [Next]_vars
BY DEF ObsNext, watchedVars, vars, Next, Instant, Serial, AnyTest, AnyReport, AnyDelay

\* Two clocks that agree, or of which one leads, go on so.
LEMMA AgedTogether ==
  ASSUME NEW cap \in Nat, NEW big \in Nat, NEW a \in 0 .. cap, NEW b \in 0 .. big,
         NEW d \in Nat, a >= b \/ a = cap
  PROVE  Aged(a, d, cap) >= Aged(b, d, big) \/ Aged(a, d, cap) = cap
BY DEF Aged

\* Time passes for the watcher and for what it watches.
LEMMA WatchElapse ==
  ASSUME DiveInv, NEW d \in Nat, md' = MissionElapse(md, d), sm' = StatusElapse(sm, d),
         obs' = Silent(obs, d) \/ obs' = Drained(obs, d)
  PROVE  obs' \in Watches /\ SilenceTimed' /\ VoltageTimed'
<1>t. /\ obs.silence \in 0 .. FAILSAFE_HEARTBEAT_TIMEOUT
      /\ obs.held \in 0 .. CRITICAL_VOLTAGE_HOLD
      /\ obs.glitch \in BOOLEAN /\ obs.drained \in BOOLEAN
  BY DEF DiveInv, Watches
<1>s. sm \in Status /\ md \in MissionStore BY DEF DiveInv, LoopInv, TypeOK
<1>1. /\ Aged(obs.silence, d, FAILSAFE_HEARTBEAT_TIMEOUT) \in 0 .. FAILSAFE_HEARTBEAT_TIMEOUT
      /\ Aged(obs.held, d, CRITICAL_VOLTAGE_HOLD) \in 0 .. CRITICAL_VOLTAGE_HOLD
  BY <1>t, WatchTypes, AgedType
<1>2. /\ obs' \in Watches
      /\ obs'.held = Aged(obs.held, d, CRITICAL_VOLTAGE_HOLD)
      /\ \/ /\ obs'.silence = Aged(obs.silence, d, FAILSAFE_HEARTBEAT_TIMEOUT)
            /\ obs'.drained = obs.drained
         \/ obs'.drained
  <2>1. obs \in Watches BY DEF DiveInv
  <2>2. 0 \in 0 .. FAILSAFE_HEARTBEAT_TIMEOUT /\ TRUE \in BOOLEAN BY WatchTypes
  <2>3. CASE obs' = Silent(obs, d) BY <1>1, <2>1, <2>3 DEF Silent, Watches
  <2>4. CASE obs' = Drained(obs, d)
    BY <1>1, <2>1, <2>2, <2>4 DEF Drained, Silent, Watches
  <2> QED BY <2>3, <2>4
<1>3. SilenceTimed'
  <2>1. /\ md'.hb.valid = md.hb.valid
        /\ md'.hb.age = Aged(md.hb.age, d, FAILSAFE_HEARTBEAT_TIMEOUT)
    BY <1>s DEF MissionElapse, MissionStore, Heartbeats
  <2> QED BY <1>2, <2>1 DEF DiveInv, SilenceTimed
<1>4. VoltageTimed'
  <2>1. SUFFICES ASSUME sm'.crit.on, sm'.state = "DIVING"
                 PROVE  \/ obs'.held >= sm'.crit.age \/ obs'.held >= sm'.stateAge
                        \/ obs'.held = CRITICAL_VOLTAGE_HOLD
    BY DEF VoltageTimed
  <2>2. /\ sm.crit.on /\ sm.state = "DIVING"
        /\ sm'.crit.age = Aged(sm.crit.age, d, CRITICAL_VOLTAGE_HOLD)
        /\ sm'.stateAge = Aged(sm.stateAge, d, DIVE_HEARTBEAT_GRACE)
    BY <1>s, <2>1, ElapseAccount
  <2>3. /\ sm.crit.age \in 0 .. CRITICAL_VOLTAGE_HOLD
        /\ sm.stateAge \in 0 .. DIVE_HEARTBEAT_GRACE
    <3>1. sm.crit \in Stopwatches(CRITICAL_VOLTAGE_HOLD) BY <1>s, StatusFields
    <3> QED BY <1>s, <3>1, StatusFields DEF Stopwatches
  <2>4. \/ obs.held >= sm.crit.age \/ obs.held >= sm.stateAge
        \/ obs.held = CRITICAL_VOLTAGE_HOLD
    BY <2>2 DEF DiveInv, VoltageTimed
  <2>5. CASE obs.held >= sm.crit.age \/ obs.held = CRITICAL_VOLTAGE_HOLD
    BY <1>2, <1>t, <2>2, <2>3, <2>5, WatchTypes, AgedTogether
  <2>6. CASE obs.held >= sm.stateAge \/ obs.held = CRITICAL_VOLTAGE_HOLD
    BY <1>2, <1>t, <2>2, <2>3, <2>6, WatchTypes, AgedTogether
  <2> QED BY <2>4, <2>5, <2>6
<1> QED BY <1>2, <1>3, <1>4

\* Between two passes of the monitors nothing but the arrival of data, and then
\* the world's own clock, concerns what they promised.
LEMMA NotMonitoring ==
  ASSUME DiveInv, ObsNext, ~Monitor
  PROVE  NoDiveContinuesUnsafe'
<1>1. pc' # "power"
  BY DEF ObsNext, Power, HearState, HearHeartbeat, ManualTest, Report, Delay, HearOther,
     HearDepth, HearVolt, HearAck, SetLeak, OperatorReset, RequestTest, Reading,
     SerialDone, Follow, Backstop, SkipTest, SkipReport, Again, Boot, Monitor
<1> QED BY <1>1 DEF NoDiveContinuesUnsafe

\* The store and the watcher keep what the status and they say of each other.
LEMMA StatusUnwatched ==
  ASSUME DiveInv, UNCHANGED obs, SilenceTimed', sm'.crit = sm.crit,
         \/ SameState(sm, sm') \/ sm'.state # "DIVING" \/ sm'.stateAge = 0
  PROVE  obs' \in Watches /\ SilenceTimed' /\ VoltageTimed'
<1>1. obs \in Watches BY DEF DiveInv
<1>2. obs.held >= 0 BY <1>1, WatchTypes DEF Watches
<1> QED BY <1>1, <1>2 DEF DiveInv, VoltageTimed, SameState

LEMMA MonitorDive ==
  ASSUME DiveInv, Monitor,
         obs' = [obs EXCEPT !.held = IF Monitoring(sm) /\ criticalVoltage(md) THEN @ ELSE 0]
  PROVE  obs' \in Watches /\ NoDiveContinuesUnsafe' /\ SilenceTimed' /\ VoltageTimed'
<1>i. /\ sm \in Status /\ md \in MissionStore /\ obs \in Watches
      /\ sm' = update(sm, md) /\ md' = md
  BY DEF DiveInv, LoopInv, TypeOK, Monitor
<1>h. 0 \in 0 .. CRITICAL_VOLTAGE_HOLD BY WatchTypes
<1>1. /\ obs' \in Watches /\ obs'.silence = obs.silence /\ obs'.drained = obs.drained
      /\ Monitoring(sm) /\ criticalVoltage(md) => obs'.held = obs.held
      /\ obs'.held \in 0 .. CRITICAL_VOLTAGE_HOLD
  BY <1>i, <1>h DEF Watches
<1>2. SilenceTimed' BY <1>i, <1>1 DEF DiveInv, SilenceTimed
<1>3. CASE Surfaced(sm, md, sm')
  BY <1>1, <1>2, <1>3 DEF Surfaced, NoDiveContinuesUnsafe, VoltageTimed
<1>4. CASE Passed(sm, md, sm')
  <2>1. NoDiveContinuesUnsafe'
    <3>1. SUFFICES ASSUME sm'.state = "DIVING", sm'.stateAge = DIVE_HEARTBEAT_GRACE
                   PROVE  ~md'.leak /\ ~heartbeatLost(md') /\ ~voltageHeld(sm')
      BY DEF NoDiveContinuesUnsafe
    <3>2. Monitoring(sm) BY <1>4, <3>1, WatchTypes DEF Passed, SameState, Monitoring
    <3> QED BY <1>i, <1>4, <3>2 DEF Passed
  <2>2. VoltageTimed'
    <3>1. SUFFICES ASSUME sm'.crit.on, sm'.state = "DIVING"
                   PROVE  \/ obs'.held >= sm'.crit.age \/ obs'.held >= sm'.stateAge
                          \/ obs'.held = CRITICAL_VOLTAGE_HOLD
      BY DEF VoltageTimed
    <3>2. /\ obs'.held = obs.held /\ sm'.crit \in {sm.crit, Started}
          /\ sm.state = "DIVING" /\ sm'.stateAge = sm.stateAge
      BY <1>1, <1>4, <3>1 DEF Passed, SameState
    <3>3. CASE sm'.crit = Started
      <4>1. sm'.crit.age = 0 BY <3>3 DEF Started
      <4> QED BY <1>1, <4>1, WatchTypes
    <3>4. CASE sm'.crit = sm.crit
      BY <3>1, <3>2, <3>4 DEF DiveInv, VoltageTimed
    <3> QED BY <3>2, <3>3, <3>4
  <2> QED BY <1>1, <1>2, <2>1, <2>2
<1> QED BY <1>i, <1>3, <1>4, UpdateAccount

LEMMA DiveInductive ==
  (ObsInit => DiveInv) /\ (DiveInv /\ [ObsNext]_watchedVars => DiveInv')
<1>1. ASSUME ObsInit PROVE DiveInv
  <2>1. LoopInv /\ sm.crit = Stopped /\ ~md.hb.valid /\ pc = "update"
    BY <1>1, LoopInductive DEF ObsInit, Init, StateMachine_init, MissionData_init
  <2>2. obs \in Watches BY <1>1, WatchTypes DEF ObsInit, Watches
  <2> QED BY <2>1, <2>2
          DEF DiveInv, NoDiveContinuesUnsafe, SilenceTimed, VoltageTimed, Stopped
<1>2. ASSUME DiveInv, [ObsNext]_watchedVars PROVE DiveInv'
  <2>l. LoopInv' BY <1>2, WatchedStep, LoopInductive DEF DiveInv
  <2>s. sm \in Status /\ md \in MissionStore /\ obs \in Watches
    BY <1>2 DEF DiveInv, LoopInv, TypeOK
  <2> DEFINE Rest == obs' \in Watches /\ SilenceTimed' /\ VoltageTimed'
  <2>0. SUFFICES ASSUME ObsNext PROVE DiveInv'
    <3>1. CASE UNCHANGED watchedVars
      BY <1>2, <2>l, <3>1
      DEF watchedVars, vars, DiveInv, NoDiveContinuesUnsafe, SilenceTimed, VoltageTimed,
          heartbeatLost, voltageHeld
    <3> QED BY <1>2, <3>1
  <2>q. SameState(sm, sm) BY DEF SameState
  <2>u. md.hb = md'.hb /\ UNCHANGED obs => SilenceTimed' BY <1>2 DEF DiveInv, SilenceTimed
  <2>1. CASE /\ Monitor
             /\ obs' = [obs EXCEPT !.held = IF Monitoring(sm) /\ criticalVoltage(md)
                                            THEN @ ELSE 0]
    BY <1>2, <2>l, <2>1, MonitorDive DEF DiveInv
  <2>2. ASSUME NEW v \in DorisStates, HearState(v),
               obs' = [obs EXCEPT !.glitch = v <= 0 /\ sm.state = "DIVING"]
        PROVE  Rest
    <3> DEFINE g == v <= 0 /\ sm.state = "DIVING"
    <3>1. obs' = [obs EXCEPT !.glitch = g] BY <2>2
    <3>2. g \in BOOLEAN OBVIOUS
    <3>3. md'.hb = md.hb /\ sm' = sm
      BY <2>s, <2>2 DEF HearState, update_doris_state, MissionStore
    <3> HIDE DEF g
    <3>4. /\ obs' \in Watches /\ obs'.silence = obs.silence /\ obs'.held = obs.held
          /\ obs'.drained = obs.drained
      BY <2>s, <3>1, <3>2 DEF Watches
    <3> QED BY <1>2, <3>3, <3>4 DEF DiveInv, SilenceTimed, VoltageTimed
  <2>3. ASSUME HearHeartbeat, obs' = [obs EXCEPT !.silence = 0, !.drained = FALSE]
        PROVE  Rest
    <3>1. 0 \in 0 .. FAILSAFE_HEARTBEAT_TIMEOUT BY WatchTypes
    <3>2. md'.hb.age = 0 /\ sm' = sm
      BY <2>s, <2>3 DEF HearHeartbeat, update_heartbeat, MissionStore
    <3>3. obs' \in Watches /\ obs'.silence = 0 /\ obs'.held = obs.held
      BY <2>s, <2>3, <3>1 DEF Watches
    <3> QED BY <1>2, <3>2, <3>3 DEF DiveInv, SilenceTimed, VoltageTimed
  <2>4. ASSUME NEW b \in SessionTimes, NEW ok \in BOOLEAN, ManualTest(b, ok) \/ Report(b, ok),
               obs' = Silent(obs, b) \/ (mayTransmit /\ obs' = Drained(obs, b))
        PROVE  Rest
    BY <1>2, <2>4, WatchElapse, DurationTypes DEF ManualTest, Report, Session
  <2>5. ASSUME NEW d \in Durations, Delay(d), obs' = Silent(obs, d)
        PROVE  Rest
    BY <1>2, <2>5, WatchElapse, DurationTypes DEF Delay
  <2>6. ASSUME Power \/ HearOther \/ SerialDone \/ Follow \/ Backstop
                 \/ SkipTest \/ SkipReport \/ Again \/ Boot,
               UNCHANGED obs
        PROVE  Rest
    <3>1. CASE Power
      <4>1. sm'.crit = sm.crit /\ SameState(sm, sm') /\ md' = md
        BY <2>s, <3>1 DEF Power, updateSurfacePower, Status, SameState
      <4> QED BY <1>2, <2>u, <2>6, <4>1, StatusUnwatched
    <3>2. ASSUME NEW v \in Depths, HearDepth(v) PROVE Rest
      <4>1. md'.hb = md.hb BY <2>s, <3>2 DEF HearDepth, update_depth, MissionStore
      <4> QED BY <1>2, <2>q, <2>u, <2>6, <3>2, <4>1, StatusUnwatched DEF HearDepth
    <3>3. ASSUME NEW v \in Volts, HearVolt(v) PROVE Rest
      <4>1. md'.hb = md.hb
        BY <2>s, <3>3 DEF HearVolt, update_autopilot_voltage, MissionStore
      <4> QED BY <1>2, <2>q, <2>u, <2>6, <3>3, <4>1, StatusUnwatched DEF HearVolt
    <3>4. CASE HearAck
      <4>1. sm'.crit = sm.crit /\ SameState(sm, sm') /\ md' = md
        BY <2>s, <3>4 DEF HearAck, acknowledgeShutdown, Status, SameState
      <4> QED BY <1>2, <2>u, <2>6, <4>1, StatusUnwatched
    <3>5. ASSUME NEW b \in BOOLEAN, SetLeak(b) PROVE Rest
      <4>1. md'.hb = md.hb BY <2>s, <3>5 DEF SetLeak, set_leak, MissionStore
      <4> QED BY <1>2, <2>q, <2>u, <2>6, <3>5, <4>1, StatusUnwatched DEF SetLeak
    <3>6. CASE OperatorReset
      <4>1. sm'.crit = sm.crit /\ sm'.state = "PRE_DIVE" /\ md' = md
        BY <2>s, <3>6, FollowAccount DEF OperatorReset
      <4> QED BY <1>2, <2>u, <2>6, <4>1, StatusUnwatched
    <3>7. CASE RequestTest \/ SerialDone \/ SkipTest \/ SkipReport \/ Again
      BY <1>2, <2>q, <2>u, <2>6, <3>7, StatusUnwatched
      DEF RequestTest, machine, SerialDone, SkipTest, SkipReport, Again
    <3>8. CASE Follow
      <4>1. sm'.crit = sm.crit /\ Led(sm, sm') /\ md' = md
        BY <2>s, <3>8, FollowAccount DEF Follow
      <4>2. SameState(sm, sm') \/ sm'.state # "DIVING" \/ sm'.stateAge = 0
        BY <4>1 DEF Led
      <4> QED BY <1>2, <2>u, <2>6, <4>1, <4>2, StatusUnwatched
    <3>9. CASE Backstop
      <4>1. sm'.crit = sm.crit /\ (SameState(sm, sm') \/ sm'.state = "RECOVERY") /\ md' = md
        BY <2>s, <3>9, BackstopAccount DEF Backstop
      <4> QED BY <1>2, <2>u, <2>6, <4>1, StatusUnwatched
    <3>10. CASE Boot
      <4>1. ~sm'.crit.on /\ ~md'.hb.valid
        BY <3>10 DEF Boot, StateMachine_init, MissionData_init, Stopped
      <4> QED BY <2>s, <2>6, <4>1 DEF SilenceTimed, VoltageTimed
    <3> QED BY <2>6, <3>1, <3>2, <3>3, <3>4, <3>5, <3>6, <3>7, <3>8, <3>9, <3>10
            DEF HearOther
  <2>7. CASE ~Monitor
    <3>1. NoDiveContinuesUnsafe' BY <1>2, <2>0, <2>7, NotMonitoring
    <3>2. Rest BY <2>0, <2>7, <2>2, <2>3, <2>4, <2>5, <2>6 DEF ObsNext
    <3> QED BY <2>l, <3>1, <3>2 DEF DiveInv
  <2>8. CASE Monitor
    <3>1. pc = "update" /\ pc' = "power" BY <2>8 DEF Monitor
    <3> QED BY <2>0, <2>1, <3>1
            DEF ObsNext, Power, HearState, HearHeartbeat, ManualTest, Report, Delay,
                HearOther, HearDepth, HearVolt, HearAck, SetLeak, OperatorReset,
                RequestTest, Reading, SerialDone, Follow, Backstop, SkipTest, SkipReport,
                Again, Boot
  <2> QED BY <2>7, <2>8
<1> QED BY <1>1, <1>2

\* A failsafe is recorded by a pass of the monitors that surfaces the vehicle,
\* and by nothing else in the loop.
LEMMA RecordedByMonitor ==
  ASSUME LoopInv, [Next]_vars, sm'.failsafe \notin {sm.failsafe, "NONE"}
  PROVE  Surfaced(sm, md, sm')
<1>s. sm \in Status /\ md \in MissionStore BY DEF LoopInv, TypeOK
<1>1. CASE Monitor BY <1>1, <1>s, UpdateAccount DEF Monitor, Passed
<1>2. CASE Power BY <1>2, <1>s DEF Power, updateSurfacePower, Status
<1>3. CASE Serial
  <2>1. CASE HearAck BY <1>s, <2>1 DEF HearAck, acknowledgeShutdown, Status
  <2>2. CASE OperatorReset BY <1>s, <2>2, FollowAccount DEF OperatorReset
  <2>3. CASE UNCHANGED sm BY <2>3
  <2> QED BY <1>3, <2>1, <2>2, <2>3
          DEF Serial, HearOther, HearState, HearHeartbeat, HearDepth, HearVolt, SetLeak,
              RequestTest, machine
<1>4. CASE Follow BY <1>4, <1>s, FollowAccount DEF Follow
<1>5. CASE Backstop BY <1>5, <1>s, BackstopAccount DEF Backstop
<1>6. CASE AnyTest \/ AnyReport \/ AnyDelay
  <2>1. PICK d \in Nat : sm' = StatusElapse(sm, d)
    BY <1>6, DurationTypes
    DEF AnyTest, AnyReport, AnyDelay, ManualTest, Report, Session, Delay
  <2> QED BY <1>s, <2>1, ElapseAccount
<1>7. CASE Boot BY <1>7 DEF Boot, StateMachine_init
<1>8. CASE SerialDone \/ SkipTest \/ SkipReport \/ Again \/ UNCHANGED vars
  BY <1>8 DEF SerialDone, SkipTest, SkipReport, Again, vars
<1> QED BY <1>1, <1>2, <1>3, <1>4, <1>5, <1>6, <1>7, <1>8 DEF Next, Instant

\* The watcher's invariant, for every timing, input and length of a session.
THEOREM DiveInvariant == SafetySpec => []DiveInv
BY DiveInductive, PTL DEF SafetySpec

\* No dive past its grace leaves the monitors with a leak, a lost heartbeat or
\* a voltage that has been critical for the whole hold.
THEOREM NoUnsafeDive == SafetySpec => []NoDiveContinuesUnsafe
<1>1. DiveInv => NoDiveContinuesUnsafe BY DEF DiveInv
<1> QED BY <1>1, DiveInvariant, PTL

\* A low-voltage failsafe takes a voltage that every pass of the whole hold has
\* found fresh and critical, a timer inherited across two dives included.
THEOREM VoltageIsHeld == SafetySpec => VoltageHeld
<1>1. ASSUME DiveInv, [ObsNext]_watchedVars,
             sm'.failsafe = "LOW_VOLTAGE", sm.failsafe # "LOW_VOLTAGE"
      PROVE  obs.held = CRITICAL_VOLTAGE_HOLD
  <2>1. LoopInv /\ sm \in Status BY <1>1 DEF DiveInv, LoopInv, TypeOK
  <2>2. Surfaced(sm, md, sm') BY <1>1, <2>1, WatchedStep, RecordedByMonitor
  <2>3. obs.held \in 0 .. CRITICAL_VOLTAGE_HOLD BY <1>1 DEF DiveInv, Watches
  <2>4. sm.state = "DIVING" /\ sm.stateAge >= DIVE_HEARTBEAT_GRACE
    BY <2>2 DEF Surfaced, Monitoring
  <2>5. CASE CRITICAL_VOLTAGE_HOLD = 0 BY <2>3, <2>5
  <2>6. CASE sm.crit.on /\ sm.crit.age >= CRITICAL_VOLTAGE_HOLD
    <3>1. \/ obs.held >= sm.crit.age \/ obs.held >= sm.stateAge
          \/ obs.held = CRITICAL_VOLTAGE_HOLD
      BY <1>1, <2>4, <2>6 DEF DiveInv, VoltageTimed
    <3>2. sm.crit.age \in Nat /\ sm.stateAge \in Nat
      BY <2>1, StatusFields, Thresholds DEF Stopwatches
    <3> QED BY <2>3, <2>4, <2>6, <3>1, <3>2, WatchTypes
  <2> QED BY <1>1, <2>2, <2>5, <2>6 DEF Surfaced
<1> QED BY <1>1, DiveInvariant, PTL DEF SafetySpec, VoltageHeld

\* A heartbeat failsafe takes an autopilot that has really been silent for the
\* whole timeout, unless a session has thrown its heartbeats away.
THEOREM AutopilotIsSilent == SafetySpec => AutopilotSilent
<1>1. ASSUME DiveInv, [ObsNext]_watchedVars,
             sm'.failsafe = "NO_HEARTBEAT", sm.failsafe # "NO_HEARTBEAT"
      PROVE  obs.silence = FAILSAFE_HEARTBEAT_TIMEOUT \/ obs.drained
  <2>1. LoopInv /\ md \in MissionStore BY <1>1 DEF DiveInv, LoopInv, TypeOK
  <2>2. Surfaced(sm, md, sm') BY <1>1, <2>1, WatchedStep, RecordedByMonitor
  <2>3. md.hb.valid /\ md.hb.age >= FAILSAFE_HEARTBEAT_TIMEOUT
    BY <1>1, <2>2 DEF Surfaced, heartbeatLost
  <2>4. md.hb.age \in 0 .. FAILSAFE_HEARTBEAT_TIMEOUT BY <2>1 DEF MissionStore, Heartbeats
  <2>5. md.hb.age = FAILSAFE_HEARTBEAT_TIMEOUT BY <2>3, <2>4, WatchTypes
  <2> QED BY <1>1, <2>3, <2>5 DEF DiveInv, SilenceTimed
<1> QED BY <1>1, DiveInvariant, PTL DEF SafetySpec, AutopilotSilent

-----------------------------------------------------------------------------
(* The reports *)

Logs ==
    [quiet : 0 .. IRIDIUM_INTERVAL, last : {"none", "status", "other"}, asked : BOOLEAN]

\* From the backstop to the end of the pass the loop has seen the state it is
\* in, and it has always seen a dive before anything can end it.
StateSeen ==
    /\ pc \in {"test", "report", "delay"} => lastSeen = sm.state
    /\ sm.state = "DIVING" /\ pc # "backstop" => lastSeen = "DIVING"

\* The backstop's window opens in a dive, after the loop has seen it: it cannot
\* end the very pass that began the dive.
WindowOfDive == lastSeen = "RECOVERY" => ~sm.win.timer.on

\* A recovery out of a dive that has tried nothing still has its schedule as the
\* restart left it; one left and entered again in one pass, whose schedule is
\* not restarted, did not come out of a dive.
Restarted ==
    /\ sm.state = "RECOVERY" /\ sm.prev = "DIVING" /\ lastSeen = "RECOVERY"
         /\ log.last = "none" => ~sched.attempted
    /\ ~sched.attempted => log.last = "none" /\ ~sched.upgrade

\* What has been tried was tried in a recovery the loop has seen.
TriedHere == log.last # "none" => sm.state = "RECOVERY" /\ lastSeen = "RECOVERY"

\* A position is owed only to a status report that went out without one.
UpgradeOwed == sched.upgrade => log.last \in {"none", "status"}

LogSteady == StateSeen /\ WindowOfDive /\ Restarted /\ TriedHere /\ UpgradeOwed

\* The firmware's clock never runs ahead of the silence it measures.
QuietTimed == log.quiet >= sched.age

ReportInv ==
    /\ LoopInv /\ log \in Logs /\ LogSteady /\ QuietTimed /\ FirstReportAtOnce

LEMMA LoggedStep == [LogNext]_loggedVars => [Next]_vars
BY DEF LogNext, loggedVars, vars, Next, AnyTest, AnyReport, AnyDelay

LEMMA IntervalType == IRIDIUM_INTERVAL \in Nat
BY ScheduleAssumption DEF ScheduleAssumption

\* The payload is off only in a recovery that came out of a dive.
LEMMA TransmitsAfterDive ==
  ASSUME NEW s, Good(s), canTransmitIridium(s)
  PROVE  s.state = "RECOVERY" /\ s.prev = "DIVING" /\ ~s.hs.relay
BY DEF Good, GoodHandshake, LatchOrder, InRecovery, canTransmitIridium

LEMMA SessionAccount ==
  ASSUME NEW b \in SessionTimes, NEW located \in BOOLEAN, NEW ok \in BOOLEAN,
         sm \in Status, sched \in Schedules, Session(b, located, ok)
  PROVE  /\ sm'.state = sm.state /\ sm'.prev = sm.prev
         /\ sm'.win.timer.on = sm.win.timer.on /\ sm'.hs.powered = sm.hs.powered
         /\ sched'.attempted /\ sched'.age = 0
         /\ sched'.upgrade => ~located /\ (ok \/ sched.upgrade)
<1>1. /\ sm'.state = sm.state /\ sm'.prev = sm.prev
      /\ sm'.win.timer.on = sm.win.timer.on /\ sm'.hs.powered = sm.hs.powered
  BY ElapseAccount, DurationTypes DEF Session
<1> DEFINE a == noteAttempt(sched, located)
<1>2. a.attempted /\ a.age = 0 /\ (a.upgrade => ~located /\ sched.upgrade)
  BY DEF noteAttempt, Schedules
<1>3. a \in Schedules BY ScheduleType
<1>4. CASE ok
  <2>1. sched' = [a EXCEPT !.sent = TRUE, !.upgrade = ~located]
    BY <1>4 DEF Session, noteSent
  <2> HIDE DEF a
  <2> QED BY <1>1, <1>2, <1>3, <1>4, <2>1 DEF Schedules
<1>5. CASE ~ok
  <2>1. sched' = a BY <1>5 DEF Session
  <2> QED BY <1>1, <1>2, <2>1
<1> QED BY <1>4, <1>5

\* A step that leaves state, window, schedule and what the loop has seen alone.
LEMMA QuietKeeps ==
  ASSUME ReportInv, log' = Kept(log), SameState(sm, sm'), sm'.win = sm.win,
         UNCHANGED <<sched, lastSeen>>, pc # "backstop",
         pc' \in {"test", "report", "delay"} => pc \in {"test", "report"}
  PROVE  LogSteady' /\ QuietTimed'
<1>1. /\ log'.quiet = log.quiet
      /\ sm.state = "RECOVERY" => log'.last = log.last
      /\ sm.state # "RECOVERY" => log'.last = "none"
  BY DEF ReportInv, Logs, Kept, SameState
<1>2. LogSteady BY DEF ReportInv
<1>3. log'.last = log.last BY <1>1, <1>2 DEF LogSteady, TriedHere
<1>4. QuietTimed' BY <1>1 DEF ReportInv, QuietTimed
<1>5. StateSeen' BY <1>2 DEF LogSteady, StateSeen, SameState
<1>6. WindowOfDive' BY <1>2 DEF LogSteady, WindowOfDive
<1>7. Restarted' BY <1>2, <1>3 DEF LogSteady, Restarted, SameState
<1>8. TriedHere' /\ UpgradeOwed'
  BY <1>2, <1>3 DEF LogSteady, TriedHere, UpgradeOwed, SameState
<1> QED BY <1>4, <1>5, <1>6, <1>7, <1>8 DEF LogSteady

\* A step to another state: what was tried before it counts no more.
LEMMA KeptType ==
  ASSUME log \in Logs, log' = Kept(log)
  PROVE  /\ log' \in Logs /\ log'.quiet = log.quiet
         /\ log'.last = IF sm'.state = "RECOVERY" THEN log.last ELSE "none"
<1> DEFINE o == (log.asked \/ HearState(4)) /\ ~Dives
           l == IF sm'.state = "RECOVERY" THEN log.last ELSE "none"
<1>2. log' = [log EXCEPT !.last = l, !.asked = o] BY DEF Kept
<1>3. o \in BOOLEAN OBVIOUS
<1>4. l \in {"none", "status", "other"} BY DEF Logs
<1> HIDE DEF o, l
<1>5. log' \in Logs /\ log'.quiet = log.quiet /\ log'.last = l
  BY <1>2, <1>3, <1>4 DEF Logs
<1> QED BY <1>5 DEF l

LEMMA MonitorReport ==
  ASSUME ReportInv, Monitor, log' = Kept(log)
  PROVE  LogSteady' /\ QuietTimed' /\ FirstReportAtOnce'
<1>i. /\ sm \in Status /\ md \in MissionStore /\ log \in Logs /\ LogSteady
      /\ sm' = update(sm, md) /\ pc = "update" /\ pc' = "power"
      /\ UNCHANGED <<sched, lastSeen>>
  BY DEF ReportInv, LoopInv, TypeOK, Monitor
<1>f. FirstReportAtOnce' BY <1>i DEF FirstReportAtOnce
<1>1. CASE Passed(sm, md, sm')
  <2>1. SameState(sm, sm') /\ sm'.win = sm.win BY <1>1 DEF Passed
  <2> QED BY <1>f, <1>i, <2>1, QuietKeeps
<1>2. CASE Surfaced(sm, md, sm')
  <2>1. /\ sm.state = "DIVING" /\ sm'.state = "RECOVERY" /\ sm'.win = sm.win
    BY <1>2 DEF Surfaced, Monitoring
  <2>2. lastSeen = "DIVING" /\ log.last = "none"
    BY <1>i, <2>1 DEF LogSteady, StateSeen, TriedHere
  <2>3. log'.last = "none" /\ log'.quiet = log.quiet BY <1>i, <2>1, <2>2, KeptType
  <2> QED BY <1>f, <1>i, <2>1, <2>2, <2>3
          DEF ReportInv, LogSteady, StateSeen, WindowOfDive, Restarted, TriedHere,
              UpgradeOwed, QuietTimed
<1> QED BY <1>1, <1>2, <1>i, UpdateAccount

LEMMA FollowReport ==
  ASSUME ReportInv, Follow \/ OperatorReset, log' = Kept(log)
  PROVE  LogSteady' /\ QuietTimed' /\ FirstReportAtOnce'
<1>i. /\ sm \in Status /\ log \in Logs /\ LogSteady
      /\ UNCHANGED <<sched, lastSeen>> /\ pc \in {"serial", "follow"}
      /\ pc' \in {"serial", "backstop"}
  BY DEF ReportInv, LoopInv, TypeOK, Follow, OperatorReset, Reading
<1>f. FirstReportAtOnce' BY <1>i DEF FirstReportAtOnce
<1>l. /\ sm'.win = sm.win /\ Led(sm, sm')
      /\ sm'.state = "DIVING" => pc' = "backstop" \/ SameState(sm, sm')
  BY <1>i, FollowAccount DEF Follow, OperatorReset, Led
<1>k. /\ log'.quiet = log.quiet
      /\ log'.last = IF sm'.state = "RECOVERY" THEN log.last ELSE "none"
  BY <1>i, KeptType
<1>1. CASE SameState(sm, sm') BY <1>1, <1>f, <1>i, <1>l, QuietKeeps
<1>2. CASE ~SameState(sm, sm') /\ sm'.state # "RECOVERY"
  <2>1. log'.last = "none" BY <1>2, <1>k
  <2> QED BY <1>2, <1>f, <1>i, <1>k, <1>l, <2>1
          DEF ReportInv, LogSteady, StateSeen, WindowOfDive, Restarted, TriedHere,
              UpgradeOwed, QuietTimed
<1>3. CASE ~SameState(sm, sm') /\ sm'.state = "RECOVERY"
  <2>1. sm.state # "RECOVERY" /\ sm'.prev = sm.state BY <1>3, <1>l DEF Led
  <2>2. log'.last = "none" BY <1>3, <1>i, <1>k, <2>1 DEF LogSteady, TriedHere
  <2>3. sm.state = "DIVING" => lastSeen = "DIVING" BY <1>i DEF LogSteady, StateSeen
  <2> QED BY <1>3, <1>f, <1>i, <1>k, <1>l, <2>1, <2>2, <2>3
          DEF ReportInv, LogSteady, StateSeen, WindowOfDive, Restarted, TriedHere,
              UpgradeOwed, QuietTimed
<1> QED BY <1>1, <1>2, <1>3

LEMMA BackstopReport ==
  ASSUME ReportInv, Backstop, log' = Kept(log)
  PROVE  LogSteady' /\ QuietTimed' /\ FirstReportAtOnce'
<1>i. /\ sm \in Status /\ md \in MissionStore /\ log \in Logs /\ LogSteady
      /\ sched \in Schedules
      /\ sm' = updateSurfaceBackstop(sm, md) /\ pc' = "test" /\ lastSeen' = sm'.state
      /\ sched' = restarted(sm', sched)
  BY DEF ReportInv, LoopInv, TypeOK, Backstop
<1>f. FirstReportAtOnce' BY <1>i DEF FirstReportAtOnce
<1>k. /\ log' \in Logs /\ log'.quiet = log.quiet
      /\ log'.last = IF sm'.state = "RECOVERY" THEN log.last ELSE "none"
  BY <1>i, KeptType
<1>b. \/ SameState(sm, sm') /\ (sm'.win.timer.on => sm.state = "DIVING")
      \/ /\ sm.state = "DIVING" /\ sm.win.timer.on
         /\ sm'.state = "RECOVERY" /\ sm'.prev = "DIVING" /\ ~sm'.win.timer.on
  BY <1>i, BackstopAccount
<1>1. StateSeen' BY <1>i DEF StateSeen
<1>2. WindowOfDive' BY <1>b, <1>i DEF WindowOfDive, SameState
<1>3. CASE sm'.state # lastSeen /\ sm'.state = "RECOVERY"
  <2>1. ~sched'.attempted /\ ~sched'.upgrade /\ sched'.age = 0
    BY <1>3, <1>i DEF restarted, schedule_reset
  <2>2. log.last = "none" BY <1>3, <1>b, <1>i DEF LogSteady, TriedHere, SameState
  <2>3. log'.last = "none" /\ log'.quiet >= 0 BY <1>3, <1>k, <2>2, IntervalType DEF Logs
  <2> QED BY <1>1, <1>2, <1>f, <2>1, <2>3
          DEF LogSteady, Restarted, TriedHere, UpgradeOwed, QuietTimed
<1>4. CASE ~(sm'.state # lastSeen /\ sm'.state = "RECOVERY")
  <2>1. sched' = sched BY <1>4, <1>i DEF restarted
  <2>2. sm'.state = "RECOVERY" => lastSeen = "RECOVERY" /\ SameState(sm, sm')
    BY <1>4, <1>b, <1>i DEF LogSteady, WindowOfDive
  <2>3. CASE sm'.state = "RECOVERY"
    <3>1. log'.last = log.last BY <1>k, <2>3
    <3>2. /\ sm.state = "RECOVERY" /\ lastSeen = "RECOVERY" /\ lastSeen' = "RECOVERY"
          /\ sm'.prev = sm.prev
      BY <1>i, <2>2, <2>3 DEF SameState
    <3> QED BY <1>1, <1>2, <1>f, <1>i, <1>k, <2>1, <2>3, <3>1, <3>2
            DEF ReportInv, LogSteady, Restarted, TriedHere, UpgradeOwed, QuietTimed
  <2>4. CASE sm'.state # "RECOVERY"
    <3>1. log'.last = "none" BY <1>k, <2>4
    <3> QED BY <1>1, <1>2, <1>f, <1>i, <1>k, <2>1, <2>4, <3>1
            DEF ReportInv, LogSteady, Restarted, TriedHere, UpgradeOwed, QuietTimed
  <2> QED BY <2>3, <2>4
<1> QED BY <1>3, <1>4

LEMMA LoggedType ==
  ASSUME NEW l \in Logs, NEW located \in BOOLEAN, NEW ok \in BOOLEAN
  PROVE  LET n == Logged(l, located, ok)
         IN  /\ n \in Logs /\ n.quiet = 0
             /\ n.last = IF ~located /\ (ok \/ l.last = "status") THEN "status" ELSE "other"
<1> DEFINE a == IF ~located /\ (ok \/ l.last = "status") THEN "status" ELSE "other"
<1>1. Logged(l, located, ok) = [l EXCEPT !.quiet = 0, !.last = a] BY DEF Logged
<1>2. a \in {"none", "status", "other"} OBVIOUS
<1>3. 0 \in 0 .. IRIDIUM_INTERVAL BY IntervalType
<1> HIDE DEF a
<1>4. LET n == [l EXCEPT !.quiet = 0, !.last = a]
      IN  n \in Logs /\ n.quiet = 0 /\ n.last = a
  BY <1>2, <1>3 DEF Logs
<1> QED BY <1>1, <1>4 DEF a

LEMMA LoggedTest ==
  ASSUME NEW l \in Logs, NEW ok \in BOOLEAN
  PROVE  LET n == Logged(l, TRUE, ok) IN n \in Logs /\ n.quiet = 0 /\ n.last = "other"
BY LoggedType

LEMMA JustReported ==
  ASSUME log'.quiet = 0, sched'.age = 0
  PROVE  QuietTimed'
BY DEF QuietTimed

LEMMA TestReport ==
  ASSUME ReportInv, NEW b \in SessionTimes, NEW ok \in BOOLEAN, ManualTest(b, ok),
         log' = IF sm.state = "RECOVERY" THEN Logged(log, TRUE, ok)
                ELSE [log EXCEPT !.quiet = 0]
  PROVE  log' \in Logs /\ LogSteady' /\ QuietTimed' /\ FirstReportAtOnce'
<1>i. /\ sm \in Status /\ log \in Logs /\ LogSteady /\ sched \in Schedules
      /\ pc = "test" /\ pc' = "report" /\ lastSeen' = lastSeen /\ Session(b, TRUE, ok)
  BY DEF ReportInv, LoopInv, TypeOK, ManualTest
<1>f. FirstReportAtOnce' BY <1>i DEF FirstReportAtOnce
<1>s. /\ sm'.state = sm.state /\ sm'.prev = sm.prev /\ lastSeen = sm.state
      /\ sm'.win.timer.on = sm.win.timer.on
      /\ sched'.attempted /\ sched'.age = 0 /\ ~sched'.upgrade
  BY <1>i, SessionAccount DEF LogSteady, StateSeen
<1>0. 0 \in 0 .. IRIDIUM_INTERVAL BY IntervalType
<1>1. CASE sm.state = "RECOVERY"
  <2>1. log' \in Logs /\ log'.quiet = 0 /\ log'.last = "other"
    <3>1. log' = Logged(log, TRUE, ok) BY <1>1, Zenon
    <3>2. LET n == Logged(log, TRUE, ok) IN n \in Logs /\ n.quiet = 0 /\ n.last = "other"
      BY <1>i, LoggedTest, Zenon
    <3> QED BY <3>1, <3>2, Zenon
  <2>2. log'.quiet = 0 /\ sched'.age = 0 BY <1>s, <2>1
  <2>3. QuietTimed' BY <2>2, JustReported, Zenon
  <2>4. LogSteady'
    BY <1>1, <1>i, <1>s, <2>1
       DEF LogSteady, StateSeen, WindowOfDive, Restarted, TriedHere, UpgradeOwed
  <2> QED BY <1>f, <2>1, <2>3, <2>4
<1>2. CASE sm.state # "RECOVERY"
  <2>1. log' \in Logs /\ log'.quiet = 0 /\ log'.last = log.last
    BY <1>0, <1>2, <1>i DEF Logs
  <2>2. log.last = "none" BY <1>2, <1>i DEF LogSteady, TriedHere
  <2> QED BY <1>2, <1>f, <1>i, <1>s, <2>1, <2>2
          DEF LogSteady, StateSeen, WindowOfDive, Restarted, TriedHere, UpgradeOwed, QuietTimed
<1> QED BY <1>1, <1>2

LEMMA SessionReport ==
  ASSUME ReportInv, NEW b \in SessionTimes, NEW ok \in BOOLEAN, Report(b, ok),
         log' = Logged(log, fix, ok)
  PROVE  log' \in Logs /\ LogSteady' /\ QuietTimed' /\ FirstReportAtOnce'
<1>i. /\ sm \in Status /\ Good(sm) /\ log \in Logs /\ LogSteady /\ sched \in Schedules
      /\ pc = "report" /\ pc' = "delay" /\ lastSeen' = lastSeen /\ Session(b, fix, ok)
      /\ canTransmitIridium(sm) /\ fix \in BOOLEAN
  BY DEF ReportInv, LoopInv, TypeOK, Report, reportDue
<1>r. sm.state = "RECOVERY" /\ sm.prev = "DIVING" /\ lastSeen = "RECOVERY"
  BY <1>i, TransmitsAfterDive DEF LogSteady, StateSeen
<1>s. /\ sm'.state = sm.state /\ sm'.prev = sm.prev
      /\ sm'.win.timer.on = sm.win.timer.on
      /\ sched'.attempted /\ sched'.age = 0
      /\ sched'.upgrade => ~fix /\ (ok \/ sched.upgrade)
  BY <1>i, SessionAccount
<1> DEFINE l == IF ~fix /\ (ok \/ log.last = "status") THEN "status" ELSE "other"
<1>1. /\ log' \in Logs /\ log'.quiet = 0 /\ log'.last = l
  BY <1>i, LoggedType
<1>2. sched.upgrade => log.last = "status"
  <2>1. log.last = "none" => ~sched.upgrade BY <1>i, <1>r DEF LogSteady, Restarted
  <2> QED BY <1>i, <2>1 DEF LogSteady, UpgradeOwed
<1>3. log'.last # "none" /\ (sched'.upgrade => log'.last = "status")
  BY <1>1, <1>2, <1>s
<1> QED BY <1>1, <1>3, <1>i, <1>r, <1>s
        DEF LogSteady, StateSeen, WindowOfDive, Restarted, TriedHere, UpgradeOwed, QuietTimed,
            FirstReportAtOnce

LEMMA ReportInductive ==
  (LogInit => ReportInv) /\ (ReportInv /\ [LogNext]_loggedVars => ReportInv')
<1>1. ASSUME LogInit PROVE ReportInv
  <2>1. /\ LoopInv /\ sm.state = "PRE_DIVE" /\ lastSeen = "PRE_DIVE" /\ pc = "update"
        /\ sched.attempted /\ ~sched.upgrade /\ sched.age = 0
    BY <1>1, LoopInductive DEF LogInit, Init, StateMachine_init, schedule_boot
  <2>2. log \in Logs /\ log.last = "none" /\ log.quiet = IRIDIUM_INTERVAL
    BY <1>1, IntervalType DEF LogInit, Logs
  <2> QED BY <2>1, <2>2, IntervalType
          DEF ReportInv, LogSteady, StateSeen, WindowOfDive, Restarted, TriedHere,
              UpgradeOwed, QuietTimed, FirstReportAtOnce
<1>2. ASSUME ReportInv, [LogNext]_loggedVars PROVE ReportInv'
  <2>l. LoopInv' BY <1>2, LoggedStep, LoopInductive DEF ReportInv
  <2>i. /\ sm \in Status /\ md \in MissionStore /\ log \in Logs /\ LogSteady
        /\ sched \in Schedules /\ LoopInv /\ fix \in BOOLEAN
    BY <1>2 DEF ReportInv, LoopInv, TypeOK
  <2> DEFINE Rest == log' \in Logs /\ LogSteady' /\ QuietTimed' /\ FirstReportAtOnce'
  <2>s. SameState(sm, sm) BY DEF SameState
  <2>1. CASE UNCHANGED loggedVars
    BY <1>2, <2>l, <2>1
    DEF loggedVars, vars, ReportInv, LogSteady, StateSeen, WindowOfDive, Restarted,
        TriedHere, UpgradeOwed, QuietTimed, FirstReportAtOnce, canTransmitIridium
  <2>2. ASSUME NEW b \in SessionTimes, NEW ok \in BOOLEAN, ManualTest(b, ok),
               log' = IF sm.state = "RECOVERY" THEN Logged(log, TRUE, ok)
                      ELSE [log EXCEPT !.quiet = 0]
        PROVE  Rest
    BY <1>2, <2>2, TestReport
  <2>3. ASSUME NEW b \in SessionTimes, NEW ok \in BOOLEAN, Report(b, ok),
               log' = Logged(log, fix, ok)
        PROVE  Rest
    BY <1>2, <2>3, SessionReport
  <2>4. ASSUME NEW d \in Durations, Delay(d),
               log' = [log EXCEPT !.quiet = Aged(@, d, IRIDIUM_INTERVAL)]
        PROVE  Rest
    <3>1. d \in Nat BY DurationTypes
    <3>2. log.quiet \in 0 .. IRIDIUM_INTERVAL /\ sched.age \in 0 .. IRIDIUM_INTERVAL
      BY <2>i DEF Logs, Schedules
    <3>3. Aged(log.quiet, d, IRIDIUM_INTERVAL) \in 0 .. IRIDIUM_INTERVAL
      BY <3>1, <3>2, IntervalType, AgedType
    <3>4. /\ log' \in Logs /\ log'.last = log.last
          /\ log'.quiet = Aged(log.quiet, d, IRIDIUM_INTERVAL)
      BY <2>i, <2>4, <3>3 DEF Logs
    <3>5. /\ sched'.attempted = sched.attempted /\ sched'.upgrade = sched.upgrade
          /\ sched'.age = 0 \/ sched'.age = Aged(sched.age, d, IRIDIUM_INTERVAL)
      BY <2>i, <2>4 DEF Delay, ScheduleElapse, Schedules, Aged
    <3>6. /\ sm'.state = sm.state /\ sm'.prev = sm.prev
          /\ sm'.win.timer.on = sm.win.timer.on
      BY <2>i, <2>4, <3>1, ElapseAccount DEF Delay
    <3>7. QuietTimed'
      <4>1. log.quiet >= sched.age BY <1>2 DEF ReportInv, QuietTimed
      <4> QED BY <3>1, <3>2, <3>4, <3>5, <4>1, IntervalType DEF QuietTimed, Aged
    <3>8. pc = "delay" /\ pc' = "update" /\ lastSeen' = lastSeen BY <2>4 DEF Delay
    <3> QED BY <2>i, <3>4, <3>5, <3>6, <3>7, <3>8
            DEF LogSteady, StateSeen, WindowOfDive, Restarted, TriedHere, UpgradeOwed,
                FirstReportAtOnce
  <2>5. ASSUME Instant \/ Serial \/ Again \/ Boot, log' = Kept(log)
        PROVE  Rest
    <3>t. log' \in Logs BY <2>i, <2>5, KeptType
    <3>1. CASE Monitor BY <1>2, <2>5, <3>t, <3>1, MonitorReport
    <3>2. CASE Follow \/ OperatorReset BY <1>2, <2>5, <3>t, <3>2, FollowReport
    <3>3. CASE Backstop BY <1>2, <2>5, <3>t, <3>3, BackstopReport
    <3>4. CASE Power \/ HearAck
      <4>1. /\ SameState(sm, sm') /\ sm'.win = sm.win
            /\ UNCHANGED <<sched, lastSeen>> /\ pc # "backstop" /\ pc' \in {"serial"}
        BY <2>i, <3>4
        DEF Power, HearAck, Reading, updateSurfacePower, acknowledgeShutdown, Status, SameState
      <4> QED BY <1>2, <2>5, <3>t, <4>1, QuietKeeps DEF FirstReportAtOnce
    <3>5. CASE \/ \E v \in DorisStates : HearState(v)
               \/ \E v \in Depths : HearDepth(v)
               \/ \E v \in Volts : HearVolt(v)
               \/ \E b \in BOOLEAN : SetLeak(b)
               \/ HearHeartbeat \/ RequestTest \/ SerialDone \/ Again
      <4>1. /\ sm' = sm /\ UNCHANGED <<sched, lastSeen>> /\ pc # "backstop"
            /\ pc' \in {"serial", "follow", "update"}
        BY <3>5 DEF HearState, HearDepth, HearVolt, SetLeak, HearHeartbeat, RequestTest,
                    machine, Reading, SerialDone, Again
      <4> QED BY <1>2, <2>5, <2>s, <3>t, <4>1, QuietKeeps DEF FirstReportAtOnce
    <3>6. CASE SkipTest
      <4>1. /\ sm' = sm /\ UNCHANGED <<sched, lastSeen>> /\ pc = "test" /\ pc' = "report"
        BY <3>6 DEF SkipTest
      <4> QED BY <1>2, <2>5, <2>s, <3>t, <4>1, QuietKeeps DEF FirstReportAtOnce
    <3>7. CASE SkipReport
      <4>1. /\ sm' = sm /\ UNCHANGED <<sched, lastSeen>> /\ pc = "report" /\ pc' = "delay"
            /\ ~reportDue
        BY <3>7 DEF SkipReport
      <4>2. LogSteady' /\ QuietTimed' BY <1>2, <2>5, <2>s, <4>1, QuietKeeps
      <4>3. FirstReportAtOnce'
        <5>1. SUFFICES ASSUME canTransmitIridium(sm) PROVE log'.last # "none"
          BY <4>1 DEF FirstReportAtOnce
        <5>2. sm.state = "RECOVERY" /\ sm.prev = "DIVING" /\ lastSeen = "RECOVERY"
          BY <2>i, <4>1, <5>1, TransmitsAfterDive DEF LoopInv, LogSteady, StateSeen
        <5>3. sched.attempted
          BY <4>1, <5>1 DEF reportDue, locatedDue, unlocatedDue
        <5>4. log.last # "none" BY <2>i, <5>2, <5>3 DEF LogSteady, Restarted
        <5> QED BY <2>i, <2>5, <4>1, <5>2, <5>4, KeptType
      <4> QED BY <3>t, <4>2, <4>3
    <3>8. CASE Boot
      <4>1. /\ sm'.state = "PRE_DIVE" /\ lastSeen' = "PRE_DIVE" /\ pc' = "update"
            /\ sched'.attempted /\ ~sched'.upgrade /\ sched'.age = 0
        BY <3>8 DEF Boot, StateMachine_init, schedule_boot
      <4>2. log'.last = "none" /\ log'.quiet >= 0
        BY <2>i, <2>5, <4>1, KeptType, IntervalType DEF Logs
      <4> QED BY <3>t, <4>1, <4>2
              DEF LogSteady, StateSeen, WindowOfDive, Restarted, TriedHere, UpgradeOwed,
                  QuietTimed, FirstReportAtOnce
    <3> QED BY <2>5, <3>1, <3>2, <3>3, <3>4, <3>5, <3>6, <3>7, <3>8
            DEF Instant, Serial, HearOther
  <2>6. CASE LogNext
    <3>1. Rest BY <2>2, <2>3, <2>4, <2>5, <2>6 DEF LogNext
    <3> QED BY <2>l, <3>1 DEF ReportInv
  <2> QED BY <1>2, <2>1, <2>6
<1> QED BY <1>1, <1>2

\* The log's invariant, for every interval, timing and outcome of a session.
THEOREM ReportInvariant == ReportingSpec => []ReportInv
BY ReportInductive, PTL DEF ReportingSpec

\* No pass ends with the payload off and nothing tried since the recovery
\* began, whichever path led into it.
THEOREM ReportsAtOnce == ReportingSpec => []FirstReportAtOnce
<1>1. ReportInv => FirstReportAtOnce BY DEF ReportInv
<1> QED BY <1>1, ReportInvariant, PTL

LEMMA SmallMod ==
  ASSUME NEW n \in Nat, NEW a \in 0 .. n - 1
  PROVE  a % n = a
OBVIOUS

\* An automatic report keeps the interval from the end of the session before,
\* unless it is the first of its recovery, pays the position a status report
\* owes, or follows a manual test in the same pass.
THEOREM ReportsAreSpaced == ReportingSpec => SpacedButForTest
<1>1. ASSUME ReportInv, AnyReport, lag = 0 PROVE Spaced
  <2>1. /\ sched \in Schedules /\ log \in Logs /\ LogSteady /\ log.quiet >= sched.age
        /\ fix \in BOOLEAN
    BY <1>1 DEF ReportInv, QuietTimed, LoopInv, TypeOK
  <2>2. IF fix THEN locatedDue(sched, 0) ELSE unlocatedDue(sched, 0)
    BY <1>1 DEF AnyReport, Report, reportDue
  <2>3. CASE ~sched.attempted BY <2>1, <2>3 DEF LogSteady, Restarted, Spaced
  <2>4. CASE fix /\ sched.upgrade BY <2>1, <2>4 DEF LogSteady, UpgradeOwed, Spaced
  <2>5. CASE SinceAttempt(sched, 0) >= IRIDIUM_INTERVAL
    <3>1. sched.age \in 0 .. IRIDIUM_INTERVAL /\ log.quiet \in 0 .. IRIDIUM_INTERVAL
      BY <2>1 DEF Schedules, Logs
    <3>2. MILLIS_WRAP \in Nat /\ sched.age \in 0 .. MILLIS_WRAP - 1
      BY <3>1, ScheduleAssumption DEF ScheduleAssumption
    <3>3. sched.age - 0 = sched.age BY <3>1
    <3>4. SinceAttempt(sched, 0) = sched.age BY <3>2, <3>3, SmallMod DEF SinceAttempt
    <3> QED BY <2>1, <2>5, <3>1, <3>4, IntervalType DEF Spaced
  <2> QED BY <2>2, <2>3, <2>4, <2>5 DEF locatedDue, unlocatedDue
<1> QED BY <1>1, ReportInvariant, PTL DEF ReportingSpec, SpacedButForTest

-----------------------------------------------------------------------------
(* What Lua has said in a dive *)

OfDive(s) == s.state = "DIVING" \/ InRecovery(s)

\* A STATE=4 in store was said in the dive, or the recovery from it, that it is
\* read in, since a dive begins only on another STATE.
AskedInv == (OfDive(sm) /\ md.doris.value = 4 => log.asked) /\ AskedInThisDive

\* A call that begins no dive, nor a handshake that nobody asked for.
Continues(s, m, t) ==
    /\ t.state = "DIVING" => s.state = "DIVING"
    /\ OfDive(t) => OfDive(s)
    /\ t.hs.dwell.on => s.hs.dwell.on \/ (m.doris.value = 4 /\ OfDive(s))

LEMMA AskedKeeps ==
  ASSUME AskedInv, Good(sm), Good(sm'), Continues(sm, md, sm'),
         md'.doris.value = md.doris.value, log.asked => log'.asked
  PROVE  AskedInv'
<1>1. sm.hs.qualified = sm.hs.dwell.on /\ sm'.hs.qualified = sm'.hs.dwell.on
  BY DEF Good, GoodHandshake, LatchOrder
<1>2. sm'.hs.dwell.on => log'.asked
  BY <1>1 DEF AskedInv, AskedInThisDive, Continues
<1>3. OfDive(sm') /\ md'.doris.value = 4 => log'.asked BY DEF AskedInv, Continues
<1> QED BY <1>1, <1>2, <1>3 DEF AskedInv, AskedInThisDive

\* The calls of a pass, and the follower unless it begins a dive.
LEMMA CallsContinue ==
  ASSUME NEW s, Good(s), NEW m \in MissionStore
  PROVE  /\ Continues(s, m, s)
         /\ Continues(s, m, update(s, m))
         /\ Continues(s, m, updateSurfacePower(s, m))
         /\ Continues(s, m, updateSurfaceBackstop(s, m))
         /\ Continues(s, m, acknowledgeShutdown(s))
         /\ Continues(s, m, reset(s))
         /\ \A d \in Nat : Continues(s, m, StatusElapse(s, d))
<1>s. s \in Status BY DEF Good
<1>1. Continues(s, m, s) BY DEF Continues
<1>2. Continues(s, m, update(s, m))
  <2> DEFINE t == update(s, m)
  <2>1. \/ t.state = s.state /\ t.hs = s.hs
        \/ s.state = "DIVING" /\ t.state = "RECOVERY" /\ ~t.hs.dwell.on
    BY UpdateGood
  <2>2. (t.state = s.state /\ t.prev = s.prev) \/ s.state = "DIVING"
    BY <1>s, UpdateAccount DEF Passed, Surfaced, SameState, Monitoring
  <2> HIDE DEF t
  <2>3. Continues(s, m, t) BY <2>1, <2>2 DEF Continues, OfDive, InRecovery
  <2> QED BY <2>3 DEF t
<1>3. Continues(s, m, updateSurfacePower(s, m))
  <2> DEFINE b == Authorized(s, m)
             t == updateSurfacePower(s, m)
             h == surfacePower(s.hs, b)
  <2>1. b \in BOOLEAN /\ (b => m.doris.value = 4 /\ OfDive(s))
    BY DEF Authorized, OfDive, InRecovery, Fresh
  <2>2. t = [s EXCEPT !.hs = h] BY DEF updateSurfacePower
  <2> HIDE DEF b, t
  <2>3. h.dwell.on => s.hs.dwell.on \/ b BY <2>1, SurfacePowerGood DEF Good
  <2> HIDE DEF h
  <2>4. t.state = s.state /\ t.prev = s.prev /\ t.hs = h BY <1>s, <2>2 DEF Status
  <2>5. Continues(s, m, t) BY <2>1, <2>3, <2>4 DEF Continues, OfDive, InRecovery
  <2> QED BY <2>5 DEF t
<1>4. Continues(s, m, updateSurfaceBackstop(s, m))
  <2> DEFINE t == updateSurfaceBackstop(s, m)
  <2>1. \/ t.state = s.state /\ t.hs = s.hs
        \/ s.state = "DIVING" /\ t.state = "RECOVERY" /\ ~t.hs.dwell.on
    BY BackstopGood
  <2>2. (t.state = s.state /\ t.prev = s.prev) \/ s.state = "DIVING"
    BY <1>s, BackstopAccount DEF SameState
  <2> HIDE DEF t
  <2>3. Continues(s, m, t) BY <2>1, <2>2 DEF Continues, OfDive, InRecovery
  <2> QED BY <2>3 DEF t
<1>5. Continues(s, m, acknowledgeShutdown(s))
  <2> DEFINE t == acknowledgeShutdown(s)
             h == acknowledged(s.hs)
  <2>1. t = [s EXCEPT !.hs = h] BY DEF acknowledgeShutdown
  <2>2. h.dwell = s.hs.dwell BY AcknowledgedGood DEF Good
  <2> HIDE DEF t, h
  <2>3. t.state = s.state /\ t.prev = s.prev /\ t.hs = h BY <1>s, <2>1 DEF Status
  <2>4. Continues(s, m, t) BY <2>2, <2>3 DEF Continues, OfDive, InRecovery
  <2> QED BY <2>4 DEF t
<1>6. Continues(s, m, reset(s))
  <2>1. Good(reset(s)) /\ reset(s).state = "PRE_DIVE" BY <1>s, CallsEnterGood, FollowAccount
  <2> QED BY <2>1 DEF Continues, OfDive, Good, InRecovery
<1>7. ASSUME NEW d \in Nat PROVE Continues(s, m, StatusElapse(s, d))
  <2> DEFINE t == StatusElapse(s, d)
  <2>1. t.hs = HandshakeElapse(s.hs, d) BY ElapseGood
  <2>2. t.hs.dwell.on = s.hs.dwell.on BY <2>1, HandshakeElapseGood DEF Good
  <2>3. t.state = s.state /\ t.prev = s.prev BY <1>s, ElapseAccount
  <2> HIDE DEF t
  <2>4. Continues(s, m, t) BY <2>2, <2>3 DEF Continues, OfDive, InRecovery
  <2> QED BY <2>4 DEF t
<1> QED BY <1>1, <1>2, <1>3, <1>4, <1>5, <1>6, <1>7

LEMMA FollowContinues ==
  ASSUME NEW s, Good(s), NEW m \in MissionStore
  PROVE  LET t == followed(s, m.doris.value)
         IN  \/ Continues(s, m, t)
             \/ t.state = "DIVING" /\ m.doris.value # 4 /\ ~t.hs.dwell.on
<1> DEFINE v == m.doris.value
           t == followed(s, v)
<1>s. s \in Status /\ v \in -1 .. 4 BY DEF Good, MissionStore, Samples
<1>1. Good(t) BY <1>s, FollowedGood
<1>2. Led(s, t) BY <1>s, FollowAccount
<1>3. CASE s.state = "PRE_DIVE" /\ v \in 1 .. 3
  <2>1. t = enterState(s, "DIVING") BY <1>3 DEF followed, enterDiving
  <2>2. t.state = "DIVING" BY <1>3, <2>1, EnterAccount
  <2>3. ~t.hs.dwell.on BY <1>1, <2>2 DEF Good, InRecovery
  <2> QED BY <1>3, <2>2, <2>3
<1>4. CASE ~(s.state = "PRE_DIVE" /\ v \in 1 .. 3)
  <2>1. t = reset(s) \/ t = enterRecovery(s) \/ t = s BY <1>4 DEF followed
  <2>2. CASE t = reset(s) \/ t = s BY <2>2, CallsContinue
  <2>3. CASE t = enterRecovery(s)
    <3>1. Entered(s, t) BY <2>3, CallsEnterGood
    <3>2. CASE s.state = "RECOVERY"
      <4>1. t = s BY <2>3, <3>2 DEF enterRecovery, enterState
      <4> QED BY <4>1, CallsContinue
    <3>3. CASE s.state # "RECOVERY"
      <4>1. t.state = "RECOVERY" /\ t.prev = s.state
        BY <2>3, <3>3, EnterAccount DEF enterRecovery
      <4> HIDE DEF t
      <4>2. Continues(s, m, t) BY <3>1, <3>3, <4>1 DEF Continues, OfDive, InRecovery, Entered
      <4> QED BY <4>2 DEF t
    <3> QED BY <3>2, <3>3
  <2> QED BY <2>1, <2>2, <2>3
<1> QED BY <1>3, <1>4

\* What the log keeps of what Lua said.
LEMMA KeptAsked ==
  ASSUME log \in Logs, log' = Kept(log)
  PROVE  log'.asked = ((log.asked \/ HearState(4)) /\ ~Dives)
<1> DEFINE o == (log.asked \/ HearState(4)) /\ ~Dives
           l == IF sm'.state = "RECOVERY" THEN log.last ELSE "none"
<1>1. log' = [log EXCEPT !.last = l, !.asked = o] BY DEF Kept
<1> HIDE DEF o, l
<1>2. log'.asked = o BY <1>1 DEF Logs
<1> QED BY <1>2 DEF o

LEMMA AskedLogged ==
  ASSUME log \in Logs, [LogNext]_loggedVars
  PROVE  \/ log'.asked = log.asked
         \/ log' = Kept(log) /\ log'.asked = ((log.asked \/ HearState(4)) /\ ~Dives)
<1>1. ASSUME NEW located, NEW ok, log' = Logged(log, located, ok)
      PROVE  log'.asked = log.asked
  BY <1>1 DEF Logged, Logs
<1>2. ASSUME NEW q, log' = [log EXCEPT !.quiet = q] PROVE log'.asked = log.asked
  BY <1>2 DEF Logs
<1>3. ASSUME log' = Kept(log) PROVE log'.asked = ((log.asked \/ HearState(4)) /\ ~Dives)
  BY <1>3, KeptAsked
<1> QED BY <1>1, <1>2, <1>3 DEF LogNext, loggedVars

LEMMA AskedInductive ==
  /\ LogInit => AskedInv
  /\ ReportInv /\ AskedInv /\ ReportInv' /\ [LogNext]_loggedVars => AskedInv'
<1>1. ASSUME LogInit PROVE AskedInv
  <2>1. sm = StateMachine_init BY <1>1 DEF LogInit, Init
  <2>2. sm.state = "PRE_DIVE" /\ ~sm.hs.qualified
    BY <2>1 DEF StateMachine_init, PoweredIdle
  <2> QED BY <2>2 DEF AskedInv, AskedInThisDive, OfDive, InRecovery
<1>2. ASSUME ReportInv, AskedInv, ReportInv', [LogNext]_loggedVars PROVE AskedInv'
  <2>i. /\ Good(sm) /\ Good(sm') /\ md \in MissionStore /\ log \in Logs
        /\ log.asked \in BOOLEAN
    BY <1>2 DEF ReportInv, LoopInv, TypeOK, Logs
  <2>l. \/ log'.asked = log.asked
        \/ log' = Kept(log) /\ log'.asked = ((log.asked \/ HearState(4)) /\ ~Dives)
    BY <1>2, <2>i, AskedLogged
  <2>k. ASSUME Continues(sm, md, sm') PROVE log.asked => log'.asked
    <3>1. ~Dives BY <2>k DEF Continues, Dives
    <3> QED BY <2>l, <3>1
  <2>c. ASSUME Continues(sm, md, sm'), md'.doris.value = md.doris.value PROVE AskedInv'
    BY <1>2, <2>i, <2>k, <2>c, AskedKeeps
  <2>d. CASE Monitor \/ Power \/ Backstop \/ HearAck \/ OperatorReset
    <3>1. md' = md /\ Continues(sm, md, sm')
      BY <2>d, <2>i, CallsContinue
      DEF Monitor, Power, Backstop, HearAck, OperatorReset, Reading
    <3> QED BY <2>c, <3>1
  <2>e. CASE Follow
    <3>1. md' = md /\ sm' = followed(sm, md.doris.value) BY <2>e DEF Follow
    <3>2. CASE Continues(sm, md, sm') BY <2>c, <3>1, <3>2
    <3>3. CASE ~Continues(sm, md, sm')
      <4>1. md.doris.value # 4 /\ ~sm'.hs.dwell.on
        BY <2>i, <3>1, <3>3, FollowContinues
      <4>2. ~sm'.hs.qualified BY <2>i, <4>1 DEF Good, GoodHandshake, LatchOrder
      <4> QED BY <3>1, <4>1, <4>2 DEF AskedInv, AskedInThisDive
    <3> QED BY <3>2, <3>3
  <2>f. ASSUME NEW v \in DorisStates, HearState(v), log' = Kept(log) PROVE AskedInv'
    <3>1. sm' = sm /\ md'.doris.value = v
      BY <2>i, <2>f DEF HearState, update_doris_state, MissionStore, Now
    <3>2. Continues(sm, md, sm') BY <2>i, <3>1, CallsContinue
    <3>3. log.asked => log'.asked BY <2>k, <3>2
    <3>4. v = 4 => log'.asked
      <4>1. ~Dives BY <3>1 DEF Dives
      <4>2. log'.asked = ((log.asked \/ HearState(4)) /\ ~Dives)
        BY <2>f, <2>i, KeptAsked
      <4> QED BY <2>f, <4>1, <4>2
    <3> QED BY <1>2, <3>1, <3>3, <3>4 DEF AskedInv, AskedInThisDive
  <2>g. CASE \/ \E v \in Depths : HearDepth(v)
             \/ \E v \in Volts : HearVolt(v)
             \/ \E b \in BOOLEAN : SetLeak(b)
             \/ HearHeartbeat \/ RequestTest \/ SerialDone \/ Again
             \/ SkipTest \/ SkipReport \/ UNCHANGED loggedVars
    <3>1. sm' = sm /\ md'.doris = md.doris
      BY <2>g, <2>i
      DEF HearDepth, HearVolt, SetLeak, HearHeartbeat, RequestTest, machine, Reading,
          SerialDone, Again, SkipTest, SkipReport, loggedVars, vars, update_depth,
          update_autopilot_voltage, set_leak, update_heartbeat, MissionStore
    <3>2. Continues(sm, md, sm') BY <2>i, <3>1, CallsContinue
    <3> QED BY <2>c, <3>1, <3>2
  <2>h. ASSUME NEW d \in Nat, sm' = StatusElapse(sm, d), md' = MissionElapse(md, d)
        PROVE  AskedInv'
    <3>1. Continues(sm, md, sm') BY <2>h, <2>i, CallsContinue
    <3>2. md'.doris.value = md.doris.value
      BY <2>h, <2>i DEF MissionElapse, Older, MissionStore, Samples
    <3> QED BY <2>c, <3>1, <3>2
  <2>j. CASE Boot
    <3>1. sm'.state = "PRE_DIVE" BY <2>j DEF Boot, StateMachine_init
    <3>2. ~sm'.hs.qualified BY <2>i, <3>1 DEF Good, GoodHandshake, LatchOrder, InRecovery
    <3> QED BY <3>1, <3>2 DEF AskedInv, AskedInThisDive, OfDive, InRecovery
  <2>m. CASE \E b \in SessionTimes, ok \in BOOLEAN : ManualTest(b, ok) \/ Report(b, ok)
    BY <2>h, <2>m, DurationTypes DEF ManualTest, Report, Session
  <2>n. CASE \E d \in Durations : Delay(d) BY <2>h, <2>n, DurationTypes DEF Delay
  <2> QED BY <1>2, <2>d, <2>e, <2>f, <2>g, <2>j, <2>m, <2>n
          DEF LogNext, Instant, Serial, HearOther
<1> QED BY <1>1, <1>2

\* The handshake is begun by a STATE=4 said in the dive that the recovery ended.
THEOREM AskedInItsDive == ReportingSpec => []AskedInThisDive
<1>1. AskedInv => AskedInThisDive BY DEF AskedInv
<1> QED BY <1>1, AskedInductive, ReportInvariant, PTL DEF ReportingSpec
=============================================================================
