----------------------- MODULE StateMachineApiProofs ------------------------
(***************************************************************************)
(* What StateMachineApi promises whatever calls it in whatever order: its  *)
(* invariants, for every value of the thresholds and inputs, and that the  *)
(* flags and timers of the state machine implement the handshake of        *)
(* SurfacePower and within one recovery only move forward.  Both of these  *)
(* follow from one account of what each call does to the stage and its     *)
(* clock.                                                                  *)
(***************************************************************************)
EXTENDS StateMachineApi, StateMachineProofs

IInv == md \in MissionStore /\ Good(sm)

-----------------------------------------------------------------------------
(* The invariant *)

\* The initial state and every call keep the invariant.
LEMMA Inductive == (Init => IInv) /\ (IInv /\ [Next]_vars => IInv')
<1>1. Init => IInv BY InitGood, MissionType DEF Init, IInv
<1>2. ASSUME IInv, [Next]_vars PROVE IInv'
  <2> USE DEF IInv
  <2>1. CASE Update BY <1>2, <2>1, UpdateGood DEF Update
  <2>2. CASE UpdateSurfacePower BY <1>2, <2>2, UpdateSurfacePowerGood DEF UpdateSurfacePower
  <2>3. CASE UpdateBackstop BY <1>2, <2>3, BackstopGood DEF UpdateBackstop
  <2>4. CASE AcknowledgeShutdown BY <1>2, <2>4, AcknowledgeShutdownGood DEF AcknowledgeShutdown
  <2>5. CASE EnterDiving BY <1>2, <2>5, CallsEnterGood DEF EnterDiving
  <2>6. CASE EnterRecovery BY <1>2, <2>6, CallsEnterGood DEF EnterRecovery
  <2>7. CASE Reset BY <1>2, <2>7, CallsEnterGood DEF Reset
  <2>8. CASE UpdateDoris BY <1>2, <2>8, MissionType DEF UpdateDoris
  <2>9. CASE UpdateDepth BY <1>2, <2>9, MissionType DEF UpdateDepth
  <2>10. CASE UpdateVolt BY <1>2, <2>10, MissionType DEF UpdateVolt
  <2>11. CASE UpdateHeartbeat BY <1>2, <2>11, MissionType DEF UpdateHeartbeat
  <2>12. CASE SetLeak BY <1>2, <2>12, MissionType DEF SetLeak
  <2>13. CASE Boot BY <1>2, <2>13, InitGood, MissionType DEF Boot
  <2>14. CASE Elapse
    <3>1. PICK d \in Durations : md' = MissionElapse(md, d) /\ sm' = StatusElapse(sm, d)
      BY <2>14 DEF Elapse
    <3>2. d \in Nat BY DurationsAssumption DEF DurationsAssumption
    <3> QED BY <1>2, <3>1, <3>2, ElapseGood, MissionType
  <2>15. CASE UNCHANGED vars BY <1>2, <2>15 DEF vars
  <2> QED BY <1>2, <2>1, <2>2, <2>3, <2>4, <2>5, <2>6, <2>7, <2>8, <2>9, <2>10, <2>11,
             <2>12, <2>13, <2>14, <2>15 DEF Next
<1> QED BY <1>1, <1>2

\* Every call of the API, a reboot and the passing of time keep the invariant.
THEOREM Invariant == Spec => []IInv
BY Inductive, PTL DEF Spec

\* Every call leaves mission data and status within their types: no clock runs
\* past its bound and no value outside its domain is ever stored.
THEOREM TypeCorrect == Spec => []TypeOK
<1>1. IInv => TypeOK BY DEF IInv, Good, TypeOK
<1> QED BY <1>1, Invariant, PTL

\* The payload relay opens only at the end of a whole handshake, whatever the
\* timings and whatever order the API is called in.
THEOREM CutoffIsEarned == Spec => []CutoffEarned
<1>1. ASSUME IInv PROVE CutoffEarned
  <2> DEFINE h == sm.hs
  <2>1. h \in Handshakes /\ LatchOrder(h) BY <1>1 DEF IInv, Good, GoodHandshake
  <2>2. SUFFICES ASSUME ~h.powered PROVE CutoffEarned BY DEF CutoffEarned
  <2>3. /\ h.ack.on /\ h.ack.age = POWER_SHUTDOWN_FINAL_GRACE /\ h.requested
        /\ h.dwell.on /\ h.dwell.age = SURFACE_LOGGING_DWELL /\ h.qualified
    BY <2>1, <2>2 DEF LatchOrder
  <2>4. sm.state = "RECOVERY" /\ sm.prev = "DIVING"
    BY <1>1, <2>3 DEF IInv, Good, InRecovery
  <2>5. h.dwell = [on |-> TRUE, age |-> SURFACE_LOGGING_DWELL]
    <3>1. h.dwell \in Stopwatches(SURFACE_LOGGING_DWELL) BY <2>1, HandshakeFields
    <3>2. h.dwell.on = TRUE BY <2>3, <3>1 DEF Stopwatches
    <3> QED BY <2>3, <3>1, <3>2 DEF Stopwatches
  <2>6. h.ack = [on |-> TRUE, age |-> POWER_SHUTDOWN_FINAL_GRACE]
    <3>1. h.ack \in Stopwatches(POWER_SHUTDOWN_FINAL_GRACE) BY <2>1, HandshakeFields
    <3>2. h.ack.on = TRUE BY <2>3, <3>1 DEF Stopwatches
    <3> QED BY <2>3, <3>1, <3>2 DEF Stopwatches
  <2> QED BY <2>3, <2>4, <2>5, <2>6 DEF CutoffEarned
<1> QED BY <1>1, Invariant, PTL

\* No latch of the handshake outlives the recovery it was raised in, though
\* entering RECOVERY clears none of them.
THEOREM HandshakeIsOfThisDive == Spec => []HandshakeOfThisDive
<1>1. IInv => HandshakeOfThisDive
  BY DEF IInv, Good, GoodHandshake, LatchOrder, InRecovery, HandshakeOfThisDive
<1> QED BY <1>1, Invariant, PTL

\* The relay is always where the firmware believes it is.
THEOREM RelayIsFollowed == Spec => []RelayFollowsPower
<1>1. IInv => RelayFollowsPower
  BY DEF IInv, Good, GoodHandshake, LatchOrder, RelayFollowsPower
<1> QED BY <1>1, Invariant, PTL

\* A failsafe on record always belongs to the recovery the vehicle is in.
THEOREM FailsafeIsExplained == Spec => []FailsafeExplainsRecovery
<1>1. IInv => FailsafeExplainsRecovery
  BY DEF IInv, Good, InRecovery, FailsafeExplainsRecovery
<1> QED BY <1>1, Invariant, PTL

-----------------------------------------------------------------------------
(* The handshake *)

(***************************************************************************)
(* The steps of the abstract handshake on stages and clocks, without the   *)
(* one that abandons it: a move, or a wait of some length.                 *)
(***************************************************************************)
Moves(a, c, b, e) ==
    \/ b = a /\ e = c
    \/ a = "IDLE" /\ b = "LOGGING" /\ e = 0
    \/ a = "LOGGING" /\ c = SURFACE_LOGGING_DWELL /\ b = "AWAITING_ACK" /\ e = c
    \/ a = "AWAITING_ACK" /\ b = "ACKNOWLEDGED" /\ e = 0
    \/ a = "ACKNOWLEDGED" /\ c = POWER_SHUTDOWN_FINAL_GRACE /\ b = "PAYLOAD_OFF" /\ e = c

Waits(a, c, b, e, d) ==
    /\ a # "IDLE" /\ b = a
    /\ e = Power!Bounded(c + d, IF a \in {"LOGGING", "AWAITING_ACK"}
                                THEN SURFACE_LOGGING_DWELL
                                ELSE POWER_SHUTDOWN_FINAL_GRACE)

Advances(h, k) ==
    \/ Moves(Stage(h), Clock(h), Stage(k), Clock(k))
    \/ \E d \in Durations : Waits(Stage(h), Clock(h), Stage(k), Clock(k), d)

\* Each good handshake is in the stage its highest latch says.
LEMMA StageOf ==
  ASSUME NEW h, GoodHandshake(h)
  PROVE  /\ ~h.dwell.on => /\ Stage(h) = "IDLE" /\ Clock(h) = 0
                           /\ h.powered /\ ~h.ack.on
         /\ h.dwell.on /\ ~h.requested => /\ Stage(h) = "LOGGING"
                                          /\ Clock(h) = h.dwell.age /\ ~h.ack.on
         /\ h.requested /\ ~h.ack.on => /\ Stage(h) = "AWAITING_ACK"
                                        /\ Clock(h) = SURFACE_LOGGING_DWELL
                                        /\ h.dwell.on
         /\ h.ack.on /\ h.powered => Stage(h) = "ACKNOWLEDGED" /\ Clock(h) = h.ack.age
         /\ ~h.powered => /\ Stage(h) = "PAYLOAD_OFF"
                          /\ Clock(h) = POWER_SHUTDOWN_FINAL_GRACE /\ h.ack.on
         /\ h.ack.on => h.requested /\ h.dwell.on
<1>1. LatchOrder(h) BY DEF GoodHandshake
<1> QED BY <1>1 DEF LatchOrder, Stage, PowerShutdownStage, Clock

LEMMA SurfacePowerAdvances ==
  ASSUME NEW h, GoodHandshake(h), NEW b \in BOOLEAN
  PROVE  Advances(h, surfacePower(h, b))
<1> DEFINE k == surfacePower(h, b)
<1>g. GoodHandshake(k) BY SurfacePowerGood
<1>1. CASE h.ack.on
  <2>1. k = cutoff(h) BY <1>1 DEF surfacePower
  <2>2. /\ k.dwell = h.dwell /\ k.ack = h.ack /\ k.requested = h.requested
        /\ k.powered => h.powered
        /\ ~k.powered => h.ack.age = POWER_SHUTDOWN_FINAL_GRACE
    BY <1>1, <2>1, CutoffGood
  <2> HIDE DEF k
  <2>3. CASE k.powered
    <3>1. Stage(h) = "ACKNOWLEDGED" /\ Clock(h) = h.ack.age BY <1>1, <2>2, <2>3, StageOf
    <3>2. Stage(k) = "ACKNOWLEDGED" /\ Clock(k) = h.ack.age
      BY <1>1, <1>g, <2>2, <2>3, StageOf
    <3> QED BY <3>1, <3>2 DEF Advances, Moves, k
  <2>4. CASE ~k.powered
    <3>1. Stage(k) = "PAYLOAD_OFF" /\ Clock(k) = POWER_SHUTDOWN_FINAL_GRACE
      BY <1>g, <2>4, StageOf
    <3>2. Clock(h) = POWER_SHUTDOWN_FINAL_GRACE
            /\ Stage(h) \in {"ACKNOWLEDGED", "PAYLOAD_OFF"}
      BY <1>1, <2>2, <2>4, StageOf
    <3> QED BY <3>1, <3>2 DEF Advances, Moves, k
  <2> QED BY <2>3, <2>4
<1>2. CASE ~h.ack.on /\ h.dwell.on
  <2>1. k = dwelled(h) BY <1>2 DEF surfacePower
  <2>2. /\ k.dwell = h.dwell /\ k.ack = h.ack
        /\ h.requested => k.requested
        /\ k.requested => h.dwell.age = SURFACE_LOGGING_DWELL
        /\ k.powered = h.powered
    BY <1>2, <2>1, DwelledGood
  <2> HIDE DEF k
  <2>3. CASE ~k.requested
    <3>1. Stage(h) = "LOGGING" /\ Clock(h) = h.dwell.age BY <1>2, <2>2, <2>3, StageOf
    <3>2. Stage(k) = "LOGGING" /\ Clock(k) = h.dwell.age
      BY <1>2, <1>g, <2>2, <2>3, StageOf
    <3> QED BY <3>1, <3>2 DEF Advances, Moves, k
  <2>4. CASE k.requested
    <3>1. Stage(k) = "AWAITING_ACK" /\ Clock(k) = SURFACE_LOGGING_DWELL
      BY <1>2, <1>g, <2>2, <2>4, StageOf
    <3>2. Clock(h) = SURFACE_LOGGING_DWELL /\ Stage(h) \in {"LOGGING", "AWAITING_ACK"}
      BY <1>2, <2>2, <2>4, StageOf
    <3> QED BY <3>1, <3>2 DEF Advances, Moves, k
  <2> QED BY <2>3, <2>4
<1>3. CASE ~h.ack.on /\ ~h.dwell.on /\ b
  <2>1. k = dwelled([h EXCEPT !.qualified = TRUE, !.dwell = Started])
    BY <1>3 DEF surfacePower
  <2>2. k.dwell = Started /\ ~k.requested BY <1>3, <2>1, AuthorizedGood
  <2>3. Started.on /\ Started.age = 0 BY DEF Started
  <2> HIDE DEF k
  <2>4. Stage(h) = "IDLE" BY <1>3, StageOf
  <2>5. Stage(k) = "LOGGING" /\ Clock(k) = 0 BY <1>g, <2>2, <2>3, StageOf
  <2> QED BY <2>4, <2>5 DEF Advances, Moves, k
<1>4. CASE ~h.ack.on /\ ~h.dwell.on /\ ~b
  <2>1. k = [h EXCEPT !.qualified = FALSE, !.requested = FALSE]
    BY <1>4 DEF surfacePower
  <2>2. k = h BY <1>4, <2>1, IdlePassGood
  <2> QED BY <2>2 DEF Advances, Moves
<1> QED BY <1>1, <1>2, <1>3, <1>4

LEMMA AcknowledgedAdvances ==
  ASSUME NEW h, GoodHandshake(h)
  PROVE  Advances(h, acknowledged(h))
<1> DEFINE k == acknowledged(h)
<1>1. /\ GoodHandshake(k) /\ k.dwell = h.dwell /\ k.requested = h.requested
      /\ k.powered = h.powered
      /\ k = h \/ (~h.ack.on /\ h.requested /\ k.ack = Started)
  BY AcknowledgedGood
<1>2. Started.on /\ Started.age = 0 BY DEF Started
<1> HIDE DEF k
<1>3. CASE k = h BY <1>3 DEF Advances, Moves, k
<1>4. CASE ~h.ack.on /\ h.requested /\ k.ack = Started
  <2>1. Stage(h) = "AWAITING_ACK" BY <1>4, StageOf
  <2>2. h.powered BY <1>4, StageOf
  <2>3. Stage(k) = "ACKNOWLEDGED" /\ Clock(k) = 0 BY <1>1, <1>2, <1>4, <2>2, StageOf
  <2> QED BY <2>1, <2>3 DEF Advances, Moves, k
<1> QED BY <1>1, <1>3, <1>4

LEMMA ElapseAdvances ==
  ASSUME NEW h, GoodHandshake(h), NEW d \in Durations
  PROVE  Advances(h, HandshakeElapse(h, d))
<1> DEFINE k == HandshakeElapse(h, d)
<1>d. d \in Nat BY DurationsAssumption DEF DurationsAssumption
<1>1. /\ GoodHandshake(k) /\ k.powered = h.powered /\ k.requested = h.requested
      /\ k.dwell.on = h.dwell.on
      /\ k.dwell = Run(h.dwell, d, SURFACE_LOGGING_DWELL)
      /\ k.ack = Run(h.ack, d, POWER_SHUTDOWN_FINAL_GRACE)
  BY <1>d, HandshakeElapseGood
<1>2. /\ h.dwell \in Stopwatches(SURFACE_LOGGING_DWELL)
      /\ h.ack \in Stopwatches(POWER_SHUTDOWN_FINAL_GRACE)
  BY HandshakeFields DEF GoodHandshake
<1>3. k.ack.on = h.ack.on BY <1>1, <1>2 DEF Run, Stopwatches
<1>4. h.dwell.on => k.dwell.age = Aged(h.dwell.age, d, SURFACE_LOGGING_DWELL)
  BY <1>1, <1>2 DEF Run, Stopwatches
<1>5. h.ack.on => k.ack.age = Aged(h.ack.age, d, POWER_SHUTDOWN_FINAL_GRACE)
  BY <1>1, <1>2 DEF Run, Stopwatches
<1> HIDE DEF k
<1>6. CASE ~h.dwell.on
  <2>1. Stage(h) = "IDLE" /\ Clock(h) = 0 BY <1>6, StageOf
  <2>2. Stage(k) = "IDLE" /\ Clock(k) = 0 BY <1>1, <1>6, StageOf
  <2> QED BY <2>1, <2>2 DEF Advances, Moves, k
<1>7. CASE h.dwell.on /\ ~h.requested
  <2>1. Stage(h) = "LOGGING" /\ Clock(h) = h.dwell.age BY <1>7, StageOf
  <2>2. Stage(k) = "LOGGING" /\ Clock(k) = k.dwell.age BY <1>1, <1>7, StageOf
  <2>3. Clock(k) = Power!Bounded(Clock(h) + d, SURFACE_LOGGING_DWELL)
    BY <1>4, <1>7, <2>1, <2>2 DEF Aged, Power!Bounded
  <2>4. Waits(Stage(h), Clock(h), Stage(k), Clock(k), d) BY <2>1, <2>2, <2>3 DEF Waits
  <2> QED BY <2>4 DEF Advances, k
<1>8. CASE h.requested /\ ~h.ack.on
  <2>1. Stage(h) = "AWAITING_ACK" /\ Clock(h) = SURFACE_LOGGING_DWELL BY <1>8, StageOf
  <2>2. Stage(k) = "AWAITING_ACK" /\ Clock(k) = SURFACE_LOGGING_DWELL
    BY <1>1, <1>3, <1>8, StageOf
  <2> QED BY <2>1, <2>2 DEF Advances, Moves, k
<1>9. CASE h.ack.on /\ h.powered
  <2>1. Stage(h) = "ACKNOWLEDGED" /\ Clock(h) = h.ack.age BY <1>9, StageOf
  <2>2. Stage(k) = "ACKNOWLEDGED" /\ Clock(k) = k.ack.age BY <1>1, <1>3, <1>9, StageOf
  <2>3. Clock(k) = Power!Bounded(Clock(h) + d, POWER_SHUTDOWN_FINAL_GRACE)
    BY <1>5, <1>9, <2>1, <2>2 DEF Aged, Power!Bounded
  <2>4. Waits(Stage(h), Clock(h), Stage(k), Clock(k), d) BY <2>1, <2>2, <2>3 DEF Waits
  <2> QED BY <2>4 DEF Advances, k
<1>10. CASE ~h.powered
  <2>1. Stage(h) = "PAYLOAD_OFF" /\ Clock(h) = POWER_SHUTDOWN_FINAL_GRACE
    BY <1>10, StageOf
  <2>2. Stage(k) = "PAYLOAD_OFF" /\ Clock(k) = POWER_SHUTDOWN_FINAL_GRACE
    BY <1>1, <1>10, StageOf
  <2> QED BY <2>1, <2>2 DEF Advances, Moves, k
<1> QED BY <1>6, <1>7, <1>8, <1>9, <1>10 DEF k

\* A handshake that has ended is idle, wherever it came from.
LEMMA EndedIsIdle ==
  ASSUME NEW h, GoodHandshake(h), NEW k, GoodHandshake(k), ~k.dwell.on
  PROVE  \/ Advances(h, k)
         \/ Stage(h) # "IDLE" /\ Stage(k) = "IDLE" /\ Clock(k) = 0
<1>1. Stage(k) = "IDLE" /\ Clock(k) = 0 BY StageOf
<1>2. CASE Stage(h) = "IDLE"
  <2>1. Clock(h) = 0 BY <1>2, StageOf DEF GoodHandshake, Handshakes
  <2> QED BY <1>1, <1>2, <2>1 DEF Advances, Moves
<1>3. CASE Stage(h) # "IDLE" BY <1>1, <1>3
<1> QED BY <1>2, <1>3

-----------------------------------------------------------------------------
(* Every step of the API: the handshake goes forward, or it ends, and it   *)
(* ends only when the state changes or when it had not begun.              *)

LEMMA NextAdvances ==
  ASSUME IInv, [Next]_vars
  PROVE  \/ Advances(sm.hs, sm'.hs)
         \/ sm'.state # sm.state /\ ~sm'.hs.dwell.on
<1>i. Good(sm) /\ GoodHandshake(sm.hs) /\ md \in MissionStore BY DEF IInv, Good
<1>u. sm'.hs = sm.hs => Advances(sm.hs, sm'.hs) BY DEF Advances, Moves
<1>1. CASE Update BY <1>1, <1>i, <1>u, UpdateGood DEF Update
<1>2. CASE UpdateSurfacePower
  BY <1>2, <1>i, UpdateSurfacePowerGood, SurfacePowerAdvances DEF UpdateSurfacePower
<1>3. CASE UpdateBackstop BY <1>3, <1>i, <1>u, BackstopGood DEF UpdateBackstop
<1>4. CASE AcknowledgeShutdown
  BY <1>4, <1>i, AcknowledgeShutdownGood, AcknowledgedAdvances DEF AcknowledgeShutdown
<1>5. CASE EnterDiving BY <1>5, <1>i, <1>u, CallsEnterGood DEF EnterDiving, Entered
<1>6. CASE EnterRecovery BY <1>6, <1>i, <1>u, CallsEnterGood DEF EnterRecovery, Entered
<1>7. CASE Reset BY <1>7, <1>i, <1>u, CallsEnterGood DEF Reset, Entered
<1>8. CASE UNCHANGED sm BY <1>8, <1>u
<1>9. CASE Boot
  <2>1. sm' = StateMachine_init BY <1>9 DEF Boot
  <2>2. sm'.state = "PRE_DIVE" /\ sm'.hs = PoweredIdle BY <2>1 DEF StateMachine_init
  <2>3. ~PoweredIdle.dwell.on BY DEF PoweredIdle, Stopped
  <2>4. CASE sm.state = "PRE_DIVE"
    <3>1. ~sm.hs.dwell.on BY <1>i, <2>4 DEF Good, InRecovery
    <3>2. GoodHandshake(PoweredIdle) BY IdleGood
    <3>3. Stage(sm.hs) = "IDLE" /\ Clock(sm.hs) = 0 BY <1>i, <3>1, StageOf
    <3>4. Stage(PoweredIdle) = "IDLE" /\ Clock(PoweredIdle) = 0 BY <2>3, <3>2, StageOf
    <3> QED BY <2>2, <3>3, <3>4 DEF Advances, Moves
  <2>5. CASE sm.state # "PRE_DIVE" BY <2>2, <2>3, <2>5
  <2> QED BY <2>4, <2>5
<1>10. CASE Elapse
  <2>1. PICK d \in Durations : sm' = StatusElapse(sm, d) BY <1>10 DEF Elapse
  <2>2. d \in Nat BY DurationsAssumption DEF DurationsAssumption
  <2>3. sm'.hs = HandshakeElapse(sm.hs, d) BY <1>i, <2>1, <2>2, ElapseGood
  <2> QED BY <1>i, <2>3, ElapseAdvances
<1> QED
  BY <1>1, <1>2, <1>3, <1>4, <1>5, <1>6, <1>7, <1>8, <1>9, <1>10
  DEF Next, vars, UpdateDoris, UpdateDepth, UpdateVolt, UpdateHeartbeat, SetLeak

\* Within one recovery no stale value, repeated or premature ACK, silent link or
\* quiet hour moves the handshake back.
THEOREM NeverStepsBack == Spec => HandshakeNeverStepsBack
<1>1. ASSUME IInv, [Next]_vars, sm'.state = sm.state
      PROVE  Progress[Stage(sm'.hs)] >= Progress[Stage(sm.hs)]
  <2>1. Advances(sm.hs, sm'.hs) BY <1>1, NextAdvances
  <2>2. Stage(sm.hs) \in DOMAIN Progress
    BY DEF Stage, PowerShutdownStage, Progress
  <2> QED BY <2>1, <2>2 DEF Advances, Moves, Waits, Progress
<1> QED BY <1>1, Invariant, PTL DEF Spec, HandshakeNeverStepsBack

\* The firmware's handshake is the abstract one: payload power goes only after
\* authorization, dwell, request, ACK and final grace, each in its turn.
THEOREM ImplementsPower == Spec => PowerSpec
<1>1. Init => Power!Init
  <2>1. GoodHandshake(PoweredIdle) /\ ~PoweredIdle.dwell.on
    BY IdleGood DEF PoweredIdle, Stopped
  <2>2. Stage(PoweredIdle) = "IDLE" /\ Clock(PoweredIdle) = 0 BY <2>1, StageOf
  <2>3. Init => sm.hs = PoweredIdle BY DEF Init, StateMachine_init
  <2> QED BY <2>2, <2>3 DEF Power!Init
<1>2. ASSUME IInv, IInv', [Next]_vars PROVE [Power!Next]_(Power!power)
  <2>1. CASE Advances(sm.hs, sm'.hs)
    BY <2>1 DEF Advances, Moves, Waits, Power!Next, Power!power, Power!Authorize,
       Power!Request, Power!Acknowledge, Power!PowerOff, Power!Wait
  <2>2. CASE ~sm'.hs.dwell.on
    <3>1. GoodHandshake(sm.hs) /\ GoodHandshake(sm'.hs) BY <1>2 DEF IInv, Good
    <3>2. \/ Stage(sm.hs) # "IDLE" /\ Stage(sm'.hs) = "IDLE" /\ Clock(sm'.hs) = 0
          \/ Advances(sm.hs, sm'.hs)
      BY <2>2, <3>1, EndedIsIdle
    <3> QED BY <2>1, <3>2 DEF Power!Next, Power!Abandon
  <2> QED BY <1>2, <2>1, <2>2, NextAdvances
<1> QED BY <1>1, <1>2, Invariant, PTL DEF Spec, PowerSpec, Power!Spec

-----------------------------------------------------------------------------
(***************************************************************************)
(* The backstop and a depth channel that hardly moves.  A band holds every *)
(* depth such a channel stores; the window of the backstop stays in it,    *)
(* whatever opens, widens or drops the window, and so never qualifies.     *)
(***************************************************************************)

\* What update_depth stores of a reading: nothing is above the surface.
Stored(v) == IF v < 0 THEN 0 ELSE v

Band(low) == {x \in Nat : low <= x /\ x < low + SURFACE_DEPTH_LIVENESS}

ReadsWithin(low) == \A v \in Depths : v # NotFinite => Stored(v) \in Band(low)

\* The channel moves by less than the backstop asks for: frozen, or noisy.
HardlyMoves == \E low \in Nat : ReadsWithin(low)

DepthWithin(m, low) == m.depth.valid => m.depth.value \in Band(low)

WindowWithin(w, low) == w.timer.on => w.min \in Band(low) /\ w.max \in Band(low)

StillInv ==
    \A low \in Nat : ReadsWithin(low) => DepthWithin(md, low) /\ WindowWithin(sm.win, low)

\* Only the backstop and time touch the window.
LEMMA WindowKept ==
  ASSUME NEW s, s \in Status, NEW m, NEW t \in States
  PROVE  /\ enterState(s, t).win = s.win
         /\ enterDiving(s).win = s.win /\ reset(s).win = s.win
         /\ update(s, m).win = s.win
         /\ updateSurfacePower(s, m).win = s.win
         /\ acknowledgeShutdown(s).win = s.win
<1>e. ASSUME NEW r, NEW u PROVE enterState(r, u).win = r.win BY DEF enterState
<1>f. \A f : [s EXCEPT !.failsafe = f].win = s.win BY DEF Status
<1>1. enterDiving(s).win = s.win BY <1>e DEF enterDiving
<1>2. reset(s).win = s.win BY <1>e, <1>f DEF reset
<1>3. update(s, m).win = s.win
  <2>1. ASSUME NEW b
        PROVE  /\ timeVoltage(s, b).win = s.win
               /\ \A f : [timeVoltage(s, b) EXCEPT !.failsafe = f].win = s.win
    BY DEF timeVoltage, Status
  <2>2. ASSUME NEW r, NEW f, r.win = s.win, [r EXCEPT !.failsafe = f].win = s.win
        PROVE  triggerFailsafe(r, f).win = s.win
    <3> DEFINE c == [r EXCEPT !.failsafe = f]
    <3>1. enterState(c, "RECOVERY").win = c.win BY <1>e
    <3> QED BY <2>2, <3>1 DEF triggerFailsafe
  <2>3. \A f : triggerFailsafe(s, f).win = s.win BY <1>f, <2>2
  <2>4. \A b, f : triggerFailsafe(timeVoltage(s, b), f).win = s.win BY <2>1, <2>2
  <2> QED BY <2>1, <2>3, <2>4 DEF update, monitor
<1>4. updateSurfacePower(s, m).win = s.win BY DEF updateSurfacePower, Status
<1>5. acknowledgeShutdown(s).win = s.win BY DEF acknowledgeShutdown, Status
<1> QED BY <1>e, <1>1, <1>2, <1>3, <1>4, <1>5

\* One more depth of the band leaves the window in it, and so too narrow.
LEMMA WidenWithin ==
  ASSUME NEW w \in Windows, NEW low \in Nat, WindowWithin(w, low), NEW v \in Band(low)
  PROVE  WindowWithin(widen(w, v), low) /\ ~windowQualified(widen(w, v))
<1> DEFINE x == widen(w, v)
<1>b. SURFACE_DEPTH_LIVENESS \in Nat
  BY StateMachineAssumption DEF StateMachineAssumption
<1>1. x.min \in Band(low) /\ x.max \in Band(low)
  <2>1. CASE w.timer.on
    <3> DEFINE lo == IF v < w.min THEN v ELSE w.min
               hi == IF v > w.max THEN v ELSE w.max
    <3>1. lo \in Band(low) /\ hi \in Band(low) BY <2>1 DEF WindowWithin
    <3>2. x = [w EXCEPT !.min = lo, !.max = hi] BY <2>1 DEF widen
    <3> HIDE DEF lo, hi, x
    <3>3. x.min = lo /\ x.max = hi BY <3>2 DEF Windows
    <3> QED BY <3>1, <3>3
  <2>2. CASE ~w.timer.on BY <2>2 DEF widen
  <2> QED BY <2>1, <2>2
<1> HIDE DEF x
<1>2. x.max - x.min < SURFACE_DEPTH_LIVENESS BY <1>1, <1>b DEF Band
<1>3. ~windowQualified(x) BY <1>1, <1>2, <1>b DEF windowQualified, Band
<1> QED BY <1>1, <1>3 DEF WindowWithin, x

\* The backstop finds the depth and the window in the band, and leaves the state
\* alone and the window in the band.
LEMMA BackstopStill ==
  ASSUME NEW s \in Status, NEW m, NEW low \in Nat,
         DepthWithin(m, low), WindowWithin(s.win, low)
  PROVE  LET t == updateSurfaceBackstop(s, m)
         IN  t.state = s.state /\ WindowWithin(t.win, low)
<1> DEFINE w == widen(s.win, m.depth.value)
           closed == [s EXCEPT !.win = NoWindow]
           opened == [s EXCEPT !.win = w]
<1>1. CASE ~Ascending(s, m) \/ ~Shallow(m)
  <2>1. updateSurfaceBackstop(s, m) = closed BY <1>1 DEF updateSurfaceBackstop
  <2>2. closed.state = s.state /\ closed.win = NoWindow BY DEF Status
  <2>3. ~NoWindow.timer.on BY DEF NoWindow, Stopped
  <2> QED BY <2>1, <2>2, <2>3 DEF WindowWithin
<1>2. CASE Ascending(s, m) /\ Shallow(m)
  <2>1. m.depth.value \in Band(low) BY <1>2 DEF Shallow, Fresh, DepthWithin
  <2>2. WindowWithin(w, low) /\ ~windowQualified(w)
    BY <2>1, StatusFields, WidenWithin
  <2>3. updateSurfaceBackstop(s, m) = opened BY <1>2, <2>2 DEF updateSurfaceBackstop
  <2> HIDE DEF w
  <2>4. opened.state = s.state /\ opened.win = w BY DEF Status
  <2> QED BY <2>2, <2>3, <2>4
<1> QED BY <1>1, <1>2

\* The handlers store nothing outside the band.
LEMMA DepthsStored ==
  ASSUME NEW m \in MissionStore, NEW low \in Nat, ReadsWithin(low), DepthWithin(m, low)
  PROVE  /\ \A v \in Depths : DepthWithin(update_depth(m, v), low)
         /\ \A v : /\ DepthWithin(update_doris_state(m, v), low)
                   /\ DepthWithin(update_autopilot_voltage(m, v), low)
                   /\ DepthWithin(set_leak(m, v), low)
         /\ DepthWithin(update_heartbeat(m), low)
         /\ \A d : DepthWithin(MissionElapse(m, d), low)
<1>1. ASSUME NEW v \in Depths PROVE DepthWithin(update_depth(m, v), low)
  <2>1. CASE v = NotFinite BY <2>1 DEF update_depth
  <2>2. CASE v # NotFinite
    <3>1. Stored(v) \in Band(low) BY <2>2 DEF ReadsWithin
    <3>2. update_depth(m, v) = [m EXCEPT !.depth = Now(Stored(v))]
      BY <2>2 DEF update_depth, Stored
    <3>3. update_depth(m, v).depth = Now(Stored(v)) BY <3>2 DEF MissionStore
    <3> QED BY <3>1, <3>3 DEF DepthWithin, Now
  <2> QED BY <2>1, <2>2
<1>2. \A v : /\ update_doris_state(m, v).depth = m.depth
             /\ update_autopilot_voltage(m, v).depth = m.depth
             /\ set_leak(m, v).depth = m.depth
  BY DEF update_doris_state, update_autopilot_voltage, set_leak, MissionStore
<1>3. update_heartbeat(m).depth = m.depth BY DEF update_heartbeat, MissionStore
<1>4. ASSUME NEW d PROVE DepthWithin(MissionElapse(m, d), low)
  <2>1. MissionElapse(m, d).depth = Older(m.depth, d) BY DEF MissionElapse
  <2>2. m.depth \in Samples(Nat) BY DEF MissionStore
  <2>3. Older(m.depth, d).valid = m.depth.valid /\ Older(m.depth, d).value = m.depth.value
    BY <2>2 DEF Older, Samples
  <2> QED BY <2>1, <2>3 DEF DepthWithin
<1> QED BY <1>1, <1>2, <1>3, <1>4 DEF DepthWithin

LEMMA StillInductive == (Init => StillInv) /\ (IInv /\ StillInv /\ [Next]_vars => StillInv')
<1>0. /\ \A low : DepthWithin(MissionData_init, low)
      /\ \A low : WindowWithin(StateMachine_init.win, low)
  BY DEF MissionData_init, Never, DepthWithin, StateMachine_init, NoWindow, Stopped, WindowWithin
<1>1. Init => StillInv BY <1>0 DEF Init, StillInv
<1>2. ASSUME IInv, StillInv, [Next]_vars, NEW low \in Nat, ReadsWithin(low)
      PROVE  DepthWithin(md', low) /\ WindowWithin(sm'.win, low)
  <2>i. /\ md \in MissionStore /\ sm \in Status
        /\ DepthWithin(md, low) /\ WindowWithin(sm.win, low)
    BY <1>2 DEF IInv, Good, StillInv
  <2>r. "RECOVERY" \in States BY DEF States
  <2>1. CASE Update BY <2>1, <2>i, <2>r, WindowKept DEF Update
  <2>2. CASE UpdateSurfacePower BY <2>2, <2>i, <2>r, WindowKept DEF UpdateSurfacePower
  <2>3. CASE UpdateBackstop BY <2>3, <2>i, BackstopStill DEF UpdateBackstop
  <2>4. CASE AcknowledgeShutdown BY <2>4, <2>i, <2>r, WindowKept DEF AcknowledgeShutdown
  <2>5. CASE EnterDiving BY <2>5, <2>i, <2>r, WindowKept DEF EnterDiving
  <2>6. CASE EnterRecovery
    BY <2>6, <2>i, <2>r, WindowKept DEF EnterRecovery, enterRecovery
  <2>7. CASE Reset BY <2>7, <2>i, <2>r, WindowKept DEF Reset
  <2>8. CASE UpdateDoris \/ UpdateDepth \/ UpdateVolt \/ UpdateHeartbeat \/ SetLeak
    BY <1>2, <2>8, <2>i, DepthsStored
    DEF UpdateDoris, UpdateDepth, UpdateVolt, UpdateHeartbeat, SetLeak
  <2>9. CASE Boot BY <1>0, <2>9 DEF Boot
  <2>10. CASE Elapse
    <3>1. PICK d \in Durations : md' = MissionElapse(md, d) /\ sm' = StatusElapse(sm, d)
      BY <2>10 DEF Elapse
    <3>2. DepthWithin(md', low) BY <1>2, <2>i, <3>1, DepthsStored
    <3>3. sm'.win = [sm.win EXCEPT !.timer = Run(@, d, SURFACE_QUALIFY)]
      BY <3>1 DEF StatusElapse
    <3>4. sm.win \in Windows BY <2>i, StatusFields
    <3>5. /\ sm'.win.min = sm.win.min /\ sm'.win.max = sm.win.max
          /\ sm'.win.timer = Run(sm.win.timer, d, SURFACE_QUALIFY)
      BY <3>3, <3>4 DEF Windows
    <3>6. sm'.win.timer.on = sm.win.timer.on
      BY <3>4, <3>5 DEF Windows, Stopwatches, Run
    <3> QED BY <2>i, <3>2, <3>5, <3>6 DEF WindowWithin
  <2>11. CASE UNCHANGED vars BY <2>11, <2>i DEF vars
  <2> QED
    BY <1>2, <2>1, <2>2, <2>3, <2>4, <2>5, <2>6, <2>7, <2>8, <2>9, <2>10, <2>11 DEF Next
<1> QED BY <1>1, <1>2 DEF StillInv

\* A depth channel that moves by less than SURFACE_DEPTH_LIVENESS, frozen or noisy, never
\* makes the backstop declare a dive surfaced, in no order of calls and after
\* no time: the window it measures in cannot be stitched together from readings
\* of one band.
THEOREM FrozenStaysDown == Spec => [](HardlyMoves => FrozenNeverSurfaces)
<1>1. ASSUME IInv, StillInv, NEW low \in Nat, ReadsWithin(low) PROVE FrozenNeverSurfaces
  <2>1. sm \in Status /\ DepthWithin(md, low) /\ WindowWithin(sm.win, low)
    BY <1>1 DEF IInv, Good, StillInv
  <2> QED BY <2>1, BackstopStill DEF FrozenNeverSurfaces
<1>2. IInv /\ StillInv => (HardlyMoves => FrozenNeverSurfaces) BY <1>1 DEF HardlyMoves
<1> QED BY <1>2, Invariant, StillInductive, PTL DEF Spec
=============================================================================
