------------------------- MODULE StateMachineProofs -------------------------
(***************************************************************************)
(* What each operator of the state machine and of mission data makes of a  *)
(* good status, for every value of the thresholds and inputs: a map from   *)
(* good statuses to good statuses, with an account of what it changes.     *)
(* The proofs about its callers, StateMachineApiProofs and MainLoopProofs, *)
(* only split their next-state relations.                                  *)
(***************************************************************************)
EXTENDS StateMachine, TLAPS

(***************************************************************************)
(* The inductive invariant of the status.  The properties of the Api say   *)
(* what is true when the payload is off; a step that closes the handshake  *)
(* needs to know that each latch still implies the ones raised before it,  *)
(* and all of them the recovery they were raised in.                       *)
(***************************************************************************)
LatchOrder(h) ==
    /\ h.relay = h.powered
    /\ ~h.powered => h.ack.on /\ h.ack.age = POWER_SHUTDOWN_FINAL_GRACE
    /\ h.ack.on => h.requested
    /\ h.requested => h.dwell.on /\ h.dwell.age = SURFACE_LOGGING_DWELL
    /\ h.qualified = h.dwell.on
    /\ ~h.dwell.on => h.dwell.age = 0
    /\ ~h.ack.on => h.ack.age = 0

GoodHandshake(h) == h \in Handshakes /\ LatchOrder(h)

InRecovery(s) == s.state = "RECOVERY" /\ s.prev = "DIVING"

Good(s) ==
    /\ s \in Status
    /\ GoodHandshake(s.hs)
    /\ s.hs.dwell.on => InRecovery(s)
    /\ s.failsafe # "NONE" => InRecovery(s)

-----------------------------------------------------------------------------
(* Mission data *)

\* A clock never runs past its bound.
LEMMA AgedType ==
  ASSUME NEW cap \in Nat, NEW a \in 0 .. cap, NEW d \in Nat
  PROVE  /\ Aged(a, d, cap) \in 0 .. cap
         /\ a = cap => Aged(a, d, cap) = cap
BY DEF Aged

LEMMA StaleType == STALE \in Nat /\ STALE > 0
BY MissionDataAssumption DEF MissionDataAssumption, STALE

\* A value just stamped, and one never stamped.
LEMMA SampleType ==
  ASSUME NEW V, NEW v \in V
  PROVE  Now(v) \in Samples(V) /\ Never(v) \in Samples(V)
BY StaleType DEF Now, Never, Samples

\* One that grows older.
LEMMA OlderType ==
  ASSUME NEW V, NEW x \in Samples(V), NEW d \in Nat
  PROVE  Older(x, d) \in Samples(V)
<1>1. x.age \in 0 .. STALE BY DEF Samples
<1>2. Aged(x.age, d, STALE) \in 0 .. STALE BY <1>1, StaleType, AgedType
<1> QED BY <1>2 DEF Older, Samples

\* The handlers and the passing of time keep the store well formed.
LEMMA MissionType ==
  /\ MissionData_init \in MissionStore
  /\ \A m \in MissionStore :
       /\ \A v \in DorisStates : update_doris_state(m, v) \in MissionStore
       /\ \A v \in Depths : update_depth(m, v) \in MissionStore
       /\ \A v \in Volts : update_autopilot_voltage(m, v) \in MissionStore
       /\ update_heartbeat(m) \in MissionStore
       /\ \A b \in BOOLEAN : set_leak(m, b) \in MissionStore
       /\ \A d \in Nat : MissionElapse(m, d) \in MissionStore
<1> USE MissionDataAssumption DEF MissionDataAssumption
<1>1. MissionData_init \in MissionStore
  <2>1. Never(-1) \in Samples(-1 .. 4) /\ Never(0) \in Samples(Nat) BY SampleType
  <2> QED BY <2>1 DEF MissionData_init, MissionStore, Heartbeats
<1>2. ASSUME NEW m \in MissionStore, NEW v \in DorisStates
      PROVE  update_doris_state(m, v) \in MissionStore
  <2>1. Now(v) \in Samples(-1 .. 4) BY SampleType
  <2> QED BY <2>1 DEF update_doris_state, MissionStore
<1>3. ASSUME NEW m \in MissionStore, NEW v \in Depths
      PROVE  update_depth(m, v) \in MissionStore
  <2>1. CASE v = NotFinite BY <2>1 DEF update_depth
  <2>2. CASE v # NotFinite
    <3>1. Now(IF v < 0 THEN 0 ELSE v) \in Samples(Nat) BY <2>2, SampleType
    <3> QED BY <2>2, <3>1 DEF update_depth, MissionStore
  <2> QED BY <2>1, <2>2
<1>4. ASSUME NEW m \in MissionStore, NEW v \in Volts
      PROVE  update_autopilot_voltage(m, v) \in MissionStore
  <2>1. v # NotFinite => Now(v) \in Samples(Nat) BY SampleType
  <2> QED BY <2>1 DEF update_autopilot_voltage, MissionStore
<1>5. ASSUME NEW m \in MissionStore
      PROVE  update_heartbeat(m) \in MissionStore
  <2>1. [valid |-> TRUE, age |-> 0] \in Heartbeats BY DEF Heartbeats
  <2> QED BY <2>1 DEF update_heartbeat, MissionStore
<1>6. ASSUME NEW m \in MissionStore, NEW b \in BOOLEAN
      PROVE  set_leak(m, b) \in MissionStore
  BY DEF set_leak, MissionStore
<1>7. ASSUME NEW m \in MissionStore, NEW d \in Nat
      PROVE  MissionElapse(m, d) \in MissionStore
  <2>1. /\ Older(m.doris, d) \in Samples(-1 .. 4)
        /\ Older(m.depth, d) \in Samples(Nat)
        /\ Older(m.volt, d) \in Samples(Nat)
    <3>1. m.doris \in Samples(-1 .. 4) /\ m.depth \in Samples(Nat) /\ m.volt \in Samples(Nat)
      BY DEF MissionStore
    <3> QED BY <3>1, OlderType
  <2>2. [m.hb EXCEPT !.age = Aged(@, d, FAILSAFE_HEARTBEAT_TIMEOUT)] \in Heartbeats
    <3>1. m.hb \in Heartbeats BY DEF MissionStore
    <3>2. m.hb.age \in 0 .. FAILSAFE_HEARTBEAT_TIMEOUT BY <3>1 DEF Heartbeats
    <3>3. Aged(m.hb.age, d, FAILSAFE_HEARTBEAT_TIMEOUT) \in 0 .. FAILSAFE_HEARTBEAT_TIMEOUT
      BY <3>2, AgedType
    <3> QED BY <3>1, <3>3 DEF Heartbeats
  <2> QED BY <2>1, <2>2 DEF MissionElapse, MissionStore
<1> QED BY <1>1, <1>2, <1>3, <1>4, <1>5, <1>6, <1>7

-----------------------------------------------------------------------------
(* The handshake *)

\* What running does to a stopwatch: it keeps its bound, and its rest while it
\* is down.
RunsOn(w, v, cap) ==
    /\ v \in Stopwatches(cap)
    /\ v.on = w.on
    /\ w.age = cap => v.age = cap
    /\ ~w.on => v = w

LEMMA RunType ==
  ASSUME NEW cap \in Nat, NEW w \in Stopwatches(cap), NEW d \in Nat
  PROVE  RunsOn(w, Run(w, d, cap), cap)
<1>1. w.on \in BOOLEAN /\ w.age \in 0 .. cap BY DEF Stopwatches
<1>2. CASE ~w.on BY <1>2 DEF Run, RunsOn
<1>3. CASE w.on
  <2>1. Run(w, d, cap) = [w EXCEPT !.age = Aged(w.age, d, cap)] BY <1>3 DEF Run
  <2>2. Aged(w.age, d, cap) \in 0 .. cap /\ (w.age = cap => Aged(w.age, d, cap) = cap)
    BY <1>1, AgedType
  <2> QED BY <1>3, <2>1, <2>2 DEF Stopwatches, RunsOn
<1> QED BY <1>2, <1>3

LEMMA StopwatchType ==
  ASSUME NEW cap \in Nat
  PROVE  Started \in Stopwatches(cap) /\ Stopped \in Stopwatches(cap)
BY DEF Started, Stopped, Stopwatches

\* The thresholds as the lemmas below use them.
LEMMA Thresholds ==
  /\ DIVE_HEARTBEAT_GRACE \in Nat /\ CRITICAL_VOLTAGE_HOLD \in Nat
  /\ SURFACE_LOGGING_DWELL \in Nat /\ SURFACE_LOGGING_DWELL > 0
  /\ POWER_SHUTDOWN_FINAL_GRACE \in Nat /\ POWER_SHUTDOWN_FINAL_GRACE > 0
  /\ SURFACE_QUALIFY \in Nat
BY StateMachineAssumption DEF StateMachineAssumption

\* The fields of a handshake, its stopwatches left folded.
LEMMA HandshakeFields ==
  ASSUME NEW h \in Handshakes
  PROVE  /\ h.powered \in BOOLEAN /\ h.relay \in BOOLEAN
         /\ h.qualified \in BOOLEAN /\ h.requested \in BOOLEAN
         /\ h.dwell \in Stopwatches(SURFACE_LOGGING_DWELL)
         /\ h.ack \in Stopwatches(POWER_SHUTDOWN_FINAL_GRACE)
         /\ h = [powered |-> h.powered, relay |-> h.relay, qualified |-> h.qualified,
                 requested |-> h.requested, dwell |-> h.dwell, ack |-> h.ack]
BY DEF Handshakes

LEMMA IdleGood == GoodHandshake(PoweredIdle)
<1>1. /\ Stopped \in Stopwatches(SURFACE_LOGGING_DWELL)
      /\ Stopped \in Stopwatches(POWER_SHUTDOWN_FINAL_GRACE)
  BY Thresholds, StopwatchType
<1>2. PoweredIdle \in Handshakes BY <1>1 DEF PoweredIdle, Handshakes
<1>3. LatchOrder(PoweredIdle) BY DEF PoweredIdle, LatchOrder, Stopped
<1> QED BY <1>2, <1>3 DEF GoodHandshake

LEMMA HandshakeElapseGood ==
  ASSUME NEW h, GoodHandshake(h), NEW d \in Nat
  PROVE  LET a == HandshakeElapse(h, d)
         IN  /\ GoodHandshake(a)
             /\ a.dwell.on = h.dwell.on
             /\ a.powered = h.powered /\ a.requested = h.requested
             /\ a.dwell = Run(h.dwell, d, SURFACE_LOGGING_DWELL)
             /\ a.ack = Run(h.ack, d, POWER_SHUTDOWN_FINAL_GRACE)
<1> DEFINE dw == Run(h.dwell, d, SURFACE_LOGGING_DWELL)
           ak == Run(h.ack, d, POWER_SHUTDOWN_FINAL_GRACE)
<1>h. h \in Handshakes /\ LatchOrder(h) BY DEF GoodHandshake
<1>f. /\ h.dwell \in Stopwatches(SURFACE_LOGGING_DWELL)
      /\ h.ack \in Stopwatches(POWER_SHUTDOWN_FINAL_GRACE)
  BY <1>h, HandshakeFields
<1>n. SURFACE_LOGGING_DWELL \in Nat /\ POWER_SHUTDOWN_FINAL_GRACE \in Nat
  BY Thresholds
<1>1. RunsOn(h.dwell, dw, SURFACE_LOGGING_DWELL) BY <1>f, <1>n, RunType
<1>2. RunsOn(h.ack, ak, POWER_SHUTDOWN_FINAL_GRACE) BY <1>f, <1>n, RunType
<1>3. HandshakeElapse(h, d) = [h EXCEPT !.dwell = dw, !.ack = ak] BY DEF HandshakeElapse
<1> HIDE DEF dw, ak
<1>4. HandshakeElapse(h, d) \in Handshakes BY <1>h, <1>1, <1>2, <1>3 DEF Handshakes, RunsOn
<1>5. /\ HandshakeElapse(h, d).powered = h.powered
      /\ HandshakeElapse(h, d).relay = h.relay
      /\ HandshakeElapse(h, d).qualified = h.qualified
      /\ HandshakeElapse(h, d).requested = h.requested
      /\ HandshakeElapse(h, d).dwell = dw
      /\ HandshakeElapse(h, d).ack = ak
  BY <1>h, <1>3 DEF Handshakes
<1>6. LatchOrder(HandshakeElapse(h, d)) BY <1>h, <1>1, <1>2, <1>5 DEF LatchOrder, RunsOn
<1> QED BY <1>1, <1>4, <1>5, <1>6 DEF GoodHandshake, RunsOn, dw, ak

\* The first pass after authorization: the dwell starts, nothing is requested.
LEMMA AuthorizedGood ==
  ASSUME NEW h, GoodHandshake(h), ~h.dwell.on
  PROVE  LET a == dwelled([h EXCEPT !.qualified = TRUE, !.dwell = Started])
         IN  /\ GoodHandshake(a)
             /\ a.dwell = Started /\ ~a.requested /\ a.ack = h.ack
             /\ a.powered = h.powered
<1> DEFINE b == [h EXCEPT !.qualified = TRUE, !.dwell = Started]
           a == dwelled(b)
<1>h. h \in Handshakes /\ LatchOrder(h) BY DEF GoodHandshake
<1>1. /\ b \in Handshakes
      /\ b.powered = h.powered /\ b.relay = h.relay /\ b.qualified /\ b.ack = h.ack
      /\ b.dwell = Started
  <2>1. Started \in Stopwatches(SURFACE_LOGGING_DWELL) BY Thresholds, StopwatchType
  <2> QED BY <1>h, <2>1 DEF Handshakes
<1>2. Started.on /\ Started.age = 0 BY DEF Started
<1>3. ~(b.dwell.age >= SURFACE_LOGGING_DWELL) BY <1>1, <1>2, Thresholds
<1> HIDE DEF b
<1>4. a = [b EXCEPT !.requested = FALSE]
  <2>1. (b.dwell.age >= SURFACE_LOGGING_DWELL) = FALSE BY <1>3
  <2>2. a = [b EXCEPT !.requested = b.dwell.age >= SURFACE_LOGGING_DWELL]
    BY Zenon DEF dwelled
  <2> QED BY <2>1, <2>2, Zenon
<1> HIDE DEF a
<1>5. /\ a \in Handshakes
      /\ a.powered = h.powered /\ a.relay = h.relay /\ a.qualified /\ ~a.requested
      /\ a.dwell = Started /\ a.ack = h.ack
  BY <1>1, <1>4 DEF Handshakes
<1>6. LatchOrder(a) BY <1>h, <1>2, <1>5 DEF LatchOrder
<1> QED BY <1>5, <1>6 DEF GoodHandshake, a, b

\* A pass once the dwell runs and no ACK has come.
LEMMA DwelledGood ==
  ASSUME NEW h, GoodHandshake(h), h.dwell.on, ~h.ack.on
  PROVE  LET a == dwelled(h)
         IN  /\ GoodHandshake(a) /\ a.dwell = h.dwell /\ a.ack = h.ack
             /\ a.powered = h.powered
             /\ h.requested => a.requested
             /\ a.requested => h.dwell.age = SURFACE_LOGGING_DWELL
<1> DEFINE a == dwelled(h)
<1>h. h \in Handshakes /\ LatchOrder(h) BY DEF GoodHandshake
<1>f. h.dwell \in Stopwatches(SURFACE_LOGGING_DWELL) BY <1>h, HandshakeFields
<1>1. h.dwell.age \in 0 .. SURFACE_LOGGING_DWELL BY <1>f DEF Stopwatches
<1> DEFINE r == h.dwell.age >= SURFACE_LOGGING_DWELL
<1>a. a = [h EXCEPT !.requested = r] BY Zenon DEF dwelled
<1>b. r \in BOOLEAN /\ (r => h.dwell.age = SURFACE_LOGGING_DWELL) BY <1>1, Thresholds
<1>c. h.requested => r BY <1>h, Thresholds DEF LatchOrder
<1> HIDE DEF a, r
<1>2. /\ a \in Handshakes
      /\ a.powered = h.powered /\ a.relay = h.relay /\ a.qualified = h.qualified
      /\ a.dwell = h.dwell /\ a.ack = h.ack /\ a.requested = r
  BY <1>h, <1>a, <1>b DEF Handshakes
<1>3. a.requested => h.dwell.age = SURFACE_LOGGING_DWELL BY <1>2, <1>b
<1>4. h.requested => a.requested BY <1>2, <1>c
<1>5. LatchOrder(a) BY <1>h, <1>2, <1>3 DEF LatchOrder
<1> QED BY <1>2, <1>3, <1>4, <1>5 DEF GoodHandshake, a

\* A pass once the ACK is in.
LEMMA CutoffGood ==
  ASSUME NEW h, GoodHandshake(h), h.ack.on
  PROVE  LET a == cutoff(h)
         IN  /\ GoodHandshake(a) /\ a.dwell = h.dwell /\ a.ack = h.ack
             /\ a.requested = h.requested
             /\ a.powered =>  h.powered
             /\ ~a.powered => h.ack.age = POWER_SHUTDOWN_FINAL_GRACE
<1> DEFINE a == cutoff(h)
<1>h. h \in Handshakes /\ LatchOrder(h) BY DEF GoodHandshake
<1>f. h.ack \in Stopwatches(POWER_SHUTDOWN_FINAL_GRACE) BY <1>h, HandshakeFields
<1>1. h.ack.age \in 0 .. POWER_SHUTDOWN_FINAL_GRACE BY <1>f DEF Stopwatches
<1>2. CASE h.ack.age >= POWER_SHUTDOWN_FINAL_GRACE
  <2>1. a = [h EXCEPT !.relay = FALSE, !.powered = FALSE] BY <1>2 DEF cutoff
  <2> HIDE DEF a
  <2>2. /\ a \in Handshakes /\ a.powered = FALSE /\ a.relay = FALSE
        /\ a.qualified = h.qualified /\ a.requested = h.requested
        /\ a.dwell = h.dwell /\ a.ack = h.ack
    BY <1>h, <2>1 DEF Handshakes
  <2>3. h.ack.age = POWER_SHUTDOWN_FINAL_GRACE BY <1>1, <1>2, Thresholds
  <2>4. LatchOrder(a) BY <1>h, <2>2, <2>3 DEF LatchOrder
  <2> QED BY <2>2, <2>3, <2>4 DEF GoodHandshake, a
<1>3. CASE ~(h.ack.age >= POWER_SHUTDOWN_FINAL_GRACE)
  <2>1. a = h BY <1>3 DEF cutoff
  <2>2. ~h.powered => h.ack.age = POWER_SHUTDOWN_FINAL_GRACE BY <1>h DEF LatchOrder
  <2> QED BY <2>1, <2>2
<1> QED BY <1>2, <1>3

\* A pass with nothing begun and nobody asking.
LEMMA IdlePassGood ==
  ASSUME NEW h, GoodHandshake(h), ~h.dwell.on
  PROVE  LET a == [h EXCEPT !.qualified = FALSE, !.requested = FALSE]
         IN  /\ GoodHandshake(a) /\ a = h
<1>h. h \in Handshakes /\ LatchOrder(h) BY DEF GoodHandshake
<1>1. h.qualified = FALSE /\ h.requested = FALSE
  BY <1>h, HandshakeFields DEF LatchOrder
<1>2. [h EXCEPT !.qualified = FALSE, !.requested = FALSE] = h BY <1>h, <1>1 DEF Handshakes
<1> QED BY <1>2

LEMMA SurfacePowerGood ==
  ASSUME NEW h, GoodHandshake(h), NEW authorized \in BOOLEAN
  PROVE  /\ GoodHandshake(surfacePower(h, authorized))
         /\ surfacePower(h, authorized).dwell.on => h.dwell.on \/ authorized
<1>1. CASE h.ack.on
  <2>1. surfacePower(h, authorized) = cutoff(h) BY <1>1 DEF surfacePower
  <2> QED BY <1>1, <2>1, CutoffGood
<1>2. CASE ~h.ack.on /\ h.dwell.on
  <2>1. surfacePower(h, authorized) = dwelled(h) BY <1>2 DEF surfacePower
  <2> QED BY <1>2, <2>1, DwelledGood
<1>3. CASE ~h.ack.on /\ ~h.dwell.on /\ authorized
  <2>1. surfacePower(h, authorized)
          = dwelled([h EXCEPT !.qualified = TRUE, !.dwell = Started])
    BY <1>3 DEF surfacePower
  <2> QED BY <1>3, <2>1, AuthorizedGood
<1>4. CASE ~h.ack.on /\ ~h.dwell.on /\ ~authorized
  <2>1. surfacePower(h, authorized) = [h EXCEPT !.qualified = FALSE, !.requested = FALSE]
    BY <1>4 DEF surfacePower
  <2> QED BY <1>4, <2>1, IdlePassGood
<1> QED BY <1>1, <1>2, <1>3, <1>4

LEMMA AcknowledgedGood ==
  ASSUME NEW h, GoodHandshake(h)
  PROVE  /\ GoodHandshake(acknowledged(h))
         /\ acknowledged(h).dwell = h.dwell
         /\ acknowledged(h).requested = h.requested
         /\ acknowledged(h).powered = h.powered
         /\ \/ acknowledged(h) = h
            \/ ~h.ack.on /\ h.requested /\ acknowledged(h).ack = Started
<1> DEFINE a == acknowledged(h)
<1>h. h \in Handshakes /\ LatchOrder(h) BY DEF GoodHandshake
<1>1. CASE h.requested /\ h.qualified /\ ~h.ack.on
  <2>1. a = [h EXCEPT !.ack = Started] BY <1>1 DEF acknowledged
  <2>2. Started \in Stopwatches(POWER_SHUTDOWN_FINAL_GRACE) BY Thresholds, StopwatchType
  <2> HIDE DEF a
  <2>3. /\ a \in Handshakes /\ a.powered = h.powered /\ a.relay = h.relay
        /\ a.qualified = h.qualified /\ a.requested = h.requested
        /\ a.dwell = h.dwell /\ a.ack = Started
    BY <1>h, <2>1, <2>2 DEF Handshakes
  <2>4. Started.on BY DEF Started
  <2>5. LatchOrder(a) BY <1>h, <1>1, <2>3, <2>4 DEF LatchOrder
  <2> QED BY <1>1, <2>3, <2>5 DEF GoodHandshake, a
<1>2. CASE ~(h.requested /\ h.qualified /\ ~h.ack.on)
  <2>1. a = h BY <1>2 DEF acknowledged
  <2> QED BY <2>1
<1> QED BY <1>1, <1>2

\* A payload that is on again is one whose ACK, if any, is still counting.
LEMMA RepoweredGood ==
  ASSUME NEW h, GoodHandshake(h), NEW t \in States
  PROVE  /\ GoodHandshake(repowered(h, t))
         /\ repowered(h, t).dwell.on => h.dwell.on /\ t = "RECOVERY"
<1>h. h \in Handshakes /\ LatchOrder(h) BY DEF GoodHandshake
<1>1. CASE t = "RECOVERY"
  <2> DEFINE a == repowered(h, t)
  <2>1. a = [h EXCEPT !.powered = TRUE, !.relay = TRUE] BY <1>1 DEF repowered
  <2> HIDE DEF a
  <2>2. /\ a \in Handshakes /\ a.powered /\ a.relay
        /\ a.qualified = h.qualified /\ a.requested = h.requested
        /\ a.dwell = h.dwell /\ a.ack = h.ack
    BY <1>h, <2>1 DEF Handshakes
  <2>3. LatchOrder(a) BY <1>h, <2>2 DEF LatchOrder
  <2> QED BY <1>1, <2>2, <2>3 DEF GoodHandshake, a
<1>2. CASE t # "RECOVERY"
  <2>1. repowered(h, t) = PoweredIdle BY <1>2 DEF repowered
  <2>2. ~PoweredIdle.dwell.on BY DEF PoweredIdle, Stopped
  <2> QED BY <2>1, <2>2, IdleGood
<1> QED BY <1>1, <1>2
-----------------------------------------------------------------------------
(* The status *)

LEMMA StatusFields ==
  ASSUME NEW s \in Status
  PROVE  /\ s.state \in States /\ s.prev \in States
         /\ s.stateAge \in 0 .. DIVE_HEARTBEAT_GRACE
         /\ s.failsafe \in Failsafes /\ s.hs \in Handshakes
         /\ s.crit \in Stopwatches(CRITICAL_VOLTAGE_HOLD) /\ s.win \in Windows
BY DEF Status

LEMMA WindowType ==
  /\ NoWindow \in Windows
  /\ \A w \in Windows, v \in Nat : widen(w, v) \in Windows
  /\ \A w \in Windows, d \in Nat : [w EXCEPT !.timer = Run(@, d, SURFACE_QUALIFY)] \in Windows
<1>1. /\ Started \in Stopwatches(SURFACE_QUALIFY)
      /\ Stopped \in Stopwatches(SURFACE_QUALIFY)
  BY Thresholds, StopwatchType
<1>2. NoWindow \in Windows BY <1>1 DEF NoWindow, Windows
<1>3. ASSUME NEW w \in Windows, NEW v \in Nat
      PROVE  widen(w, v) \in Windows
  <2>1. CASE w.timer.on
    <3> DEFINE lo == IF v < w.min THEN v ELSE w.min
               hi == IF v > w.max THEN v ELSE w.max
    <3>1. lo \in Nat /\ hi \in Nat BY DEF Windows
    <3>2. widen(w, v) = [w EXCEPT !.min = lo, !.max = hi] BY <2>1 DEF widen
    <3> HIDE DEF lo, hi
    <3> QED BY <3>1, <3>2 DEF Windows
  <2>2. CASE ~w.timer.on
    <3>1. widen(w, v) = [timer |-> Started, min |-> v, max |-> v] BY <2>2 DEF widen
    <3> QED BY <1>1, <3>1 DEF Windows
  <2> QED BY <2>1, <2>2
<1>4. ASSUME NEW w \in Windows, NEW d \in Nat
      PROVE  [w EXCEPT !.timer = Run(@, d, SURFACE_QUALIFY)] \in Windows
  <2>1. w.timer \in Stopwatches(SURFACE_QUALIFY) BY DEF Windows
  <2>2. Run(w.timer, d, SURFACE_QUALIFY) \in Stopwatches(SURFACE_QUALIFY)
    BY <2>1, Thresholds, RunType DEF RunsOn
  <2> QED BY <2>2 DEF Windows
<1> QED BY <1>2, <1>3, <1>4

LEMMA InitGood == Good(StateMachine_init)
<1>1. /\ Stopped \in Stopwatches(CRITICAL_VOLTAGE_HOLD)
      /\ 0 \in 0 .. DIVE_HEARTBEAT_GRACE
  BY Thresholds, StopwatchType
<1>2. GoodHandshake(PoweredIdle) /\ PoweredIdle \in Handshakes
  BY IdleGood DEF GoodHandshake
<1>3. "PRE_DIVE" \in States /\ "NONE" \in Failsafes BY DEF States, Failsafes
<1>4. StateMachine_init \in Status
  BY <1>1, <1>2, <1>3, WindowType DEF StateMachine_init, Status
<1>5. /\ StateMachine_init.hs = PoweredIdle /\ ~PoweredIdle.dwell.on
      /\ StateMachine_init.failsafe = "NONE"
  BY DEF StateMachine_init, PoweredIdle, Stopped
<1> QED BY <1>2, <1>4, <1>5 DEF Good

\* Changes of one field that Good does not look at.
LEMMA TimersGood ==
  ASSUME NEW s, Good(s)
  PROVE  /\ \A c \in Stopwatches(CRITICAL_VOLTAGE_HOLD) : Good([s EXCEPT !.crit = c])
         /\ \A w \in Windows : Good([s EXCEPT !.win = w])
<1>s. s \in Status BY DEF Good
<1>1. ASSUME NEW c \in Stopwatches(CRITICAL_VOLTAGE_HOLD)
      PROVE  Good([s EXCEPT !.crit = c])
  <2> DEFINE t == [s EXCEPT !.crit = c]
  <2>1. /\ t \in Status /\ t.hs = s.hs /\ t.state = s.state /\ t.prev = s.prev
        /\ t.failsafe = s.failsafe
    BY <1>s DEF Status
  <2> HIDE DEF t
  <2>2. Good(t) BY <2>1 DEF Good, InRecovery
  <2> QED BY <2>2 DEF t
<1>2. ASSUME NEW w \in Windows
      PROVE  Good([s EXCEPT !.win = w])
  <2> DEFINE t == [s EXCEPT !.win = w]
  <2>1. /\ t \in Status /\ t.hs = s.hs /\ t.state = s.state /\ t.prev = s.prev
        /\ t.failsafe = s.failsafe
    BY <1>s DEF Status
  <2> HIDE DEF t
  <2>2. Good(t) BY <2>1 DEF Good, InRecovery
  <2> QED BY <2>2 DEF t
<1> QED BY <1>1, <1>2

\* A step of the handshake that only a recovery after a dive can begin.
LEMMA SetHandshakeGood ==
  ASSUME NEW s, Good(s), NEW h, GoodHandshake(h), h.dwell.on => InRecovery(s)
  PROVE  LET t == [s EXCEPT !.hs = h]
         IN  /\ Good(t) /\ t.hs = h /\ t.state = s.state /\ t.failsafe = s.failsafe
<1> DEFINE t == [s EXCEPT !.hs = h]
<1>s. s \in Status /\ h \in Handshakes BY DEF Good, GoodHandshake
<1>1. /\ t \in Status /\ t.hs = h /\ t.state = s.state /\ t.prev = s.prev
      /\ t.failsafe = s.failsafe
  BY <1>s DEF Status
<1> HIDE DEF t
<1>2. Good(t) BY <1>1 DEF Good, InRecovery
<1> QED BY <1>1, <1>2 DEF t

\* A transition.  A failsafe may be pending only on the way out of a dive.
LEMMA EnterGood ==
  ASSUME NEW s, NEW t \in States,
         s \in Status, GoodHandshake(s.hs), s.hs.dwell.on => InRecovery(s),
         s.failsafe # "NONE" => \/ t = s.state /\ InRecovery(s)
                                \/ t = "RECOVERY" /\ s.state = "DIVING"
  PROVE  /\ Good(enterState(s, t))
         /\ enterState(s, t).state = t
         /\ enterState(s, t).failsafe = s.failsafe
         /\ t = s.state => enterState(s, t) = s
         /\ t # s.state => ~enterState(s, t).hs.dwell.on
<1>1. CASE t = s.state
  <2>1. enterState(s, t) = s BY <1>1 DEF enterState
  <2>2. Good(s) BY <1>1 DEF Good, InRecovery
  <2> QED BY <1>1, <2>1, <2>2
<1>2. CASE t # s.state
  <2> DEFINE e == enterState(s, t)
             h == repowered(s.hs, t)
  <2>1. GoodHandshake(h) /\ (h.dwell.on => s.hs.dwell.on /\ t = "RECOVERY")
    BY RepoweredGood
  <2>2. ~h.dwell.on BY <1>2, <2>1 DEF InRecovery
  <2>3. 0 \in 0 .. DIVE_HEARTBEAT_GRACE BY Thresholds
  <2>4. e = [state |-> t, prev |-> s.state, stateAge |-> 0, failsafe |-> s.failsafe,
             hs |-> h, crit |-> s.crit, win |-> s.win]
    BY <1>2 DEF enterState
  <2>5. h \in Handshakes BY <2>1 DEF GoodHandshake
  <2> HIDE DEF e, h
  <2>6. e \in Status BY <2>3, <2>4, <2>5, StatusFields DEF Status
  <2>7. Good(e) BY <1>2, <2>1, <2>2, <2>4, <2>6 DEF Good, InRecovery
  <2> QED BY <1>2, <2>2, <2>4, <2>7 DEF e, h
<1> QED BY <1>1, <1>2

LEMMA StateNames ==
  /\ "PRE_DIVE" \in States /\ "DIVING" \in States /\ "RECOVERY" \in States
BY DEF States

\* What a call that may be a transition does to the handshake: nothing while it
\* stays in its state, and an end to it otherwise.
Entered(s, e) == IF e.state = s.state THEN e.hs = s.hs ELSE ~e.hs.dwell.on

\* From a good status a failsafe is pending in no state but RECOVERY.
LEMMA CallsEnterGood ==
  ASSUME NEW s, Good(s)
  PROVE  /\ Good(enterDiving(s)) /\ Entered(s, enterDiving(s))
         /\ enterDiving(s).failsafe = s.failsafe
         /\ Good(enterRecovery(s)) /\ Entered(s, enterRecovery(s))
         /\ enterRecovery(s).failsafe = s.failsafe
         /\ Good(reset(s)) /\ Entered(s, reset(s)) /\ reset(s).failsafe = "NONE"
<1>s. s \in Status /\ GoodHandshake(s.hs) BY DEF Good
<1>1. /\ Good(enterDiving(s)) /\ Entered(s, enterDiving(s))
      /\ enterDiving(s).failsafe = s.failsafe
  <2>1. CASE s.state = "PRE_DIVE"
    <3>1. s.failsafe = "NONE" BY <2>1 DEF Good, InRecovery
    <3> DEFINE e == enterState(s, "DIVING")
    <3>e. enterDiving(s) = e BY <2>1 DEF enterDiving
    <3>2. Good(e) /\ e.state = "DIVING" /\ e.failsafe = s.failsafe /\ ~e.hs.dwell.on
      BY <1>s, <2>1, <3>1, StateNames, EnterGood DEF Good
    <3> HIDE DEF e
    <3> QED BY <2>1, <3>2, <3>e DEF Entered
  <2>2. CASE s.state # "PRE_DIVE" BY <2>2 DEF enterDiving, Entered
  <2> QED BY <2>1, <2>2
<1>2. /\ Good(enterRecovery(s)) /\ Entered(s, enterRecovery(s))
      /\ enterRecovery(s).failsafe = s.failsafe
  <2>1. s.failsafe # "NONE" => "RECOVERY" = s.state /\ InRecovery(s)
    BY DEF Good, InRecovery
  <2> DEFINE e == enterState(s, "RECOVERY")
  <2>e. enterRecovery(s) = e BY DEF enterRecovery
  <2>2. /\ Good(e) /\ e.state = "RECOVERY" /\ e.failsafe = s.failsafe
        /\ s.state = "RECOVERY" => e = s
        /\ s.state # "RECOVERY" => ~e.hs.dwell.on
    BY <1>s, <2>1, StateNames, EnterGood DEF Good
  <2> HIDE DEF e
  <2> QED BY <2>2, <2>e DEF Entered
<1>3. Good(reset(s)) /\ Entered(s, reset(s)) /\ reset(s).failsafe = "NONE"
  <2> DEFINE c == [s EXCEPT !.failsafe = "NONE"]
  <2>1. /\ c \in Status /\ c.hs = s.hs /\ c.state = s.state /\ c.prev = s.prev
        /\ c.failsafe = "NONE"
    BY <1>s DEF Status, Failsafes
  <2> HIDE DEF c
  <2>2. GoodHandshake(c.hs) /\ (c.hs.dwell.on => InRecovery(c))
    BY <2>1 DEF Good, InRecovery
  <2> DEFINE e == enterState(c, "PRE_DIVE")
  <2>3. /\ Good(e) /\ e.state = "PRE_DIVE" /\ e.failsafe = "NONE"
        /\ c.state = "PRE_DIVE" => e = c
        /\ c.state # "PRE_DIVE" => ~e.hs.dwell.on
    BY <2>1, <2>2, StateNames, EnterGood
  <2>e. reset(s) = e BY DEF reset, c
  <2> HIDE DEF e
  <2> QED BY <2>1, <2>3, <2>e DEF Entered
<1> QED BY <1>1, <1>2, <1>3

LEMMA TriggerGood ==
  ASSUME NEW s, Good(s), NEW source \in Failsafes \ {"NONE"}
  PROVE  /\ Good(triggerFailsafe(s, source))
         /\ s.state # "DIVING" => triggerFailsafe(s, source) = s
         /\ s.state = "DIVING" => /\ triggerFailsafe(s, source).state = "RECOVERY"
                                  /\ ~triggerFailsafe(s, source).hs.dwell.on
<1>1. CASE s.state = "DIVING"
  <2> DEFINE c == [s EXCEPT !.failsafe = source]
  <2>s. s \in Status /\ GoodHandshake(s.hs) BY DEF Good
  <2>1. /\ c \in Status /\ c.hs = s.hs /\ c.state = s.state /\ c.prev = s.prev
        /\ c.failsafe = source
    BY <2>s DEF Status
  <2>c. triggerFailsafe(s, source) = enterState(c, "RECOVERY")
    BY <1>1 DEF triggerFailsafe
  <2> HIDE DEF c
  <2>2. GoodHandshake(c.hs) /\ (c.hs.dwell.on => InRecovery(c))
    BY <2>1 DEF Good, InRecovery
  <2>3. /\ Good(enterState(c, "RECOVERY")) /\ enterState(c, "RECOVERY").state = "RECOVERY"
        /\ ~enterState(c, "RECOVERY").hs.dwell.on
    BY <1>1, <2>1, <2>2, StateNames, EnterGood
  <2> QED BY <1>1, <2>3, <2>c
<1>2. CASE s.state # "DIVING" BY <1>2 DEF triggerFailsafe
<1> QED BY <1>1, <1>2

LEMMA TimeVoltageGood ==
  ASSUME NEW s, Good(s), NEW b \in BOOLEAN
  PROVE  LET t == timeVoltage(s, b)
         IN  /\ Good(t) /\ t.state = s.state /\ t.hs = s.hs /\ t.failsafe = s.failsafe
             /\ t.stateAge = s.stateAge
<1> DEFINE c == IF ~b THEN Stopped ELSE IF s.crit.on THEN s.crit ELSE Started
<1>s. s \in Status BY DEF Good
<1>1. c \in Stopwatches(CRITICAL_VOLTAGE_HOLD)
  BY <1>s, StatusFields, Thresholds, StopwatchType
<1>2. timeVoltage(s, b) = [s EXCEPT !.crit = c] BY DEF timeVoltage
<1> HIDE DEF c
<1>3. LET t == [s EXCEPT !.crit = c]
      IN  /\ t.state = s.state /\ t.hs = s.hs /\ t.failsafe = s.failsafe
          /\ t.stateAge = s.stateAge
  BY <1>s DEF Status
<1> QED BY <1>1, <1>2, <1>3, TimersGood

\* The monitors: either they leave state, handshake and failsafe alone, or they
\* end a dive that has outlived its grace.
LEMMA UpdateGood ==
  ASSUME NEW s, Good(s), NEW m
  PROVE  LET t == update(s, m)
         IN  /\ Good(t)
             /\ \/ t.state = s.state /\ t.hs = s.hs /\ t.failsafe = s.failsafe
                \/ /\ s.state = "DIVING" /\ s.stateAge >= DIVE_HEARTBEAT_GRACE
                   /\ t.state = "RECOVERY" /\ ~t.hs.dwell.on
<1> DEFINE critical == criticalVoltage(m)
           v == timeVoltage(s, critical)
<1>0. "LEAK" \in Failsafes \ {"NONE"} /\ "LOW_VOLTAGE" \in Failsafes \ {"NONE"}
      /\ "NO_HEARTBEAT" \in Failsafes \ {"NONE"}
  BY DEF Failsafes
<1>c. critical \in BOOLEAN BY DEF criticalVoltage, Fresh
<1> HIDE DEF critical
<1>v. Good(v) /\ v.state = s.state /\ v.hs = s.hs /\ v.failsafe = s.failsafe
  BY <1>c, TimeVoltageGood
<1>1. CASE ~Monitoring(s)
  <2>1. update(s, m) = timeVoltage(s, FALSE) BY <1>1 DEF update
  <2> QED BY <2>1, TimeVoltageGood
<1>2. CASE Monitoring(s) /\ m.leak
  <2>1. update(s, m) = triggerFailsafe(s, "LEAK") BY <1>2 DEF update
  <2> QED BY <1>0, <1>2, <2>1, TriggerGood DEF Monitoring
<1>3. CASE Monitoring(s) /\ ~m.leak
  <2>u. update(s, m) = monitor(v, m) BY <1>3 DEF update, critical
  <2> HIDE DEF v
  <2>1. CASE voltageHeld(v)
    <3>1. update(s, m) = triggerFailsafe(v, "LOW_VOLTAGE") BY <2>u, <2>1 DEF monitor
    <3> QED BY <1>0, <1>3, <1>v, <3>1, TriggerGood DEF Monitoring
  <2>2. CASE ~voltageHeld(v) /\ heartbeatLost(m)
    <3>1. update(s, m) = triggerFailsafe(v, "NO_HEARTBEAT") BY <2>u, <2>2 DEF monitor
    <3> QED BY <1>0, <1>3, <1>v, <3>1, TriggerGood DEF Monitoring
  <2>3. CASE ~voltageHeld(v) /\ ~heartbeatLost(m)
    <3>1. update(s, m) = v BY <2>u, <2>3 DEF monitor
    <3> QED BY <1>v, <3>1
  <2> QED BY <2>1, <2>2, <2>3
<1> QED BY <1>1, <1>2, <1>3

LEMMA UpdateSurfacePowerGood ==
  ASSUME NEW s, Good(s), NEW m
  PROVE  LET t == updateSurfacePower(s, m)
         IN  /\ Good(t) /\ t.state = s.state /\ t.failsafe = s.failsafe
             /\ \E b \in BOOLEAN : t.hs = surfacePower(s.hs, b)
<1> DEFINE b == Authorized(s, m)
           h == surfacePower(s.hs, b)
<1>1. b \in BOOLEAN /\ (b => InRecovery(s)) BY DEF Authorized, InRecovery, Fresh
<1>2. updateSurfacePower(s, m) = [s EXCEPT !.hs = h] BY DEF updateSurfacePower
<1> HIDE DEF b
<1>3. GoodHandshake(h) /\ (h.dwell.on => s.hs.dwell.on \/ b)
  BY <1>1, SurfacePowerGood DEF Good
<1>4. h.dwell.on => InRecovery(s) BY <1>1, <1>3 DEF Good
<1> QED BY <1>1, <1>2, <1>3, <1>4, SetHandshakeGood

LEMMA AcknowledgeShutdownGood ==
  ASSUME NEW s, Good(s)
  PROVE  LET t == acknowledgeShutdown(s)
         IN  /\ Good(t) /\ t.state = s.state /\ t.failsafe = s.failsafe
             /\ t.hs = acknowledged(s.hs)
<1> DEFINE h == acknowledged(s.hs)
<1>1. acknowledgeShutdown(s) = [s EXCEPT !.hs = h] BY DEF acknowledgeShutdown
<1>2. GoodHandshake(h) /\ h.dwell = s.hs.dwell BY AcknowledgedGood DEF Good
<1>3. h.dwell.on => InRecovery(s) BY <1>2 DEF Good
<1> HIDE DEF h
<1>4. LET t == [s EXCEPT !.hs = h]
      IN  Good(t) /\ t.hs = h /\ t.state = s.state /\ t.failsafe = s.failsafe
  BY <1>2, <1>3, SetHandshakeGood
<1> QED BY <1>1, <1>4 DEF h

\* The backstop ends a dive or changes nothing but its window.
LEMMA BackstopGood ==
  ASSUME NEW s, Good(s), NEW m \in MissionStore
  PROVE  LET t == updateSurfaceBackstop(s, m)
         IN  /\ Good(t) /\ t.failsafe = s.failsafe
             /\ \/ t.state = s.state /\ t.hs = s.hs
                \/ s.state = "DIVING" /\ t.state = "RECOVERY" /\ ~t.hs.dwell.on
<1> DEFINE w == widen(s.win, m.depth.value)
           closed == [s EXCEPT !.win = NoWindow]
           opened == [s EXCEPT !.win = w]
<1>s. s \in Status BY DEF Good
<1>d. m.depth.value \in Nat
  <2>1. m.depth \in Samples(Nat) BY DEF MissionStore
  <2> QED BY <2>1 DEF Samples
<1>w. w \in Windows BY <1>s, <1>d, StatusFields, WindowType
<1> HIDE DEF w
<1>1. /\ Good(closed) /\ closed.state = s.state /\ closed.hs = s.hs
      /\ closed.failsafe = s.failsafe /\ closed.prev = s.prev
  <2>1. Good(closed) BY WindowType, TimersGood
  <2>2. /\ closed.state = s.state /\ closed.hs = s.hs
        /\ closed.failsafe = s.failsafe /\ closed.prev = s.prev
    BY <1>s DEF Status
  <2> QED BY <2>1, <2>2
<1>2. /\ Good(opened) /\ opened.state = s.state /\ opened.hs = s.hs
      /\ opened.failsafe = s.failsafe
  <2>1. Good(opened) BY <1>w, TimersGood
  <2>2. opened.state = s.state /\ opened.hs = s.hs /\ opened.failsafe = s.failsafe
    BY <1>s DEF Status
  <2> QED BY <2>1, <2>2
<1>3. CASE ~Ascending(s, m) \/ ~Shallow(m)
  <2>1. updateSurfaceBackstop(s, m) = closed BY <1>3 DEF updateSurfaceBackstop
  <2> QED BY <1>1, <2>1
<1>4. CASE Ascending(s, m) /\ Shallow(m) /\ windowQualified(w)
  <2>1. updateSurfaceBackstop(s, m) = enterState(closed, "RECOVERY")
    BY <1>4 DEF updateSurfaceBackstop, w
  <2>2. s.state = "DIVING" BY <1>4 DEF Ascending
  <2> HIDE DEF closed
  <2>3. closed.failsafe # "NONE" => closed.state = "DIVING" BY <1>1, <2>2
  <2>4. /\ Good(enterState(closed, "RECOVERY"))
        /\ enterState(closed, "RECOVERY").state = "RECOVERY"
        /\ enterState(closed, "RECOVERY").failsafe = closed.failsafe
        /\ ~enterState(closed, "RECOVERY").hs.dwell.on
    BY <1>1, <2>2, <2>3, StateNames, EnterGood DEF Good
  <2> QED BY <1>1, <2>1, <2>2, <2>4
<1>5. CASE Ascending(s, m) /\ Shallow(m) /\ ~windowQualified(w)
  <2>1. updateSurfaceBackstop(s, m) = opened BY <1>5 DEF updateSurfaceBackstop, w
  <2> QED BY <1>2, <2>1
<1> QED BY <1>3, <1>4, <1>5

LEMMA ElapseGood ==
  ASSUME NEW s, Good(s), NEW d \in Nat
  PROVE  LET t == StatusElapse(s, d)
         IN  /\ Good(t) /\ t.state = s.state /\ t.failsafe = s.failsafe
             /\ t.hs = HandshakeElapse(s.hs, d)
<1> DEFINE t == StatusElapse(s, d)
           h == HandshakeElapse(s.hs, d)
           w == [s.win EXCEPT !.timer = Run(@, d, SURFACE_QUALIFY)]
           c == Run(s.crit, d, CRITICAL_VOLTAGE_HOLD)
           a == Aged(s.stateAge, d, DIVE_HEARTBEAT_GRACE)
<1>s. s \in Status BY DEF Good
<1>1. GoodHandshake(h) /\ h.dwell.on = s.hs.dwell.on BY HandshakeElapseGood DEF Good
<1>2. w \in Windows BY <1>s, StatusFields, WindowType
<1>3. c \in Stopwatches(CRITICAL_VOLTAGE_HOLD) BY <1>s, StatusFields, Thresholds, RunType
             DEF RunsOn
<1>4. a \in 0 .. DIVE_HEARTBEAT_GRACE BY <1>s, StatusFields, Thresholds, AgedType
<1>5. t = [state |-> s.state, prev |-> s.prev, stateAge |-> a, failsafe |-> s.failsafe,
           hs |-> h, crit |-> c, win |-> w]
  BY DEF StatusElapse
<1>6. h \in Handshakes BY <1>1 DEF GoodHandshake
<1> HIDE DEF t, h, w, c, a
<1>7. t \in Status BY <1>s, <1>2, <1>3, <1>4, <1>5, <1>6, StatusFields DEF Status
<1>8. /\ t.state = s.state /\ t.prev = s.prev /\ t.failsafe = s.failsafe /\ t.hs = h
  BY <1>5
<1>9. Good(t) BY <1>1, <1>7, <1>8 DEF Good, InRecovery
<1> QED BY <1>8, <1>9 DEF t, h
=============================================================================
