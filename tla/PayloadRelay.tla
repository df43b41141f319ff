---------------------------- MODULE PayloadRelay ----------------------------
(***************************************************************************)
(* The payload power drivers (modules/relay_controller.cpp), down to the   *)
(* pins, and what setupPins does to them.  A build has one driver: a       *)
(* normally closed relay held open by GPIO4, a Pololu 2813 latch that a    *)
(* pulse on GPIO35 sets and one on GPIO4 clears, or none.                  *)
(*                                                                         *)
(* A routine is the sequence of its pin operations.  The board may reset   *)
(* between any two of them: the pads are inputs then and their output      *)
(* latches hold anything.  The coil does not follow a glitch of            *)
(* microseconds, so configuring and writing its pin is one operation; the  *)
(* Pololu does.                                                            *)
(***************************************************************************)
EXTENDS Naturals, Sequences

VARIABLES driver,           \* of this build: "nc", "pololu" or "none"
          level, output,    \* per pin, the output latch and whether it drives
          powerMgmtState,   \* what the driver believes
          payload,          \* whether the payload has power
          todo,             \* the pin operations ahead
          command,          \* the last request
          lost              \* the Pololu lost its supply, no ON pulse since

vars == <<driver, level, output, powerMgmtState, payload, todo, command, lost>>

RELAY_POWER_MGMT == "GPIO4"
PAYLOAD_POWER_ON_PIN == "GPIO35"
PAYLOAD_POWER_OFF_PIN == RELAY_POWER_MGMT
Pins == {RELAY_POWER_MGMT, PAYLOAD_POWER_ON_PIN}

\* The operations: the latch, the pad, both for the coil, the belief.
Write(pin, v) == [op |-> "write", pin |-> pin, high |-> v]
Output(pin) == [op |-> "output", pin |-> pin, high |-> FALSE]
Coil(v) == [op |-> "coil", pin |-> RELAY_POWER_MGMT, high |-> v]
Believe(v) == [op |-> "believe", pin |-> RELAY_POWER_MGMT, high |-> v]

High(pin) == output[pin] /\ level[pin]

-----------------------------------------------------------------------------
(* The routines *)

\* Seeded fault: the pads drive before their latches are low.
latchesLowLate ==
    <<Output(PAYLOAD_POWER_ON_PIN), Output(PAYLOAD_POWER_OFF_PIN),
      Write(PAYLOAD_POWER_ON_PIN, FALSE), Write(PAYLOAD_POWER_OFF_PIN, FALSE)>>

latchesLow ==
    <<Write(PAYLOAD_POWER_ON_PIN, FALSE), Write(PAYLOAD_POWER_OFF_PIN, FALSE),
      Output(PAYLOAD_POWER_ON_PIN), Output(PAYLOAD_POWER_OFF_PIN)>>

setupPins ==
    CASE driver = "pololu" -> latchesLow
      [] driver = "nc" -> <<Coil(FALSE)>>
      [] driver = "none" -> <<>>

pulseHigh(pin) == <<Write(pin, TRUE), Write(pin, FALSE)>>

\* Seeded fault: the driver pulses and does not remember it.
pulseForForgets(state) ==
    pulseHigh(IF state THEN PAYLOAD_POWER_ON_PIN ELSE PAYLOAD_POWER_OFF_PIN)

\* The belief is set before the pulse.
pulseFor(state) ==
    <<Believe(state)>> \o pulseHigh(IF state THEN PAYLOAD_POWER_ON_PIN ELSE PAYLOAD_POWER_OFF_PIN)

\* RELAY_POWER_MGMT_NC, RELAY_COIL_ACTIVE_HIGH: the coil opens the contact.
driveRelay(conduct) == Coil(~conduct)

\* Init forces the belief off first, so that it pulses ON once.
RelayController_init ==
    CASE driver = "pololu" -> latchesLow \o <<Believe(FALSE)>> \o pulseFor(TRUE)
      [] driver = "nc" -> <<driveRelay(TRUE), Believe(TRUE)>>
      [] driver = "none" -> <<Believe(TRUE)>>

setPowerManagement(state) ==
    CASE driver = "pololu" -> IF state = powerMgmtState THEN <<>> ELSE pulseFor(state)
      [] driver = "nc" -> <<Believe(state), driveRelay(state)>>
      [] driver = "none" -> <<Believe(state)>>

-----------------------------------------------------------------------------
(* The hardware *)

\* The payload after the pins go from high to now.
Power(high, now) ==
    CASE driver = "nc" -> ~now[RELAY_POWER_MGMT]
      [] driver = "pololu" ->
           IF now[PAYLOAD_POWER_OFF_PIN] /\ ~high[PAYLOAD_POWER_OFF_PIN] THEN FALSE
           ELSE payload \/ (now[PAYLOAD_POWER_ON_PIN] /\ ~high[PAYLOAD_POWER_ON_PIN])
      [] driver = "none" -> payload

Lines == [p \in Pins |-> High(p)]

\* The next pin operation of the routine that runs.
Step ==
    /\ todo # <<>> /\ todo' = Tail(todo)
    /\ LET o == Head(todo) IN
        /\ level' = IF o.op \in {"write", "coil"} THEN [level EXCEPT ![o.pin] = o.high] ELSE level
        /\ output' = IF o.op \in {"output", "coil"} THEN [output EXCEPT ![o.pin] = TRUE] ELSE output
        /\ powerMgmtState' = IF o.op = "believe" THEN o.high ELSE powerMgmtState
    /\ payload' = Power(Lines, Lines')
    /\ lost' = (lost /\ ~(payload' /\ ~payload))
    /\ UNCHANGED <<driver, command>>

\* The Pololu kept its state through the reset or lost it with its supply; a
\* relay at rest conducts.
Init ==
    /\ driver \in {"nc", "pololu", "none"}
    /\ level \in [Pins -> BOOLEAN] /\ output = [p \in Pins |-> FALSE]
    /\ payload \in BOOLEAN /\ (driver # "pololu" => payload)
    /\ powerMgmtState = FALSE /\ todo = setupPins \o RelayController_init
    /\ command = TRUE /\ lost = (driver = "pololu" /\ ~payload)

\* A reset of the board at any point.
Reset ==
    /\ level' \in [Pins -> BOOLEAN] /\ output' = [p \in Pins |-> FALSE]
    /\ payload' = Power(Lines, [p \in Pins |-> FALSE])
    /\ powerMgmtState' = FALSE /\ todo' = setupPins \o RelayController_init
    /\ command' = TRUE /\ UNCHANGED <<driver, lost>>

\* A call of the state machine, any time it is not inside another.
Set(state) ==
    /\ todo = <<>> /\ todo' = setPowerManagement(state) /\ command' = state
    /\ UNCHANGED <<driver, level, output, powerMgmtState, payload, lost>>

\* The Pololu's own supply goes and comes back; nobody tells the AGT.
LoseVin ==
    /\ driver = "pololu" /\ payload' = FALSE /\ lost' = TRUE
    /\ UNCHANGED <<driver, level, output, powerMgmtState, todo, command>>

Next == Step \/ Reset \/ LoseVin \/ \E state \in BOOLEAN : Set(state)

Spec == Init /\ [][Next]_vars

-----------------------------------------------------------------------------

\* Between two calls the driver believes what was last requested, and the
\* payload has power exactly then, though the Pololu's driver skips a request
\* for what it believes (RelayController_setPowerManagement).  Only a Pololu
\* that lost its supply stays off until the next boot or OFF and ON.
RequestHolds ==
    todo = <<>> => /\ powerMgmtState = command
                   /\ driver # "none" => payload = (command /\ ~lost)

\* A pulse is over before the next begins and before the driver returns: the
\* Pololu never sees ON and OFF together nor a line that stays high, from
\* any contents of the latches at a reset (pulseHigh, RelayController_init).
PulsesEnd ==
    driver = "pololu" =>
      /\ ~(High(PAYLOAD_POWER_ON_PIN) /\ High(PAYLOAD_POWER_OFF_PIN))
      /\ todo = <<>> => \A p \in Pins : ~High(p)

\* Each driver keeps the payload as requested, and its pulses apart.
PayloadFollows == RequestHolds /\ PulsesEnd

\* Only a request or its supply takes the payload's power away: a reset and
\* the boot that follows never do, from any contents of the latches and cut
\* short by any number of further resets (RelayController_init's comments).
OnlyRequestsCut == [][payload /\ ~payload' => ~command \/ lost']_vars
=============================================================================
