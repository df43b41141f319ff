------------------------------ MODULE Partners ------------------------------
(***************************************************************************)
(* The main loop with the partners it waits for: a Lua script that is      *)
(* alive, goes forward only and repeats its last STATE, or one that is     *)
(* stuck in ASCENT; a BlueOS that is told the state of the handshake, now  *)
(* and then, and repeats its ACK until it is told that it was taken; and a *)
(* depth stream that reads a new value in every pass, as a floating        *)
(* vehicle's does.                                                         *)
(***************************************************************************)
EXTENDS MainLoop, SafetyStatus

VARIABLE env   \* lua: "alive" or "stuck"; depth: the reading last sent;
               \* heard: whether this pass has had one; told: what BlueOS
               \* was told last
allVars == <<vars, env>>

PartnersInit ==
    /\ Init
    /\ \E lua \in {"alive", "stuck"} : 
         env = [lua |-> lua, depth |-> NotFinite, heard |-> FALSE, told |-> NothingTold]

\* The next reading differs from the last one.
Sample ==
    \E v \in Depths \ {env.depth} :
      ~env.heard /\ HearDepth(v) /\ env' = [env EXCEPT !.depth = v, !.heard = TRUE]

\* The pass goes on once it has had its reading.
Resume == env.heard /\ SerialDone /\ env' = [env EXCEPT !.heard = FALSE]

\* Time passes since the last status, in a session too.
Passed(d) == env' = [env EXCEPT !.told = ToldElapse(@, d)]

\* checkStateTransitions, then the status, heard or lost.
Tell(heard) == Backstop /\ env' = [env EXCEPT !.told = sendSafetyStatus(@, sm', heard)]

Heard == statusDue(env.told) /\ Tell(TRUE)

Quietly == (Monitor \/ Power \/ Follow \/ SkipTest \/ SkipReport) /\ UNCHANGED env

Others ==
    \/ Quietly
    \/ \E heard \in BOOLEAN : Tell(heard)
    \/ \E b \in SessionTimes, ok \in BOOLEAN : Report(b, ok) /\ Passed(b)

Wait == \E d \in Durations : Delay(d) /\ Passed(d)

Within == Again /\ UNCHANGED env

\* Lua's RECOVERY is terminal within a run of the script, and a script that is
\* stuck says one thing only.
Say(v) ==
    /\ HearState(v) /\ UNCHANGED env
    /\ IF env.lua = "alive" THEN v >= md.doris.value ELSE v = 3

\* Once it has been asked to shut down and has flushed its logs, until it is
\* told that the ACK was taken.
Acknowledge ==
    env.told.shutdown /\ env.told.stage = "AWAITING_ACK" /\ HearAck /\ UNCHANGED env

Leak == "set_leak" \in Commands /\ (\E b \in BOOLEAN : SetLeak(b)) /\ UNCHANGED env

PartnersNext ==
    \/ Sample \/ Resume \/ Others \/ Wait \/ Within \/ Acknowledge \/ Leak
    \/ \E v \in DorisStates : Say(v)

\* The superloop goes on, and the depth stream with it; its passes do not all
\* fit in one tick; a live script reaches its end and repeats it, BlueOS its
\* ACK.  Not every status is lost.  Whoever is stuck owes nothing.
PartnersFairness ==
    /\ WF_allVars(Sample \/ Resume \/ Others \/ Wait) /\ SF_allVars(Wait) /\ SF_allVars(Heard)
    /\ SF_allVars(env.lua = "alive" /\ Say(4)) /\ SF_allVars(Acknowledge)

PartnersSpec == PartnersInit /\ [][PartnersNext]_allVars /\ PartnersFairness

-----------------------------------------------------------------------------

\* A recovery that came out of a dive ends with the payload off, a failsafe's
\* included, once Lua reaches STATE=4: however many status messages and ACKs
\* are lost, each side repeats what the other waits for (updateSurfacePower,
\* sendSafetyStatus).
HandshakeCompletes ==
    env.lua = "alive" /\ sm.state = "RECOVERY" /\ sm.prev = "DIVING" ~> ~sm.hs.powered

\* With the payload off the reports go on for good: failed sessions, lost and
\* regained fixes do not end them (iridium_schedule.cpp).
ReportsRecur == <>[](~sm.hs.powered) => []<><<AnyReport>>_vars

\* Afloat long enough with the script in ASCENT, the vehicle recovers without
\* it (StateMachine_updateSurfaceBackstop).
AfloatSurfaces == env.lua = "stuck" /\ sm.state = "DIVING" ~> sm.state = "RECOVERY"
=============================================================================
