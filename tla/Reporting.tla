------------------------------ MODULE Reporting ------------------------------
(***************************************************************************)
(* The main loop's Iridium sessions against what they are for.  log        *)
(* watches the sessions and is read by no action:                          *)
(*   quiet   how long no session has run;                                  *)
(*   last    what the sessions since this recovery began delivered:        *)
(*           nothing tried, a status without a position that awaits one,   *)
(*           or anything else;                                             *)
(*   asked   whether Lua has said STATE=4 since the last dive began.       *)
(***************************************************************************)
EXTENDS MainLoop

VARIABLE log
loggedVars == <<vars, log>>

LogInit == Init /\ log = [quiet |-> IRIDIUM_INTERVAL, last |-> "none", asked |-> FALSE]

\* A session ended.
Logged(l, located, ok) ==
    [l EXCEPT !.quiet = 0,
              !.last = IF ~located /\ (ok \/ @ = "status") THEN "status" ELSE "other"]

\* A dive begins, and the last one is over.
Dives == sm.state # "DIVING" /\ sm'.state = "DIVING"

\* Any other step: what was tried counts only for the recovery it was tried in,
\* what Lua has said only for its dive.
Kept(l) == [l EXCEPT !.last = IF sm'.state = "RECOVERY" THEN @ ELSE "none",
                     !.asked = (@ \/ HearState(4)) /\ ~Dives]

LogNext ==
    \/ \E b \in SessionTimes, ok \in BOOLEAN :
         \/ ManualTest(b, ok) /\ log' = IF sm.state = "RECOVERY" THEN Logged(log, TRUE, ok)
                                        ELSE [log EXCEPT !.quiet = 0]
         \/ Report(b, ok) /\ log' = Logged(log, fix, ok)
    \/ \E d \in Durations :
         Delay(d) /\ log' = [log EXCEPT !.quiet = Aged(@, d, IRIDIUM_INTERVAL)]
    \/ (Instant \/ Serial \/ Again \/ Boot) /\ log' = Kept(log)

ReportingSpec == LogInit /\ [][LogNext]_loggedVars

-----------------------------------------------------------------------------

\* A session now would not be too soon after the one before: only the first
\* of a recovery and the position that a status report still owes go out before
\* the interval is over.
Spaced ==
    log.quiet = IRIDIUM_INTERVAL \/ log.last = "none" \/ (log.last = "status" /\ fix)

\* Automatic reports keep the interval from the end of the session before,
\* whichever sent that (docs/STATE_MACHINE.md), in every pass that did not run
\* a manual test before them: failures, fixes lost and regained, tests of
\* earlier passes, resets and reboots bring no report forward
\* (iridium_schedule.cpp, loop()).
SpacedButForTest == [][AnyReport /\ lag = 0 => Spaced]_loggedVars

\* No pass ends with the payload off and nothing sent or tried since the
\* recovery began: the schedule was restarted on its way in, by whichever of
\* the three paths (checkStateTransitions).
FirstReportAtOnce == pc = "delay" /\ canTransmitIridium(sm) => log.last # "none"

\* The handshake that takes the payload's power is begun by a STATE=4 that Lua
\* said after this dive began.  One in store from before it, still fresh, begins
\* none, whatever the dive was entered and ended by: resets, manual sessions that
\* discard messages, recoveries left and re-entered within a pass
\* (StateMachine_updateSurfacePower, checkStateTransitions).
AskedInThisDive == sm.hs.qualified => log.asked
=============================================================================
