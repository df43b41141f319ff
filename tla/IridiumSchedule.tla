-------------------------- MODULE IridiumSchedule ---------------------------
(***************************************************************************)
(* When the next Iridium report is due (modules/iridium_schedule.cpp).     *)
(*                                                                         *)
(* loop() asks with the millis() of its head, which a blocking session     *)
(* earlier in the same pass leaves behind the stamp of that session.  The  *)
(* difference of the two is unsigned, so both are kept: the age of the     *)
(* attempt now, and by how much the caller's clock lags (modulo the width  *)
(* of the counter).                                                        *)
(***************************************************************************)
EXTENDS Integers

CONSTANTS IRIDIUM_INTERVAL,   \* sysConfig.iridiumInterval
          MILLIS_WRAP         \* millis() counts modulo this

ASSUME ScheduleAssumption ==
    /\ IRIDIUM_INTERVAL \in Nat \ {0}
    /\ MILLIS_WRAP \in Nat /\ IRIDIUM_INTERVAL < MILLIS_WRAP

Schedules ==
    [age : 0 .. IRIDIUM_INTERVAL,   \* since lastAttemptMs
     attempted : BOOLEAN, sent : BOOLEAN, upgrade : BOOLEAN]

\* setup(): nothing is due until a recovery resets the schedule.
schedule_boot == [age |-> 0, attempted |-> TRUE, sent |-> TRUE, upgrade |-> FALSE]

schedule_reset == [age |-> 0, attempted |-> FALSE, sent |-> FALSE, upgrade |-> FALSE]

ScheduleElapse(c, d) ==
    [c EXCEPT !.age = IF ~c.attempted THEN 0
                      ELSE IF @ + d >= IRIDIUM_INTERVAL THEN IRIDIUM_INTERVAL
                      ELSE @ + d]

\* Seeded fault: a failed attempt leaves the upgrade due, to be retried at once.
noteAttemptKeepsUpgrade(c, located) == [c EXCEPT !.age = 0, !.attempted = TRUE]

noteAttempt(c, located) ==
    [c EXCEPT !.age = 0, !.attempted = TRUE,
              !.upgrade = IF located THEN FALSE ELSE @]

noteSent(c, located) ==
    [noteAttempt(c, located) EXCEPT !.sent = TRUE, !.upgrade = ~located]

\* now - lastAttemptMs, for a now that lags behind millis().
SinceAttempt(c, lag) == (c.age - lag) % MILLIS_WRAP

\* Seeded fault: only the first report is ever due.
unlocatedDueOnce(c, lag) == ~c.attempted

unlocatedDue(c, lag) == ~c.attempted \/ SinceAttempt(c, lag) >= IRIDIUM_INTERVAL

\* A fix that arrives after a report without one is due at once.
locatedDue(c, lag) == c.upgrade \/ unlocatedDue(c, lag)
=============================================================================
