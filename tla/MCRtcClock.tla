---------------------------- MODULE MCRtcClock ------------------------------
(* Behaviours around New Year, a leap day and a month's end, days of two     *)
(* ticks.                                                                    *)
EXTENDS RtcClock

At(y, m, d, t) == [year |-> y, month |-> m, day |-> d, tick |-> t]

MCStarts == {At(2027, 12, 31, 0), At(2028, 2, 28, 1), At(2027, 2, 28, 1)}

\* Too early, too late, no date and a leap second.
MCOddities == {At(2024, 2, 29, 0), At(2074, 8, 5, 0), At(2027, 2, 29, 0), At(2027, 12, 31, 2)}

MCJunk == {At(2000, 1, 1, 0)}
=============================================================================
