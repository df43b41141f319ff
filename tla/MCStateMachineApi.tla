------------------------- MODULE MCStateMachineApi --------------------------
(* Values of the constants of StateMachineApi for TLC. *)
EXTENDS StateMachineApi

\* The STATE values that the state machine tells apart.
MCDoris == {0, 3, 4}

\* Critical, healthy, not finite.
MCVolts == {1, 3, NotFinite}

\* A depth channel stuck at one reading above the surface, with dropouts.
MCFrozen == {-1, NotFinite}
=============================================================================
