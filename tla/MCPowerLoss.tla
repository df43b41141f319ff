---------------------------- MODULE MCPowerLoss -----------------------------
(* Bytes of four values; 77 seconds are 385 ms-units, which wrap at 256 and  *)
(* have two bytes whose changes cancel.  A timed event raises three bytes.   *)
EXTENDS PowerLoss

MCCommands ==
    {[name |-> "set_iridium_interval", n |-> 77],
     [name |-> "set_timed_event", gmt |-> FALSE, n |-> 1, duration |-> 2],
     [name |-> "save"], [name |-> "reset"]}
=============================================================================
