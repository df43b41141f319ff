------------------------------ MODULE MCPanel -------------------------------
(* Two keys, two words of them, four messages; the payload of one is a key, *)
(* the checksum of another a line end.                                      *)
EXTENDS Panel

Switch(feature, on) == [feature |-> feature, on |-> on]
MCWords ==
    [w \in {<<1, 1>>, <<1, 2>>, <<2, 1>>, <<2>>} |->
        CASE w = <<1, 1>> -> Switch("neopixels", FALSE)
          [] w = <<1, 2>> -> Switch("neopixels", TRUE)
          [] w = <<2, 1>> -> Switch("mavlink", FALSE)
          [] w = <<2>> -> Switch("mavlink", TRUE)]

Led(pattern, brightness) == [kind |-> "led", pattern |-> pattern, brightness |-> brightness]
Heartbeat(armed) == [kind |-> "heartbeat", armed |-> armed]
MCMessages == <<Led("SOLID", 0), Led("STROBE", 1), Heartbeat(TRUE), Heartbeat(FALSE), Led("OFF", 2)>>
=============================================================================
