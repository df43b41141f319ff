--------------------------- MODULE SoftwareSerial ---------------------------
(***************************************************************************)
(* Bytes on a wire, bit by bit, timed by the CPU's cycle counter           *)
(* (utils/SoftwareSerial.cpp).  Interrupts are off for a byte, so nothing  *)
(* delays an edge; between two bytes the line is high for any time.        *)
(***************************************************************************)
EXTENDS Integers

F_CPU == 48000000
MESHTASTIC_BAUD == 9600

\* begin() rounds the length of a bit down: in cycles to write, in us to read.
bitCycles == F_CPU \div MESHTASTIC_BAUD
bitDelay == 1000000 \div MESHTASTIC_BAUD

\* What the bits of a byte are worth, from the lowest.
Weight == <<1, 2, 4, 8, 16, 32, 64, 128>>

\* The level c cycles behind the start bit's edge: that bit, the byte's eight from
\* the lowest, and high from the stop bit on.  Each edge waits for a time counted
\* from the first, whatever the one before it took.
write(byte, c) ==
    LET k == c \div bitCycles
    IN  CASE k = 0 -> 0 [] k \in 1 .. 8 -> (byte \div Weight[k]) % 2 [] OTHER -> 1

\* Eight bits read from the lowest.
Assembled(bit) ==
    bit[1] + 2 * (bit[2] + 2 * (bit[3] + 2 * (bit[4]
           + 2 * (bit[5] + 2 * (bit[6] + 2 * (bit[7] + 2 * bit[8]))))))

\* pollRX came late us behind the edge: half a bit to be sure, then a bit each.
\* Minus one is no byte.
pollRX(byte, late) ==
    LET line(us) == write(byte, us * (F_CPU \div 1000000))
        first == late + bitDelay \div 2
    IN  IF line(late) = 1 \/ line(first) = 1 THEN -1
        ELSE Assembled([k \in 1 .. 8 |-> line(first + k * bitDelay)])

\* The node's UART samples the middle of each bit by a clock of its own, which is
\* off by so many thousandths.
Sampled(byte, off) ==
    LET half == F_CPU \div (2 * MESHTASTIC_BAUD)
        middle(k) == ((2 * k + 1) * half * (1000 + off)) \div 1000
    IN  IF write(byte, middle(0)) = 1 \/ write(byte, middle(9)) = 0 THEN -1
        ELSE Assembled([k \in 1 .. 8 |-> write(byte, middle(k))])

-----------------------------------------------------------------------------

\* A byte arrives with clocks up to 4 % apart, and pollRX reads one that began
\* less than half a bit ago.
BytesArrive ==
    \A byte \in {0, 36, 85, 170, 255} :
      /\ \A off \in {-40, 0, 40} : Sampled(byte, off) = byte
      /\ \A late \in {0, bitDelay \div 2 - 1} : pollRX(byte, late) = byte
=============================================================================
