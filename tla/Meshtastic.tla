---------------------------- MODULE Meshtastic ------------------------------
(***************************************************************************)
(* The NMEA feed to the Meshtastic node (modules/meshtastic_interface.cpp) *)
(* and its calls in loop(): sentences go into a ring of bytes, whole or as *)
(* far as they fit, and every pass writes a few bytes to the UART.         *)
(*                                                                         *)
(* A byte is its place in its sentence: 1 is the "$", LINE the end of the  *)
(* line.  The node starts over at a "$" and takes a line that is complete, *)
(* which is what the NMEA checksum gives it.                               *)
(***************************************************************************)
EXTENDS Sequences, SoftwareSerial

CONSTANTS MESH_TX_BUF_SIZE,   \* slots of the ring, one of them always free
          LINE,               \* bytes of a sentence
          MAX_BYTES,          \* written in a pass
          INTERVAL            \* passes between two positions

ASSUME MeshtasticAssumption ==
    /\ MESH_TX_BUF_SIZE \in Nat \ {0, 1} /\ LINE \in Nat \ {0, 1, 2}
    /\ {MAX_BYTES, INTERVAL} \subseteq Nat \ {0}

\* The ring takes a position on top of another of which a pass has written its
\* share, and an interval writes one.
ASSUME HeadroomAssumption ==
    /\ 2 * LINE < MESH_TX_BUF_SIZE /\ 4 * LINE < MESH_TX_BUF_SIZE + MAX_BYTES
    /\ 2 * LINE <= MAX_BYTES * INTERVAL

VARIABLES txBuf, txHead, txTail,   \* the ring
          pass,                    \* where it is: "serial" or "send"
          elapsed,                 \* since the last position, in passes
          line,                    \* what the node has read of a line, 0 if junk
          owed,                    \* observes the whole sentences on their way,
          garbled,                 \* that the node took anything else,
          crowded,                 \* that more than a position met a delay, and
          dropped                  \* that a sentence was cut off without that

meshVars ==
    <<txBuf, txHead, txTail, pass, elapsed, line, owed, garbled, crowded, dropped>>

Slots == 0 .. MESH_TX_BUF_SIZE - 1
Nothing == 0
Sentence == [k \in 1 .. LINE |-> k]
Ring == [buf |-> txBuf, head |-> txHead, tail |-> txTail]
Used == (txHead + MESH_TX_BUF_SIZE - txTail) % MESH_TX_BUF_SIZE
Free == MESH_TX_BUF_SIZE - 1 - Used

-----------------------------------------------------------------------------
(* The operations on the ring *)

\* Seeded fault: a full ring is not noticed.
putOver(r, byte) ==
    [r EXCEPT !.buf[r.head] = byte, !.head = (r.head + 1) % MESH_TX_BUF_SIZE]

\* Room for one more byte, or it is dropped with the rest of its sentence.
put(r, byte) ==
    IF (r.head + 1) % MESH_TX_BUF_SIZE = r.tail THEN r
    ELSE [r EXCEPT !.buf[r.head] = byte, !.head = (r.head + 1) % MESH_TX_BUF_SIZE]

txBufEnqueue(r, bytes) ==
    LET ring[k \in 0 .. Len(bytes)] == IF k = 0 THEN r ELSE put(ring[k - 1], bytes[k])
    IN  ring[Len(bytes)]

\* One or two sentences, taken whole or cut off.
send_nmea_lines(n) ==
    LET one == txBufEnqueue(Ring, Sentence)
        r == IF n = 1 THEN one ELSE txBufEnqueue(one, Sentence)
        fit == IF Free >= n * LINE THEN n ELSE IF Free >= LINE THEN 1 ELSE 0
    IN  /\ txBuf' = r.buf /\ txHead' = r.head
        /\ owed' = owed + fit
        /\ dropped' = (dropped \/ (fit < n /\ ~crowded'))
        /\ UNCHANGED <<txTail, line, garbled>>

\* Seeded fault: a full ring passes for an empty one.
drainedFull(n) == IF Free = 0 THEN 0 ELSE IF n <= Used THEN n ELSE Used

\* Seeded fault: one byte fewer than a pass may write.
drainedLess(n) == IF n - 1 <= Used THEN n - 1 ELSE Used

\* Up to n bytes go out, as many as there are.
drained(n) == IF n <= Used THEN n ELSE Used

advanced(tail, k) == (tail + k) % MESH_TX_BUF_SIZE

\* The node reads one byte: the line so far, the lines it has taken.
NodeHears(ear, byte) ==
    IF byte = 1 THEN [ear EXCEPT !.line = 1]
    ELSE IF byte # ear.line + 1 THEN [ear EXCEPT !.line = 0]
    ELSE IF byte = LINE THEN [line |-> 0, taken |-> ear.taken + 1]
    ELSE [ear EXCEPT !.line = byte]

\* It reads the next n bytes of the ring.
Heard(n) ==
    LET ear[j \in 0 .. n] ==
          IF j = 0 THEN [line |-> line, taken |-> 0]
          ELSE NodeHears(ear[j - 1], txBuf[advanced(txTail, j - 1)])
    IN  ear[n]

-----------------------------------------------------------------------------

\* After setup(): initialized, the ring empty.
MeshtasticInterface_init ==
    /\ txBuf = [s \in Slots |-> Nothing] /\ txHead = 0 /\ txTail = 0
    /\ pass = "serial" /\ elapsed = 0 /\ line = 0
    /\ owed = 0 /\ garbled = FALSE /\ crowded = FALSE /\ dropped = FALSE

\* mesh_test_gps: two sentences, any number of times in a pass.
sendTestNMEA ==
    /\ pass = "serial" /\ crowded' = TRUE /\ send_nmea_lines(2)
    /\ UNCHANGED <<pass, elapsed>>

\* What was written is forgotten, which the code leaves in its slot.
MeshtasticInterface_update ==
    /\ pass = "serial" /\ pass' = "send"
    /\ LET k == drained(MAX_BYTES)
           out == {advanced(txTail, j - 1) : j \in 1 .. k}
           ear == Heard(k)
       IN  /\ txTail' = advanced(txTail, k)
           /\ txBuf' = [s \in Slots |-> IF s \in out THEN Nothing ELSE txBuf[s]]
           /\ line' = ear.line
           /\ owed' = IF ear.taken <= owed THEN owed - ear.taken ELSE 0
           /\ garbled' = (garbled \/ ear.taken > owed)
           /\ crowded' = (crowded /\ txTail' # txHead)
    /\ elapsed' = IF elapsed < INTERVAL THEN elapsed + 1 ELSE elapsed
    /\ UNCHANGED <<txHead, dropped>>

\* A position is GGA and RMC, no fix an empty GGA, taken for as long as one.
Feed(lines) ==
    /\ pass = "send" /\ elapsed >= INTERVAL
    /\ UNCHANGED crowded /\ send_nmea_lines(lines)
    /\ elapsed' = 0 /\ pass' = "serial"

NotDue ==
    /\ pass = "send" /\ elapsed < INTERVAL /\ pass' = "serial"
    /\ UNCHANGED <<txBuf, txHead, txTail, elapsed, line, owed, garbled, crowded, dropped>>

\* A report, the upgrade straight behind it, a manual test or the restart of a
\* mute receiver holds the loop up, for a moment or for minutes, in any pass:
\* time goes on and nothing is written.  Only the next pass sees it, as now is
\* read at the head of a pass.
BlockingCall ==
    /\ pass = "serial" /\ elapsed' \in elapsed + 1 .. INTERVAL
    /\ crowded' = (crowded \/ Used > 2 * LINE)
    /\ UNCHANGED <<txBuf, txHead, txTail, pass, line, owed, garbled, dropped>>

MeshNext ==
    \/ sendTestNMEA \/ MeshtasticInterface_update \/ NotDue \/ BlockingCall
    \/ \E lines \in {1, 2} : Feed(lines)

\* loop() runs for ever.
MeshFairness ==
    WF_meshVars(MeshtasticInterface_update) /\ WF_meshVars(NotDue \/ Feed(1) \/ Feed(2))

MeshSpec == MeshtasticInterface_init /\ [][MeshNext]_meshVars /\ MeshFairness

-----------------------------------------------------------------------------

\* The node takes as many sentences as fitted, and none glued together from
\* the fragments that a full ring leaves between them (txBufEnqueue): an
\* empty ring owes none, and no byte is read as another one on the wire
\* (SoftwareSerial::write).
WholeSentencesArrive == ~garbled /\ (txHead = txTail => owed = 0) /\ BytesArrive

\* No position loses a byte to a full ring, calls that hold the loop up for
\* minutes in any pass included, unless the operator adds test sentences or such
\* a call begins with more than a position still in the ring, as the upgrade
\* straight behind a report without a position does (txBufEnqueue, loop()).
PositionsFit == ~dropped

\* A byte that is queued is written in the end, from a full ring or an almost
\* empty one.
EachByteIsWritten == \A s \in Slots : txBuf[s] # Nothing ~> txBuf[s] = Nothing
=============================================================================
