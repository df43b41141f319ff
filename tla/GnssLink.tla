------------------------------ MODULE GnssLink ------------------------------
(***************************************************************************)
(* The I2C link to the GNSS receiver (modules/gps_manager.cpp): setup()    *)
(* configures the receiver, the superloop reads it a chunk in a pass and   *)
(* feeds the parser, a modem session cuts its power and                    *)
(* GPSManager_reinit brings it back, the watchdog restarts the link.       *)
(*                                                                         *)
(* A tick is the second between two frames, in which the passes drain the  *)
(* receiver.  A frame may arrive with a byte wrong, a command may go       *)
(* unanswered, a session may begin between any two chunks.                 *)
(***************************************************************************)
EXTENDS GpsManager, UbxParser, GnssReceiver, TLC

CONSTANTS Payloads,  \* of NAV-PVT
          NOISE,     \* what a garbled byte reads
          MaxFaults  \* bound on what goes wrong in a behaviour

ASSUME GnssLinkAssumption ==
    /\ Payloads \subseteq [1 .. UBX_NAV_PVT_LEN -> 0 .. BYTE - 1]
    /\ NOISE \in 0 .. BYTE - 1 /\ MaxFaults \in Nat

VARIABLES gps, ubx,          \* gps_manager.cpp
          configSavedToBBR, aopCfgChanged,
          pc,                \* "boot", "run", "off", "reinit", "retry"
          todo,              \* commands ahead
          receiver, i2c,     \* the receiver and the bytes it holds ready
          seen               \* observes

firmware == <<gps, ubx, configSavedToBBR, aopCfgChanged, pc, todo>>
vars == <<firmware, receiver, i2c, seen>>

\* sent    the payload of the frame in i2c, none if it is another or garbled;
\* missed  whole frames that ended no PVT since the link was last disturbed;
\* lost    a command has gone unanswered since the last power-up;
\* stored  setup() once had every command answered, what restart it caused was
\*         over by then, and the cell holds;
\* faults  commands unanswered, bytes garbled, sessions so far.
None == <<>>
Unseen == [sent |-> None, missed |-> 0, lost |-> FALSE, stored |-> FALSE, faults |-> 0]

\* One more thing goes wrong, or not.
Counted(e, wrong) == [e EXCEPT !.faults = IF wrong THEN @ + 1 ELSE @]
Bounded(wrong) == wrong => seen.faults < MaxFaults

Init ==
    /\ gps = GPSManager_init /\ ubx = ubxInit
    /\ configSavedToBBR = FALSE /\ aopCfgChanged = FALSE
    /\ pc = "boot" /\ todo = initI2CAndGPS(TRUE)
    /\ \E bbr \in {{}, Items \ {"aop"}}, cell, ephemeris \in BOOLEAN :
         receiver = [ram |-> bbr, bbr |-> bbr, cell |-> cell, restarting |-> FALSE,
                     ephemeris |-> ephemeris /\ bbr # {}]
    /\ i2c = <<>> /\ seen = Unseen

-----------------------------------------------------------------------------
(* initI2CAndGPS *)

Commanding(op) ==
    /\ pc \in {"boot", "reinit", "retry"} /\ todo # <<>> /\ Head(todo).op = op
    /\ UNCHANGED <<ubx, i2c>>

\* An answer, or the sign that it is missing.
Answer(ok) == Bounded(~ok) /\ seen' = [Counted(seen, ~ok) EXCEPT !.lost = @ \/ ~ok]

Begin ==
    /\ Commanding("begin") /\ todo' = Tail(todo) /\ aopCfgChanged' = FALSE
    /\ UNCHANGED <<gps, configSavedToBBR, pc, receiver, seen>>

\* A receiver that is not detected ends setup()'s attempt; GPSManager_reinit
\* tries once more with everything, then gives up and leaves the clock alone.
BeginFails ==
    /\ Commanding("begin") /\ Answer(FALSE)
    /\ IF pc = "reinit" THEN pc' = "retry" /\ todo' = initI2CAndGPS(TRUE)
       ELSE pc' = "run" /\ todo' = <<>>
    /\ UNCHANGED <<gps, configSavedToBBR, aopCfgChanged, receiver>>

Ask(ok) ==
    /\ Commanding("ask_glonass") /\ Answer(ok)
    /\ todo' = Asked(receiver, ok) \o Tail(todo)
    /\ configSavedToBBR' = (configSavedToBBR \/ alreadyConfigured(receiver, ok))
    /\ UNCHANGED <<gps, aopCfgChanged, pc, receiver>>

SetItem(ok) ==
    /\ Commanding("set") /\ Answer(ok) /\ todo' = Tail(todo)
    /\ receiver' = IF ok THEN Configured(receiver, Head(todo).item) ELSE receiver
    /\ UNCHANGED <<gps, configSavedToBBR, aopCfgChanged, pc>>

EnsureItem(ok) ==
    /\ Commanding("ensure") /\ Answer(ok) /\ todo' = Tail(todo)
    /\ LET differs == ok /\ Head(todo).item \notin receiver.ram IN
        /\ receiver' = IF differs THEN Configured(receiver, Head(todo).item) ELSE receiver
        /\ aopCfgChanged' = (aopCfgChanged \/ differs)
    /\ UNCHANGED <<gps, configSavedToBBR, pc>>

saveConfiguration(ok) ==
    receiver' = IF ok THEN [receiver EXCEPT !.bbr = receiver.ram] ELSE receiver

Save(ok) ==
    /\ Commanding("save") /\ Answer(ok) /\ todo' = Tail(todo)
    /\ saveConfiguration(ok) /\ configSavedToBBR' = (configSavedToBBR \/ ok)
    /\ UNCHANGED <<gps, aopCfgChanged, pc>>

SaveChanged(ok) ==
    /\ Commanding("save_changed") /\ todo' = Tail(todo)
    /\ IF aopCfgChanged THEN saveConfiguration(ok) /\ Answer(ok)
       ELSE UNCHANGED <<receiver, seen>>
    /\ UNCHANGED <<gps, configSavedToBBR, aopCfgChanged, pc>>

\* Back to the superloop; only GPSManager_reinit restarts the clock.
Done ==
    /\ pc \in {"boot", "reinit", "retry"} /\ todo = <<>> /\ pc' = "run"
    /\ gps' = reinit(gps, pc # "boot")
    /\ seen' = [seen EXCEPT !.stored = receiver.cell
                  /\ (@ \/ (pc = "boot" /\ ~seen.lost /\ ~receiver.restarting))]
    /\ UNCHANGED <<ubx, configSavedToBBR, aopCfgChanged, todo, receiver, i2c>>

-----------------------------------------------------------------------------
(* The superloop *)

Running == pc = "run" /\ UNCHANGED <<configSavedToBBR, aopCfgChanged, todo>>

Chunk == SubSeq(i2c, 1, IF Len(i2c) < UBX_READ_CHUNK THEN Len(i2c) ELSE UBX_READ_CHUNK)

\* GPSManager_update: a chunk of what the receiver holds.
Update ==
    /\ Running /\ ~watchdogDue(gps) /\ i2c # <<>>
    /\ LET parsed == Parsed(ubx, Chunk) IN
        /\ ubx' = parsed.ubx
        /\ gps' = IF parsed.pvts = <<>> THEN answered(gps) ELSE processPVT(gps, TRUE)
        /\ seen' = IF parsed.pvts = <<>> THEN seen ELSE [seen EXCEPT !.missed = 0]
    /\ i2c' = SubSeq(i2c, Len(Chunk) + 1, Len(i2c))
    /\ UNCHANGED <<pc, receiver>>

\* Seeded fault: the parser goes on where it was.
reinitKeepsParser(u) == u

parserBehindReinit(u) == ubxReset(u)

\* The library reads what the receiver holds while it begins, or does not.
Watchdog(begun, set) ==
    /\ Running /\ watchdogDue(gps)
    /\ gps' = gpsFullReinit(gps) /\ ubx' = parserBehindReinit(ubx)
    /\ receiver' = IF begun /\ set THEN Configured(receiver, "pvt") ELSE receiver
    /\ i2c' \in IF begun THEN {i2c, <<>>} ELSE {i2c}
    /\ Bounded(~(begun /\ set)) /\ seen' = Counted(seen, ~(begun /\ set))
    /\ UNCHANGED pc

\* A session cuts the receiver's power, between two chunks if it has to.
Session ==
    /\ Running /\ pc' = "off"
    /\ receiver' = Unpowered(receiver) /\ i2c' = <<>>
    /\ Bounded(TRUE) /\ seen' = [Counted(seen, TRUE) EXCEPT !.missed = 0]
    /\ UNCHANGED <<gps, ubx>>

\* It took minutes.  GPSManager_reinit powers the receiver.
Reinit ==
    /\ pc = "off" /\ pc' = "reinit"
    /\ gps' = GpsElapse(gps, PVT_WATCHDOG + 1)
    /\ receiver' = Powered(receiver) /\ todo' = initI2CAndGPS(~configSavedToBBR)
    /\ seen' = [seen EXCEPT !.lost = FALSE]
    /\ UNCHANGED <<ubx, configSavedToBBR, aopCfgChanged, i2c>>

\* A reset of the board; GNSS_EN floats and the receiver loses its power.
Boot ==
    /\ gps' = GPSManager_init /\ ubx' = ubxInit
    /\ configSavedToBBR' = FALSE /\ aopCfgChanged' = FALSE
    /\ pc' = "boot" /\ todo' = initI2CAndGPS(TRUE)
    /\ receiver' = Powered(Unpowered(receiver)) /\ i2c' = <<>>
    /\ seen' = [Unseen EXCEPT !.stored = seen.stored, !.faults = seen.faults]

-----------------------------------------------------------------------------
(* The receiver *)

Checksums(bytes) ==
    LET sum[k \in 0 .. Len(bytes)] ==
          IF k = 0 THEN [a |-> 0, b |-> 0]
          ELSE LET s == sum[k - 1] IN
               [a |-> (s.a + bytes[k]) % BYTE, b |-> (s.b + s.a + bytes[k]) % BYTE]
    IN  sum[Len(bytes)]

Frame(class, id, payload) ==
    LET body == <<class, id, Len(payload) % BYTE, Len(payload) \div BYTE>> \o payload IN
    <<UBX_SYNC1, UBX_SYNC2>> \o body \o <<Checksums(body).a, Checksums(body).b>>

\* An acknowledgement that nobody waits for.
Acknowledgement == Frame(5, 1, <<UBX_NAV_CLASS, UBX_NAV_PVT_ID, 1>>)

\* A second passes; the passes in it have drained the receiver.
Tick ==
    /\ pc = "run" /\ i2c = <<>> /\ ~watchdogDue(gps)
    /\ gps' = GpsElapse(gps, 1)
    /\ UNCHANGED <<ubx, configSavedToBBR, aopCfgChanged, pc, todo, receiver>>

Silent == Tick /\ "pvt" \notin receiver.ram /\ UNCHANGED <<i2c, seen>>

\* NAV-PVT whole.
Speak(payload) ==
    /\ Tick /\ "pvt" \in receiver.ram
    /\ i2c' = Frame(UBX_NAV_CLASS, UBX_NAV_PVT_ID, payload)
    /\ seen' = [seen EXCEPT !.sent = payload,
                            !.missed = IF @ > PVT_WATCHDOG + 2 THEN @ ELSE @ + 1]

\* With one byte wrong.  Before the first PVT nothing bounds what a wrong
\* length swallows: the watchdog is not armed.
Garble(payload, i) ==
    /\ Tick /\ "pvt" \in receiver.ram /\ gps.stamped
    /\ i2c' = [Frame(UBX_NAV_CLASS, UBX_NAV_PVT_ID, payload) EXCEPT ![i] = NOISE]
    /\ Bounded(TRUE) /\ seen' = [Counted(seen, TRUE) EXCEPT !.sent = None, !.missed = 0]

\* Something else.
Chatter ==
    /\ Tick /\ i2c' = Acknowledgement
    /\ seen' = [seen EXCEPT !.sent = None, !.missed = 0]

ReceiverRestarts ==
    /\ receiver.restarting /\ receiver' = Restarted(receiver)
    /\ UNCHANGED <<firmware, i2c, seen>>

\* Half a minute under the sky; a pending restart comes first.
Acquire ==
    /\ pc = "run" /\ i2c = <<>> /\ ~receiver.ephemeris /\ ~receiver.restarting
    /\ receiver' = [receiver EXCEPT !.ephemeris = TRUE]
    /\ UNCHANGED <<firmware, i2c, seen>>

FrameLength == UBX_NAV_PVT_LEN + 8

Command(ok) == Ask(ok) \/ SetItem(ok) \/ EnsureItem(ok) \/ Save(ok) \/ SaveChanged(ok)

Next ==
    \/ Begin \/ BeginFails \/ \E ok \in BOOLEAN : Command(ok)
    \/ Done \/ Update \/ \E begun, set \in BOOLEAN : Watchdog(begun, set)
    \/ Session \/ Reinit \/ Boot
    \/ Silent \/ \E p \in Payloads : Speak(p) \/ \E i \in 1 .. FrameLength : Garble(p, i)
    \/ Chatter \/ ReceiverRestarts \/ Acquire

Spec == Init /\ [][Next]_vars

-----------------------------------------------------------------------------

\* Every PVT the firmware acts on is the last frame the receiver sent, whole:
\* no byte of an earlier frame, cut by a session or swallowed behind a wrong
\* length, gets into it (ubxParseByte).
PvtAsSent ==
    [][LET pvts == Parsed(ubx, Chunk).pvts IN
       Update /\ pvts # <<>> =>
         /\ Len(pvts) = 1
         /\ seen.sent # None
         /\ \A i \in 1 .. UBX_NAV_PVT_LEN : pvts[1][i - 1] = seen.sent[i]]_vars

\* Once a PVT or a re-initialisation has armed the watchdog, the parser is
\* back in step before more than its time has passed, wherever in a frame a
\* session or a wrong byte left it: a length taken from the next frame's sync
\* swallows 25 kB otherwise (the PVT watchdog).
BackInStep == gps.stamped => seen.missed <= PVT_WATCHDOG + 2

\* When an initialisation had every command answered, the receiver speaks
\* until its power goes, though enabling a constellation restarts it at some
\* later moment (the comments in initI2CAndGPS).
SpeaksAfterInit == pc = "run" /\ ~seen.lost => "pvt" \in receiver.ram

\* A receiver that was configured and saved once, on a healthy cell, is not
\* restarted by a later boot, re-initialisation or watchdog whose questions it
\* answers, and keeps its ephemeris ("CRITICAL" in initI2CAndGPS).
EphemerisKept ==
    [][receiver.ephemeris /\ ~receiver'.ephemeris => ~seen.stored \/ seen.lost]_vars
=============================================================================
