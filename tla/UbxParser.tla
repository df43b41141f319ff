----------------------------- MODULE UbxParser ------------------------------
(***************************************************************************)
(* The byte parser of UBX frames (modules/gps_manager.cpp, ubxParseByte):  *)
(*   B5 62 class id length(2) payload checksum(2).                         *)
(* A parser is a record, a byte makes the next one of it.  Bytes are       *)
(* bytes, as checksum and false sync depend on their values; only the      *)
(* payload of NAV-PVT is shorter than its 92.                              *)
(***************************************************************************)
EXTENDS Integers, Sequences

CONSTANTS UBX_NAV_PVT_LEN,  \* bytes of a NAV-PVT payload
          UBX_READ_CHUNK    \* bytes read of the receiver in one pass

ASSUME UbxAssumption ==
    UBX_NAV_PVT_LEN \in 1 .. 255 /\ UBX_READ_CHUNK \in Nat \ {0}

UBX_SYNC1 == 181
UBX_SYNC2 == 98
UBX_NAV_CLASS == 1
UBX_NAV_PVT_ID == 7
BYTE == 256

ubxInit == [state |-> 0, class |-> 0, id |-> 0, len |-> 0, idx |-> 0,
            ckA |-> 0, ckB |-> 0, buf |-> [i \in 0 .. UBX_NAV_PVT_LEN - 1 |-> 0]]

\* What the next frame writes before it is read is not kept either.
ubxReset(u) == [ubxInit EXCEPT !.buf = u.buf]

\* The running checksum over one more byte.
Summed(u, b) == [u EXCEPT !.ckA = (@ + b) % BYTE, !.ckB = (@ + u.ckA + b) % BYTE]

PvtHeader(u) == u.class = UBX_NAV_CLASS /\ u.id = UBX_NAV_PVT_ID

\* A payload byte; what does not fit, or is of another message, is not kept.
Stored(u, b) ==
    IF PvtHeader(u) /\ u.idx < UBX_NAV_PVT_LEN THEN [u EXCEPT !.buf[u.idx] = b] ELSE u

InPayload(u, b) ==
    [Summed(Stored(u, b), b) EXCEPT
        !.idx = @ + 1, !.state = IF u.idx + 1 >= u.len THEN 7 ELSE 6]

ubxParseByte(u, b) ==
    CASE u.state = 0 -> IF b = UBX_SYNC1 THEN [u EXCEPT !.state = 1] ELSE u
      [] u.state = 1 -> [u EXCEPT !.state = IF b = UBX_SYNC2 THEN 2 ELSE 0]
      [] u.state = 2 -> [u EXCEPT !.class = b, !.ckA = b, !.ckB = b, !.state = 3]
      [] u.state = 3 -> [Summed(u, b) EXCEPT !.id = b, !.state = 4]
      [] u.state = 4 -> [Summed(u, b) EXCEPT !.len = b, !.state = 5]
      [] u.state = 5 ->
           LET len == u.len + BYTE * b IN
           [Summed(u, b) EXCEPT !.len = len, !.idx = 0, !.state = IF len > 0 THEN 6 ELSE 7]
      [] u.state = 6 -> InPayload(u, b)
      [] u.state = 7 -> IF b = u.ckA THEN [u EXCEPT !.state = 8] ELSE ubxReset(u)
      [] u.state = 8 -> ubxReset(u)

\* Seeded fault: a frame of any checksum is a PVT.
endsAnyPvt(u, b) == u.state = 7 /\ PvtHeader(u) /\ u.len = UBX_NAV_PVT_LEN

\* The byte that makes ubxParseByte call processPVT.
endsPvt(u, b) ==
    u.state = 8 /\ b = u.ckB /\ PvtHeader(u) /\ u.len = UBX_NAV_PVT_LEN

\* A chunk: the parser behind it and the payloads it processed on the way.
Parsed(u, chunk) ==
    LET run[k \in 0 .. Len(chunk)] ==
          IF k = 0 THEN [ubx |-> u, pvts |-> <<>>]
          ELSE LET p == run[k - 1] IN
               [ubx |-> ubxParseByte(p.ubx, chunk[k]),
                pvts |-> IF endsPvt(p.ubx, chunk[k]) THEN Append(p.pvts, p.ubx.buf) ELSE p.pvts]
    IN  run[Len(chunk)]
=============================================================================
