----------------------------- MODULE MCGnssLink -----------------------------
(* Two payloads, one of which looks like the start of a frame.              *)
EXTENDS GnssLink

MCPayloads == {<<3, 4>>, <<UBX_SYNC1, UBX_SYNC2>>}
=============================================================================
