--------------------------- MODULE MCRtpPacketizer ---------------------------
(* RtpPacketizer for TLC, with packets of few bytes and narrow counters. *)
EXTENDS RtpPacketizer
==============================================================================
