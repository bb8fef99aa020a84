--------------------------- MODULE MCStreamSession ---------------------------
(* StreamSession for TLC: small sets of sessions and of streams. *)
EXTENDS StreamSession
==============================================================================
