--------------------------- MODULE MCSharedSocket ---------------------------
(* SharedSocket for TLC: small messages and a small socket buffer. *)
EXTENDS SharedSocket
==============================================================================
