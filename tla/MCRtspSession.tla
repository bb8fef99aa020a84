---------------------------- MODULE MCRtspSession ----------------------------
(* RtspSession for TLC: the model values of the configurations suffice. *)
EXTENDS RtspSession
==============================================================================
