------------------------------ MODULE MCRtpPorts ------------------------------
(* RtpPorts for TLC, with ports of few bits. *)
EXTENDS RtpPorts
==============================================================================
