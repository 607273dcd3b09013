---------------------------- MODULE MCLspDaemon ----------------------------
(* Small instances of LspDaemon for TLC. *)
EXTENDS LspDaemon

CONSTANTS p1, p2, d1, d2, d3

MCFaults == AllFaults
=============================================================================
