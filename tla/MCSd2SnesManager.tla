-------------------------- MODULE MCSd2SnesManager --------------------------
(* Values for the constants of Sd2SnesManager. *)
EXTENDS Sd2SnesManager

CONSTANTS d1, d2, d3, p1, p2
=============================================================================
