------------------------ MODULE MCRetroarchManager ------------------------
(* Values for the constants of RetroarchManager. *)
EXTENDS RetroarchManager

CONSTANTS d1, d2, d3
===========================================================================
