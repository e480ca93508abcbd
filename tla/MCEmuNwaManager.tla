-------------------------- MODULE MCEmuNwaManager --------------------------
(* Values for the constants of EmuNwaManager. *)
EXTENDS EmuNwaManager

CONSTANTS d1, d2, d3
=============================================================================
