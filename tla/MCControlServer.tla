-------------------------- MODULE MCControlServer --------------------------
(* Values for the constants of ControlServer. *)
EXTENDS ControlServer, TLC

CONSTANTS c1, c2, d1, d2, n1, n2

Symmetry == Permutations({c1, c2})

(* One device; two devices with names of their own; two lives of one device. *)
OneDevice == d1 :> n1
TwoNames == d1 :> n1 @@ d2 :> n2
OneName == d1 :> n1 @@ d2 :> n1

Sd2Snes == d1 :> "sd2snes"
Retroarch == d1 :> "retroarch"
RetroarchTwice == d1 :> "retroarch" @@ d2 :> "retroarch"
LuaAndEmuNwa == d1 :> "lua" @@ d2 :> "emunwa"
EmuNwaAndSd2Snes == d1 :> "emunwa" @@ d2 :> "sd2snes"
=============================================================================
