---------------------------- MODULE MCEmuNwaWire ----------------------------
(* Values for the constants of EmuNwaWire: lists of one, two and three     *)
(* addresses in two domains, with sizes of 0, 1 and 2, that make one, two  *)
(* and three commands.                                                     *)
EXTENDS EmuNwaWire

At(dom, size) == [dom |-> dom, size |-> size]

FewLists ==
  { <<At("WRAM", 2)>>, <<At("WRAM", 0)>>,
    <<At("WRAM", 1), At("WRAM", 2)>>,
    <<At("WRAM", 1), At("CARTRAM", 1)>>,
    <<At("WRAM", 1), At("CARTRAM", 2), At("WRAM", 0)>>,
    <<At("WRAM", 1), At("CARTRAM", 1), At("WRAM", 1)>> }
=============================================================================
