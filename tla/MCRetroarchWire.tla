-------------------------- MODULE MCRetroarchWire --------------------------
(* Values for the constants of RetroarchWire: transfers that cross banks,  *)
(* that end with one, that cover three, that reach the end of a mapping    *)
(* and that go from one domain to another, and frames that are smaller and *)
(* larger than a command.                                                  *)
EXTENDS RetroarchWire

At(address, size) == [address |-> address, size |-> size]

FewLists ==
  { << At(32752, 32) >>,
    << At(32256, 512) >>,
    << At(65000, 33500) >>,
    << At(4194288, 32) >>,
    << At(Wram + 131000, 72), At(CartRam, 600), At(32767, 1) >>,
    << At(Wram, 0) >>, << At(Wram, 300), At(0, 0), At(Wram, 300) >> }

FewFrames == {256, 768}
=============================================================================
