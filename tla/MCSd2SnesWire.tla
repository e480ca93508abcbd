--------------------------- MODULE MCSd2SnesWire ---------------------------
(* Values for the constants of Sd2SnesWire: blocks of 4 and 2 bytes, sizes *)
(* that a byte holds up to 2, and two entries to a vector.  The lists have *)
(* an empty, a short, a single long and a double vector, and one each with *)
(* an entry too long and an entry too many.                                *)
EXTENDS Sd2SnesWire

FewLists == { <<0>>, <<2>>, <<5>>, <<4>>, <<2, 1>>, <<1, 4>>, <<1, 1, 1>> }
FewLengths == { 1, 4, 5 }
=============================================================================
