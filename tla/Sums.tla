-------------------------------- MODULE Sums --------------------------------
(* Sums of sequences of numbers, by which the wires count bytes.           *)
EXTENDS Integers, Sequences, SequencesExt

SumOf(s) == FoldLeft(LAMBDA a, b : a + b, 0, s)
=============================================================================
