------------------------------- MODULE MCRfPl --------------------------------
(* FIFOs of two words and a start after two clocks of rf_start: a FIFO fills, *)
(* runs empty and fills again within a few samples of each direction.         *)
EXTENDS RfPl
=============================================================================
