------------------------------ MODULE MCTxPath ------------------------------
(* A TLC instance of TxPath.                                                *)
EXTENDS TxPath

MCJunk == [kind |-> "junk"]

(* A small layout: a null bin at 0 and in the middle, one pilot, five data  *)
(* bins.  Two symbols carry 20 bits, a codeword of 16 leaves two bins.      *)
SmallPilotBins == {3}
SmallDataBins  == {1, 2, 5, 6, 7}
=============================================================================
