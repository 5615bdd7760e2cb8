------------------------------ MODULE MCRxPath ------------------------------
(* TLC instances of RxPath, with the bins of MCTxPath.                      *)
EXTENDS RxPath

MCJunk == [kind |-> "junk"]

SmallPilotBins == {3}
SmallDataBins  == {1, 2, 5, 6, 7}
=============================================================================
