----------------------------- MODULE MCCpStream -----------------------------
(* A TLC instance of CpStream. The sample 0 of symbol -1 stands for what a  *)
(* register holds before it is written: no producer sends it.               *)
EXTENDS CpStream

MCJunk    == Sample(-1, 0)
TopSink   == {TRUE}
=============================================================================
