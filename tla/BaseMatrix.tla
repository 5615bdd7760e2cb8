----------------------------- MODULE BaseMatrix -----------------------------
(***************************************************************************)
(* The base matrix of the code as ldpc_decoder.v holds it, which the       *)
(* encoder's words must satisfy: MB rows and NB columns of blocks of Z by  *)
(* Z, each a unit matrix shifted by the entry, or no connection at all.    *)
(***************************************************************************)
EXTENDS Integers, FiniteSets

CONSTANTS Z,          (* lifting factor *)
          MB, NB,     (* base rows, base columns *)
          DecHB,      (* the table HB of ldpc_decoder.v *)
          None        (* 6'h3F *)

Row   == 0 .. MB - 1
Col   == 0 .. NB - 1
Pos   == 0 .. Z - 1
Shift == Pos \cup {None}
=============================================================================
