---------------------------- MODULE MCPlLoopback ----------------------------
(* A TLC instance of PlLoopback: a code of two rows of blocks of two bits,  *)
(* a frame of three symbols of four bins, of which two carry data, so that  *)
(* the third symbol is spare as the twelfth of the code almost is.          *)
EXTENDS PlLoopback

MCJunk == [kind |-> "junk"]
X == -1

Table(rows) == [r \in 0 .. Len(rows) - 1 |->
                   [c \in 0 .. Len(rows[r + 1]) - 1 |-> rows[r + 1][c + 1]]]
SmallHB == Table(<< <<0, 1, 0, X>>,
                    <<1, 0, 0, 0>> >>)

SmallDataBins  == {1, 3}
SmallPilotBins == {2}

(* Two patterns that differ in every bit, and in their codewords. *)
SmallPatterns == {[c \in 0 .. 1 |-> IF c = 0 THEN {0} ELSE {0, 1}],
                  [c \in 0 .. 1 |-> IF c = 0 THEN {1} ELSE {}]}
=============================================================================
