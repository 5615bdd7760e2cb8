---------------------------- MODULE MCLdpcEncoder ----------------------------
(* TLC instance of LdpcEncoder: its two tables and test pattern.            *)
EXTENDS LdpcEncoder, Sequences

(* Rows of a table are given from column 0 up, as sequences. *)
Table(rows) == [r \in 0 .. Len(rows) - 1 |->
                   [c \in 0 .. Len(rows[r + 1]) - 1 |-> rows[r + 1][c + 1]]]

X == -1

(* ldpc_encoder.v:33-58 and ldpc_decoder.v:27-52, from column 0 up. *)
InfoPart == << << 3, 16,  1, 23, 10, 25, 20, 28>>,
               <<15, 17, 30,  4, 27,  6, 12, 19>>,
               <<21,  8, 16, 29,  5,  9, 24, 13>>,
               << 2, 31, 14, 11, 18,  3,  7, 26>>,
               <<24, 19,  0, 29, 14, 21, 31, 10>>,
               <<16,  4, 23,  8, 27, 13,  2, 18>>,
               << 7, 25,  6, 20, 11, 15, 28,  5>>,
               << 0,  9, 12,  1,  3, 30, 17, 22>> >>

EncParity == << <<X, 0, 0, 0, 0, 0, 0, X>>,
                <<X, X, 0, 0, 0, 0, X, X>>,
                <<X, X, 0, 0, 0, X, X, X>>,
                <<X, X, 0, 0, X, X, X, X>>,
                <<X, X, X, X, X, X, X, X>>,
                <<X, X, X, X, X, X, X, X>>,
                <<X, X, X, X, X, X, X, X>>,
                <<X, X, X, X, X, X, X, X>> >>

DecParity == << <<0, X, X, X, X, X, X, X>>,
                <<0, 0, X, X, X, X, X, X>>,
                <<X, 0, 0, X, X, X, X, X>>,
                <<X, X, 0, 0, X, X, X, X>>,
                <<X, X, X, 0, 0, X, X, X>>,
                <<X, X, X, X, 0, 0, X, X>>,
                <<X, X, X, X, X, 0, 0, X>>,
                <<X, X, X, X, X, X, 0, 0>> >>

RealEncHB == Table([r \in 1 .. 8 |-> InfoPart[r] \o EncParity[r]])
RealDecHB == Table([r \in 1 .. 8 |-> InfoPart[r] \o DecParity[r]])

(* A column of 64 bits from its four 16-bit parts, the high one first.      *)
Bits(w, at) == {at + i : i \in {k \in 0 .. 15 : (w \div 2^k) % 2 = 1}}
Column(a, b, c, d) == Bits(a, 48) \cup Bits(b, 32) \cup Bits(c, 16) \cup Bits(d, 0)

(* TEST_BITS of ofdm_ldpc_pl.v:53-62.                                       *)
TestBits == [c \in 0 .. 7 |->
    CASE c \in {0, 2} -> Column(\hF0F0, \hF0F0, \h0F0F, \h0F0F)
      [] c \in {1, 3} -> Column(\hA5A5, \hA5A5, \h5A5A, \h5A5A)
      [] c \in {4, 6} -> Column(\h0123, \h4567, \h89AB, \hCDEF)
      [] c \in {5, 7} -> Column(\hDEAD, \hBEEF, \hCAFE, \hBABE)]

(* The test pattern, a single one, and all ones but one.                    *)
RealBlocks == {TestBits,
               [c \in 0 .. 7 |-> IF c = 7 THEN {63} ELSE {}],
               [c \in 0 .. 7 |-> IF c = 3 THEN 1 .. 63 ELSE 0 .. 63]}
=============================================================================
