---------------------------- MODULE MCLdpcDecoder ----------------------------
(* TLC instances of LdpcDecoder: a code of two rows of blocks of two bits.   *)
EXTENDS LdpcDecoder, Sequences

Table(rows) == [r \in 0 .. Len(rows) - 1 |->
                   [c \in 0 .. Len(rows[r + 1]) - 1 |-> rows[r + 1][c + 1]]]
X == -1

(* Two information columns, then the dual diagonal, as in ldpc_decoder.v:    *)
(* the first row has no block in the last column.                            *)
SmallHB == Table(<< <<0, 1, 0, X>>,
                    <<1, 0, 0, 0>> >>)

Of(s) == [a \in VarAddr |-> s[a[1] * Z + a[2] + 1]]

(* Every codeword, with sizes from which sums saturate and tie.             *)
Size(a) == 1 + ((3 * a[1] + 2 * a[2]) % Sat)
Codewords == {[a \in VarAddr |-> IF w[a] THEN -Size(a) ELSE Size(a)] :
                 w \in {u \in [VarAddr -> BOOLEAN] : Syndrome(u) = {}}}

(* Words with one and with two errors, with zeros, and far from the code.   *)
Noisy == {Of(<<-3, 1, 2, 3, 2, 2, 3, 1>>),
          Of(<<1, 2, -1, 1, 1, -3, -3, 3>>),
          Of(<<-2, -2, 0, 3, -1, 2, -3, 0>>),
          Of(<<0, 0, 0, 0, 0, 0, 0, 0>>),
          Of(<<2, -3, -1, 3, -2, 2, -1, -1>>)}

SmallFrames == Codewords \cup Noisy
=============================================================================
