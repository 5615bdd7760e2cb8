----------------------------- MODULE LdpcEncoder -----------------------------
(***************************************************************************)
(* ldpc_encoder.v: latches a block of information bits, spends Z clocks on *)
(* the parity sums of the information part, one bit of every base row in   *)
(* each, and one clock on the dual diagonal; then it pulses valid_out.     *)
(*                                                                         *)
(* A word of the code is a function from columns of the base matrix to     *)
(* sets of positions: bit c*Z + j of the vector is 1 iff j is in word[c].  *)
(* The base matrix gives the shift of each block, None for no connection.  *)
(***************************************************************************)
EXTENDS BaseMatrix

CONSTANTS EncHB,       (* the table HB of ldpc_encoder.v *)
          Blocks,      (* bound: the information blocks that may be offered *)
          MaxBlocks    (* bound: pulses of valid_in *)

InfoCol == 0 .. MB - 1      (* as many information columns as base rows *)

Info == [InfoCol -> SUBSET Pos]
Word == [Col -> SUBSET Pos]

ASSUME EncoderAssumption ==
    /\ Z \in Nat \ {0} /\ MB \in Nat \ {0} /\ NB = 2 * MB
    /\ None \notin Pos
    /\ EncHB \in [Row -> [Col -> Shift]]
    /\ DecHB \in [Row -> [Col -> Shift]]
    /\ Blocks \subseteq Info
    /\ MaxBlocks \in Nat

(***************************************************************************)
(* What the code needs of the two tables: they agree on the information    *)
(* part, and the parity part of the decoder's is the dual diagonal that    *)
(* the encoder resolves without looking at a table.                        *)
(***************************************************************************)
ASSUME TableAssumption ==
    \A r \in Row :
        /\ \A c \in InfoCol : DecHB[r][c] = EncHB[r][c]
        /\ \A p \in Row :
              DecHB[r][MB + p] = IF p = r \/ p = r - 1 THEN 0 ELSE None

VARIABLES phase, cycle_cnt, info_reg, parity_reg,
          enc_codeword, enc_valid_out,
          enc_offered, (* pulses of valid_in so far *)
          taken        (* the block that came with the last pulse taken *)

encRegs == <<phase, cycle_cnt, info_reg, parity_reg, enc_codeword, enc_valid_out>>
encVars == <<encRegs, enc_offered, taken>>

Odd(S) == Cardinality(S) % 2 = 1

(* The blocks of row r of table HB that add a 1 to its check number j.     *)
Ones(HB, cols, r, j, word) ==
    {c \in cols : HB[r][c] # None /\ (j - HB[r][c]) % Z \in word[c]}

ZeroInfo == [c \in InfoCol |-> {}]

EncPowerUp ==
    /\ phase = 0 /\ cycle_cnt = 0 /\ enc_valid_out = FALSE
    /\ info_reg = ZeroInfo
    /\ parity_reg = [r \in Row |-> {}]
    /\ enc_codeword = [c \in Col |-> {}]

(* rst_n while it runs. *)
EncRestart ==
    /\ phase' = 0 /\ cycle_cnt' = 0 /\ enc_valid_out' = FALSE
    /\ info_reg' = ZeroInfo
    /\ parity_reg' = [r \in Row |-> {}]
    /\ enc_codeword' = [c \in Col |-> {}]

-----------------------------------------------------------------------------
(* Mutant: a block is taken in any clock. *)
MutLatch(valid_in, k_bits) ==
    /\ valid_in
    /\ info_reg' = k_bits
    /\ parity_reg' = [r \in Row |-> {}]
    /\ cycle_cnt' = 0
    /\ phase' = 1
    /\ enc_valid_out' = FALSE
    /\ UNCHANGED enc_codeword

Latch(valid_in, k_bits) ==
    /\ phase = 0 /\ valid_in
    /\ info_reg' = k_bits
    /\ parity_reg' = [r \in Row |-> {}]
    /\ cycle_cnt' = 0
    /\ phase' = 1
    /\ enc_valid_out' = FALSE
    /\ UNCHANGED enc_codeword

EncIdle(valid_in) ==
    /\ phase = 0 /\ ~valid_in
    /\ enc_valid_out' = FALSE
    /\ UNCHANGED <<phase, cycle_cnt, info_reg, parity_reg, enc_codeword>>

(* Bit r of acc: the parity of the information part of row r at cycle_cnt. *)
acc == {r \in Row : Odd(Ones(EncHB, InfoCol, r, cycle_cnt, info_reg))}

Flip(S, j) == IF j \in S THEN S \ {j} ELSE S \cup {j}

(* Mutants: the last clock is never recognised, or does not rewind.         *)
MutNextCycleLast ==
    \/ cycle_cnt # Z /\ cycle_cnt' = (cycle_cnt + 1) % Z /\ UNCHANGED phase
    \/ cycle_cnt = Z /\ cycle_cnt' = 0 /\ phase' = 2
MutNextCycleKeep ==
    \/ cycle_cnt # Z - 1 /\ cycle_cnt' = cycle_cnt + 1 /\ UNCHANGED phase
    \/ cycle_cnt = Z - 1 /\ cycle_cnt' = cycle_cnt + 1 /\ phase' = 2

NextCycle ==
    \/ cycle_cnt # Z - 1 /\ cycle_cnt' = cycle_cnt + 1 /\ UNCHANGED phase
    \/ cycle_cnt = Z - 1 /\ cycle_cnt' = 0 /\ phase' = 2

Accumulate ==
    /\ phase = 1
    /\ parity_reg' = [r \in Row |-> IF r \in acc THEN Flip(parity_reg[r], cycle_cnt)
                                                 ELSE parity_reg[r]]
    /\ NextCycle
    /\ enc_valid_out' = FALSE
    /\ UNCHANGED <<info_reg, enc_codeword>>

(* Mutant: each parity block is the raw sum of its row, as it once was sent. *)
Mut_p_local == parity_reg

(* The loop adds to each row the one before, itself already resolved: row r *)
(* becomes the sum of the rows up to r.                                     *)
p_local == [r \in Row |-> {j \in Pos : Odd({q \in 0 .. r : j \in parity_reg[q]})}]

Resolve ==
    /\ phase = 2
    /\ parity_reg' = p_local
    /\ enc_codeword' = [c \in Col |-> IF c < MB THEN info_reg[c] ELSE p_local[c - MB]]
    /\ enc_valid_out' = TRUE
    /\ phase' = 0
    /\ UNCHANGED <<cycle_cnt, info_reg>>

EncClock(valid_in, k_bits) ==
    \/ Latch(valid_in, k_bits)
    \/ EncIdle(valid_in)
    \/ Accumulate
    \/ Resolve

-----------------------------------------------------------------------------
(* The source of the blocks may pulse valid_in in any clock, and change     *)
(* k_bits in the next.                                                      *)
EncInit ==
    /\ EncPowerUp
    /\ enc_offered = 0
    /\ taken = ZeroInfo

EncTick(valid_in, k_bits) ==
    /\ EncClock(valid_in, k_bits)
    /\ enc_offered' = IF valid_in THEN enc_offered + 1 ELSE enc_offered
    /\ taken' = IF valid_in /\ phase = 0 THEN k_bits ELSE taken

(* Without the pulse k_bits is not looked at.                               *)
EncNext ==
    \/ enc_offered < MaxBlocks /\ \E k_bits \in Blocks : EncTick(TRUE, k_bits)
    \/ EncTick(FALSE, ZeroInfo)

EncSpec     == EncInit /\ [][EncNext]_encVars
EncFairSpec == EncSpec /\ WF_encVars(phase # 0 /\ EncNext)

-----------------------------------------------------------------------------
(* Check number j of row r holds for the word. *)
Holds(HB, r, j, word) == ~Odd(Ones(HB, Col, r, j, word))
InCode(HB, word) == \A r \in Row, j \in Pos : Holds(HB, r, j, word)

(* Registers in range; the count never indexes past a block                 *)
(* (ldpc_encoder.v:79-82, 170-179).                                         *)
EncTypeOK ==
    /\ phase \in 0 .. 2 /\ cycle_cnt \in Pos
    /\ info_reg \in Info /\ parity_reg \in [Row -> SUBSET Pos]
    /\ enc_codeword \in Word /\ enc_valid_out \in BOOLEAN
    /\ enc_offered \in Nat /\ taken \in Info

(* The word that valid_out announces satisfies every check of the DECODER's *)
(* table: the two files keep separate tables, and the encoder's dual        *)
(* diagonal is in its program, not in its table                             *)
(* (ldpc_encoder.v:186-206, ldpc_decoder.v:27-52).                          *)
EncodesForDecoder == enc_valid_out => InCode(DecHB, enc_codeword)

(* And it carries the block that came with the pulse that was taken, though *)
(* k_bits has changed since and more pulses have come                       *)
(* (ldpc_encoder.v:160-168).                                                *)
CarriesBlock == enc_valid_out => \A c \in InfoCol : enc_codeword[c] = taken[c]

(* A block that is taken is announced. *)
Announced == phase # 0 ~> enc_valid_out
=============================================================================
