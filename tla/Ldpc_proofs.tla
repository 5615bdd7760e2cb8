---------------------------- MODULE Ldpc_proofs ----------------------------
(***************************************************************************)
(* Proofs about the encoder and the decoder, for every base matrix and     *)
(* lifting factor.                                                         *)
(*   Encoder: what valid_out announces is a codeword of the decoder's      *)
(* table, for every pair of tables that agree as TableAssumption says,     *)
(* every block and every timing of the pulses.                             *)
(*   Decoder: for every number of iterations and limit, and any number of  *)
(* frames and resets, the registers stay in range, no word is read before  *)
(* it is written, and a frame whose signs are a codeword comes out as its  *)
(* own information bits.                                                   *)
(***************************************************************************)
EXTENDS LdpcEncoder, LdpcDecoder, FiniteSetTheorems, TLAPS

-----------------------------------------------------------------------------
(* The encoder.                                                            *)

(* Adding a new element changes the parity of a finite set. *)
LEMMA OddAdd ==
    ASSUME NEW S, IsFiniteSet(S), NEW x, x \notin S
    PROVE  Odd(S \cup {x}) <=> ~Odd(S)
<1>1. Cardinality(S) \in Nat /\ Cardinality(S \cup {x}) = Cardinality(S) + 1
  BY FS_CardinalityType, FS_AddElement
<1>2. QED
  BY <1>1 DEF Odd

LEMMA OddEmpty == ~Odd({})
<1>1. Cardinality({}) = 0
  BY FS_EmptySet
<1>2. QED
  BY <1>1 DEF Odd

LEMMA OnesFinite ==
    ASSUME NEW HB, NEW cols, IsFiniteSet(cols), NEW r, NEW j, NEW word
    PROVE  IsFiniteSet(Ones(HB, cols, r, j, word))
BY FS_Subset DEF Ones

LEMMA ColsFinite == IsFiniteSet(InfoCol) /\ IsFiniteSet(Row)
BY EncoderAssumption, FS_Interval DEF InfoCol, Row

-----------------------------------------------------------------------------
(* The sums are complete up to cycle_cnt, and clear from there on. *)
SumOf(r, j) == Odd(Ones(EncHB, InfoCol, r, j, info_reg))

Sums ==
    /\ phase = 1 => \A r \in Row, j \in Pos :
          /\ j < cycle_cnt => (j \in parity_reg[r] <=> SumOf(r, j))
          /\ j >= cycle_cnt => j \notin parity_reg[r]
    /\ phase = 2 => \A r \in Row, j \in Pos : j \in parity_reg[r] <=> SumOf(r, j)

EncInv ==
    /\ EncTypeOK
    /\ phase # 0 => info_reg = taken
    /\ Sums
    /\ EncodesForDecoder
    /\ CarriesBlock

(***************************************************************************)
(* The resolved parity blocks: row 0 is its sum, and each later row is the *)
(* row before it, flipped where its own sum is 1.                          *)
(***************************************************************************)
LEMMA PLocalFirst ==
    ASSUME NEW j \in Pos
    PROVE  j \in p_local[0] <=> j \in parity_reg[0]
<1> DEFINE P == {q \in 0 .. 0 : j \in parity_reg[q]}
<1>0. 0 \in Row
  BY EncoderAssumption DEF Row
<1>1. CASE j \in parity_reg[0]
  <2>1. P = {} \cup {0}
    BY <1>1
  <2>2. Odd(P)
    BY <2>1, OddAdd, OddEmpty, FS_EmptySet
  <2>3. QED
    BY <1>0, <1>1, <2>2 DEF p_local
<1>2. CASE j \notin parity_reg[0]
  <2>1. P = {}
    BY <1>2
  <2>2. ~Odd(P)
    BY <2>1, OddEmpty
  <2>3. QED
    BY <1>0, <1>2, <2>2 DEF p_local
<1>3. QED
  BY <1>1, <1>2

LEMMA PLocalNext ==
    ASSUME NEW j \in Pos, NEW r \in Row, r # 0
    PROVE  /\ j \in parity_reg[r] => (j \in p_local[r] <=> j \notin p_local[r - 1])
           /\ j \notin parity_reg[r] => (j \in p_local[r] <=> j \in p_local[r - 1])
<1> DEFINE P == {q \in 0 .. r : j \in parity_reg[q]}
           B == {q \in 0 .. r - 1 : j \in parity_reg[q]}
<1>0. r \in Nat /\ r - 1 \in Row
  BY EncoderAssumption DEF Row
<1>1. IsFiniteSet(B) /\ r \notin B
  <2>1. IsFiniteSet(0 .. r - 1)
    BY <1>0, FS_Interval
  <2>2. QED
    BY <1>0, <2>1, FS_Subset
<1>2. /\ j \in p_local[r] <=> Odd(P)
      /\ j \in p_local[r - 1] <=> Odd(B)
  BY <1>0 DEF p_local
<1>3. CASE j \in parity_reg[r]
  <2>1. P = B \cup {r}
    BY <1>0, <1>3
  <2>2. Odd(B \cup {r}) <=> ~Odd(B)
    BY <1>1, OddAdd
  <2>3. QED
    BY <1>2, <1>3, <2>1, <2>2
<1>4. CASE j \notin parity_reg[r]
  <2>1. P = B
    BY <1>0, <1>4
  <2>2. QED
    BY <1>2, <1>4, <2>1
<1>5. QED
  BY <1>3, <1>4

(* A position is its own remainder. *)
LEMMA ModBelow ==
    ASSUME NEW d \in Nat \ {0}, NEW n \in 0 .. d - 1
    PROVE  n % d = n
  BY Z3

(***************************************************************************)
(* One check of the decoder's table over the word that Resolve builds: its *)
(* information part sums to parity_reg[r], its parity part is p_local[r]   *)
(* and p_local[r - 1].                                                     *)
(***************************************************************************)
Resolved == [c \in Col |-> IF c < MB THEN info_reg[c] ELSE p_local[c - MB]]

LEMMA ResolvedHolds ==
    ASSUME EncTypeOK, NEW r \in Row, NEW j \in Pos,
           j \in parity_reg[r] <=> SumOf(r, j)
    PROVE  Holds(DecHB, r, j, Resolved)
<1> DEFINE A == Ones(EncHB, InfoCol, r, j, info_reg)
           W == Ones(DecHB, Col, r, j, Resolved)
<1>0. MB \in Nat \ {0} /\ NB = 2 * MB /\ Z \in Nat \ {0} /\ r \in 0 .. MB - 1 /\ j \in 0 .. Z - 1
  BY EncoderAssumption DEF Row, Pos
<1>1. IsFiniteSet(A) /\ (Odd(A) <=> j \in parity_reg[r])
  BY OnesFinite, ColsFinite DEF SumOf
<1>2. A \subseteq 0 .. MB - 1
  BY DEF Ones, InfoCol
<1>3. \A c \in InfoCol : c \in W <=> c \in A
  <2> SUFFICES ASSUME NEW c \in InfoCol PROVE c \in W <=> c \in A
    OBVIOUS
  <2>1. c \in Col /\ c < MB
    BY <1>0 DEF InfoCol, Col
  <2>2. DecHB[r][c] = EncHB[r][c]
    BY TableAssumption
  <2>3. Resolved[c] = info_reg[c]
    BY <2>1 DEF Resolved
  <2>4. c \in W <=> DecHB[r][c] # None /\ (j - DecHB[r][c]) % Z \in Resolved[c]
    BY <2>1 DEF Ones
  <2>5. c \in A <=> EncHB[r][c] # None /\ (j - EncHB[r][c]) % Z \in info_reg[c]
    BY DEF Ones
  <2>6. QED
    BY <2>2, <2>3, <2>4, <2>5
<1>4. \A p \in Row : MB + p \in W <=> (p = r \/ p = r - 1) /\ j \in p_local[p]
  <2> SUFFICES ASSUME NEW p \in Row
               PROVE  MB + p \in W <=> (p = r \/ p = r - 1) /\ j \in p_local[p]
    OBVIOUS
  <2>0. p \in 0 .. MB - 1
    BY DEF Row
  <2>1. MB + p \in Col /\ ~(MB + p < MB) /\ MB + p - MB = p
    BY <1>0, <2>0 DEF Col
  <2>2. Resolved[MB + p] = p_local[p]
    <3>1. Resolved[MB + p] = p_local[MB + p - MB]
      BY <1>0, <2>0, <2>1 DEF Resolved
    <3>2. QED
      BY <2>1, <3>1
  <2>3. DecHB[r][MB + p] = IF p = r \/ p = r - 1 THEN 0 ELSE None
    BY TableAssumption
  <2>4. 0 # None /\ j - 0 = j /\ j % Z = j
    <3>1. j % Z = j
      BY <1>0, ModBelow
    <3>2. 0 \in Pos
      BY <1>0 DEF Pos
    <3>3. QED
      BY <1>0, <3>1, <3>2, EncoderAssumption
  <2>5. MB + p \in W <=> /\ DecHB[r][MB + p] # None
                        /\ (j - DecHB[r][MB + p]) % Z \in Resolved[MB + p]
    BY <2>1 DEF Ones
  <2>6. QED
    BY <2>2, <2>3, <2>4, <2>5
<1>5. \A c \in W : c \in InfoCol \/ \E p \in Row : c = MB + p
  <2> SUFFICES ASSUME NEW c \in W, c \notin InfoCol PROVE \E p \in Row : c = MB + p
    OBVIOUS
  <2>1. c \in 0 .. 2 * MB - 1
    BY <1>0 DEF Ones, Col
  <2>2. c - MB \in Row /\ c = MB + (c - MB)
    BY <1>0, <2>1 DEF InfoCol, Row
  <2>3. QED
    BY <2>2
<1>6. CASE r = 0
  <2>1. j \in p_local[0] <=> j \in parity_reg[0]
    BY PLocalFirst
  <2>a. \A p \in Row : MB + p \in W <=> p = 0 /\ j \in parity_reg[r]
    BY <1>0, <1>4, <1>6, <2>1 DEF Row
  <2>2. CASE j \in parity_reg[r]
    <3>1. W = A \cup {MB + 0}
      BY <1>0, <1>2, <1>3, <1>5, <1>6, <2>a, <2>2 DEF InfoCol
    <3>2. MB + 0 \notin A
      BY <1>0, <1>2
    <3>3. QED
      BY <1>1, <2>2, <3>1, <3>2, OddAdd DEF Holds
  <2>3. CASE j \notin parity_reg[r]
    <3>1. W = A
      BY <1>2, <1>3, <1>5, <2>a, <2>3 DEF InfoCol
    <3>2. QED
      BY <1>1, <2>3, <3>1 DEF Holds
  <2>4. QED
    BY <2>2, <2>3
<1>7. CASE r # 0
  <2>0. r - 1 \in Row /\ r - 1 # r /\ MB + (r - 1) \notin A /\ MB + r \notin A \cup {MB + (r - 1)}
        /\ r \in Nat
    BY <1>0, <1>2, <1>7 DEF Row
  <2>1. /\ j \in parity_reg[r] => (j \in p_local[r] <=> j \notin p_local[r - 1])
        /\ j \notin parity_reg[r] => (j \in p_local[r] <=> j \in p_local[r - 1])
    BY <1>7, PLocalNext
  <2>2. IsFiniteSet(A \cup {MB + (r - 1)})
    BY <1>1, FS_AddElement
  <2>3. CASE j \in p_local[r - 1] /\ j \in p_local[r]
    <3>1. W = (A \cup {MB + (r - 1)}) \cup {MB + r}
      BY <1>2, <1>3, <1>4, <1>5, <2>0, <2>3 DEF InfoCol
    <3>2. Odd(W) <=> Odd(A)
      BY <1>1, <2>0, <2>2, <3>1, OddAdd
    <3>3. QED
      BY <1>1, <2>1, <2>3, <3>2 DEF Holds
  <2>4. CASE j \in p_local[r - 1] /\ j \notin p_local[r]
    <3>1. W = A \cup {MB + (r - 1)}
      BY <1>2, <1>3, <1>4, <1>5, <2>0, <2>4 DEF InfoCol
    <3>2. QED
      BY <1>1, <2>0, <2>1, <2>4, <3>1, OddAdd DEF Holds
  <2>5. CASE j \notin p_local[r - 1] /\ j \in p_local[r]
    <3>1. W = A \cup {MB + r}
      BY <1>2, <1>3, <1>4, <1>5, <2>0, <2>5 DEF InfoCol
    <3>2. QED
      BY <1>1, <2>0, <2>1, <2>5, <3>1, OddAdd DEF Holds
  <2>6. CASE j \notin p_local[r - 1] /\ j \notin p_local[r]
    <3>1. W = A
      BY <1>2, <1>3, <1>4, <1>5, <2>0, <2>6 DEF InfoCol
    <3>2. QED
      BY <1>1, <2>1, <2>6, <3>1 DEF Holds
  <2>7. QED
    BY <2>3, <2>4, <2>5, <2>6
<1>8. QED
  BY <1>6, <1>7

-----------------------------------------------------------------------------
LEMMA InitEncInv == EncInit => EncInv
<1> SUFFICES ASSUME EncInit PROVE EncInv
  OBVIOUS
<1> USE DEF EncInit, EncPowerUp
<1>1. 0 \in Pos
  BY EncoderAssumption DEF Pos
<1>2. EncTypeOK
  <2>1. ZeroInfo \in Info
    BY DEF ZeroInfo, Info
  <2>2. [r \in Row |-> {}] \in [Row -> SUBSET Pos] /\ [c \in Col |-> {}] \in Word
    BY DEF Word
  <2>3. enc_valid_out \in BOOLEAN
    BY Zenon
  <2>4. QED
    BY <1>1, <2>1, <2>2, <2>3 DEF EncTypeOK
<1>3. phase = 0 /\ ~enc_valid_out
  OBVIOUS
<1>4. QED
  BY <1>2, <1>3 DEF EncInv, Sums, EncodesForDecoder, CarriesBlock

(***************************************************************************)
(* The clock at which the code is announced: every check is one of         *)
(* ResolvedHolds.                                                          *)
(***************************************************************************)
LEMMA ResolveStep ==
    ASSUME EncInv, Resolve, UNCHANGED taken, enc_offered' \in Nat
    PROVE  EncInv'
<1> USE DEF EncInv, Resolve
<1>1. phase = 2 /\ phase' = 0 /\ enc_valid_out' = TRUE /\ enc_codeword' = Resolved
  BY DEF Resolved
<1>2. EncTypeOK'
  <2>1. p_local \in [Row -> SUBSET Pos]
    BY DEF p_local
  <2>2. Resolved \in Word
    <3> SUFFICES ASSUME NEW c \in Col
                 PROVE  (IF c < MB THEN info_reg[c] ELSE p_local[c - MB]) \in SUBSET Pos
      BY DEF Resolved, Word
    <3>0. MB \in Nat /\ c \in 0 .. 2 * MB - 1
      BY EncoderAssumption DEF Col
    <3>1. CASE c < MB
      <4>1. c \in InfoCol
        BY <3>0, <3>1 DEF InfoCol
      <4>2. QED
        BY <3>1, <4>1 DEF EncTypeOK, Info
    <3>2. CASE ~(c < MB)
      <4>1. c - MB \in Row
        BY <3>0, <3>2 DEF Row
      <4>2. QED
        BY <2>1, <3>2, <4>1
    <3>3. QED
      BY <3>1, <3>2
  <2>3. enc_valid_out' \in BOOLEAN
    BY <1>1, Zenon
  <2>4. QED
    BY <1>1, <2>1, <2>2, <2>3 DEF EncTypeOK
<1>3. EncodesForDecoder'
  <2>1. ASSUME NEW r \in Row, NEW j \in Pos
        PROVE  Holds(DecHB, r, j, Resolved)
    BY <1>1, ResolvedHolds DEF Sums
  <2>2. InCode(DecHB, Resolved)
    BY <2>1 DEF InCode
  <2>3. QED
    BY <1>1, <2>2 DEF EncodesForDecoder
<1>4. CarriesBlock'
  <2>1. ASSUME NEW c \in InfoCol
        PROVE  Resolved[c] = info_reg[c]
    <3>1. c \in Col /\ c < MB
      BY EncoderAssumption DEF InfoCol, Col
    <3>2. QED
      BY <3>1 DEF Resolved
  <2>2. QED
    BY <1>1, <2>1 DEF CarriesBlock
<1>5. QED
  BY <1>1, <1>2, <1>3, <1>4 DEF Sums

(***************************************************************************)
(* One clock of the sums: place cycle_cnt of every row goes from clear to  *)
(* its sum, the other places stay.                                         *)
(***************************************************************************)
LEMMA AccumulateStep ==
    ASSUME EncInv, Accumulate, UNCHANGED taken, enc_offered' \in Nat
    PROVE  EncInv'
<1> USE DEF EncInv, Accumulate
<1>0. phase = 1 /\ cycle_cnt \in 0 .. Z - 1 /\ Z \in Nat \ {0}
  BY EncoderAssumption DEF EncTypeOK, Pos
<1>1. ASSUME NEW r \in Row
      PROVE  /\ parity_reg'[r] \subseteq Pos
             /\ cycle_cnt \in parity_reg'[r] <=> SumOf(r, cycle_cnt)
             /\ \A j \in Pos : j # cycle_cnt => (j \in parity_reg'[r] <=> j \in parity_reg[r])
  <2>1. cycle_cnt \notin parity_reg[r] /\ parity_reg[r] \subseteq Pos /\ cycle_cnt \in Pos
    BY <1>0 DEF Sums, EncTypeOK, Pos
  <2>2. r \in acc <=> SumOf(r, cycle_cnt)
    BY DEF acc, SumOf
  <2>3. CASE r \in acc
    <3>1. parity_reg'[r] = parity_reg[r] \cup {cycle_cnt}
      BY <2>1, <2>3 DEF Flip
    <3>2. QED
      BY <2>1, <2>2, <2>3, <3>1
  <2>4. CASE r \notin acc
    <3>1. parity_reg'[r] = parity_reg[r]
      BY <2>4
    <3>2. QED
      BY <2>1, <2>2, <2>4, <3>1
  <2>5. QED
    BY <2>3, <2>4
<1>2. \A r \in Row, j \in Pos : SumOf(r, j)' <=> SumOf(r, j)
  BY DEF SumOf
<1>3. /\ \/ cycle_cnt # Z - 1 /\ cycle_cnt' = cycle_cnt + 1 /\ phase' = 1
         \/ cycle_cnt = Z - 1 /\ cycle_cnt' = 0 /\ phase' = 2
      /\ enc_valid_out' = FALSE
      /\ info_reg' = info_reg /\ enc_codeword' = enc_codeword
  BY <1>0 DEF NextCycle
<1>4. parity_reg' \in [Row -> SUBSET Pos]
  <2> DEFINE f == [r \in Row |-> IF r \in acc THEN Flip(parity_reg[r], cycle_cnt)
                                                ELSE parity_reg[r]]
  <2>1. parity_reg' = f
    OBVIOUS
  <2>2. \A r \in Row : f[r] \in SUBSET Pos
    BY <1>1, <2>1
  <2>3. f \in [Row -> SUBSET Pos]
    BY <2>2
  <2>4. QED
    BY <2>1, <2>3
<1>5. EncTypeOK'
  <2>1. cycle_cnt' \in Pos /\ phase' \in 0 .. 2
    BY <1>0, <1>3 DEF Pos
  <2>2. enc_valid_out' \in BOOLEAN
    BY <1>3, Zenon
  <2>3. QED
    BY <1>3, <1>4, <2>1, <2>2 DEF EncTypeOK
<1>6. Sums'
  <2>1. CASE cycle_cnt # Z - 1
    <3> SUFFICES ASSUME NEW r \in Row, NEW j \in Pos
                 PROVE  /\ j < cycle_cnt' => (j \in parity_reg'[r] <=> SumOf(r, j)')
                        /\ j >= cycle_cnt' => j \notin parity_reg'[r]
      BY <1>3, <2>1 DEF Sums
    <3>1. cycle_cnt' = cycle_cnt + 1 /\ j \in 0 .. Z - 1
      BY <1>3, <2>1 DEF Pos
    <3>2. /\ j < cycle_cnt => (j \in parity_reg[r] <=> SumOf(r, j))
          /\ j >= cycle_cnt => j \notin parity_reg[r]
      BY <1>0 DEF Sums
    <3>3. QED
      BY <1>0, <1>1, <1>2, <3>1, <3>2
  <2>2. CASE cycle_cnt = Z - 1
    <3> SUFFICES ASSUME NEW r \in Row, NEW j \in Pos
                 PROVE  j \in parity_reg'[r] <=> SumOf(r, j)'
      BY <1>3, <2>2 DEF Sums
    <3>1. j \in 0 .. Z - 1
      BY DEF Pos
    <3>2. j < cycle_cnt => (j \in parity_reg[r] <=> SumOf(r, j))
      BY <1>0 DEF Sums
    <3>3. QED
      BY <1>0, <1>1, <1>2, <2>2, <3>1, <3>2
  <2>3. QED
    BY <2>1, <2>2
<1>7. phase' # 0 => info_reg' = taken'
  BY <1>0, <1>3
<1>8. QED
  BY <1>3, <1>5, <1>6, <1>7 DEF EncodesForDecoder, CarriesBlock

(* One clock, whatever comes. *)
LEMMA EncInvStep ==
    ASSUME EncInv, NEW valid_in \in BOOLEAN, NEW k_bits \in Info, EncTick(valid_in, k_bits)
    PROVE  EncInv'
<1>a. 0 \in Pos
  BY EncoderAssumption DEF Pos
<1>0. /\ enc_offered' \in Nat
      /\ valid_in /\ phase = 0 => taken' = k_bits
      /\ ~(valid_in /\ phase = 0) => taken' = taken
  BY DEF EncTick, EncInv, EncTypeOK
<1>1. CASE Latch(valid_in, k_bits)
  <2>1. /\ phase' = 1 /\ cycle_cnt' = 0 /\ ~enc_valid_out' /\ info_reg' = k_bits
        /\ taken' = k_bits /\ enc_codeword' = enc_codeword
        /\ parity_reg' = [r \in Row |-> {}]
    BY <1>0, <1>1 DEF Latch
  <2>2. EncTypeOK'
    <3>1. enc_valid_out' \in BOOLEAN
      BY <1>1, Zenon DEF Latch
    <3>2. QED
      BY <1>a, <1>0, <2>1, <3>1 DEF EncInv, EncTypeOK
  <2>3. Sums'
    BY <2>1 DEF Sums, Pos
  <2>4. QED
    BY <2>1, <2>2, <2>3 DEF EncInv, EncodesForDecoder, CarriesBlock
<1>2. CASE EncIdle(valid_in)
  <2>1. phase' = 0 /\ ~enc_valid_out'
    BY <1>2 DEF EncIdle
  <2>2. EncTypeOK'
    <3>1. enc_valid_out' \in BOOLEAN
      BY <1>2, Zenon DEF EncIdle
    <3>2. QED
      BY <1>0, <1>2, <3>1 DEF EncIdle, EncInv, EncTypeOK
  <2>3. QED
    BY <2>1, <2>2 DEF EncInv, Sums, EncodesForDecoder, CarriesBlock
<1>3. CASE Accumulate
  <2>1. UNCHANGED taken /\ enc_offered' \in Nat
    BY <1>0, <1>3 DEF Accumulate
  <2>2. QED
    BY <1>3, <2>1, AccumulateStep
<1>4. CASE Resolve
  <2>1. UNCHANGED taken /\ enc_offered' \in Nat
    BY <1>0, <1>4 DEF Resolve
  <2>2. QED
    BY <1>4, <2>1, ResolveStep
<1>5. QED
  BY <1>1, <1>2, <1>3, <1>4 DEF EncTick, EncClock

(* A reset. *)
LEMMA EncInvRestart ==
    ASSUME EncRestart, enc_offered' = 0, taken' = ZeroInfo
    PROVE  EncInv'
<1>1. EncInit'
  BY DEF EncInit, EncPowerUp, EncRestart
<1>2. QED
  BY <1>1, InitEncInv, PTL

LEMMA NextEncInv == EncInv /\ [EncNext]_encVars => EncInv'
<1> SUFFICES ASSUME EncInv, [EncNext]_encVars PROVE EncInv'
  OBVIOUS
<1>0. Blocks \subseteq Info /\ ZeroInfo \in Info
  BY EncoderAssumption DEF ZeroInfo, Info
<1>1. ASSUME NEW valid_in \in BOOLEAN, NEW k_bits \in Info, EncTick(valid_in, k_bits)
      PROVE  EncInv'
  BY <1>1, EncInvStep
<1>2. CASE UNCHANGED encVars
  BY <1>2 DEF encVars, encRegs, EncInv, EncTypeOK, Sums, SumOf, EncodesForDecoder, CarriesBlock,
              InCode, Holds
<1>3. QED
  BY <1>0, <1>1, <1>2 DEF EncNext

(* The invariant from which the theorems below follow. *)
THEOREM EncoderInvariant == EncSpec => []EncInv
BY InitEncInv, NextEncInv, PTL DEF EncSpec

(* Registers keep their ranges: cycle_cnt never indexes past a block        *)
(* (ldpc_encoder.v:170-179).                                                *)
THEOREM EncTypeCorrect == EncSpec => []EncTypeOK
<1>1. EncInv => EncTypeOK
  BY DEF EncInv
<1>2. QED
  BY <1>1, EncoderInvariant, PTL

(* Whatever valid_out announces is a codeword of the decoder's table        *)
(* (ldpc_encoder.v:186-206 against ldpc_decoder.v:27-52).                   *)
THEOREM AnnouncesCodewords == EncSpec => []EncodesForDecoder
<1>1. EncInv => EncodesForDecoder
  BY DEF EncInv
<1>2. QED
  BY <1>1, EncoderInvariant, PTL

(* And it carries the block that came with the pulse the encoder took       *)
(* (ldpc_encoder.v:160-168).                                                *)
THEOREM AnnouncesBlock == EncSpec => []CarriesBlock
<1>1. EncInv => CarriesBlock
  BY DEF EncInv
<1>2. QED
  BY <1>1, EncoderInvariant, PTL

-----------------------------------------------------------------------------
(* The decoder.                                                            *)

(* The memories once the write in the port is done. *)
chNow == Written(ch_llr, ch_port)
vNow  == Written(v_llr, v_port)
mNow  == Written(msg_cv, msg_port)

Running == state \in {"gather", "scatter", "vnu", "output"}

(* What has been loaded, and that nothing of a frame before is left.        *)
DecLoadInv ==
    /\ state # "idle" \/ rx_valid_out => fed
    /\ fed => frame \in [VarAddr -> Value]
    /\ state = "init" =>
          \A n \in 0 .. init_cnt - 1 :
             /\ mNow[MsgAt(n)] = 0
             /\ n < NB * Z => chNow[VarAt(n)] = frame[VarAt(n)] /\ vNow[VarAt(n)] = frame[VarAt(n)]
    /\ Running =>
          /\ \A a \in VarAddr : chNow[a] = frame[a] /\ vNow[a] \in Value
          /\ \A a \in MsgAddr : mNow[a] \in Value

(* A word is read only when the write to it has left the port: what is      *)
(* still in a port when a half-iteration begins is of the last column, and  *)
(* the first read is of column 0.                                           *)
PortInv ==
    /\ state = "gather" =>
          /\ v_port.we => col_cnt = 0 /\ v_port.wa[1] = NB - 1
          /\ msg_port.we => col_cnt = 0 /\ msg_port.wa[2] = NB - 1
    /\ state \in {"scatter", "vnu"} => ch_port = NoWrite
    /\ state = "vnu" /\ msg_port.we => vn_cnt = 0 /\ row_cnt = 0 /\ msg_port.wa[2] = NB - 1
    /\ state = "vnu" /\ row_cnt # 0 =>
          -((row_cnt + 1) * Sat) <= s_acc /\ s_acc <= (row_cnt + 1) * Sat

NumInv == DecInRange /\ DecLoadInv /\ PortInv

-----------------------------------------------------------------------------
(* Values beside the sign of the bit of variable a: with it, with it or     *)
(* zero, and between zero and y.                                            *)
Strict(a, x)    == IF frame[a] < 0 THEN x < 0 ELSE x > 0
Sided(a, x)     == IF frame[a] < 0 THEN x <= 0 ELSE x >= 0
Within(a, x, y) == IF frame[a] < 0 THEN y <= x /\ x <= 0 ELSE 0 <= x /\ x <= y

(* The variable that message b is for; the message of row r for variable a. *)
VarOf(b)    == <<b[2], (b[3] - DecHB[b[1]][b[2]]) % Z>>
MsgOf(r, a) == <<r, a[1], (a[2] + DecHB[r][a[1]]) % Z>>

(* Message b is still to be read in this half-iteration. *)
ToRead(b) == b[1] > cur_row \/ (b[1] = cur_row /\ (b[3] > cur_z \/ (b[3] = cur_z /\ state = "gather")))

(* The check node after the columns cols: a column whose sign was taken     *)
(* wrong brought a zero, so that every answer is zero but, if it was the    *)
(* only one, the answer to itself, which does not contain it.               *)
NegCols(cols) == {c \in cols : Connected(cur_row, c) /\ cnu_sign[c]}
Gathered(cols) ==
    /\ cnu_total_sign <=> Cardinality(NegCols(cols)) % 2 = 1
    /\ \A c \in cols :
          Connected(cur_row, c) /\ (cnu_sign[c] # (frame[VarOf(<<cur_row, c, cur_z>>)] < 0))
             => cnu_min1 = 0 /\ (c = cnu_min1_idx \/ cnu_min2 = 0)

SignInv ==
    /\ Running =>
          /\ \A a \in VarAddr : Strict(a, vNow[a])
          /\ \A b \in MsgAddr : Connected(b[1], b[2]) => Sided(VarOf(b), mNow[b])
    /\ state \in {"gather", "scatter"} =>
          \A b \in MsgAddr : Connected(b[1], b[2]) /\ ToRead(b)
                                => Within(VarOf(b), mNow[b], vNow[VarOf(b)])
    /\ state = "gather" => Gathered(0 .. col_cnt - 1)
    /\ state = "scatter" => Gathered(Col)
    /\ state = "vnu" =>
          /\ \A n \in 0 .. vn_cnt - 1, r \in Row :
                Connected(r, VarAt(n)[1]) => Within(VarAt(n), mNow[MsgOf(r, VarAt(n))], vNow[VarAt(n)])
          /\ row_cnt # 0 =>
                /\ Strict(VarAt(vn_cnt), s_acc)
                /\ \A r \in 0 .. row_cnt - 1 :
                      Connected(r, VarAt(vn_cnt)[1])
                         => Within(VarAt(vn_cnt), mNow[MsgOf(r, VarAt(vn_cnt))], s_acc)

Decided(n) == n < KB * Z => rx_decoded[VarAt(n)] = (frame[VarAt(n)] < 0)
ResultInv ==
    /\ state = "vnu" /\ iter = MAX_ITER - 1 => \A n \in 0 .. vn_cnt - 1 : Decided(n)
    /\ state = "output" \/ rx_valid_out => \A n \in 0 .. NB * Z - 1 : Decided(n)

IInv == NumInv /\ (Clean => SignInv /\ ResultInv)

(* With the contents the LLR memory is given where the decoder runs alone.  *)
DecInv == IInv /\ frame \in Frames /\ resets \in 0 .. MaxResets

-----------------------------------------------------------------------------
(* One clock of the decoder in its place: once the pulse of valid_in has    *)
(* come, the LLR memory is complete and stays as it is.                     *)
DecStep(valid_in) ==
    /\ DecTick(valid_in)
    /\ fed \/ valid_in => frame' = frame /\ frame \in [VarAddr -> Value]

LEMMA DecConstants ==
    /\ MB \in Nat \ {0} /\ NB \in Nat \ {0, 1} /\ Z \in Nat \ {0}
    /\ None \notin Pos /\ DecHB \in [Row -> [Col -> Pos \cup {None}]]
    /\ KB \in 0 .. NB /\ MAX_ITER \in Nat \ {0} /\ Sat \in Nat \ {0}
    /\ Frames \subseteq [VarAddr -> Value] /\ MaxResets \in Nat
  BY DecoderAssumption DEF Shift

(* The flat counters and the addresses made of them.                        *)
LEMMA DivOf ==
    ASSUME NEW q \in Nat, NEW d \in Nat \ {0}, NEW r \in 0 .. d - 1
    PROVE  q * d + r \in Nat /\ (q * d + r) \div d = q /\ (q * d + r) % d = r
  BY Z3

LEMMA DivBound ==
    ASSUME NEW d \in Nat \ {0}, NEW m \in Nat, NEW n \in 0 .. m * d - 1
    PROVE  n \div d \in 0 .. m - 1 /\ n % d \in 0 .. d - 1
  BY Z3

(* Products grow with their factors. *)
LEMMA Products ==
    ASSUME NEW i \in Nat, NEW j \in Nat, NEW d \in Nat
    PROVE  /\ i * d \in Nat /\ (i + 1) * d = i * d + d
           /\ i <= j => i * d <= j * d
           /\ i < j => i * d + d <= j * d
  <1>1. i * d \in Nat /\ j * d \in Nat /\ (i + 1) * d = i * d + d
    BY Z3
  <1>2. ASSUME i <= j PROVE i * d <= j * d
    <2>1. (j - i) \in Nat /\ (j - i) * d \in Nat /\ (j - i) * d = j * d - i * d
      BY <1>2, Z3
    <2>. QED
      BY <1>1, <2>1
  <1>3. ASSUME i < j PROVE i * d + d <= j * d
    <2>1. (j - (i + 1)) \in Nat /\ (j - (i + 1)) * d \in Nat /\ (j - (i + 1)) * d = j * d - (i + 1) * d
      BY <1>3, Z3
    <2>. QED
      BY <1>1, <2>1
  <1>. QED
    BY <1>1, <1>2, <1>3

(* A digit below a counter: i * d + r with r below d is below m * d exactly *)
(* when i is below m.                                                       *)
LEMMA Digits ==
    ASSUME NEW m \in Nat, NEW i \in 0 .. m - 1, NEW d \in Nat \ {0}, NEW r \in 0 .. d - 1
    PROVE  i * d + r \in 0 .. m * d - 1
  <1>1. i * d \in Nat /\ i * d + d <= m * d
    BY Products
  <1>. QED
    BY <1>1

LEMMA VarAtOnto ==
    /\ NB * Z \in Nat \ {0} /\ KB * Z \in 0 .. NB * Z
    /\ \A n \in 0 .. NB * Z - 1 : VarAt(n) \in VarAddr /\ (n < KB * Z => VarAt(n) \in InfoAddr)
    /\ \A a \in VarAddr : \E n \in 0 .. NB * Z - 1 :
          VarAt(n) = a /\ (a \in InfoAddr => n < KB * Z)
    /\ VarAt(0) = <<0, 0>> /\ VarAt(NB * Z - 1)[1] = NB - 1
  <1>1. MB \in Nat /\ NB \in Nat \ {0, 1} /\ Z \in Nat \ {0} /\ KB \in Nat /\ KB <= NB
    BY DecConstants
  <1>2. NB * Z \in Nat \ {0} /\ KB * Z \in 0 .. NB * Z
    <2>1. KB * Z \in Nat /\ KB * Z <= NB * Z /\ 0 * Z + Z <= NB * Z /\ NB * Z \in Nat
      BY <1>1, Products
    <2>2. 0 * Z = 0
      BY <1>1
    <2>. QED
      BY <1>1, <2>1, <2>2
  <1>3. ASSUME NEW n \in 0 .. NB * Z - 1
        PROVE  VarAt(n) \in VarAddr /\ (n < KB * Z => VarAt(n) \in InfoAddr)
    <2>1. n \div Z \in 0 .. NB - 1 /\ n % Z \in 0 .. Z - 1
      BY <1>1, DivBound
    <2>2. ASSUME n < KB * Z PROVE n \div Z \in 0 .. KB - 1
      <3>1. n \in 0 .. KB * Z - 1
        BY <1>2, <2>2
      <3>. QED
        BY <1>1, <3>1, DivBound
    <2>. QED
      BY <2>1, <2>2 DEF VarAt, VarAddr, InfoAddr, Col, Pos
  <1>4. ASSUME NEW a \in VarAddr
        PROVE  \E n \in 0 .. NB * Z - 1 : VarAt(n) = a /\ (a \in InfoAddr => n < KB * Z)
    <2>1. PICK c \in 0 .. NB - 1, z \in 0 .. Z - 1 : a = <<c, z>>
      BY DEF VarAddr, Col, Pos
    <2>2. c * Z + z \in 0 .. NB * Z - 1
      BY <1>1, Digits
    <2>3. VarAt(c * Z + z) = <<c, z>>
      BY <1>1, DivOf DEF VarAt
    <2>4. ASSUME a \in InfoAddr PROVE c * Z + z < KB * Z
      <3>1. c \in 0 .. KB - 1
        BY <2>1, <2>4 DEF InfoAddr
      <3>2. c * Z + z \in 0 .. KB * Z - 1
        BY <1>1, <3>1, Digits
      <3>. QED
        BY <1>2, <3>2
    <2>. QED
      BY <2>1, <2>2, <2>3, <2>4
  <1>5. VarAt(0) = <<0, 0>>
    <2>1. 0 * Z + 0 = 0
      BY <1>1
    <2>. QED
      BY <1>1, <2>1, DivOf DEF VarAt
  <1>6. VarAt(NB * Z - 1)[1] = NB - 1
    <2>1. NB * Z - 1 = (NB - 1) * Z + (Z - 1)
      BY <1>1, Z3
    <2>2. ((NB - 1) * Z + (Z - 1)) \div Z = NB - 1
      BY <1>1, DivOf
    <2>. QED
      BY <2>1, <2>2 DEF VarAt
  <1>. QED
    BY <1>2, <1>3, <1>4, <1>5, <1>6

LEMMA MsgAtOnto ==
    /\ MB * NB * Z \in Nat /\ MB * NB * Z >= NB * Z
    /\ \A n \in 0 .. MB * NB * Z - 1 : MsgAt(n) \in MsgAddr
    /\ \A b \in MsgAddr : \E n \in 0 .. MB * NB * Z - 1 : MsgAt(n) = b
    /\ MsgAt(MB * NB * Z - 1)[2] = NB - 1
  <1>1. MB \in Nat \ {0} /\ NB \in Nat \ {0, 1} /\ Z \in Nat \ {0} /\ NB * Z \in Nat \ {0}
    BY DecConstants, VarAtOnto
  <1>2. MB * NB * Z = MB * (NB * Z)
    BY <1>1, Z3
  <1>3. MB * (NB * Z) \in Nat /\ 1 * (NB * Z) <= MB * (NB * Z) /\ 1 * (NB * Z) = NB * Z
    <2> DEFINE D == NB * Z
    <2>1. D \in Nat /\ 1 * D = D
      BY <1>1
    <2> HIDE DEF D
    <2>2. MB * D \in Nat /\ 1 * D <= MB * D
      BY <1>1, <2>1, Products
    <2>. QED
      BY <2>1, <2>2 DEF D
  <1>4. ASSUME NEW n \in 0 .. MB * NB * Z - 1
        PROVE  MsgAt(n) \in MsgAddr
    <2>1. n \div (NB * Z) \in 0 .. MB - 1
      BY <1>1, <1>2, DivBound
    <2>2. n \div Z \in Nat /\ n % Z \in 0 .. Z - 1
      BY <1>1, <1>2, <1>3, Z3
    <2>3. (n \div Z) % NB \in 0 .. NB - 1
      BY <1>1, <2>2, Z3
    <2>. QED
      BY <2>1, <2>2, <2>3 DEF MsgAt, MsgAddr, Row, Col, Pos
  <1>5. ASSUME NEW r \in 0 .. MB - 1, NEW c \in 0 .. NB - 1, NEW z \in 0 .. Z - 1
        PROVE  /\ r * (NB * Z) + (c * Z + z) \in 0 .. MB * NB * Z - 1
               /\ MsgAt(r * (NB * Z) + (c * Z + z)) = <<r, c, z>>
    <2> DEFINE D == NB * Z
               k == c * Z + z
    <2>1. k \in 0 .. D - 1 /\ D \in Nat \ {0}
      BY <1>1, Digits
    <2>2. r * D + k = (r * NB + c) * Z + z
      BY <1>1, Z3
    <2>3. r * NB + c \in Nat /\ (r * NB + c) % NB = c
      BY <1>1, DivOf
    <2> DEFINE q == r * NB + c
    <2> HIDE DEF k, D, q
    <2>4. r * D + k \in 0 .. MB * D - 1 /\ (r * D + k) \div D = r
      BY <1>1, <2>1, Digits, DivOf
    <2>5. (q * Z + z) \div Z = q /\ (q * Z + z) % Z = z
      <3>1. q \in Nat
        BY <2>3 DEF q
      <3>. QED
        BY <1>1, <3>1, DivOf
    <2>6. r * D + k = q * Z + z /\ q % NB = c
      BY <2>2, <2>3 DEF q
    <2>7. MsgAt(r * D + k) = <<r, c, z>>
      BY <2>4, <2>5, <2>6 DEF MsgAt, D
    <2>. QED
      BY <1>2, <2>4, <2>7 DEF D, k
  <1>6. \A b \in MsgAddr : \E n \in 0 .. MB * NB * Z - 1 : MsgAt(n) = b
    BY <1>5 DEF MsgAddr, Row, Col, Pos
  <1>7. MsgAt(MB * NB * Z - 1)[2] = NB - 1
    <2> DEFINE r == MB - 1
               c == NB - 1
               z == Z - 1
    <2>1. MB * NB * Z - 1 = r * (NB * Z) + (c * Z + z)
      BY <1>1, Z3
    <2>2. r \in 0 .. MB - 1 /\ c \in 0 .. NB - 1 /\ z \in 0 .. Z - 1
      BY <1>1
    <2> HIDE DEF r, c, z
    <2>3. MsgAt(MB * NB * Z - 1) = <<r, c, z>>
      BY <1>5, <2>1, <2>2
    <2>. QED
      BY <2>3 DEF c
  <1>. QED
    BY <1>2, <1>3, <1>4, <1>6, <1>7

(* Shifting forth and back by the same block. *)
LEMMA Shifts ==
    ASSUME NEW z \in Pos, NEW h \in Pos
    PROVE  /\ (z - h) % Z \in Pos /\ (z + h) % Z \in Pos
           /\ (((z - h) % Z) + h) % Z = z /\ (((z + h) % Z) - h) % Z = z
  <1>1. Z \in Nat \ {0} /\ z \in 0 .. Z - 1 /\ h \in 0 .. Z - 1
    BY DecConstants DEF Pos
  <1>2. \A x \in 0 .. Z - 1 : x % Z = x /\ (x + Z) % Z = x /\ (x - Z) % Z = x
    BY <1>1, Z3
  <1>3. (z - h) % Z = IF z >= h THEN z - h ELSE z - h + Z
    <2>1. CASE z >= h
      BY <1>1, <1>2, <2>1
    <2>2. CASE z < h
      <3>1. z - h + Z \in 0 .. Z - 1 /\ z - h = (z - h + Z) - Z
        BY <1>1, <2>2
      <3>2. ((z - h + Z) - Z) % Z = z - h + Z
        BY <1>2, <3>1
      <3>. QED
        BY <1>1, <2>2, <3>1, <3>2
    <2>. QED
      BY <1>1, <2>1, <2>2
  <1>4. (z + h) % Z = IF z + h < Z THEN z + h ELSE z + h - Z
    <2>1. CASE z + h < Z
      BY <1>1, <1>2, <2>1
    <2>2. CASE z + h >= Z
      <3>1. z + h - Z \in 0 .. Z - 1 /\ z + h = (z + h - Z) + Z
        BY <1>1, <2>2
      <3>2. ((z + h - Z) + Z) % Z = z + h - Z
        BY <1>2, <3>1
      <3>. QED
        BY <1>1, <2>2, <3>1, <3>2
    <2>. QED
      BY <1>1, <2>1, <2>2
  <1>5. (z - h) % Z \in 0 .. Z - 1 /\ (z + h) % Z \in 0 .. Z - 1
    BY <1>1, <1>3, <1>4
  <1>6. (((z - h) % Z) + h) % Z = z
    <2>1. ((z - h) % Z) + h = IF z >= h THEN z ELSE z + Z
      BY <1>1, <1>3
    <2>. QED
      BY <1>1, <1>2, <2>1
  <1>7. (((z + h) % Z) - h) % Z = z
    <2>1. ((z + h) % Z) - h = IF z + h < Z THEN z ELSE z - Z
      BY <1>1, <1>4
    <2>. QED
      BY <1>1, <1>2, <2>1
  <1>. QED
    BY <1>5, <1>6, <1>7 DEF Pos

(* The variable of a message and the message of a variable are inverse.     *)
LEMMA BlockShifts ==
    /\ \A b \in MsgAddr : Connected(b[1], b[2]) =>
          VarOf(b) \in VarAddr /\ MsgOf(b[1], VarOf(b)) = b
    /\ \A r \in Row, a \in VarAddr : Connected(r, a[1]) =>
          MsgOf(r, a) \in MsgAddr /\ VarOf(MsgOf(r, a)) = a
  <1>1. \A r \in Row, c \in Col : Connected(r, c) => DecHB[r][c] \in Pos
    BY DecConstants DEF Connected
  <1>2. ASSUME NEW r \in Row, NEW c \in Col, NEW z \in Pos, Connected(r, c)
        PROVE  VarOf(<<r, c, z>>) \in VarAddr /\ MsgOf(r, VarOf(<<r, c, z>>)) = <<r, c, z>>
    <2>1. (z - DecHB[r][c]) % Z \in Pos /\ (((z - DecHB[r][c]) % Z) + DecHB[r][c]) % Z = z
      BY <1>1, <1>2, Shifts
    <2>. QED
      BY <2>1 DEF VarOf, MsgOf, VarAddr
  <1>3. ASSUME NEW r \in Row, NEW c \in Col, NEW z \in Pos, Connected(r, c)
        PROVE  MsgOf(r, <<c, z>>) \in MsgAddr /\ VarOf(MsgOf(r, <<c, z>>)) = <<c, z>>
    <2>1. (z + DecHB[r][c]) % Z \in Pos /\ (((z + DecHB[r][c]) % Z) - DecHB[r][c]) % Z = z
      BY <1>1, <1>3, Shifts
    <2>. QED
      BY <2>1 DEF VarOf, MsgOf, MsgAddr
  <1>4. ASSUME NEW b \in MsgAddr, Connected(b[1], b[2])
        PROVE  VarOf(b) \in VarAddr /\ MsgOf(b[1], VarOf(b)) = b
    <2>1. b[1] \in Row /\ b[2] \in Col /\ b[3] \in Pos /\ b = <<b[1], b[2], b[3]>>
      BY DEF MsgAddr
    <2>. QED
      BY <1>2, <1>4, <2>1
  <1>5. ASSUME NEW r \in Row, NEW a \in VarAddr, Connected(r, a[1])
        PROVE  MsgOf(r, a) \in MsgAddr /\ VarOf(MsgOf(r, a)) = a
    <2>1. a[1] \in Col /\ a[2] \in Pos /\ a = <<a[1], a[2]>>
      BY DEF VarAddr
    <2>. QED
      BY <1>3, <1>5, <2>1
  <1>. QED
    BY <1>4, <1>5

-----------------------------------------------------------------------------
(* The ports.                                                               *)
LEMMA Ports ==
    ASSUME NEW A
    PROVE  /\ NoWrite \in Port(A) /\ NoWrite.we = FALSE
           /\ \A a \in A, x \in Value :
                 /\ Write(a, x) \in Port(A)
                 /\ Write(a, x).we = TRUE /\ Write(a, x).wa = a /\ Write(a, x).wd = x
           /\ \A p \in Port(A) : p.we \in BOOLEAN /\ (p.we => p.wa \in A /\ p.wd \in Value)
  <1>1. NoWrite \in Port(A) /\ NoWrite.we = FALSE
    BY DEF NoWrite, Port
  <1>2. ASSUME NEW a \in A, NEW x \in Value
        PROVE  /\ Write(a, x) \in Port(A)
               /\ Write(a, x).we = TRUE /\ Write(a, x).wa = a /\ Write(a, x).wd = x
    BY Zenon DEF Write, Port
  <1>3. ASSUME NEW p \in Port(A)
        PROVE  p.we \in BOOLEAN /\ (p.we => p.wa \in A /\ p.wd \in Value)
    <2>1. CASE p = NoWrite
      BY <2>1 DEF NoWrite
    <2>2. CASE p \in [we : {TRUE}, wa : A, wd : Value]
      BY <2>2
    <2>. QED
      BY <2>1, <2>2 DEF Port
  <1>. QED
    BY <1>1, <1>2, <1>3

LEMMA WrittenIs ==
    ASSUME NEW A, NEW mem \in [A -> Value \cup {NoNumber}], NEW p \in Port(A)
    PROVE  /\ Written(mem, p) \in [A -> Value \cup {NoNumber}]
           /\ \A a \in A : Written(mem, p)[a] = IF p.we /\ p.wa = a THEN p.wd ELSE mem[a]
           /\ ~p.we => Written(mem, p) = mem
  <1>1. p.we \in BOOLEAN /\ (p.we => p.wa \in A /\ p.wd \in Value)
    BY Ports
  <1>2. CASE p.we
    BY <1>1, <1>2 DEF Written
  <1>3. CASE ~p.we
    BY <1>3 DEF Written
  <1>. QED
    BY <1>2, <1>3

(* What the memories hold, the ports included, after a clock. *)
LEMMA NowNext ==
    ASSUME DecInRange, Commit,
           ch_port' \in Port(VarAddr), v_port' \in Port(VarAddr), msg_port' \in Port(MsgAddr)
    PROVE  /\ ch_llr' = chNow /\ v_llr' = vNow /\ msg_cv' = mNow
           /\ ch_llr' \in [VarAddr -> Value \cup {NoNumber}]
           /\ v_llr' \in [VarAddr -> Value \cup {NoNumber}]
           /\ msg_cv' \in [MsgAddr -> Value \cup {NoNumber}]
           /\ \A a \in VarAddr :
                 chNow'[a] = IF ch_port'.we /\ ch_port'.wa = a THEN ch_port'.wd ELSE chNow[a]
           /\ \A a \in VarAddr :
                 vNow'[a] = IF v_port'.we /\ v_port'.wa = a THEN v_port'.wd ELSE vNow[a]
           /\ \A b \in MsgAddr :
                 mNow'[b] = IF msg_port'.we /\ msg_port'.wa = b THEN msg_port'.wd ELSE mNow[b]
  <1>1. ch_llr' = chNow /\ v_llr' = vNow /\ msg_cv' = mNow
    BY DEF Commit, chNow, vNow, mNow
  <1>2. /\ chNow \in [VarAddr -> Value \cup {NoNumber}]
        /\ vNow \in [VarAddr -> Value \cup {NoNumber}]
        /\ mNow \in [MsgAddr -> Value \cup {NoNumber}]
    <2>1. /\ ch_llr \in [VarAddr -> Value \cup {NoNumber}] /\ ch_port \in Port(VarAddr)
          /\ v_llr \in [VarAddr -> Value \cup {NoNumber}] /\ v_port \in Port(VarAddr)
          /\ msg_cv \in [MsgAddr -> Value \cup {NoNumber}] /\ msg_port \in Port(MsgAddr)
      BY DEF DecInRange
    <2>. QED
      BY <2>1, WrittenIs DEF chNow, vNow, mNow
  <1>3. /\ chNow' = Written(chNow, ch_port')
        /\ vNow' = Written(vNow, v_port')
        /\ mNow' = Written(mNow, msg_port')
    BY <1>1 DEF chNow, vNow, mNow
  <1>4. \A a \in VarAddr :
          chNow'[a] = IF ch_port'.we /\ ch_port'.wa = a THEN ch_port'.wd ELSE chNow[a]
    BY <1>2, <1>3, WrittenIs
  <1>5. \A a \in VarAddr :
          vNow'[a] = IF v_port'.we /\ v_port'.wa = a THEN v_port'.wd ELSE vNow[a]
    BY <1>2, <1>3, WrittenIs
  <1>6. \A b \in MsgAddr :
          mNow'[b] = IF msg_port'.we /\ msg_port'.wa = b THEN msg_port'.wd ELSE mNow[b]
    BY <1>2, <1>3, WrittenIs
  <1>. QED
    BY <1>1, <1>2, <1>4, <1>5, <1>6

LEMMA LimitIs ==
    ASSUME NEW x \in Int
    PROVE  /\ Limit(x) \in Value /\ Abs(Limit(x)) \in 0 .. Sat
           /\ Limit(x) = 0 <=> x = 0
           /\ Limit(x) < 0 <=> x < 0
           /\ \A y \in Value : (y <= x => y <= Limit(x)) /\ (x <= y => Limit(x) <= y)
           /\ Abs(Limit(x)) = 0 <=> x = 0
  BY DecConstants DEF Limit, Abs, Value

-----------------------------------------------------------------------------
(* What a column of a check node reads is what the memories hold, the ports *)
(* included.                                                                *)
LEMMA GatherReads ==
    ASSUME NumInv, state = "gather", Connected(cur_row, col_cnt)
    PROVE  /\ MAddr \in MsgAddr /\ VarOf(MAddr) \in VarAddr
           /\ vNow[VarOf(MAddr)] \in Value /\ mNow[MAddr] \in Value
           /\ extval = Limit(vNow[VarOf(MAddr)] - mNow[MAddr])
           /\ extval \in Value /\ Abs(extval) \in 0 .. Sat
  <1>1. cur_row \in Row /\ cur_z \in Pos /\ col_cnt \in Col
    BY DEF NumInv, DecInRange
  <1>2. MAddr \in MsgAddr /\ MAddr[1] = cur_row /\ MAddr[2] = col_cnt /\ MAddr[3] = cur_z
    BY <1>1 DEF MAddr, MsgAddr
  <1>3. VAddr = VarOf(MAddr) /\ VAddr \in VarAddr
    <2>1. VAddr = VarOf(MAddr)
      BY <1>2 DEF VAddr, VarOf
    <2>. QED
      BY <1>2, <2>1, BlockShifts
  <1>4. vNow[VAddr] \in Value /\ mNow[MAddr] \in Value
    BY <1>2, <1>3 DEF NumInv, DecLoadInv, Running
  <1>5. v_llr[VAddr] = vNow[VAddr]
    <2>1. v_llr \in [VarAddr -> Value \cup {NoNumber}] /\ v_port \in Port(VarAddr)
      BY DEF NumInv, DecInRange
    <2>2. ~(v_port.we /\ v_port.wa = VAddr)
      <3>1. v_port.we => col_cnt = 0 /\ v_port.wa[1] = NB - 1
        BY DEF NumInv, PortInv
      <3>2. VAddr[1] = col_cnt
        BY DEF VAddr
      <3>. QED
        BY <3>1, <3>2, DecConstants
    <2>. QED
      BY <1>3, <2>1, <2>2, WrittenIs DEF vNow
  <1>6. msg_cv[MAddr] = mNow[MAddr]
    <2>1. msg_cv \in [MsgAddr -> Value \cup {NoNumber}] /\ msg_port \in Port(MsgAddr)
      BY DEF NumInv, DecInRange
    <2>2. ~(msg_port.we /\ msg_port.wa = MAddr)
      <3>1. msg_port.we => col_cnt = 0 /\ msg_port.wa[2] = NB - 1
        BY DEF NumInv, PortInv
      <3>. QED
        BY <1>2, <3>1, DecConstants
    <2>. QED
      BY <1>2, <2>1, <2>2, WrittenIs DEF mNow
  <1>7. extval = Limit(vNow[VarOf(MAddr)] - mNow[MAddr])
    BY <1>3, <1>5, <1>6 DEF extval
  <1>8. vNow[VarOf(MAddr)] - mNow[MAddr] \in Int
    BY <1>3, <1>4, DecConstants DEF Value
  <1>. QED
    BY <1>2, <1>3, <1>4, <1>7, <1>8, LimitIs

(* The same of a row of a variable node. *)
Part == IF Connected(row_cnt, VarAt(vn_cnt)[1]) THEN mNow[MsgOf(row_cnt, VarAt(vn_cnt))] ELSE 0

LEMMA VnuReads ==
    ASSUME NumInv, state = "vnu"
    PROVE  /\ VarAt(vn_cnt) \in VarAddr /\ frame[VarAt(vn_cnt)] \in Value
           /\ Part \in Value
           /\ row_sum = (IF row_cnt = 0 THEN frame[VarAt(vn_cnt)] ELSE s_acc) + Part
           /\ row_sum \in Int
           /\ -((row_cnt + 2) * Sat) <= row_sum /\ row_sum <= (row_cnt + 2) * Sat
  <1> DEFINE a == VarAt(vn_cnt)
             k == row_cnt
  <1>1. /\ vn_cnt \in 0 .. NB * Z - 1 /\ k \in Row /\ k \in Nat /\ Sat \in Nat
        /\ s_acc \in Int
    <2>1. /\ vn_cnt \in 0 .. NB * Z - 1 /\ row_cnt \in Row
          /\ s_acc \in -((MB + 1) * Sat) .. (MB + 1) * Sat
      BY DEF NumInv, DecInRange
    <2>2. (MB + 1) * Sat \in Int
      BY DecConstants
    <2>. QED
      BY <2>1, <2>2, DecConstants DEF Row
  <1>2. a \in VarAddr /\ a[1] \in Col
    BY <1>1, VarAtOnto DEF VarAddr
  <1>3. frame[a] \in Value
    BY <1>2 DEF NumInv, DecLoadInv
  <1>4. ch_llr[a] = frame[a]
    <2>1. ch_llr \in [VarAddr -> Value \cup {NoNumber}] /\ ch_port \in Port(VarAddr) /\ ~ch_port.we
      BY Ports DEF NumInv, DecInRange, PortInv
    <2>2. chNow[a] = frame[a]
      BY <1>2 DEF NumInv, DecLoadInv, Running
    <2>. QED
      BY <2>1, <2>2, WrittenIs DEF chNow
  <1>5. Connected(k, a[1]) =>
            VnuAddr(k) = MsgOf(k, a) /\ msg_cv[VnuAddr(k)] = mNow[MsgOf(k, a)]
            /\ mNow[MsgOf(k, a)] \in Value
    <2> SUFFICES ASSUME Connected(k, a[1])
                 PROVE  VnuAddr(k) = MsgOf(k, a) /\ msg_cv[VnuAddr(k)] = mNow[MsgOf(k, a)]
                        /\ mNow[MsgOf(k, a)] \in Value
      OBVIOUS
    <2>1. VnuAddr(k) = MsgOf(k, a)
      BY DEF VnuAddr, MsgOf
    <2>2. MsgOf(k, a) \in MsgAddr
      BY <1>1, <1>2, BlockShifts
    <2>3. mNow[MsgOf(k, a)] \in Value
      BY <2>2 DEF NumInv, DecLoadInv, Running
    <2>4. msg_cv \in [MsgAddr -> Value \cup {NoNumber}] /\ msg_port \in Port(MsgAddr)
      BY DEF NumInv, DecInRange
    <2>5. ~(msg_port.we /\ msg_port.wa = MsgOf(k, a))
      <3>1. msg_port.we => vn_cnt = 0 /\ msg_port.wa[2] = NB - 1
        BY DEF NumInv, PortInv
      <3>2. MsgOf(k, a)[2] = a[1] /\ (vn_cnt = 0 => a[1] = 0)
        BY VarAtOnto DEF MsgOf
      <3>. QED
        BY <3>1, <3>2, DecConstants
    <2>. QED
      BY <2>1, <2>2, <2>3, <2>4, <2>5, WrittenIs DEF mNow
  <1>6. Part \in Value /\ row_sum = (IF k = 0 THEN frame[a] ELSE s_acc) + Part
    BY <1>4, <1>5, DecConstants DEF Part, row_sum, Value
  <1>7. /\ -((k + 2) * Sat) <= row_sum /\ row_sum <= (k + 2) * Sat
        /\ row_sum \in Int
    <2> DEFINE P == (k + 1) * Sat
               Q == (k + 2) * Sat
    <2>1. P \in Nat /\ Q = P + Sat /\ Sat <= P
      <3>1. k * Sat \in Nat /\ (k + 1) * Sat = k * Sat + Sat
        BY <1>1, Products
      <3>2. k + 1 \in Nat /\ (k + 1) + 1 = k + 2 /\ ((k + 1) + 1) * Sat = (k + 1) * Sat + Sat
        BY <1>1, Products
      <3>. QED
        BY <1>1, <3>1, <3>2
    <2>2. k # 0 => -P <= s_acc /\ s_acc <= P
      BY DEF NumInv, PortInv
    <2> HIDE DEF P, Q, k
    <2>3. -Sat <= Part /\ Part <= Sat /\ Part \in Int /\ -Sat <= frame[a] /\ frame[a] <= Sat /\ frame[a] \in Int
      BY <1>1, <1>3, <1>6 DEF Value
    <2>4. -Q <= row_sum /\ row_sum <= Q /\ row_sum \in Int
      BY <1>1, <1>6, <2>1, <2>2, <2>3
    <2>. QED
      BY <2>4 DEF Q
  <1>. QED
    BY <1>2, <1>3, <1>6, <1>7

-----------------------------------------------------------------------------
(* NumInv, action by action. *)
(* The decoder at rest: as a reset leaves it, whatever the memories hold.   *)
DecRest ==
    /\ state = "idle" /\ init_cnt = 0 /\ iter = 0
    /\ cur_row = 0 /\ cur_z = 0 /\ col_cnt = 0
    /\ cnu_min1 = Sat /\ cnu_min2 = Sat /\ cnu_min1_idx = 0 /\ cnu_total_sign = FALSE
    /\ vn_cnt = 0 /\ row_cnt = 0 /\ s_acc = 0
    /\ ch_port = NoWrite /\ v_port = NoWrite /\ msg_port = NoWrite
    /\ rx_valid_out = FALSE /\ fed = FALSE
    /\ ch_llr \in [VarAddr -> Value \cup {NoNumber}]
    /\ v_llr \in [VarAddr -> Value \cup {NoNumber}]
    /\ msg_cv \in [MsgAddr -> Value \cup {NoNumber}]
    /\ cnu_sign \in [Col -> BOOLEAN] /\ rx_decoded \in [InfoAddr -> BOOLEAN \cup {NoNumber}]
    /\ dbg_chllr_decoded \in [InfoAddr -> BOOLEAN]

LEMMA PowerUpRest ==
    ASSUME DecPowerUp, fed = FALSE
    PROVE  DecRest
  BY DEF DecPowerUp, DecRest

LEMMA RestartRest ==
    ASSUME DecInRange, DecRestart, fed' = FALSE
    PROVE  DecRest'
  <1>1. /\ ch_llr' \in [VarAddr -> Value \cup {NoNumber}]
        /\ v_llr' \in [VarAddr -> Value \cup {NoNumber}]
        /\ msg_cv' \in [MsgAddr -> Value \cup {NoNumber}]
        /\ cnu_sign' \in [Col -> BOOLEAN] /\ rx_decoded' \in [InfoAddr -> BOOLEAN \cup {NoNumber}]
    BY DEF DecInRange, DecRestart, memories
  <1>. QED
    BY <1>1 DEF DecRest, DecRestart, NoLlrWrite, ClearMinima

LEMMA RestNum == DecRest => NumInv
  <1> SUFFICES ASSUME DecRest PROVE NumInv
    OBVIOUS
  <1>1. DecInRange
    <2>1. /\ ch_port \in Port(VarAddr) /\ v_port \in Port(VarAddr) /\ msg_port \in Port(MsgAddr)
      BY Ports DEF DecRest
    <2>2. 0 \in Row /\ 0 \in Pos /\ 0 \in Col /\ 0 \in 0 .. MB * NB * Z - 1 /\ 0 \in 0 .. NB * Z - 1
          /\ 0 \in 0 .. MAX_ITER - 1 /\ Sat \in 0 .. Sat
      BY DecConstants, VarAtOnto, MsgAtOnto DEF Row, Pos, Col
    <2>3. 0 \in -((MB + 1) * Sat) .. (MB + 1) * Sat
      <3>1. (MB + 1) * Sat \in Nat
        BY DecConstants, Products
      <3>. QED
        BY <3>1
    <2>. QED
      BY <2>1, <2>2, <2>3 DEF DecRest, DecInRange
  <1>2. state = "idle" /\ fed = FALSE /\ rx_valid_out = FALSE
    BY DEF DecRest
  <1>. QED
    BY <1>1, <1>2 DEF NumInv, DecLoadInv, PortInv, Running

(* A clock that writes nothing leaves what the memories hold as it is.      *)
LEMMA NothingWritten ==
    ASSUME DecInRange, Commit, NoLlrWrite, msg_port' = NoWrite
    PROVE  /\ ch_port' \in Port(VarAddr) /\ v_port' \in Port(VarAddr) /\ msg_port' \in Port(MsgAddr)
           /\ ch_llr' \in [VarAddr -> Value \cup {NoNumber}]
           /\ v_llr' \in [VarAddr -> Value \cup {NoNumber}]
           /\ msg_cv' \in [MsgAddr -> Value \cup {NoNumber}]
           /\ chNow' = chNow /\ vNow' = vNow /\ mNow' = mNow
           /\ ~ch_port'.we /\ ~v_port'.we /\ ~msg_port'.we
  <1>1. /\ ch_port' \in Port(VarAddr) /\ v_port' \in Port(VarAddr) /\ msg_port' \in Port(MsgAddr)
        /\ ~ch_port'.we /\ ~v_port'.we /\ ~msg_port'.we
    BY Ports DEF NoLlrWrite
  <1>2. /\ ch_llr' = chNow /\ v_llr' = vNow /\ msg_cv' = mNow
        /\ ch_llr' \in [VarAddr -> Value \cup {NoNumber}]
        /\ v_llr' \in [VarAddr -> Value \cup {NoNumber}]
        /\ msg_cv' \in [MsgAddr -> Value \cup {NoNumber}]
    BY <1>1, NowNext
  <1>3. chNow' = chNow /\ vNow' = vNow /\ mNow' = mNow
    BY <1>1, <1>2 DEF chNow, vNow, mNow, Written
  <1>. QED
    BY <1>1, <1>2, <1>3

LEMMA IdleNum ==
    ASSUME NumInv, NEW i \in BOOLEAN, DecStep(i), IdleWait(i) \/ IdleStart(i)
    PROVE  NumInv'
  <1> USE DEF IdleWait, IdleStart, control, checkCnt, minima, varCnt, results
  <1>1. NoLlrWrite /\ msg_port' = NoWrite /\ Commit /\ fed' = (fed \/ i)
    BY DEF DecStep, DecTick, DecClock
  <1>2. DecInRange
    BY DEF NumInv
  <1>3. DecInRange'
    <2>1. 0 \in 0 .. MB * NB * Z - 1 /\ 0 \in 0 .. MAX_ITER - 1
      BY DecConstants, VarAtOnto, MsgAtOnto
    <2>2. fed' \in BOOLEAN /\ rx_valid_out' \in BOOLEAN
      BY <1>1, <1>2 DEF DecInRange
    <2>. QED
      BY <1>1, <1>2, <2>1, <2>2, NothingWritten DEF DecInRange
  <1>4. DecLoadInv'
    <2>1. fed' => frame' \in [VarAddr -> Value]
      BY <1>1 DEF DecStep
    <2>2. state' = "idle" \/ (state' = "init" /\ i /\ init_cnt' = 0)
      OBVIOUS
    <2>3. rx_valid_out' = FALSE
      OBVIOUS
    <2>. QED
      BY <1>1, <2>1, <2>2, <2>3 DEF DecLoadInv, Running
  <1>5. PortInv'
    BY DEF PortInv
  <1>. QED
    BY <1>3, <1>4, <1>5 DEF NumInv

LEMMA OutputNum ==
    ASSUME NumInv, NEW i \in BOOLEAN, Commit, Output, fed' = (fed \/ i), frame' = frame
    PROVE  NumInv'
  <1> USE DEF Output, control, checkCnt, minima, varCnt, results
  <1>1. DecInRange
    BY DEF NumInv
  <1>2. DecInRange'
    <2>1. fed' \in BOOLEAN /\ rx_valid_out' \in BOOLEAN
      BY <1>1 DEF DecInRange
    <2>. QED
      BY <1>1, <2>1, NothingWritten DEF DecInRange
  <1>. QED
    BY <1>2 DEF NumInv, DecLoadInv, PortInv, Running

LEMMA GatherNum ==
    ASSUME NumInv, NEW i \in BOOLEAN, Commit, Gather, fed' = (fed \/ i), frame' = frame
    PROVE  NumInv'
  <1> USE DEF Gather, varCnt, results
  <1>1. DecInRange
    BY DEF NumInv
  <1>2. col_cnt \in Col /\ 0 \in Col /\ (col_cnt # NB - 1 => col_cnt + 1 \in Col)
        /\ NB - 1 # 0 /\ col_cnt + 1 # 0
    BY <1>1, DecConstants DEF DecInRange, Col
  <1>3. /\ cnu_min1' \in 0 .. Sat /\ cnu_min2' \in 0 .. Sat /\ cnu_min1_idx' \in Col
        /\ cnu_total_sign' \in BOOLEAN /\ cnu_sign' \in [Col -> BOOLEAN]
    <2>1. CASE ~Connected(cur_row, col_cnt)
      BY <1>1, <2>1 DEF DecInRange, GatherColumn, minima
    <2>2. CASE Connected(cur_row, col_cnt)
      <3>1. Abs(extval) \in 0 .. Sat
        BY <2>2, GatherReads
      <3>2. /\ cnu_sign' = [cnu_sign EXCEPT ![col_cnt] = extval < 0]
            /\ cnu_total_sign' = Xor(cnu_total_sign, extval < 0)
            /\ TrackMinima(Abs(extval))
        BY <2>2 DEF GatherColumn
      <3>3. cnu_min1' \in 0 .. Sat /\ cnu_min2' \in 0 .. Sat /\ cnu_min1_idx' \in Col
        BY <1>1, <1>2, <3>1, <3>2 DEF TrackMinima, DecInRange
      <3>4. cnu_total_sign' \in BOOLEAN /\ cnu_sign' \in [Col -> BOOLEAN]
        BY <1>1, <3>2 DEF Xor, DecInRange
      <3>. QED
        BY <3>3, <3>4
    <2>. QED
      BY <2>1, <2>2
  <1>4. DecInRange'
    <2>1. fed' \in BOOLEAN /\ rx_valid_out' \in BOOLEAN /\ col_cnt' \in Col
          /\ state' \in {"idle", "init", "gather", "scatter", "vnu", "output"}
      BY <1>1, <1>2 DEF DecInRange
    <2>. QED
      BY <1>1, <1>3, <2>1, NothingWritten DEF DecInRange
  <1>5. DecLoadInv'
    BY <1>1, NothingWritten DEF NumInv, DecLoadInv, Running
  <1>6. PortInv'
    BY <1>1, NothingWritten DEF PortInv, NoLlrWrite
  <1>. QED
    BY <1>4, <1>5, <1>6 DEF NumInv

LEMMA VnuRowNum ==
    ASSUME NumInv, NEW i \in BOOLEAN, Commit, VnuRow, fed' = (fed \/ i), frame' = frame
    PROVE  NumInv'
  <1> USE DEF VnuRow, control, checkCnt, minima, results
  <1>1. DecInRange
    BY DEF NumInv
  <1>2. /\ row_cnt \in Nat /\ row_cnt + 1 \in Row /\ row_cnt + 2 <= MB + 1 /\ (row_cnt + 1) + 1 = row_cnt + 2
    BY <1>1, DecConstants DEF DecInRange, Row
  <1>3. /\ row_sum \in Int /\ -((row_cnt + 2) * Sat) <= row_sum /\ row_sum <= (row_cnt + 2) * Sat
    BY VnuReads
  <1>4. (row_cnt + 2) * Sat \in Nat /\ (row_cnt + 2) * Sat <= (MB + 1) * Sat /\ (MB + 1) * Sat \in Nat
    <2>1. row_cnt + 2 \in Nat /\ MB + 1 \in Nat /\ Sat \in Nat
      BY <1>2, DecConstants
    <2>. QED
      BY <1>2, <2>1, Products
  <1>5. DecInRange'
    <2>1. fed' \in BOOLEAN /\ rx_valid_out' \in BOOLEAN /\ row_cnt' \in Row
      BY <1>1, <1>2 DEF DecInRange
    <2>2. s_acc' \in -((MB + 1) * Sat) .. (MB + 1) * Sat
      <3> DEFINE P == (row_cnt + 2) * Sat
                 Q == (MB + 1) * Sat
      <3>1. s_acc' \in Int /\ -P <= s_acc' /\ s_acc' <= P /\ P \in Nat /\ Q \in Nat /\ P <= Q
        BY <1>3, <1>4
      <3> HIDE DEF P, Q
      <3>2. s_acc' \in -Q .. Q
        BY <3>1
      <3>. QED
        BY <3>2 DEF Q
    <2>. QED
      BY <1>1, <2>1, <2>2, NothingWritten DEF DecInRange
  <1>6. DecLoadInv'
    BY <1>1, NothingWritten DEF NumInv, DecLoadInv, Running
  <1>7. PortInv'
    <2>1. row_cnt' = row_cnt + 1 /\ s_acc' = row_sum
      OBVIOUS
    <2>2. -((row_cnt' + 1) * Sat) <= s_acc' /\ s_acc' <= (row_cnt' + 1) * Sat
      <3>1. row_cnt' + 1 = row_cnt + 2
        BY <1>2, <2>1
      <3>. QED
        BY <1>3, <2>1, <3>1
    <2>3. state' = "vnu" /\ ~msg_port'.we /\ ch_port' = NoWrite
      BY <1>1, NothingWritten DEF NoLlrWrite
    <2>. QED
      BY <2>2, <2>3 DEF PortInv
  <1>. QED
    BY <1>5, <1>6, <1>7 DEF NumInv

LEMMA InitStepNum ==
    ASSUME NumInv, NEW i \in BOOLEAN, Commit, InitStep, fed' = (fed \/ i), frame' = frame
    PROVE  /\ NumInv'
           /\ state' = "init" \/ (state' = "gather" /\ col_cnt' = 0 /\ cnu_total_sign' = FALSE)
           /\ state' = "gather" => /\ \A a \in VarAddr : vNow'[a] = frame[a]
                                  /\ \A b \in MsgAddr : mNow'[b] = 0
  <1> DEFINE n == init_cnt
  <1>1. /\ DecInRange /\ n \in Nat /\ n <= MB * NB * Z - 1 /\ MB * NB * Z \in Nat /\ NB * Z \in Nat
        /\ NB * Z <= MB * NB * Z /\ state = "init" /\ fed
    BY VarAtOnto, MsgAtOnto DEF NumInv, DecInRange, DecLoadInv, InitStep
  <1>2. MsgAt(n) \in MsgAddr /\ (n < NB * Z => VarAt(n) \in VarAddr /\ frame[VarAt(n)] \in Value)
    <2>1. n \in 0 .. MB * NB * Z - 1 /\ (n < NB * Z => n \in 0 .. NB * Z - 1)
      BY <1>1
    <2>2. frame \in [VarAddr -> Value]
      BY <1>1 DEF NumInv, DecLoadInv
    <2>. QED
      BY <2>1, <2>2, VarAtOnto, MsgAtOnto
  <1>3. /\ msg_port' \in Port(MsgAddr)
        /\ msg_port'.we = TRUE /\ msg_port'.wa = MsgAt(n) /\ msg_port'.wd = 0
    <2>1. msg_port' = Write(MsgAt(n), 0) /\ 0 \in Value
      BY DecConstants DEF InitStep, InitClear, Value
    <2>. QED
      BY <1>2, <2>1, Ports, Zenon
  <1>4. /\ ch_port' \in Port(VarAddr) /\ v_port' \in Port(VarAddr)
        /\ IF n < NB * Z
           THEN /\ ch_port'.we = TRUE /\ ch_port'.wa = VarAt(n) /\ ch_port'.wd = frame[VarAt(n)]
                /\ v_port'.we = TRUE /\ v_port'.wa = VarAt(n) /\ v_port'.wd = frame[VarAt(n)]
           ELSE ch_port'.we = FALSE /\ v_port'.we = FALSE
    <2>1. CASE n < NB * Z
      <3>1. ch_port' = Write(VarAt(n), frame[VarAt(n)]) /\ v_port' = Write(VarAt(n), frame[VarAt(n)])
        BY <1>1, <2>1 DEF InitStep, InitLoad
      <3>2. /\ Write(VarAt(n), frame[VarAt(n)]) \in Port(VarAddr)
            /\ Write(VarAt(n), frame[VarAt(n)]).we = TRUE
            /\ Write(VarAt(n), frame[VarAt(n)]).wa = VarAt(n)
            /\ Write(VarAt(n), frame[VarAt(n)]).wd = frame[VarAt(n)]
        BY <1>2, <2>1, Ports, ZenonT(60)
      <3>. QED
        BY <2>1, <3>1, <3>2
    <2>2. CASE ~(n < NB * Z)
      BY <1>1, <2>2, Ports DEF InitStep, InitLoad, NoLlrWrite
    <2>. QED
      BY <2>1, <2>2
  <1>5. /\ ch_llr' \in [VarAddr -> Value \cup {NoNumber}]
        /\ v_llr' \in [VarAddr -> Value \cup {NoNumber}]
        /\ msg_cv' \in [MsgAddr -> Value \cup {NoNumber}]
        /\ \A a \in VarAddr :
              chNow'[a] = IF ch_port'.we /\ ch_port'.wa = a THEN ch_port'.wd ELSE chNow[a]
        /\ \A a \in VarAddr :
              vNow'[a] = IF v_port'.we /\ v_port'.wa = a THEN v_port'.wd ELSE vNow[a]
        /\ \A b \in MsgAddr :
              mNow'[b] = IF msg_port'.we /\ msg_port'.wa = b THEN msg_port'.wd ELSE mNow[b]
    BY <1>1, <1>3, <1>4, NowNext, Zenon DEF InitStep
  <1>6. DecInRange'
    <2>1. /\ fed' \in BOOLEAN /\ rx_valid_out' \in BOOLEAN
          /\ state' \in {"idle", "init", "gather", "scatter", "vnu", "output"}
          /\ init_cnt' \in 0 .. MB * NB * Z - 1
      <3> DEFINE P == MB * NB * Z
      <3>1. n \in Nat /\ n <= P - 1 /\ P \in Nat
        BY <1>1
      <3>2. (n # P - 1 /\ init_cnt' = n + 1) \/ init_cnt' = n
        BY DEF InitStep
      <3> HIDE DEF P, n
      <3>3. init_cnt' \in 0 .. P - 1
        BY <3>1, <3>2
      <3>4. fed' \in BOOLEAN /\ rx_valid_out' = FALSE
        BY <1>1 DEF InitStep
      <3>5. state' \in {"idle", "init", "gather", "scatter", "vnu", "output"}
        BY <1>1 DEF InitStep
      <3>. QED
        BY <3>3, <3>4, <3>5 DEF P
    <2>2. dbg_chllr_decoded' \in [InfoAddr -> BOOLEAN]
      <3>1. \/ dbg_chllr_decoded' = dbg_chllr_decoded
            \/ dbg_chllr_decoded' = [dbg_chllr_decoded EXCEPT ![VarAt(n)] = frame[VarAt(n)] < 0]
        BY DEF InitStep, InitLoad
      <3>2. dbg_chllr_decoded \in [InfoAddr -> BOOLEAN] /\ (frame[VarAt(n)] < 0) \in BOOLEAN
        BY <1>1 DEF DecInRange
      <3>. QED
        BY <3>1, <3>2
    <2>3. /\ cur_row' \in Row /\ cur_z' \in Pos /\ col_cnt' \in Col
          /\ cnu_min1' \in 0 .. Sat /\ cnu_min2' \in 0 .. Sat /\ cnu_min1_idx' \in Col
          /\ cnu_total_sign' \in BOOLEAN
      <3>1. \/ UNCHANGED <<checkCnt, minima>>
            \/ cur_row' = 0 /\ cur_z' = 0 /\ col_cnt' = 0 /\ ClearMinima
        BY DEF InitStep
      <3>2. 0 \in Col /\ 0 \in Row /\ 0 \in Pos /\ Sat \in 0 .. Sat
        BY DecConstants DEF Col, Row, Pos
      <3>3. CASE UNCHANGED <<checkCnt, minima>>
        BY <1>1, <3>3 DEF DecInRange, checkCnt, minima
      <3>4. CASE cur_row' = 0 /\ cur_z' = 0 /\ col_cnt' = 0 /\ ClearMinima
        BY <3>2, <3>4 DEF ClearMinima
      <3>. QED
        BY <3>1, <3>3, <3>4
    <2>. QED
      BY <1>1, <1>3, <1>4, <1>5, <2>1, <2>2, <2>3
         DEF DecInRange, InitStep, varCnt
  <1>7. \A k \in 0 .. n :
           /\ mNow'[MsgAt(k)] = 0
           /\ k < NB * Z => chNow'[VarAt(k)] = frame[VarAt(k)] /\ vNow'[VarAt(k)] = frame[VarAt(k)]
    <2> SUFFICES ASSUME NEW k \in 0 .. n
                 PROVE  /\ mNow'[MsgAt(k)] = 0
                        /\ k < NB * Z => chNow'[VarAt(k)] = frame[VarAt(k)]
                                         /\ vNow'[VarAt(k)] = frame[VarAt(k)]
      OBVIOUS
    <2>1. MsgAt(k) \in MsgAddr /\ (k < NB * Z => VarAt(k) \in VarAddr)
      <3>1. k \in 0 .. MB * NB * Z - 1 /\ (k < NB * Z => k \in 0 .. NB * Z - 1)
        BY <1>1
      <3>. QED
        BY <3>1, VarAtOnto, MsgAtOnto
    <2>2. k # n => /\ mNow[MsgAt(k)] = 0
                   /\ k < NB * Z => chNow[VarAt(k)] = frame[VarAt(k)]
                                    /\ vNow[VarAt(k)] = frame[VarAt(k)]
      <3>1. k # n => k \in 0 .. init_cnt - 1
        BY <1>1
      <3>. QED
        BY <1>1, <3>1 DEF NumInv, DecLoadInv
    <2>3. mNow'[MsgAt(k)] = 0
      BY <1>3, <1>5, <2>1, <2>2
    <2>4. ASSUME k < NB * Z
          PROVE  chNow'[VarAt(k)] = frame[VarAt(k)] /\ vNow'[VarAt(k)] = frame[VarAt(k)]
      <3>1. CASE n < NB * Z
        BY <1>4, <1>5, <2>1, <2>2, <2>4, <3>1
      <3>2. CASE ~(n < NB * Z)
        <4>1. k # n
          BY <2>4, <3>2
        <4>. QED
          BY <1>4, <1>5, <2>1, <2>2, <2>4, <3>2, <4>1
      <3>. QED
        BY <3>1, <3>2
    <2>. QED
      BY <2>3, <2>4
  <1>8. CASE n # MB * NB * Z - 1
    <2>1. state' = "init" /\ init_cnt' = n + 1 /\ frame' = frame /\ fed'
          /\ frame \in [VarAddr -> Value]
      BY <1>1, <1>8 DEF InitStep, NumInv, DecLoadInv
    <2>2. \A k \in 0 .. init_cnt' - 1 : k \in 0 .. n
      BY <1>1, <2>1
    <2>3. DecLoadInv'
      BY <1>7, <2>1, <2>2 DEF DecLoadInv, Running, VarAt, MsgAt
    <2>4. PortInv'
      BY <2>1 DEF PortInv
    <2>. QED
      BY <1>6, <2>1, <2>3, <2>4 DEF NumInv
  <1>9. CASE n = MB * NB * Z - 1
    <2>1. state' = "gather" /\ col_cnt' = 0 /\ frame' = frame /\ fed'
          /\ frame \in [VarAddr -> Value]
      BY <1>1, <1>9 DEF InitStep, NumInv, DecLoadInv
    <2>2. \A a \in VarAddr : chNow'[a] = frame[a] /\ vNow'[a] = frame[a] /\ frame[a] \in Value
      <3> SUFFICES ASSUME NEW a \in VarAddr
                   PROVE  chNow'[a] = frame[a] /\ vNow'[a] = frame[a] /\ frame[a] \in Value
        OBVIOUS
      <3>1. PICK k \in 0 .. NB * Z - 1 : VarAt(k) = a
        BY VarAtOnto
      <3>2. k \in 0 .. n /\ k < NB * Z
        BY <1>1, <1>9
      <3>3. frame \in [VarAddr -> Value]
        BY <1>1 DEF NumInv, DecLoadInv
      <3>. QED
        BY <1>7, <3>1, <3>2, <3>3
    <2>3. \A b \in MsgAddr : mNow'[b] = 0 /\ mNow'[b] \in Value
      <3> SUFFICES ASSUME NEW b \in MsgAddr PROVE mNow'[b] = 0 /\ mNow'[b] \in Value
        OBVIOUS
      <3>1. PICK k \in 0 .. MB * NB * Z - 1 : MsgAt(k) = b
        BY MsgAtOnto
      <3>2. k \in 0 .. n
        BY <1>1, <1>9
      <3>3. 0 \in Value
        BY DecConstants DEF Value
      <3>. QED
        BY <1>7, <3>1, <3>2, <3>3
    <2>4. DecLoadInv'
      BY <2>1, <2>2, <2>3 DEF DecLoadInv, Running
    <2>5. PortInv'
      <3>1. msg_port'.wa[2] = NB - 1
        BY <1>3, <1>9, MsgAtOnto
      <3>2. v_port'.we => v_port'.wa[1] = NB - 1
        <4>1. n < NB * Z => n = NB * Z - 1
          BY <1>1, <1>9
        <4>. QED
          BY <1>4, <4>1, VarAtOnto
      <3>. QED
        BY <2>1, <3>1, <3>2 DEF PortInv
    <2>6. cnu_total_sign' = FALSE
      BY <1>9 DEF InitStep, ClearMinima
    <2>. QED
      BY <1>6, <2>1, <2>2, <2>3, <2>4, <2>5, <2>6 DEF NumInv
  <1>. QED
    BY <1>8, <1>9

(* The answer to a column is a value. *)
LEMMA AnswerIs ==
    ASSUME DecInRange, NEW c \in Col
    PROVE  answer(c) \in Value
  <1>1. cnu_min1 \in 0 .. Sat /\ cnu_min2 \in 0 .. Sat /\ Sat \in Nat
    BY DecConstants DEF DecInRange
  <1>. QED
    BY <1>1 DEF answer, Value

LEMMA ScatterNum ==
    ASSUME NumInv, NEW i \in BOOLEAN, Commit, Scatter, fed' = (fed \/ i), frame' = frame
    PROVE  /\ NumInv'
           /\ chNow' = chNow /\ vNow' = vNow
           /\ \A b \in MsgAddr :
                 mNow'[b] = IF Connected(cur_row, col_cnt) /\ b = MAddr
                            THEN answer(col_cnt) ELSE mNow[b]
  <1>1. DecInRange /\ state = "scatter"
    BY DEF NumInv, Scatter
  <1>2. /\ cur_row \in Row /\ cur_z \in Pos /\ col_cnt \in Col /\ MAddr \in MsgAddr
        /\ answer(col_cnt) \in Value
    BY <1>1, AnswerIs DEF DecInRange, MAddr, MsgAddr
  <1>3. /\ ch_port' \in Port(VarAddr) /\ v_port' \in Port(VarAddr)
        /\ ch_port' = NoWrite /\ v_port' = NoWrite /\ ~ch_port'.we /\ ~v_port'.we
    BY Ports DEF Scatter, NoLlrWrite
  <1>4. /\ msg_port' \in Port(MsgAddr)
        /\ Connected(cur_row, col_cnt) => /\ msg_port'.we = TRUE /\ msg_port'.wa = MAddr
                                          /\ msg_port'.wd = answer(col_cnt)
        /\ ~Connected(cur_row, col_cnt) => msg_port'.we = FALSE
    <2>1. CASE Connected(cur_row, col_cnt)
      <3>1. msg_port' = Write(MAddr, answer(col_cnt))
        BY <2>1 DEF Scatter
      <3>. QED
        BY <1>2, <2>1, <3>1, Ports, ZenonT(60)
    <2>2. CASE ~Connected(cur_row, col_cnt)
      BY <2>2, Ports DEF Scatter
    <2>. QED
      BY <2>1, <2>2
  <1>5. /\ ch_llr' \in [VarAddr -> Value \cup {NoNumber}]
        /\ v_llr' \in [VarAddr -> Value \cup {NoNumber}]
        /\ msg_cv' \in [MsgAddr -> Value \cup {NoNumber}]
        /\ ch_llr' = chNow /\ v_llr' = vNow
        /\ \A b \in MsgAddr :
              mNow'[b] = IF msg_port'.we /\ msg_port'.wa = b THEN msg_port'.wd ELSE mNow[b]
    BY <1>1, <1>3, <1>4, NowNext, Zenon
  <1>6. chNow' = chNow /\ vNow' = vNow
    BY <1>3, <1>5 DEF chNow, vNow, Written
  <1>7. \A b \in MsgAddr :
           mNow'[b] = IF Connected(cur_row, col_cnt) /\ b = MAddr
                      THEN answer(col_cnt) ELSE mNow[b]
    BY <1>4, <1>5
  <1>8. /\ fed' \in BOOLEAN /\ rx_valid_out' \in BOOLEAN /\ state' \in {"scatter", "gather", "vnu"}
        /\ cur_row' \in Row /\ cur_z' \in Pos /\ col_cnt' \in Col
        /\ state' \in {"gather", "vnu"} => col_cnt = NB - 1
        /\ state' = "gather" => col_cnt' = 0
        /\ state' = "vnu" => vn_cnt' = 0 /\ row_cnt' = 0
        /\ vn_cnt' \in 0 .. NB * Z - 1 /\ row_cnt' \in Row
        /\ cnu_min1' \in 0 .. Sat /\ cnu_min2' \in 0 .. Sat /\ cnu_min1_idx' \in Col
        /\ cnu_total_sign' \in BOOLEAN
    <2>1. /\ fed' \in BOOLEAN /\ rx_valid_out' = FALSE
      BY <1>1 DEF DecInRange, Scatter
    <2>2. CASE col_cnt # NB - 1
      <3>1. /\ col_cnt' = col_cnt + 1
            /\ UNCHANGED <<state, cur_row, cur_z, minima, vn_cnt, row_cnt>>
        BY <2>2 DEF Scatter
      <3>2. col_cnt' \in Col
        BY <1>2, <2>2, <3>1, DecConstants DEF Col
      <3>. QED
        BY <1>1, <2>1, <3>1, <3>2 DEF DecInRange, minima
    <2>3. CASE col_cnt = NB - 1 /\ ~LastCheck
      <3>1. cur_row' \in Row /\ cur_z' \in Pos
        BY <1>2, <2>3, DecConstants DEF Scatter, NextCheck, LastCheck, Row, Pos
      <3>2. 0 \in Col /\ Sat \in 0 .. Sat
        BY DecConstants DEF Col
      <3>. QED
        BY <1>1, <2>1, <2>3, <3>1, <3>2 DEF DecInRange, Scatter, NextCheck, ClearMinima
    <2>4. CASE col_cnt = NB - 1 /\ LastCheck
      <3>1. 0 \in Col /\ 0 \in Row /\ 0 \in Pos /\ 0 \in 0 .. NB * Z - 1
        BY DecConstants, VarAtOnto DEF Col, Row, Pos
      <3>. QED
        BY <1>1, <2>1, <2>4, <3>1 DEF DecInRange, Scatter, minima
    <2>. QED
      BY <2>2, <2>3, <2>4
  <1>9. DecInRange'
    BY <1>1, <1>3, <1>4, <1>5, <1>8 DEF DecInRange, Scatter, results
  <1>10. DecLoadInv'
    <2>1. \A a \in VarAddr : chNow'[a] = frame'[a] /\ vNow'[a] \in Value
      BY <1>1, <1>6 DEF NumInv, DecLoadInv, Running
    <2>2. \A b \in MsgAddr : mNow'[b] \in Value
      BY <1>1, <1>2, <1>7 DEF NumInv, DecLoadInv, Running
    <2>3. fed' /\ frame' \in [VarAddr -> Value]
      BY <1>1 DEF NumInv, DecLoadInv
    <2>. QED
      BY <1>8, <2>1, <2>2, <2>3 DEF DecLoadInv, Running
  <1>11. PortInv'
    <2>1. state' \in {"gather", "vnu"} /\ msg_port'.we => msg_port'.wa[2] = NB - 1
      BY <1>4, <1>8 DEF MAddr
    <2>. QED
      BY <1>3, <1>8, <2>1 DEF PortInv
  <1>. QED
    BY <1>6, <1>7, <1>9, <1>10, <1>11 DEF NumInv

LEMMA Changed ==
    ASSUME NEW A, NEW B, NEW f \in [A -> B], NEW w, NEW x \in B
    PROVE  [f EXCEPT ![w] = x] \in [A -> B]
  OBVIOUS

LEMMA VnuDoneNum ==
    ASSUME NumInv, NEW i \in BOOLEAN, Commit, VnuDone, fed' = (fed \/ i), frame' = frame
    PROVE  /\ NumInv'
           /\ mNow' = mNow
           /\ \A a \in VarAddr :
                 vNow'[a] = IF a = VarAt(vn_cnt) THEN Limit(row_sum) ELSE vNow[a]
  <1>1. DecInRange /\ state = "vnu"
    BY DEF NumInv, VnuDone
  <1>2. VarAt(vn_cnt) \in VarAddr /\ row_sum \in Int /\ Limit(row_sum) \in Value
    BY <1>1, VnuReads, LimitIs
  <1>3. /\ ch_port' \in Port(VarAddr) /\ msg_port' \in Port(MsgAddr)
        /\ ch_port' = NoWrite /\ msg_port' = NoWrite /\ ~ch_port'.we /\ ~msg_port'.we
    BY Ports DEF VnuDone
  <1>4. /\ v_port' \in Port(VarAddr)
        /\ v_port'.we = TRUE /\ v_port'.wa = VarAt(vn_cnt) /\ v_port'.wd = Limit(row_sum)
    <2>1. v_port' = Write(VarAt(vn_cnt), Limit(row_sum))
      BY DEF VnuDone
    <2>. QED
      BY <1>2, <2>1, Ports, ZenonT(60)
  <1>5. /\ ch_llr' \in [VarAddr -> Value \cup {NoNumber}]
        /\ v_llr' \in [VarAddr -> Value \cup {NoNumber}]
        /\ msg_cv' \in [MsgAddr -> Value \cup {NoNumber}]
        /\ ch_llr' = chNow /\ msg_cv' = mNow
        /\ \A a \in VarAddr :
              vNow'[a] = IF v_port'.we /\ v_port'.wa = a THEN v_port'.wd ELSE vNow[a]
    BY <1>1, <1>3, <1>4, NowNext, Zenon
  <1>6. chNow' = chNow /\ mNow' = mNow
    BY <1>3, <1>5 DEF chNow, mNow, Written
  <1>7. \A a \in VarAddr : vNow'[a] = IF a = VarAt(vn_cnt) THEN Limit(row_sum) ELSE vNow[a]
    BY <1>4, <1>5
  <1>8. /\ fed' \in BOOLEAN /\ rx_valid_out' \in BOOLEAN /\ state' \in {"vnu", "gather", "output"}
        /\ cur_row' \in Row /\ cur_z' \in Pos /\ col_cnt' \in Col
        /\ state' = "gather" => col_cnt' = 0 /\ vn_cnt = NB * Z - 1
        /\ row_cnt' = 0 /\ row_cnt' \in Row
        /\ vn_cnt' \in 0 .. NB * Z - 1 /\ iter' \in 0 .. MAX_ITER - 1
        /\ cnu_min1' \in 0 .. Sat /\ cnu_min2' \in 0 .. Sat /\ cnu_min1_idx' \in Col
        /\ cnu_total_sign' \in BOOLEAN
    <2>1. /\ fed' \in BOOLEAN /\ rx_valid_out' = FALSE /\ row_cnt' = 0
      BY <1>1 DEF DecInRange, VnuDone
    <2>2. 0 \in Col /\ 0 \in Row /\ 0 \in Pos /\ Sat \in 0 .. Sat /\ NB * Z \in Nat /\ MAX_ITER \in Nat
      BY DecConstants, VarAtOnto DEF Col, Row, Pos
    <2>3. CASE vn_cnt # NB * Z - 1
      <3>1. vn_cnt' = vn_cnt + 1 /\ UNCHANGED <<state, iter, checkCnt, minima>>
        BY <2>3 DEF VnuDone
      <3> DEFINE P == NB * Z
      <3>2. vn_cnt \in 0 .. P - 1 /\ vn_cnt # P - 1 /\ P \in Nat
        BY <1>1, <2>2, <2>3 DEF DecInRange
      <3> HIDE DEF P
      <3>3. vn_cnt' \in 0 .. P - 1
        BY <3>1, <3>2
      <3>. QED
        BY <1>1, <2>1, <2>2, <3>1, <3>3 DEF DecInRange, minima, checkCnt, P
    <2>4. CASE vn_cnt = NB * Z - 1 /\ iter = MAX_ITER - 1
      BY <1>1, <2>1, <2>2, <2>4 DEF DecInRange, VnuDone, minima, checkCnt
    <2>5. CASE vn_cnt = NB * Z - 1 /\ iter # MAX_ITER - 1
      <3>1. /\ iter' = iter + 1 /\ cur_row' = 0 /\ cur_z' = 0 /\ col_cnt' = 0 /\ ClearMinima
            /\ state' = "gather" /\ vn_cnt' = vn_cnt
        BY <2>5 DEF VnuDone
      <3>2. iter' \in 0 .. MAX_ITER - 1
        BY <1>1, <2>2, <2>5, <3>1 DEF DecInRange
      <3>3. vn_cnt' \in 0 .. NB * Z - 1
        BY <1>1, <3>1 DEF DecInRange
      <3>. QED
        BY <2>1, <2>2, <2>5, <3>1, <3>2, <3>3 DEF ClearMinima
    <2>. QED
      BY <2>3, <2>4, <2>5
  <1>9. DecInRange'
    <2>1. rx_decoded' \in [InfoAddr -> BOOLEAN \cup {NoNumber}]
      <3> DEFINE w == VarAt(vn_cnt)
      <3>1. rx_decoded' = rx_decoded \/ rx_decoded' = [rx_decoded EXCEPT ![w] = Limit(row_sum) < 0]
        BY DEF VnuDone
      <3>2. rx_decoded \in [InfoAddr -> BOOLEAN \cup {NoNumber}]
        BY <1>1 DEF DecInRange
      <3>3. (Limit(row_sum) < 0) \in BOOLEAN \cup {NoNumber}
        <4>1. (Limit(row_sum) < 0) \in BOOLEAN
          OBVIOUS
        <4>. QED
          BY <4>1, Zenon
      <3>. QED
        BY <3>1, <3>2, <3>3, Changed, Zenon
    <2>. QED
      BY <1>1, <1>3, <1>4, <1>5, <1>8, <2>1 DEF DecInRange, VnuDone
  <1>10. DecLoadInv'
    <2>1. \A a \in VarAddr : chNow'[a] = frame'[a] /\ vNow'[a] \in Value
      BY <1>1, <1>2, <1>6, <1>7 DEF NumInv, DecLoadInv, Running
    <2>2. \A b \in MsgAddr : mNow'[b] \in Value
      BY <1>1, <1>6 DEF NumInv, DecLoadInv, Running
    <2>3. fed' /\ frame' \in [VarAddr -> Value]
      BY <1>1 DEF NumInv, DecLoadInv
    <2>. QED
      BY <1>8, <2>1, <2>2, <2>3 DEF DecLoadInv, Running
  <1>11. PortInv'
    <2>1. state' = "gather" => v_port'.wa[1] = NB - 1
      BY <1>4, <1>8, VarAtOnto
    <2>. QED
      BY <1>3, <1>8, <2>1 DEF PortInv
  <1>. QED
    BY <1>6, <1>7, <1>9, <1>10, <1>11 DEF NumInv

LEMMA NumStep ==
    ASSUME NumInv, NEW i \in BOOLEAN, DecStep(i)
    PROVE  NumInv'
  <1>1. CASE state = "idle"
    <2>1. IdleWait(i) \/ IdleStart(i)
      BY <1>1 DEF DecStep, DecTick, DecClock, InitStep, Gather, Scatter, VnuRow, VnuDone, Output
    <2>. QED
      BY <2>1, IdleNum
  <1>2. CASE state # "idle"
    <2>1. fed /\ frame' = frame /\ Commit /\ fed' = (fed \/ i)
      BY <1>2 DEF NumInv, DecLoadInv, DecStep, DecTick, DecClock
    <2>2. InitStep \/ Gather \/ Scatter \/ VnuRow \/ VnuDone \/ Output
      BY <1>2 DEF DecStep, DecTick, DecClock, IdleWait, IdleStart
    <2>. QED
      BY <2>1, <2>2, InitStepNum, GatherNum, ScatterNum, VnuRowNum, VnuDoneNum, OutputNum
  <1>. QED
    BY <1>1, <1>2

-----------------------------------------------------------------------------
(* The signs.  In a clean frame every check sums to zero.                   *)
Minus(r, c, z) == frame[VarOf(<<r, c, z>>)] < 0

LEMMA CleanChecks ==
    ASSUME Clean, NEW r \in Row, NEW z \in Pos
    PROVE  /\ Cardinality({c \in Col : Connected(r, c) /\ Minus(r, c, z)}) % 2 # 1
           /\ \A a \in VarAddr : frame[a] # 0
  <1> DEFINE neg == [a \in VarAddr |-> frame[a] < 0]
             S == {c \in Col : Connected(r, c) /\ neg[<<c, (z - DecHB[r][c]) % Z>>]}
             Y == {c \in Col : Connected(r, c) /\ Minus(r, c, z)}
  <1>1. Cardinality(S) % 2 # 1
    <2>1. <<r, z>> \in Row \X Pos /\ <<r, z>> \notin Syndrome(neg)
      BY DEF Clean
    <2>. QED
      BY <2>1 DEF Syndrome
  <1>2. ASSUME NEW c \in Col, Connected(r, c)
        PROVE  neg[<<c, (z - DecHB[r][c]) % Z>>] <=> Minus(r, c, z)
    <2>1. <<r, c, z>> \in MsgAddr
      BY DEF MsgAddr
    <2>2. VarOf(<<r, c, z>>) \in VarAddr
      BY <1>2, <2>1, BlockShifts
    <2>3. VarOf(<<r, c, z>>) = <<c, (z - DecHB[r][c]) % Z>>
      BY DEF VarOf
    <2>. QED
      BY <2>2, <2>3 DEF Minus
  <1>3. S = Y
    BY <1>2
  <1>. QED
    BY <1>1, <1>3 DEF Clean

(* A member more or less. *)
LEMMA OddWithout ==
    ASSUME NEW S, IsFiniteSet(S), NEW c
    PROVE  /\ c \in S => (Cardinality(S) % 2 = 1 <=> Cardinality(S \ {c}) % 2 # 1)
           /\ c \notin S => S \ {c} = S
  <1>1. ASSUME c \in S
        PROVE  Cardinality(S) % 2 = 1 <=> Cardinality(S \ {c}) % 2 # 1
    <2>1. /\ IsFiniteSet(S \ {c}) /\ Cardinality(S \ {c}) = Cardinality(S) - 1
      BY <1>1, FS_RemoveElement
    <2>2. Cardinality(S) \in Nat /\ Cardinality(S \ {c}) \in Nat
      BY <2>1, FS_CardinalityType
    <2>. QED
      BY <2>1, <2>2
  <1>. QED
    BY <1>1

(* The answer to a column has the sign of its bit, or is zero: when it is   *)
(* not zero, only the column itself may have been taken wrong.              *)
LEMMA AnswerSided ==
    ASSUME NumInv, Clean, Gathered(Col), NEW c \in Col, Connected(cur_row, c)
    PROVE  Sided(VarOf(<<cur_row, c, cur_z>>), answer(c))
  <1> DEFINE r == cur_row
             z == cur_z
             size == IF c = cnu_min1_idx THEN cnu_min2 ELSE cnu_min1
             X == NegCols(Col)
             Y == {o \in Col : Connected(r, o) /\ Minus(r, o, z)}
  <1>1. /\ r \in Row /\ z \in Pos /\ cnu_min1 \in Nat /\ cnu_min2 \in Nat
        /\ cnu_total_sign \in BOOLEAN /\ cnu_sign \in [Col -> BOOLEAN]
    BY DecConstants DEF NumInv, DecInRange
  <1>2. answer(c) = IF Xor(cnu_total_sign, cnu_sign[c]) THEN -size ELSE size
    BY DEF answer
  <1>3. CASE size = 0
    BY <1>2, <1>3 DEF Sided
  <1>4. CASE size # 0
    <2>1. size \in Nat /\ size > 0
      BY <1>1, <1>4
    <2>2. \A o \in Col \ {c} : Connected(r, o) => (cnu_sign[o] <=> Minus(r, o, z))
      <3> SUFFICES ASSUME NEW o \in Col \ {c}, Connected(r, o), cnu_sign[o] # Minus(r, o, z)
                   PROVE  FALSE
        BY <1>1 DEF Minus
      <3>1. cnu_min1 = 0 /\ (o = cnu_min1_idx \/ cnu_min2 = 0)
        BY DEF Gathered, Minus
      <3>. QED
        BY <1>4, <3>1
    <2>3. X \ {c} = Y \ {c}
      BY <2>2 DEF NegCols
    <2>4. IsFiniteSet(X) /\ IsFiniteSet(Y)
      <3>1. IsFiniteSet(Col)
        BY DecConstants, FS_Interval DEF Col
      <3>. QED
        BY <3>1, FS_Subset DEF NegCols
    <2>5. (c \in X <=> cnu_sign[c]) /\ (c \in Y <=> Minus(r, c, z))
      BY DEF NegCols
    <2>6. Cardinality(Y) % 2 # 1 /\ (cnu_total_sign <=> Cardinality(X) % 2 = 1)
      BY <1>1, CleanChecks DEF Gathered
    <2>7. Cardinality(Y \ {c}) % 2 = 1 <=> Minus(r, c, z)
      BY <2>4, <2>5, <2>6, OddWithout
    <2>8. Cardinality(X) % 2 = 1 <=> (cnu_sign[c] <=> Cardinality(X \ {c}) % 2 # 1)
      <3>1. CASE c \in X
        BY <2>4, <2>5, <3>1, OddWithout
      <3>2. CASE c \notin X
        BY <2>4, <2>5, <3>2, OddWithout
      <3>. QED
        BY <3>1, <3>2
    <2>9. Xor(cnu_total_sign, cnu_sign[c]) <=> Minus(r, c, z)
      <3>1. cnu_total_sign <=> (cnu_sign[c] <=> ~Minus(r, c, z))
        BY <2>3, <2>6, <2>7, <2>8
      <3>2. cnu_total_sign \in BOOLEAN /\ cnu_sign[c] \in BOOLEAN
        BY <1>1
      <3>. QED
        BY <3>1, <3>2, Zenon DEF Xor
    <2>10. answer(c) = IF Minus(r, c, z) THEN -size ELSE size
      BY <1>2, <2>9
    <2>. QED
      BY <2>1, <2>10 DEF Sided, Minus
  <1>. QED
    BY <1>3, <1>4

(* A column brings the sign of its bit, or zero. *)
LEMMA ExtSided ==
    ASSUME NumInv, Clean, SignInv, state = "gather", Connected(cur_row, col_cnt)
    PROVE  (extval < 0) # Minus(cur_row, col_cnt, cur_z) => Abs(extval) = 0
  <1> DEFINE a == VarOf(MAddr)
             d == vNow[a] - mNow[MAddr]
  <1>1. /\ MAddr \in MsgAddr /\ a \in VarAddr /\ vNow[a] \in Int /\ mNow[MAddr] \in Int
        /\ extval = Limit(d)
    BY GatherReads, DecConstants DEF Value
  <1>2. MAddr[1] = cur_row /\ MAddr[2] = col_cnt /\ MAddr[3] = cur_z /\ MAddr = <<cur_row, col_cnt, cur_z>>
    BY DEF MAddr
  <1>3. Within(a, mNow[MAddr], vNow[a])
    BY <1>1, <1>2 DEF SignInv, ToRead
  <1>4. Minus(cur_row, col_cnt, cur_z) <=> frame[a] < 0
    BY <1>2 DEF Minus
  <1>5. d \in Int /\ (Limit(d) < 0 <=> d < 0) /\ (Abs(Limit(d)) = 0 <=> d = 0)
    BY <1>1, LimitIs
  <1>6. (extval < 0 <=> ~(frame[a] < 0)) => d = 0
    <2>1. frame[a] < 0 => vNow[a] <= mNow[MAddr]
      BY <1>3 DEF Within
    <2>2. ~(frame[a] < 0) => mNow[MAddr] <= vNow[a]
      BY <1>3 DEF Within
    <2>. QED
      BY <1>1, <1>5, <2>1, <2>2
  <1>. QED
    BY <1>1, <1>4, <1>5, <1>6 DEF Minus

(* Before the first column. *)
LEMMA GatheredNone ==
    ASSUME col_cnt' = 0, cnu_total_sign' = FALSE
    PROVE  Gathered(0 .. col_cnt - 1)'
  <1>1. 0 .. col_cnt' - 1 = {}
    OBVIOUS
  <1>2. NegCols(0 .. col_cnt - 1)' = {}
    BY <1>1 DEF NegCols
  <1>3. Cardinality({}) = 0 /\ 0 % 2 = 0
    BY FS_EmptySet
  <1>4. cnu_total_sign' <=> Cardinality(NegCols(0 .. col_cnt - 1)') % 2 = 1
    BY <1>2, <1>3
  <1>. QED
    BY <1>1, <1>4 DEF Gathered

(* One more column gathered. *)
LEMMA GatheredMore ==
    ASSUME NumInv, Clean, SignInv, Gather, frame' = frame,
           NEW k \in Col, k = col_cnt
    PROVE  Gathered(0 .. k)'
  <1> DEFINE r == cur_row
             z == cur_z
             old == 0 .. k - 1
  <1>1. /\ DecInRange /\ state = "gather" /\ k \in Nat /\ Gathered(old) /\ r' = r /\ z' = z
        /\ 0 .. k = old \cup {k} /\ k \notin old /\ old \subseteq Col /\ IsFiniteSet(old)
    <2>1. k \in Nat /\ k <= NB - 1
      BY DecConstants DEF Col
    <2>2. 0 .. k = old \cup {k} /\ k \notin old /\ old \subseteq Col
      <3>1. \A o : o \in 0 .. k <=> o \in old \/ o = k
        BY <2>1
      <3>2. k \notin old
        BY <2>1
      <3>3. \A o \in old : o \in Col
        BY <2>1, DecConstants DEF Col
      <3>. QED
        BY <3>1, <3>2, <3>3, Zenon
    <2>3. IsFiniteSet(old)
      BY <2>1, FS_Interval
    <2>. QED
      BY <2>1, <2>2, <2>3 DEF NumInv, Gather, SignInv
  <1>2. /\ cnu_sign \in [Col -> BOOLEAN] /\ cnu_total_sign \in BOOLEAN
        /\ cnu_min1 \in Nat /\ cnu_min2 \in Nat
    BY <1>1, DecConstants DEF DecInRange
  <1>3. IsFiniteSet(NegCols(old)) /\ k \notin NegCols(old)
    BY <1>1, FS_Subset DEF NegCols
  <1>4. Cardinality(NegCols(old)) \in Nat /\ Cardinality(NegCols(old) \cup {k}) = Cardinality(NegCols(old)) + 1
    BY <1>3, FS_AddElement, FS_CardinalityType
  <1>5. CASE ~Connected(r, k)
    <2>1. cnu_sign' = [cnu_sign EXCEPT ![k] = FALSE] /\ UNCHANGED minima
      BY <1>5 DEF Gather, GatherColumn
    <2>2. \A o \in old : o \in Col /\ cnu_sign'[o] = cnu_sign[o]
      BY <1>1, <1>2, <2>1
    <2>3. NegCols(0 .. k)' = NegCols(old)
      BY <1>1, <1>5, <2>2 DEF NegCols, Connected
    <2>4. \A c \in 0 .. k : Connected(r, c) /\ cnu_sign'[c] # (frame[VarOf(<<r, c, z>>)] < 0)
             => cnu_min1' = 0 /\ (c = cnu_min1_idx' \/ cnu_min2' = 0)
      BY <1>1, <1>5, <2>1, <2>2 DEF Gathered, minima
    <2>5. cnu_total_sign' <=> Cardinality(NegCols(0 .. k)') % 2 = 1
      BY <1>1, <2>1, <2>3 DEF Gathered, minima
    <2>. QED
      BY <1>1, <2>4, <2>5 DEF Gathered, Connected, VarOf
  <1>6. CASE Connected(r, k)
    <2> DEFINE size == Abs(extval)
    <2>1. /\ cnu_sign' = [cnu_sign EXCEPT ![k] = extval < 0]
          /\ cnu_total_sign' = Xor(cnu_total_sign, extval < 0)
          /\ TrackMinima(size)
      BY <1>6 DEF Gather, GatherColumn
    <2>2. \A o \in old : o \in Col /\ cnu_sign'[o] = cnu_sign[o]
      BY <1>1, <1>2, <2>1
    <2>3. cnu_sign'[k] = (extval < 0)
      BY <1>2, <2>1
    <2>4. size \in Nat
      BY <1>1, <1>6, GatherReads, DecConstants
    <2>5. (extval < 0) # Minus(r, k, z) => size = 0
      BY <1>1, <1>6, ExtSided
    <2>6. ASSUME NEW c \in 0 .. k, Connected(r, c), cnu_sign'[c] # Minus(r, c, z)
          PROVE  cnu_min1' = 0 /\ (c = cnu_min1_idx' \/ cnu_min2' = 0)
      <3>1. CASE c = k
        <4>1. size = 0
          BY <2>3, <2>5, <2>6, <3>1
        <4>2. size <= cnu_min1
          BY <1>2, <4>1
        <4>. QED
          BY <1>2, <2>1, <3>1, <4>1, <4>2 DEF TrackMinima
      <3>2. CASE c \in old
        <4>1. cnu_min1 = 0 /\ (c = cnu_min1_idx \/ cnu_min2 = 0)
          BY <1>1, <2>2, <2>6, <3>2 DEF Gathered, Minus
        <4>. QED
          BY <1>2, <2>1, <2>4, <4>1 DEF TrackMinima
      <3>. QED
        BY <1>1, <3>1, <3>2
    <2>7. cnu_total_sign' <=> Cardinality(NegCols(0 .. k)') % 2 = 1
      <3>1. cnu_total_sign <=> Cardinality(NegCols(old)) % 2 = 1
        BY <1>1 DEF Gathered
      <3>2. CASE extval < 0
        <4>1. NegCols(0 .. k)' = NegCols(old) \cup {k}
          BY <1>1, <1>6, <2>2, <2>3, <3>2 DEF NegCols, Connected
        <4>2. cnu_total_sign' <=> ~cnu_total_sign
          BY <1>2, <2>1, <3>2 DEF Xor
        <4>3. Cardinality(NegCols(0 .. k)') = Cardinality(NegCols(old)) + 1
          BY <1>4, <4>1
        <4>. QED
          BY <1>4, <3>1, <4>2, <4>3
      <3>3. CASE ~(extval < 0)
        <4>1. NegCols(0 .. k)' = NegCols(old)
          BY <1>1, <1>6, <2>2, <2>3, <3>3 DEF NegCols, Connected
        <4>2. cnu_total_sign' <=> cnu_total_sign
          BY <1>2, <2>1, <3>3 DEF Xor
        <4>. QED
          BY <3>1, <4>1, <4>2
      <3>. QED
        BY <3>2, <3>3
    <2>. QED
      BY <1>1, <2>6, <2>7 DEF Gathered, Connected, VarOf, Minus
  <1>. QED
    BY <1>5, <1>6

(* The sum of a variable node has the sign of its bit, and is at least as   *)
(* far from zero as every answer in it.                                     *)
LEMMA SumStrict ==
    ASSUME NumInv, Clean, SignInv, state = "vnu"
    PROVE  /\ Strict(VarAt(vn_cnt), row_sum)
           /\ \A q \in 0 .. row_cnt : Connected(q, VarAt(vn_cnt)[1])
                 => Within(VarAt(vn_cnt), mNow[MsgOf(q, VarAt(vn_cnt))], row_sum)
  <1> DEFINE a == VarAt(vn_cnt)
             base == IF row_cnt = 0 THEN frame[a] ELSE s_acc
  <1>1. /\ a \in VarAddr /\ frame[a] \in Int /\ Part \in Int /\ row_sum = base + Part /\ row_sum \in Int
    BY VnuReads, DecConstants DEF Value
  <1>2. /\ row_cnt \in Row /\ row_cnt \in Nat
    BY DecConstants DEF NumInv, DecInRange, Row
  <1>3. base \in Int /\ Strict(a, base)
    <2>1. CASE row_cnt = 0
      <3>1. 0 \in Pos
        BY DecConstants DEF Pos
      <3>2. frame[a] # 0
        BY <1>1, <1>2, <3>1, CleanChecks
      <3>. QED
        BY <1>1, <2>1, <3>2 DEF Strict
    <2>2. CASE row_cnt # 0
      <3>1. s_acc \in Int
        BY DecConstants DEF NumInv, DecInRange
      <3>. QED
        BY <2>2, <3>1 DEF SignInv
    <2>. QED
      BY <2>1, <2>2
  <1>4. Sided(a, Part)
    <2>1. CASE Connected(row_cnt, a[1])
      <3>1. MsgOf(row_cnt, a) \in MsgAddr /\ VarOf(MsgOf(row_cnt, a)) = a
            /\ MsgOf(row_cnt, a)[1] = row_cnt /\ MsgOf(row_cnt, a)[2] = a[1]
        BY <1>1, <1>2, <2>1, BlockShifts DEF MsgOf
      <3>2. Sided(a, mNow[MsgOf(row_cnt, a)])
        BY <2>1, <3>1 DEF SignInv, Running
      <3>. QED
        BY <2>1, <3>2 DEF Part
    <2>2. CASE ~Connected(row_cnt, a[1])
      BY <2>2 DEF Part, Sided
    <2>. QED
      BY <2>1, <2>2
  <1>5. Strict(a, row_sum)
    BY <1>1, <1>3, <1>4 DEF Strict, Sided
  <1>6. ASSUME NEW q \in 0 .. row_cnt, Connected(q, a[1])
        PROVE  Within(a, mNow[MsgOf(q, a)], row_sum)
    <2>1. CASE q = row_cnt
      <3>1. mNow[MsgOf(q, a)] = Part
        BY <1>6, <2>1 DEF Part
      <3>. QED
        BY <1>1, <1>3, <1>4, <3>1 DEF Strict, Sided, Within
    <2>2. CASE q # row_cnt
      <3>1. q \in 0 .. row_cnt - 1 /\ row_cnt # 0 /\ q \in Row
        BY <1>2, <2>2, DecConstants DEF Row
      <3>2. Within(a, mNow[MsgOf(q, a)], base)
        BY <1>6, <3>1 DEF SignInv
      <3>3. mNow[MsgOf(q, a)] \in Int
        <4>1. MsgOf(q, a) \in MsgAddr
          BY <1>1, <1>6, <3>1, BlockShifts
        <4>. QED
          BY <4>1, DecConstants DEF NumInv, DecLoadInv, Running, Value
      <3>. QED
        BY <1>1, <1>3, <1>4, <3>2, <3>3 DEF Sided, Within
    <2>. QED
      BY <2>1, <2>2
  <1>. QED
    BY <1>5, <1>6

-----------------------------------------------------------------------------
(* The signs after each step. *)
LEMMA InitStepSign ==
    ASSUME NumInv, Clean, NEW i \in BOOLEAN, Commit, InitStep, fed' = (fed \/ i),
           frame' = frame
    PROVE  SignInv' /\ ResultInv'
  <1>1. /\ state' = "init" \/ (state' = "gather" /\ col_cnt' = 0 /\ cnu_total_sign' = FALSE)
        /\ state' = "gather" => /\ \A a \in VarAddr : vNow'[a] = frame[a]
                               /\ \A b \in MsgAddr : mNow'[b] = 0
    BY InitStepNum
  <1>2. rx_valid_out' = FALSE /\ frame' = frame
    BY DEF InitStep
  <1>3. ResultInv'
    BY <1>1, <1>2 DEF ResultInv
  <1>4. CASE state' = "init"
    BY <1>3, <1>4 DEF SignInv, Running
  <1>5. CASE state' = "gather"
    <2>1. \A a \in VarAddr : frame[a] # 0 /\ frame[a] \in Int
      <3>1. 0 \in Row /\ 0 \in Pos
        BY DecConstants DEF Row, Pos
      <3>2. \A a \in VarAddr : frame[a] # 0
        BY <3>1, CleanChecks
      <3>3. frame \in [VarAddr -> Value] /\ Value \subseteq Int
        BY DecConstants DEF NumInv, DecLoadInv, InitStep, Value
      <3>. QED
        BY <3>2, <3>3
    <2>2. \A a \in VarAddr : IF frame'[a] < 0 THEN vNow'[a] < 0 ELSE vNow'[a] > 0
      BY <1>1, <1>2, <1>5, <2>1
    <2>3. \A b \in MsgAddr : Connected(b[1], b[2]) =>
             /\ IF frame'[VarOf(b)] < 0 THEN mNow'[b] <= 0 ELSE mNow'[b] >= 0
             /\ IF frame'[VarOf(b)] < 0 THEN vNow'[VarOf(b)] <= mNow'[b] /\ mNow'[b] <= 0
                                      ELSE 0 <= mNow'[b] /\ mNow'[b] <= vNow'[VarOf(b)]
      <3> SUFFICES ASSUME NEW b \in MsgAddr, Connected(b[1], b[2])
                   PROVE  /\ IF frame'[VarOf(b)] < 0 THEN mNow'[b] <= 0 ELSE mNow'[b] >= 0
                          /\ IF frame'[VarOf(b)] < 0 THEN vNow'[VarOf(b)] <= mNow'[b] /\ mNow'[b] <= 0
                                                   ELSE 0 <= mNow'[b] /\ mNow'[b] <= vNow'[VarOf(b)]
        OBVIOUS
      <3>1. VarOf(b) \in VarAddr
        BY BlockShifts
      <3>. QED
        BY <1>1, <1>2, <1>5, <2>1, <3>1
    <2>4. Gathered(0 .. col_cnt - 1)'
      BY <1>1, <1>5, GatheredNone
    <2>. QED
      BY <1>3, <1>5, <2>2, <2>3, <2>4 DEF SignInv, Running, Strict, Sided, Within, VarOf, Connected
  <1>. QED
    BY <1>1, <1>4, <1>5

LEMMA GatherSign ==
    ASSUME NumInv, Clean, SignInv, NEW i \in BOOLEAN, Commit, Gather, fed' = (fed \/ i),
           frame' = frame
    PROVE  SignInv' /\ ResultInv'
  <1>1. /\ DecInRange /\ state = "gather" /\ col_cnt \in Col
        /\ vNow' = vNow /\ mNow' = mNow /\ frame' = frame /\ cur_row' = cur_row /\ cur_z' = cur_z
        /\ rx_valid_out' = FALSE
    <2>1. DecInRange /\ NoLlrWrite /\ msg_port' = NoWrite
      BY DEF NumInv, Gather
    <2>2. vNow' = vNow /\ mNow' = mNow
      BY <2>1, NothingWritten
    <2>. QED
      BY <2>1, <2>2 DEF Gather, DecInRange
  <1>2. \/ state' = "gather" /\ col_cnt' = col_cnt + 1
        \/ state' = "scatter" /\ col_cnt = NB - 1
    BY <1>1 DEF Gather
  <1>3. ResultInv'
    BY <1>1, <1>2 DEF ResultInv
  <1>4. PICK k \in Col : k = col_cnt
    BY <1>1
  <1>5. Gathered(0 .. k)'
    BY <1>1, <1>4, GatheredMore
  <1>6. state' = "gather" => Gathered(0 .. col_cnt - 1)'
    <2>1. state' = "gather" => col_cnt' - 1 = k
      BY <1>2, <1>4, DecConstants DEF Col
    <2>. QED
      BY <1>5, <2>1 DEF Gathered, NegCols
  <1>7. state' = "scatter" => Gathered(Col)'
    <2>1. state' = "scatter" => 0 .. k = Col
      BY <1>2, <1>4 DEF Col
    <2>. QED
      BY <1>5, <2>1
  <1>8. \A b \in MsgAddr : ToRead(b)' => ToRead(b)
    BY <1>1 DEF ToRead
  <1>9. /\ \A a \in VarAddr : Strict(a, vNow[a])'
        /\ \A b \in MsgAddr : Connected(b[1], b[2]) => Sided(VarOf(b), mNow[b])'
    BY <1>1 DEF SignInv, Running, Strict, Sided
  <1>10. \A b \in MsgAddr : Connected(b[1], b[2]) /\ ToRead(b)' => Within(VarOf(b), mNow[b], vNow[VarOf(b)])'
    BY <1>1, <1>8 DEF SignInv, Within
  <1>. QED
    BY <1>2, <1>3, <1>6, <1>7, <1>9, <1>10 DEF SignInv, Connected

LEMMA ScatterSign ==
    ASSUME NumInv, Clean, SignInv, NEW i \in BOOLEAN, Commit, Scatter, fed' = (fed \/ i),
           frame' = frame
    PROVE  SignInv' /\ ResultInv'
  <1>1. /\ DecInRange /\ state = "scatter" /\ frame' = frame /\ rx_valid_out' = FALSE
        /\ cur_row \in Row /\ cur_z \in Pos /\ col_cnt \in Col
    BY DEF NumInv, DecInRange, Scatter
  <1>2. /\ vNow' = vNow
        /\ \A b \in MsgAddr : mNow'[b] = IF Connected(cur_row, col_cnt) /\ b = MAddr
                                         THEN answer(col_cnt) ELSE mNow[b]
    BY ScatterNum
  <1>3. MAddr = <<cur_row, col_cnt, cur_z>>
    BY DEF MAddr
  <1>4. \/ state' = "scatter" /\ UNCHANGED <<cur_row, cur_z, minima, cnu_sign>>
        \/ /\ state' = "gather" /\ col_cnt' = 0 /\ cnu_total_sign' = FALSE
           /\ \/ cur_z # Z - 1 /\ cur_z' = cur_z + 1 /\ cur_row' = cur_row
              \/ cur_z = Z - 1 /\ cur_z' = 0 /\ cur_row' = cur_row + 1
        \/ state' = "vnu" /\ vn_cnt' = 0 /\ row_cnt' = 0
    BY <1>1 DEF Scatter, NextCheck, ClearMinima
  <1>5. ResultInv'
    <2>1. state' = "vnu" => 0 .. vn_cnt' - 1 = {}
      BY <1>4
    <2>. QED
      BY <1>1, <1>4, <2>1 DEF ResultInv
  <1>6. \A a \in VarAddr : Strict(a, vNow[a])'
    BY <1>1, <1>2 DEF SignInv, Running, Strict
  <1>7. \A b \in MsgAddr : Connected(b[1], b[2]) => Sided(VarOf(b), mNow[b])'
    <2> SUFFICES ASSUME NEW b \in MsgAddr, Connected(b[1], b[2])
                 PROVE  Sided(VarOf(b), mNow[b])'
      OBVIOUS
    <2>1. CASE Connected(cur_row, col_cnt) /\ b = MAddr
      <3>1. Sided(VarOf(<<cur_row, col_cnt, cur_z>>), answer(col_cnt))
        BY <1>1, <2>1, AnswerSided DEF SignInv
      <3>. QED
        BY <1>1, <1>2, <1>3, <2>1, <3>1 DEF Sided
    <2>2. CASE ~(Connected(cur_row, col_cnt) /\ b = MAddr)
      <3>1. Sided(VarOf(b), mNow[b])
        BY <1>1 DEF SignInv, Running
      <3>. QED
        BY <1>1, <1>2, <2>2, <3>1 DEF Sided
    <2>. QED
      BY <2>1, <2>2
  <1>8. ASSUME state' \in {"gather", "scatter"}, NEW b \in MsgAddr, Connected(b[1], b[2]), ToRead(b)'
        PROVE  Within(VarOf(b), mNow[b], vNow[VarOf(b)])'
    <2>1. b[1] \in Int /\ b[3] \in Int /\ cur_row \in Int /\ cur_z \in Int /\ b[3] <= Z - 1 /\ Z \in Int
      BY <1>1, DecConstants DEF MsgAddr, Row, Pos
    <2>2. ToRead(b) /\ b # MAddr
      BY <1>1, <1>3, <1>4, <1>8, <2>1 DEF ToRead
    <2>3. Within(VarOf(b), mNow[b], vNow[VarOf(b)])
      BY <1>1, <1>8, <2>2 DEF SignInv
    <2>. QED
      BY <1>1, <1>2, <2>2, <2>3 DEF Within
  <1>9. state' = "scatter" => Gathered(Col)'
    BY <1>1, <1>4 DEF SignInv, Gathered, NegCols, minima
  <1>10. state' = "gather" => Gathered(0 .. col_cnt - 1)'
    BY <1>4, GatheredNone
  <1>11. state' = "vnu" => 0 .. vn_cnt' - 1 = {} /\ row_cnt' = 0
    BY <1>4
  <1>. QED
    BY <1>5, <1>6, <1>7, <1>8, <1>9, <1>10, <1>11 DEF SignInv

LEMMA VnuRowSign ==
    ASSUME NumInv, Clean, SignInv, ResultInv, NEW i \in BOOLEAN, Commit, VnuRow, fed' = (fed \/ i),
           frame' = frame
    PROVE  SignInv' /\ ResultInv'
  <1>1. /\ DecInRange /\ state = "vnu" /\ state' = "vnu" /\ row_cnt \in Nat
        /\ vNow' = vNow /\ mNow' = mNow /\ frame' = frame /\ vn_cnt' = vn_cnt
        /\ row_cnt' = row_cnt + 1 /\ s_acc' = row_sum /\ rx_valid_out' = FALSE
        /\ iter' = iter /\ rx_decoded' = rx_decoded
    <2>1. DecInRange /\ NoLlrWrite /\ msg_port' = NoWrite
      BY DEF NumInv, VnuRow
    <2>2. vNow' = vNow /\ mNow' = mNow
      BY <2>1, NothingWritten
    <2>3. row_cnt \in Nat
      BY <2>1, DecConstants DEF DecInRange, Row
    <2>. QED
      BY <2>1, <2>2, <2>3 DEF VnuRow, control, results
  <1>2. ResultInv'
    BY <1>1 DEF ResultInv, Decided, VarAt
  <1>3. 0 .. row_cnt' - 1 = 0 .. row_cnt
    BY <1>1
  <1>4. Strict(VarAt(vn_cnt), s_acc)'
    BY <1>1, SumStrict DEF Strict, VarAt
  <1>5. \A q \in 0 .. row_cnt : Connected(q, VarAt(vn_cnt)[1])
           => Within(VarAt(vn_cnt), mNow[MsgOf(q, VarAt(vn_cnt))], s_acc)'
    BY <1>1, SumStrict DEF Within, VarAt, MsgOf
  <1>6. /\ \A a \in VarAddr : Strict(a, vNow[a])'
        /\ \A b \in MsgAddr : Connected(b[1], b[2]) => Sided(VarOf(b), mNow[b])'
    BY <1>1 DEF SignInv, Running, Strict, Sided
  <1>7. \A n \in 0 .. vn_cnt - 1, r \in Row :
           Connected(r, VarAt(n)[1]) => Within(VarAt(n), mNow[MsgOf(r, VarAt(n))], vNow[VarAt(n)])'
    BY <1>1 DEF SignInv, Within
  <1>. QED
    BY <1>1, <1>2, <1>3, <1>4, <1>5, <1>6, <1>7 DEF SignInv, VarAt, MsgOf, Connected

LEMMA VnuDoneSign ==
    ASSUME NumInv, Clean, SignInv, ResultInv, NEW i \in BOOLEAN, Commit, VnuDone, fed' = (fed \/ i),
           frame' = frame
    PROVE  SignInv' /\ ResultInv'
  <1> DEFINE w == VarAt(vn_cnt)
             x == Limit(row_sum)
  <1>1. /\ DecInRange /\ state = "vnu" /\ row_cnt = MB - 1 /\ frame' = frame /\ rx_valid_out' = FALSE
        /\ vn_cnt \in 0 .. NB * Z - 1 /\ vn_cnt \in Nat /\ NB * Z \in Nat /\ mNow' = mNow
        /\ w \in VarAddr
        /\ \A a \in VarAddr : vNow'[a] = IF a = w THEN x ELSE vNow[a]
    <2>1. /\ DecInRange /\ state = "vnu" /\ row_cnt = MB - 1 /\ frame' = frame /\ rx_valid_out' = FALSE
          /\ vn_cnt \in 0 .. NB * Z - 1
      BY DEF NumInv, DecInRange, VnuDone
    <2>2. NB * Z \in Nat /\ vn_cnt \in Nat
      BY <2>1, VarAtOnto
    <2>3. w \in VarAddr
      BY <2>1, VnuReads
    <2>4. mNow' = mNow /\ \A a \in VarAddr : vNow'[a] = IF a = w THEN x ELSE vNow[a]
      BY VnuDoneNum, Zenon
    <2>. QED
      BY <2>1, <2>2, <2>3, <2>4, Zenon
  <1>2. /\ Strict(w, x) /\ x \in Int
        /\ \A r \in Row : Connected(r, w[1]) => Within(w, mNow[MsgOf(r, w)], x)
    <2>1. row_sum \in Int /\ Value \subseteq Int
      BY <1>1, VnuReads, DecConstants DEF Value
    <2>2. Strict(w, row_sum)
      BY <1>1, SumStrict
    <2>3. x \in Value /\ (x = 0 <=> row_sum = 0) /\ (x < 0 <=> row_sum < 0)
          /\ \A y \in Value : (y <= row_sum => y <= x) /\ (row_sum <= y => x <= y)
      BY <2>1, LimitIs
    <2>4. Strict(w, x)
      <3>1. x \in Int /\ row_sum \in Int /\ (x > 0 <=> row_sum > 0) /\ (x < 0 <=> row_sum < 0)
        <4> HIDE DEF x
        <4>. QED
          BY <2>1, <2>3
      <3>. QED
        BY <2>2, <3>1, Zenon DEF Strict
    <2>5. ASSUME NEW r \in Row, Connected(r, w[1]) PROVE Within(w, mNow[MsgOf(r, w)], x)
      <3>1. Within(w, mNow[MsgOf(r, w)], row_sum)
        <4>1. r \in 0 .. row_cnt
          BY <1>1 DEF Row
        <4>. QED
          BY <1>1, <2>5, <4>1, SumStrict
      <3>2. mNow[MsgOf(r, w)] \in Value
        <4>1. MsgOf(r, w) \in MsgAddr
          BY <1>1, <2>5, BlockShifts
        <4>. QED
          BY <1>1, <4>1 DEF NumInv, DecLoadInv, Running
      <3>. QED
        BY <2>3, <3>1, <3>2 DEF Within
    <2>. QED
      BY <2>1, <2>3, <2>4, <2>5
  <1>3. \A n \in 0 .. vn_cnt, r \in Row :
           Connected(r, VarAt(n)[1])
              => Within(VarAt(n), mNow[MsgOf(r, VarAt(n))], vNow'[VarAt(n)])
    <2> SUFFICES ASSUME NEW n \in 0 .. vn_cnt, NEW r \in Row, Connected(r, VarAt(n)[1])
                 PROVE  Within(VarAt(n), mNow[MsgOf(r, VarAt(n))], vNow'[VarAt(n)])
      OBVIOUS
    <2>1. VarAt(n) \in VarAddr
      <3>1. n \in 0 .. NB * Z - 1
        BY <1>1
      <3>. QED
        BY <3>1, VarAtOnto
    <2>2. CASE VarAt(n) = w
      BY <1>1, <1>2, <2>1, <2>2
    <2>3. CASE VarAt(n) # w
      <3>1. n \in 0 .. vn_cnt - 1
        BY <1>1, <2>3
      <3>. QED
        BY <1>1, <2>1, <2>3, <3>1 DEF SignInv
    <2>. QED
      BY <2>2, <2>3
  <1>4. \A n \in 0 .. vn_cnt : iter = MAX_ITER - 1 /\ n < KB * Z
           => (rx_decoded'[VarAt(n)] = (frame[VarAt(n)] < 0))
    <2> SUFFICES ASSUME NEW n \in 0 .. vn_cnt, iter = MAX_ITER - 1, n < KB * Z
                 PROVE  rx_decoded'[VarAt(n)] = (frame[VarAt(n)] < 0)
      OBVIOUS
    <2>1. VarAt(n) \in InfoAddr
      <3>1. n \in 0 .. NB * Z - 1
        BY <1>1
      <3>. QED
        BY <3>1, VarAtOnto
    <2>2. rx_decoded \in [InfoAddr -> BOOLEAN \cup {NoNumber}]
      BY <1>1 DEF DecInRange
    <2>3. (x < 0) = (frame[w] < 0)
      BY <1>2 DEF Strict
    <2>4. rx_decoded' = IF vn_cnt < KB * Z THEN [rx_decoded EXCEPT ![w] = x < 0] ELSE rx_decoded
      BY DEF VnuDone
    <2>5. CASE VarAt(n) = w
      <3>1. CASE vn_cnt < KB * Z
        <4>1. rx_decoded'[w] = (x < 0)
          BY <2>1, <2>2, <2>4, <2>5, <3>1, Zenon
        <4>. QED
          BY <2>3, <2>5, <4>1, Zenon
      <3>2. CASE ~(vn_cnt < KB * Z)
        <4>1. n \in 0 .. vn_cnt - 1
          <5>1. n # vn_cnt
            BY <3>2
          <5>. QED
            BY <1>1, <5>1
        <4>2. rx_decoded[VarAt(n)] = (frame[VarAt(n)] < 0)
          BY <1>1, <4>1, Zenon DEF ResultInv, Decided
        <4>. QED
          BY <2>4, <3>2, <4>2, Zenon
      <3>. QED
        BY <3>1, <3>2
    <2>6. CASE VarAt(n) # w
      <3>1. n \in 0 .. vn_cnt - 1
        BY <1>1, <2>6
      <3>2. rx_decoded[VarAt(n)] = (frame[VarAt(n)] < 0)
        BY <1>1, <3>1, Zenon DEF ResultInv, Decided
      <3>3. rx_decoded'[VarAt(n)] = rx_decoded[VarAt(n)]
        BY <2>1, <2>2, <2>4, <2>6, Zenon
      <3>. QED
        BY <3>2, <3>3, Zenon
    <2>. QED
      BY <2>5, <2>6
  <1>5. \/ vn_cnt # NB * Z - 1 /\ vn_cnt' = vn_cnt + 1 /\ state' = "vnu" /\ iter' = iter /\ row_cnt' = 0
        \/ vn_cnt = NB * Z - 1 /\ iter = MAX_ITER - 1 /\ state' = "output"
        \/ /\ vn_cnt = NB * Z - 1 /\ state' = "gather" /\ cur_row' = 0 /\ cur_z' = 0 /\ col_cnt' = 0
           /\ cnu_total_sign' = FALSE
    BY <1>1 DEF VnuDone, ClearMinima
  <1>6. ResultInv'
    <2>1. CASE state' = "vnu"
      <3>1. \A n \in 0 .. vn_cnt' - 1 : n \in 0 .. vn_cnt
        BY <1>1, <1>5, <2>1
      <3>2. \A n \in 0 .. vn_cnt : iter' = MAX_ITER - 1 => Decided(n)'
        BY <1>1, <1>4, <1>5, <2>1, Zenon DEF Decided, VarAt
      <3>. QED
        BY <1>1, <2>1, <3>1, <3>2 DEF ResultInv
    <2>2. CASE state' = "output"
      <3>1. \A n \in 0 .. NB * Z - 1 : n \in 0 .. vn_cnt
        BY <1>1, <1>5, <2>2
      <3>2. iter = MAX_ITER - 1
        BY <1>5, <2>2
      <3>3. \A n \in 0 .. vn_cnt : Decided(n)'
        BY <1>1, <1>4, <3>2, Zenon DEF Decided, VarAt
      <3>. QED
        BY <1>1, <2>2, <3>1, <3>3 DEF ResultInv
    <2>3. CASE state' = "gather"
      BY <1>1, <2>3 DEF ResultInv
    <2>. QED
      BY <1>5, <2>1, <2>2, <2>3
  <1>7. \A a \in VarAddr : Strict(a, vNow[a])'
    BY <1>1, <1>2 DEF SignInv, Running, Strict
  <1>8. \A b \in MsgAddr : Connected(b[1], b[2]) => Sided(VarOf(b), mNow[b])'
    BY <1>1 DEF SignInv, Running, Sided
  <1>9. CASE state' = "vnu"
    <2>1. \A n \in 0 .. vn_cnt' - 1 : n \in 0 .. vn_cnt
      BY <1>1, <1>5, <1>9
    <2>2. \A n \in 0 .. vn_cnt, r \in Row :
             Connected(r, VarAt(n)[1]) => Within(VarAt(n), mNow[MsgOf(r, VarAt(n))], vNow[VarAt(n)])'
      BY <1>1, <1>3 DEF Within
    <2>. QED
      BY <1>5, <1>6, <1>7, <1>8, <1>9, <2>1, <2>2 DEF SignInv
  <1>10. CASE state' = "gather"
    <2>1. Gathered(0 .. col_cnt - 1)'
      BY <1>5, <1>10, GatheredNone
    <2>2. ASSUME NEW b \in MsgAddr, Connected(b[1], b[2])
          PROVE  Within(VarOf(b), mNow[b], vNow[VarOf(b)])'
      <3>1. VarOf(b) \in VarAddr /\ MsgOf(b[1], VarOf(b)) = b /\ b[1] \in Row /\ VarOf(b)[1] = b[2]
        BY <2>2, BlockShifts DEF MsgAddr, VarOf
      <3>2. PICK n \in 0 .. NB * Z - 1 : VarAt(n) = VarOf(b)
        BY <3>1, VarAtOnto
      <3>3. n \in 0 .. vn_cnt
        BY <1>1, <1>5, <1>10
      <3>4. Within(VarOf(b), mNow[b], vNow'[VarOf(b)])
        BY <1>3, <2>2, <3>1, <3>2, <3>3
      <3>. QED
        BY <1>1, <3>4 DEF Within
    <2>. QED
      BY <1>6, <1>7, <1>8, <1>10, <2>1, <2>2 DEF SignInv
  <1>11. CASE state' = "output"
    BY <1>6, <1>7, <1>8, <1>11 DEF SignInv
  <1>. QED
    BY <1>5, <1>6, <1>9, <1>10, <1>11

(* The other steps: nothing runs after them. *)
LEMMA OutputSign ==
    ASSUME ResultInv, frame' = frame, Output
    PROVE  SignInv' /\ ResultInv'
  <1>1. state = "output" /\ state' = "idle" /\ rx_decoded' = rx_decoded
    BY DEF Output, results
  <1>2. SignInv'
    BY <1>1 DEF SignInv, Running
  <1>3. ResultInv'
    BY <1>1 DEF ResultInv, Decided, VarAt
  <1>. QED
    BY <1>2, <1>3

(* Idle and with no result out, nothing is said of the signs. *)
Silent == state \in {"idle", "init"} /\ rx_valid_out = FALSE
LEMMA IdleSign == Silent => SignInv /\ ResultInv
  BY DEF Silent, SignInv, ResultInv, Running

LEMMA RestDecInv == DecRest => IInv
  <1> SUFFICES ASSUME DecRest PROVE IInv
    OBVIOUS
  <1>1. Silent
    BY DEF DecRest, Silent
  <1>. QED
    BY <1>1, RestNum, IdleSign DEF IInv

LEMMA DecInvStep ==
    ASSUME IInv, NEW i \in BOOLEAN, DecStep(i)
    PROVE  IInv'
  <1>1. NumInv'
    BY NumStep DEF IInv
  <1>2. CASE state = "idle"
    <2>1. IdleWait(i) \/ IdleStart(i)
      BY <1>2 DEF DecStep, DecTick, DecClock, InitStep, Gather, Scatter, VnuRow, VnuDone, Output
    <2>2. Silent'
      BY <2>1 DEF IdleWait, IdleStart, control, Silent
    <2>3. SignInv' /\ ResultInv'
      BY <2>2, IdleSign, PTL
    <2>. QED
      BY <1>1, <2>3 DEF IInv
  <1>3. CASE state # "idle"
    <2>1. frame' = frame /\ Commit /\ fed' = (fed \/ i)
      BY <1>3 DEF IInv, NumInv, DecLoadInv, DecStep, DecTick, DecClock
    <2>2. InitStep \/ Gather \/ Scatter \/ VnuRow \/ VnuDone \/ Output
      BY <1>3 DEF DecStep, DecTick, DecClock, IdleWait, IdleStart
    <2>3. Clean' <=> Clean
      BY <2>1 DEF Clean, Syndrome
    <2>4. Clean => SignInv' /\ ResultInv'
      BY <2>1, <2>2, InitStepSign, GatherSign, ScatterSign, VnuRowSign, VnuDoneSign, OutputSign
         DEF IInv
    <2>. QED
      BY <1>1, <2>3, <2>4 DEF IInv
  <1>. QED
    BY <1>2, <1>3

LEMMA DecInvRestart ==
    ASSUME IInv, DecRestart, fed' = FALSE
    PROVE  IInv'
  <1>1. DecRest'
    BY RestartRest DEF IInv, NumInv
  <1>. QED
    BY <1>1, RestDecInv, PTL

LEMMA DecStutters ==
    ASSUME IInv, UNCHANGED decVars
    PROVE  IInv'
  <1>1. NumInv'
    BY DEF IInv, decVars, memories, ports, control, checkCnt, minima, varCnt, results, env, NumInv,
           DecInRange, DecLoadInv, PortInv, Running, chNow, vNow, mNow, Written, MsgAt, VarAt
  <1>2. Clean' <=> Clean
    BY DEF decVars, env, Clean, Syndrome
  <1>3. SignInv => SignInv'
    <2>1. /\ UNCHANGED <<state, cur_row, cur_z, col_cnt, cnu_min1, cnu_min2, cnu_min1_idx,
                        cnu_total_sign, cnu_sign, vn_cnt, row_cnt, s_acc, frame>>
          /\ vNow' = vNow /\ mNow' = mNow
      BY DEF decVars, memories, ports, control, checkCnt, minima, varCnt, env,
             vNow, mNow, Written
    <2>2. NegCols(0 .. col_cnt - 1)' = NegCols(0 .. col_cnt - 1) /\ NegCols(Col)' = NegCols(Col)
      BY <2>1 DEF NegCols
    <2>3. /\ Gathered(0 .. col_cnt - 1)' <=> Gathered(0 .. col_cnt - 1)
          /\ Gathered(Col)' <=> Gathered(Col)
      BY <2>1, <2>2 DEF Gathered
    <2>4. \A a \in VarAddr : Strict(a, vNow[a])' <=> Strict(a, vNow[a])
      BY <2>1 DEF Strict
    <2>5. \A b \in MsgAddr : /\ Sided(VarOf(b), mNow[b])' <=> Sided(VarOf(b), mNow[b])
                             /\ ToRead(b)' <=> ToRead(b)
                             /\ Within(VarOf(b), mNow[b], vNow[VarOf(b)])'
                                   <=> Within(VarOf(b), mNow[b], vNow[VarOf(b)])
      BY <2>1 DEF Sided, ToRead, Within
    <2>6. (state = "vnu" => SignInv) => (state' = "vnu" =>
            /\ \A n \in 0 .. vn_cnt' - 1, r \in Row :
                  Connected(r, VarAt(n)[1])
                     => Within(VarAt(n), mNow[MsgOf(r, VarAt(n))], vNow[VarAt(n)])'
            /\ row_cnt' # 0 =>
                  /\ Strict(VarAt(vn_cnt), s_acc)'
                  /\ \A r \in 0 .. row_cnt' - 1 :
                        Connected(r, VarAt(vn_cnt')[1])
                           => Within(VarAt(vn_cnt), mNow[MsgOf(r, VarAt(vn_cnt))], s_acc)')
      BY <2>1 DEF SignInv, Strict, Within, VarAt, MsgOf
    <2>. QED
      BY <2>1, <2>3, <2>4, <2>5, <2>6 DEF SignInv, Running, VarAt
  <1>4. ResultInv => ResultInv'
    BY DEF decVars, control, varCnt, results, env, ResultInv, Decided, VarAt
  <1>. QED
    BY <1>1, <1>2, <1>3, <1>4 DEF IInv

LEMMA NextDecInv == DecInv /\ [DecNext]_decVars => DecInv'
  <1>1. ASSUME DecInv, DecRun PROVE DecInv'
    <2>1. PICK i \in BOOLEAN : DecTick(i)
      BY <1>1 DEF DecRun
    <2>2. UNCHANGED <<frame, resets>> /\ frame \in [VarAddr -> Value]
      BY <1>1, DecConstants DEF DecInv, DecRun
    <2>3. DecStep(i)
      BY <2>1, <2>2 DEF DecStep
    <2>. QED
      BY <1>1, <2>2, <2>3, DecInvStep DEF DecInv
  <1>2. ASSUME DecInv, DecReset PROVE DecInv'
    <2>1. IInv'
      BY <1>2, DecInvRestart DEF DecInv, DecReset
    <2>2. resets' \in 0 .. MaxResets /\ frame' \in Frames
      BY <1>2, DecConstants DEF DecInv, DecReset
    <2>. QED
      BY <2>1, <2>2 DEF DecInv
  <1>3. ASSUME DecInv, UNCHANGED decVars PROVE DecInv'
    BY <1>3, DecStutters DEF DecInv, decVars, env
  <1>. QED
    BY <1>1, <1>2, <1>3 DEF DecNext

LEMMA InitDecInv == DecInit => DecInv
  <1>1. DecInit => IInv
    BY PowerUpRest, RestDecInv DEF DecInit
  <1>2. DecInit => frame \in Frames /\ resets \in 0 .. MaxResets
    BY DecConstants DEF DecInit
  <1>. QED
    BY <1>1, <1>2 DEF DecInv

(* Every register keeps its range, and no word is read before it has been   *)
(* written since the reset, for any number of frames (ldpc_decoder.v).      *)
THEOREM DecTypeCorrect == DecSpec => []DecTypeOK
  <1>1. DecInv => DecTypeOK
    BY DEF DecInv, IInv, NumInv, DecTypeOK
  <1>. QED
    BY <1>1, InitDecInv, NextDecInv, PTL DEF DecSpec

(* What the invariant says of a result. *)
LEMMA ResultClean == IInv => CleanDecodes
  <1> SUFFICES ASSUME IInv, rx_valid_out, Clean
               PROVE  rx_decoded = [a \in InfoAddr |-> frame[a] < 0]
    BY DEF CleanDecodes
  <1>1. rx_decoded \in [InfoAddr -> BOOLEAN \cup {NoNumber}]
    BY DEF IInv, NumInv, DecInRange
  <1>2. ASSUME NEW a \in InfoAddr PROVE rx_decoded[a] = (frame[a] < 0)
    <2>1. a \in VarAddr
      BY DecConstants DEF InfoAddr, VarAddr, Col
    <2>2. PICK n \in 0 .. NB * Z - 1 : VarAt(n) = a /\ n < KB * Z
      BY <2>1, VarAtOnto
    <2>. QED
      BY <2>2, Zenon DEF IInv, ResultInv, Decided
  <1>. QED
    BY <1>1, <1>2, Zenon

(* A frame whose signs are a codeword is decoded to its own information     *)
(* bits: over any number of iterations no limit, tie or zero difference     *)
(* turns a sign (ldpc_decoder.v).                                           *)
THEOREM CleanFramesDecode == DecSpec => []CleanDecodes
  <1>1. DecInv => CleanDecodes
    BY ResultClean DEF DecInv
  <1>. QED
    BY <1>1, InitDecInv, NextDecInv, PTL DEF DecSpec
=============================================================================
