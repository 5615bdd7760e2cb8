--------------------------- MODULE PlLoopback_proofs -------------------------
(***************************************************************************)
(* Proofs about the whole loop, for every size of the frame and the code   *)
(* that the assumptions of the blocks allow, every bound on the resets and *)
(* every moment a reset may come at: the bits that come out are the bits   *)
(* that went in.  The invariants of the four paths are those of their own  *)
(* proofs; what is added says how each meets what the next one asks of it. *)
(***************************************************************************)
EXTENDS PlLoopback, Paths_proofs, Ldpc_proofs

(* Register ranges of the top level. *)
PlInRange ==
    /\ por_cnt \in 0 .. POR - 1 /\ por_done \in BOOLEAN /\ rst_n_ext \in BOOLEAN
    /\ TEST_BITS \in Blocks /\ resets \in 0 .. MaxResets
StartInRange ==
    /\ start_cnt \in 0 .. DELAY - 1 /\ start_done \in BOOLEAN /\ tx_start \in BOOLEAN
    /\ tx_valid_d1 \in BOOLEAN /\ pass_flag \in BOOLEAN /\ rx_done \in BOOLEAN

(* One pulse starts one encoding, and one codeword is announced: the stages *)
(* of a run never overlap.                                                  *)
StageInv ==
    /\ ~start_done => ~tx_start
    /\ ~start_done \/ tx_start => phase = 0 /\ ~enc_valid_out /\ sent = <<>>
    /\ phase # 0 => ~enc_valid_out
    /\ phase # 0 \/ enc_valid_out => sent = <<>> /\ taken = TEST_BITS

(* The word of the decoder's code that carries a block. *)
Carries(word, block) == InCode(DecHB, word) /\ \A c \in InfoCol : word[c] = block[c]

(* The mapper takes that one codeword, and the receive path rests till then. *)
SentInv ==
    /\ sent = <<>> \/ \E word \in Word : sent = <<word>> /\ Carries(word, TEST_BITS)
    /\ sent = <<>> => RxIdle

(* The gap in front of a symbol on the wire, by which rx_frame_start finds  *)
(* its first sample.                                                        *)
GapInv ==
    /\ m_tvalid => (tx_valid_d1 <=> place.pos # 0)
    /\ rd_ptr # 0 => m_tvalid
    /\ rd_active /\ rd_ptr = 0 => ~m_tvalid

(* The decoder reads the LLR memory; it is told to start when that is full. *)
FeedInv ==
    /\ frame = llrRead
    /\ done_latched <=> fed \/ llr_done
    /\ ~(fed /\ llr_done)

(* The lamps, and the result they speak of, which stays. *)
LampInv ==
    /\ rx_valid_out \/ rx_done => fed /\ state = "idle"
    /\ rx_done => pass_flag /\ Recovered

PathInv ==
    /\ StartInRange
    /\ EncInv /\ TxInv /\ FrameInv /\ RxInv /\ IInv
    /\ StageInv /\ SentInv /\ GapInv /\ FeedInv /\ LampInv

LoopInv == PlInRange /\ PathInv

-----------------------------------------------------------------------------
(* What the assumptions say of the constants. *)
LEMMA LoopConstants ==
    /\ N_CW = NB * Z /\ NB = 2 * MB /\ KB = MB /\ Z \in Nat \ {0} /\ MB \in Nat \ {0}
    /\ Level \in 1 .. Sat /\ Sat \in Nat \ {0}
    /\ POR \in Nat \ {0} /\ DELAY \in Nat \ {0}
    /\ Blocks \subseteq Info /\ 0 \in InfoCol /\ InfoCol = 0 .. KB - 1 /\ InfoCol \subseteq Col
    /\ N_SYM \in Nat \ {0}
  <1>1. Z \in Nat \ {0} /\ MB \in Nat \ {0} /\ NB = 2 * MB /\ Blocks \subseteq Info
    BY EncoderAssumption
  <1>2. KB = MB /\ Level \in 1 .. Sat /\ POR \in Nat \ {0} /\ DELAY \in Nat \ {0} /\ N_CW = NB * Z
    BY <1>1, LoopAssumption
  <1>3. Sat \in Nat \ {0} /\ N_SYM \in Nat \ {0}
    BY DecConstants, RxConstants
  <1>4. 0 \in InfoCol /\ InfoCol = 0 .. KB - 1 /\ InfoCol \subseteq Col
    BY <1>1, <1>2 DEF InfoCol, Col
  <1>. QED
    BY <1>1, <1>2, <1>3, <1>4

(* What leaves sent empty leaves the wire silent. *)
LEMMA NothingSent ==
    ASSUME FrameInv, sent = <<>>
    PROVE  ~m_tvalid
  <1>1. place.sym \in Nat
    BY DEF FrameInv, ReaderInv
  <1>2. place.sym \div N_SYM \in Nat
    BY <1>1, LoopConstants
  <1>3. Len(sent) = 0
    OBVIOUS
  <1>. QED
    BY <1>2, <1>3, FrameInvOrder DEF FrameInOrder

(* The word the receive path has brought to the decoder, in its numbers.    *)
LEMMA FrameIs ==
    ASSUME RxInv, SentInv, FeedInv, done_latched
    PROVE  \E word \in Word :
              /\ Carries(word, TEST_BITS)
              /\ frame \in [VarAddr -> Value]
              /\ \A a \in VarAddr : frame[a] = IF a[2] \in word[a[1]] THEN -Level ELSE Level
  <1>1. sent # <<>>
    BY DEF SentInv, RxIdle
  <1>2. PICK word \in Word : sent = <<word>> /\ Carries(word, TEST_BITS)
    BY <1>1 DEF SentInv
  <1>3. \A k \in 0 .. N_CW - 1 : llr[k] = [cw |-> word, bit |-> k]
    BY <1>2 DEF RxInv, LlrInv
  <1>4. ASSUME NEW a \in VarAddr
        PROVE  LlrValue(llr[a[1] * Z + a[2]]) = IF a[2] \in word[a[1]] THEN -Level ELSE Level
    <2> DEFINE k == a[1] * Z + a[2]
    <2>1. a[1] \in 0 .. NB - 1 /\ a[2] \in 0 .. Z - 1 /\ NB \in Nat /\ Z \in Nat \ {0}
      BY LoopConstants DEF VarAddr, Col, Pos
    <2>2. k \in 0 .. N_CW - 1
      BY <2>1, LoopConstants, Digits
    <2>3. k \div Z = a[1] /\ k % Z = a[2]
      <3>1. a[1] \in Nat
        BY <2>1
      <3>. QED
        BY <2>1, <3>1, DivOf
    <2> HIDE DEF k
    <2>4. llr[k] = [cw |-> word, bit |-> k]
      BY <2>2, <1>3
    <2>. QED
      BY <2>3, <2>4 DEF LlrValue, k
  <1>5. \A a \in VarAddr : frame[a] = IF a[2] \in word[a[1]] THEN -Level ELSE Level
    BY <1>4 DEF FeedInv, llrRead
  <1>6. -Level \in Value /\ Level \in Value
    BY LoopConstants DEF Value
  <1>7. frame = [a \in VarAddr |-> frame[a]]
    BY DEF FeedInv, llrRead
  <1>8. frame \in [VarAddr -> Value]
    BY <1>5, <1>6, <1>7
  <1>. QED
    BY <1>2, <1>5, <1>8

(* Its signs are a codeword, and its information columns the block: the     *)
(* decoder's result is that block.                                          *)
LEMMA ResultRecovers ==
    ASSUME PathInv, rx_valid_out
    PROVE  Recovered
  <1>1. done_latched
    BY DEF PathInv, LampInv, FeedInv
  <1>2. PICK word \in Word :
              /\ Carries(word, TEST_BITS)
              /\ \A a \in VarAddr : frame[a] = IF a[2] \in word[a[1]] THEN -Level ELSE Level
    BY <1>1, FrameIs DEF PathInv
  <1>3. \A a \in VarAddr : (frame[a] < 0 <=> a[2] \in word[a[1]]) /\ frame[a] # 0
    BY <1>2, LoopConstants
  <1>4. ASSUME NEW r \in Row, NEW z \in Pos
        PROVE  Cardinality({c \in Col : Connected(r, c) /\
                   [a \in VarAddr |-> frame[a] < 0][<<c, (z - DecHB[r][c]) % Z>>]}) % 2 # 1
    <2> DEFINE S == {c \in Col : Connected(r, c) /\
                       [a \in VarAddr |-> frame[a] < 0][<<c, (z - DecHB[r][c]) % Z>>]}
    <2>1. ASSUME NEW c \in Col, Connected(r, c)
          PROVE  [a \in VarAddr |-> frame[a] < 0][<<c, (z - DecHB[r][c]) % Z>>]
                    <=> (z - DecHB[r][c]) % Z \in word[c]
      <3>1. DecHB[r][c] \in Pos
        BY <2>1, DecConstants DEF Connected, Row, Col
      <3>2. (z - DecHB[r][c]) % Z \in Pos
        BY <3>1, Shifts
      <3>3. <<c, (z - DecHB[r][c]) % Z>> \in VarAddr
        BY <3>2 DEF VarAddr
      <3>. QED
        BY <3>3, <1>3
    <2>2. S = Ones(DecHB, Col, r, z, word)
      BY <2>1 DEF Ones, Connected
    <2>3. ~Odd(Ones(DecHB, Col, r, z, word))
      BY <1>2 DEF Carries, InCode, Holds
    <2>. QED
      BY <2>2, <2>3 DEF Odd
  <1>5. Clean
    <2>1. Syndrome([a \in VarAddr |-> frame[a] < 0]) = {}
      <3>1. \A n \in Row \X Pos : n[1] \in Row /\ n[2] \in Pos
        OBVIOUS
      <3>. QED
        BY <3>1, <1>4 DEF Syndrome
    <2>. QED
      BY <2>1, <1>3 DEF Clean
  <1>6. rx_decoded = [a \in InfoAddr |-> frame[a] < 0]
    BY <1>5, ResultClean DEF CleanDecodes, PathInv
  <1>7. ASSUME NEW c \in InfoCol, NEW j \in Pos
        PROVE  rx_decoded[<<c, j>>] <=> j \in TEST_BITS[c]
    <2>1. <<c, j>> \in InfoAddr /\ <<c, j>> \in VarAddr
      BY LoopConstants DEF InfoAddr, VarAddr
    <2>2. rx_decoded[<<c, j>>] <=> j \in word[c]
      BY <2>1, <1>3, <1>6
    <2>. QED
      BY <2>2, <1>2 DEF Carries
  <1>. QED
    BY <1>7 DEF Recovered

-----------------------------------------------------------------------------
(* A clock out of reset, block by block.                                    *)
Clocked == Run /\ TEST_BITS \in Blocks /\ TEST_BITS' = TEST_BITS

(* What the blocks hand each other is of the type they expect. *)
LEMMA Wires ==
    ASSUME PathInv
    PROVE  /\ tx_start \in BOOLEAN /\ start_done \in BOOLEAN
           /\ enc_valid_out \in BOOLEAN /\ enc_codeword \in Word
           /\ m_tvalid \in BOOLEAN /\ rd_active \in BOOLEAN
           /\ fed \in BOOLEAN /\ llr_done \in BOOLEAN /\ done_latched \in BOOLEAN
           /\ rx_valid_out \in BOOLEAN
           /\ sent \in Seq(Word)
  <1>1. enc_valid_out \in BOOLEAN /\ enc_codeword \in Word
    BY DEF PathInv, EncInv, EncTypeOK
  <1>2. m_tvalid \in BOOLEAN /\ rd_active \in BOOLEAN
    BY DEF PathInv, TxInv, TxInRange
  <1>3. fed \in BOOLEAN /\ rx_valid_out \in BOOLEAN
    BY DEF PathInv, IInv, NumInv, DecInRange
  <1>4. llr_done \in BOOLEAN /\ done_latched \in BOOLEAN
    BY DEF PathInv, RxInv, LlrInv
  <1>5. sent \in Seq(Word)
    <2>1. <<>> \in Seq(Word) /\ \A word \in Word : <<word>> \in Seq(Word)
      OBVIOUS
    <2>. QED
      BY <2>1 DEF PathInv, SentInv
  <1>. QED
    BY <1>1, <1>2, <1>3, <1>4, <1>5 DEF PathInv, StartInRange

LEMMA StartStep ==
    ASSUME PathInv, Clocked
    PROVE  StartInRange'
  <1>1. start_cnt' \in 0 .. DELAY - 1 /\ start_done' \in BOOLEAN /\ tx_start' \in BOOLEAN
    <2>1. DELAY \in Nat \ {0} /\ Startup
      BY LoopConstants DEF Clocked, Run
    <2>2. start_cnt \in 0 .. DELAY - 1 /\ start_done \in BOOLEAN
      BY DEF PathInv, StartInRange
    <2>3. start_cnt' \in 0 .. DELAY - 1
      <3>1. \/ start_cnt' = start_cnt
            \/ start_cnt # DELAY - 1 /\ start_cnt' = start_cnt + 1
        BY <2>1 DEF Startup
      <3>. QED
        BY <2>1, <2>2, <3>1
    <2>4. start_done' \in BOOLEAN /\ tx_start' \in BOOLEAN
      BY <2>1, <2>2 DEF Startup
    <2>. QED
      BY <2>3, <2>4
  <1>2. tx_valid_d1' \in BOOLEAN
    BY Wires DEF Clocked, Run
  <1>3. pass_flag' \in BOOLEAN /\ rx_done' \in BOOLEAN
    BY DEF PathInv, StartInRange, Clocked, Run, PassLatch
  <1>. QED
    BY <1>1, <1>2, <1>3 DEF StartInRange

LEMMA EncoderStep ==
    ASSUME PathInv, Clocked
    PROVE  EncInv'
  <1>1. TEST_BITS \in Info
    BY LoopConstants DEF Clocked
  <1>2. tx_start \in BOOLEAN /\ EncTick(tx_start, TEST_BITS) /\ EncInv
    BY Wires DEF Clocked, Run, PathInv
  <1>. QED
    BY <1>1, <1>2, EncInvStep

LEMMA TransmitterStep ==
    ASSUME PathInv, Clocked
    PROVE  TxInv' /\ FrameInv'
  <1>1. /\ enc_valid_out \in BOOLEAN /\ enc_codeword \in Word /\ sent \in Seq(Word)
        /\ TxTick(enc_valid_out, enc_codeword) /\ TxInv /\ FrameInv
    BY Wires DEF Clocked, Run, PathInv
  <1>2. TxInv'
    BY <1>1, TxInvStep
  <1>3. FrameInv'
    BY <1>1, FrameInvStep
  <1>. QED
    BY <1>2, <1>3

(* The encoder is idle unless it runs, and what it announces is for the     *)
(* mapper, which is idle too.                                               *)
LEMMA StageStep ==
    ASSUME PathInv, Clocked
    PROVE  /\ StageInv'
           /\ sent' = IF enc_valid_out THEN <<enc_codeword>> ELSE sent
           /\ enc_valid_out => Carries(enc_codeword, TEST_BITS)
  <1>0. /\ StageInv /\ phase \in 0 .. 2 /\ enc_valid_out \in BOOLEAN /\ tx_start \in BOOLEAN
        /\ start_done \in BOOLEAN
    BY Wires DEF PathInv, EncInv, EncTypeOK
  <1>1. sent' = IF enc_valid_out THEN <<enc_codeword>> ELSE sent
    <2>1. sent' = IF enc_valid_out /\ ~active THEN Append(sent, enc_codeword) ELSE sent
      BY DEF Clocked, Run, TxTick
    <2>2. enc_valid_out => sent = <<>>
      BY <1>0 DEF StageInv
    <2>3. sent = <<>> => ~active
      BY DEF PathInv, FrameInv, MapperInv
    <2>4. Append(<<>>, enc_codeword) = <<enc_codeword>>
      OBVIOUS
    <2>. QED
      BY <2>1, <2>2, <2>3, <2>4
  <1>2. enc_valid_out => Carries(enc_codeword, TEST_BITS)
    BY DEF PathInv, EncInv, EncodesForDecoder, CarriesBlock, Carries, StageInv
  <1>3. /\ \/ Latch(tx_start, TEST_BITS)
           \/ EncIdle(tx_start)
           \/ Accumulate
           \/ Resolve
        /\ taken' = IF tx_start /\ phase = 0 THEN TEST_BITS ELSE taken
    BY DEF Clocked, Run, EncTick, EncClock
  <1>4. /\ start_done' = TRUE \/ ~start_done
        /\ tx_start' = TRUE => ~start_done /\ start_done' = TRUE
        /\ tx_start' \in BOOLEAN /\ start_done' \in BOOLEAN
    BY <1>0 DEF Clocked, Run, Startup
  <1>5. ~start_done \/ tx_start => phase = 0 /\ ~enc_valid_out /\ sent = <<>>
    BY <1>0 DEF StageInv
  <1>6. ~start_done => ~tx_start
    BY <1>0 DEF StageInv
  <1>7. ~start_done' => ~tx_start'
    BY <1>4
  <1>8. ~start_done' \/ tx_start' => phase' = 0 /\ ~enc_valid_out' /\ sent' = <<>>
    <2>1. SUFFICES ASSUME ~start_done' \/ tx_start'
                   PROVE  phase' = 0 /\ ~enc_valid_out' /\ sent' = <<>>
      OBVIOUS
    <2>2. ~start_done
      BY <2>1, <1>4
    <2>3. EncIdle(tx_start)
      BY <2>2, <1>3, <1>5, <1>6 DEF Latch, Accumulate, Resolve
    <2>. QED
      BY <2>2, <2>3, <1>1, <1>5 DEF EncIdle
  <1>9. phase' # 0 => ~enc_valid_out'
    BY <1>3 DEF Latch, EncIdle, Accumulate, Resolve
  <1>10. phase' # 0 \/ enc_valid_out' => sent' = <<>> /\ taken' = TEST_BITS'
    <2>1. phase' # 0 \/ enc_valid_out' => (phase = 0 /\ tx_start) \/ phase # 0
      BY <1>0, <1>3 DEF Latch, EncIdle, Accumulate, Resolve
    <2>2. phase = 0 /\ tx_start => sent' = <<>> /\ taken' = TEST_BITS
      BY <1>0, <1>1, <1>3 DEF StageInv
    <2>3. phase # 0 => sent' = <<>> /\ taken' = TEST_BITS
      BY <1>0, <1>1, <1>3 DEF StageInv
    <2>. QED
      BY <2>1, <2>2, <2>3 DEF Clocked
  <1>. QED
    BY <1>1, <1>2, <1>7, <1>8, <1>9, <1>10 DEF StageInv

(* Without a sample on the wire, the receive path does what it does without *)
(* one.                                                                     *)
LEMMA NoSample ==
    ASSUME NEW fs \in BOOLEAN, NEW v \in BOOLEAN, NEW iq, RxClock(fs, v, iq), fs = FALSE, v = FALSE
    PROVE  RxClock(FALSE, FALSE, iq)
  OBVIOUS

(* The receive path rests until the codeword is taken, and then meets what  *)
(* it asks of its surroundings.                                             *)
LEMMA ReceiverStep ==
    ASSUME PathInv, Clocked
    PROVE  RxInv' /\ SentInv'
  <1>0. /\ RxClock(rx_frame_start, m_tvalid, m_tdata) /\ m_tvalid \in BOOLEAN
        /\ enc_valid_out \in BOOLEAN /\ enc_codeword \in Word
        /\ tx_valid_d1 \in BOOLEAN /\ rx_frame_start \in BOOLEAN
        /\ place' = IF m_tvalid THEN NextPlace(place) ELSE place
        /\ place \in [sym : Nat, pos : 0 .. N_OUT - 1]
    BY Wires DEF Clocked, Run, TxTick, PathInv, StartInRange, rx_frame_start, FrameInv, ReaderInv
  <1>1. CASE sent = <<>>
    <2>1. ~m_tvalid
      BY <1>1, NothingSent DEF PathInv
    <2>2. RxClock(FALSE, FALSE, m_tdata)
      <3>1. m_tvalid = FALSE /\ rx_frame_start = FALSE
        BY <1>0, <2>1 DEF rx_frame_start
      <3>. QED
        BY <1>0, <3>1, NoSample
    <2>3. place' = place
      BY <1>0, <2>1
    <2>4. RxIdle'
      BY <1>1, <2>2, <2>3, IdleStep DEF PathInv, SentInv
    <2>5. RxInv'
      BY <2>4, IdleInv, PTL
    <2>6. sent' = <<>> \/ \E word \in Word : sent' = <<word>> /\ Carries(word, TEST_BITS)
      BY <1>0, <1>1, StageStep
    <2>. QED
      BY <2>4, <2>5, <2>6 DEF SentInv, Clocked, Carries
  <1>2. CASE sent # <<>>
    <2>1. ~enc_valid_out /\ sent' = sent
      BY <1>2, StageStep DEF PathInv, StageInv
    <2>2. m_tvalid => m_tdata = SampleAt(place)
      BY FrameInvOrder DEF PathInv, FrameInOrder
    <2>3. m_tvalid => (rx_frame_start <=> place.pos = 0)
      BY <1>0 DEF PathInv, GapInv, rx_frame_start
    <2>4. rx_frame_start => m_tvalid
      BY DEF rx_frame_start
    <2>5. RxTake(rx_frame_start, m_tvalid, m_tdata)
      BY <1>0, <2>1, <2>2, <2>3, <2>4 DEF RxTake
    <2>6. RxStep
      BY <1>0, <2>5 DEF RxStep
    <2>7. RxInv'
      BY <2>6, RxInvStep DEF PathInv
    <2>. QED
      BY <1>2, <2>1, <2>7 DEF SentInv, Clocked, Carries, PathInv
  <1>. QED
    BY <1>1, <1>2

(* cp_insert drops its valid for at least one clock before a symbol, and    *)
(* never within one.                                                        *)
LEMMA GapStep ==
    ASSUME PathInv, Clocked
    PROVE  GapInv'
  <1>1. /\ Cp!Reader(TRUE) /\ place' = RdPlace
    <2>1. TxTick(enc_valid_out, enc_codeword)
      BY DEF Clocked, Run
    <2>. QED
      BY <2>1, TickParts DEF RdPlace
  <1>2. /\ RdPlace.pos = rd_ptr /\ (~rd_active => rd_ptr = 0)
        /\ rd_ptr \in 0 .. N_OUT - 1 /\ m_tvalid \in BOOLEAN
        /\ tx_valid_d1' = m_tvalid
        /\ GapInv
    BY DEF PathInv, FrameInv, ReaderInv, TxInv, TxInRange, Clocked, Run
  <1>3. /\ m_tvalid' => (tx_valid_d1' <=> place'.pos # 0)
        /\ rd_ptr' # 0 => m_tvalid'
        /\ rd_active' /\ rd_ptr' = 0 => ~m_tvalid'
    <2>1. CASE Cp!RdActivate
      BY <2>1, <1>1, <1>2 DEF Cp!RdActivate
    <2>2. CASE Cp!RdWait
      BY <2>2, <1>1, <1>2 DEF Cp!RdWait
    <2>3. CASE Cp!RdAdvance(TRUE)
      BY <2>3, <1>1, <1>2 DEF Cp!RdAdvance, Cp!RdLoad, GapInv
    <2>4. CASE Cp!RdFinish(TRUE)
      BY <2>4, <1>1, <1>2 DEF Cp!RdFinish, Cp!RdLoad, GapInv
    <2>. QED
      BY <1>1, <2>1, <2>2, <2>3, <2>4 DEF Cp!Reader, Cp!RdStall
  <1>. QED
    BY <1>3 DEF GapInv

(* The LLR buffer writes until it is full, once.                            *)
LEMMA FeedStep ==
    ASSUME PathInv, Clocked
    PROVE  /\ FeedInv'
           /\ done_latched => frame' = frame
  <1>1. /\ Llr!BufWrite \/ Llr!BufHold
        /\ fed' = (fed \/ llr_done) /\ frame' = llrRead'
    BY DEF Clocked, Run, RxClock, Llr!Clock, DecTick
  <1>2. /\ FeedInv /\ fed \in BOOLEAN /\ llr_done \in BOOLEAN /\ done_latched \in BOOLEAN
    BY Wires DEF PathInv
  <1>3. (done_latched' <=> fed' \/ llr_done') /\ ~(fed' /\ llr_done')
    BY <1>1, <1>2 DEF FeedInv, Llr!BufWrite, Llr!BufHold, Llr!write_en
  <1>4. done_latched => llr' = llr
    BY <1>1 DEF Llr!BufWrite, Llr!BufHold, Llr!write_en
  <1>5. done_latched => frame' = frame
    BY <1>1, <1>2, <1>4 DEF FeedInv, llrRead
  <1>. QED
    BY <1>1, <1>3, <1>5 DEF FeedInv

LEMMA DecoderStep ==
    ASSUME PathInv, Clocked
    PROVE  IInv'
  <1>1. DecTick(llr_done) /\ llr_done \in BOOLEAN /\ IInv
    BY Wires DEF Clocked, Run, PathInv
  <1>2. fed \/ llr_done => frame' = frame /\ frame \in [VarAddr -> Value]
    <2>1. fed \/ llr_done => done_latched
      BY DEF PathInv, FeedInv
    <2>2. done_latched => frame \in [VarAddr -> Value]
      BY FrameIs DEF PathInv
    <2>. QED
      BY <2>1, <2>2, FeedStep
  <1>3. DecStep(llr_done)
    BY <1>1, <1>2 DEF DecStep
  <1>. QED
    BY <1>1, <1>3, DecInvStep

(* The decoder is not started again, so its result stays.                   *)
LEMMA LampStep ==
    ASSUME PathInv, Clocked
    PROVE  LampInv'
  <1>1. DecClock(llr_done) /\ fed' = (fed \/ llr_done)
    BY DEF Clocked, Run, DecTick
  <1>2. /\ rx_valid_out \/ rx_done => fed /\ state = "idle" /\ ~llr_done
        /\ rx_done => pass_flag /\ Recovered
        /\ state # "idle" => fed
    BY DEF PathInv, LampInv, FeedInv, IInv, NumInv, DecLoadInv
  <1>3. rx_valid_out' => state = "output" /\ state' = "idle"
    BY <1>1 DEF DecClock, IdleWait, IdleStart, InitStep, Gather, Scatter, VnuRow, VnuDone, Output
  <1>4. rx_valid_out \/ rx_done => fed' /\ state' = "idle" /\ rx_decoded' = rx_decoded
    <2>1. rx_valid_out \/ rx_done => IdleWait(llr_done)
      BY <1>1, <1>2 DEF DecClock, IdleStart, InitStep, Gather, Scatter, VnuRow, VnuDone, Output
    <2>. QED
      BY <1>1, <1>2, <2>1 DEF IdleWait, control, results
  <1>5. /\ rx_done' => rx_done \/ rx_valid_out
        /\ rx_valid_out /\ ~rx_done => pass_flag' = (Column0(rx_decoded) = TEST_BITS[0])
        /\ rx_done => pass_flag' = pass_flag
    BY DEF Clocked, Run, PassLatch
  <1>6. rx_valid_out => Recovered /\ Column0(rx_decoded) = TEST_BITS[0]
    <2>1. 0 \in InfoCol /\ TEST_BITS[0] \subseteq Pos
      BY LoopConstants DEF Clocked, Info
    <2>. QED
      BY <2>1, ResultRecovers DEF Recovered, Column0
  <1>7. rx_done' => pass_flag' /\ Recovered'
    <2>1. rx_done' => pass_flag' /\ Recovered
      <3>1. CASE rx_done
        BY <1>2, <1>5, <3>1
      <3>2. CASE ~rx_done
        BY <1>5, <1>6, <3>2
      <3>. QED
        BY <3>1, <3>2
    <2>2. rx_done' => rx_decoded' = rx_decoded /\ TEST_BITS' = TEST_BITS
      BY <1>4, <1>5 DEF Clocked
    <2>. QED
      BY <2>1, <2>2 DEF Recovered
  <1>8. rx_valid_out' \/ rx_done' => fed' /\ state' = "idle"
    BY <1>1, <1>2, <1>3, <1>4, <1>5
  <1>. QED
    BY <1>7, <1>8 DEF LampInv

LEMMA RunStep ==
    ASSUME PathInv, Clocked
    PROVE  PathInv'
  BY StartStep, EncoderStep, TransmitterStep, StageStep, ReceiverStep, GapStep, FeedStep,
     DecoderStep, LampStep DEF PathInv

-----------------------------------------------------------------------------
(* The other steps: nothing moves, or everything goes to its reset value.   *)
LEMMA HoldStep ==
    ASSUME PathInv, UNCHANGED datapath, UNCHANGED TEST_BITS
    PROVE  PathInv'
  <1>1. UNCHANGED plRegs /\ UNCHANGED encVars /\ UNCHANGED txVars /\ UNCHANGED rxVars /\ UNCHANGED decVars
    BY DEF datapath
  <1>2. EncInv'
    BY <1>1, NextEncInv DEF PathInv
  <1>3. TxInv' /\ FrameInv'
    BY <1>1, TxStutters, FrameStutters DEF PathInv
  <1>4. RxInv'
    BY <1>1, RxStutters DEF PathInv
  <1>5. IInv'
    BY <1>1, DecStutters DEF PathInv
  <1>6. StartInRange'
    BY <1>1 DEF PathInv, StartInRange, plRegs
  <1>7. StageInv'
    BY <1>1 DEF PathInv, StageInv, plRegs, encVars, encRegs, rxVars
  <1>8. SentInv'
    BY <1>1 DEF PathInv, SentInv, Carries, RxIdle, rxVars, rxRegs
  <1>9. GapInv'
    BY <1>1 DEF PathInv, GapInv, plRegs, txVars, txRegs
  <1>10. FeedInv'
    BY <1>1 DEF PathInv, FeedInv, llrRead, rxVars, rxRegs, decVars, env
  <1>11. LampInv'
    BY <1>1 DEF PathInv, LampInv, Recovered, plRegs, decVars, env, control, results
  <1>. QED
    BY <1>2, <1>3, <1>4, <1>5, <1>6, <1>7, <1>8, <1>9, <1>10, <1>11 DEF PathInv

LEMMA RestartStep ==
    ASSUME PathInv, Restart
    PROVE  PathInv'
  <1>1. EncRestart /\ TxRestart /\ RxRestart /\ DecRestart /\ Forget /\ frame' = llrRead'
    BY DEF Restart
  <1>2. /\ enc_offered' = 0 /\ taken' = ZeroInfo /\ sent' = <<>>
        /\ place' = [sym |-> 0, pos |-> 0] /\ fed' = FALSE
    BY <1>1 DEF Forget
  <1>3. EncInv'
    BY <1>1, <1>2, EncInvRestart
  <1>4. TxInv' /\ FrameInv'
    BY <1>1, <1>2, TxRestartInv DEF PathInv
  <1>5. RxIdle'
    BY <1>1, <1>2, RestartIdle DEF PathInv
  <1>6. RxInv'
    BY <1>5, IdleInv, PTL
  <1>7. IInv'
    BY <1>1, <1>2, DecInvRestart DEF PathInv
  <1>8. StartInRange' /\ ~start_done' /\ ~tx_start' /\ ~rx_done'
    <2>1. 0 \in 0 .. DELAY - 1
      BY LoopConstants
    <2>. QED
      BY <2>1 DEF Restart, PassRestart, StartInRange
  <1>9. StageInv'
    BY <1>1, <1>2, <1>8 DEF StageInv, EncRestart
  <1>10. SentInv'
    BY <1>2, <1>5 DEF SentInv
  <1>11. GapInv'
    BY <1>1 DEF TxRestart, Cp!CpRestart, GapInv
  <1>12. FeedInv'
    BY <1>1, <1>2, <1>5 DEF FeedInv, RxIdle
  <1>13. LampInv'
    BY <1>1, <1>8 DEF LampInv, DecRestart
  <1>. QED
    BY <1>3, <1>4, <1>6, <1>7, <1>8, <1>9, <1>10, <1>11, <1>12, <1>13 DEF PathInv

LEMMA InitLoopInv == Init => LoopInv
  <1> SUFFICES ASSUME Init PROVE LoopInv
    OBVIOUS
  <1>1. EncInv
    BY InitEncInv DEF Init
  <1>2. TxInv /\ FrameInv
    BY InitRest, RestTxInv, RestFrameInv DEF Init
  <1>3. RxIdle
    BY PowerUpIdle DEF Init, TxInit
  <1>4. RxInv
    BY <1>3, IdleInv
  <1>5. IInv
    BY PowerUpRest, RestDecInv DEF Init
  <1>6. PlInRange /\ StartInRange
    <2>1. 0 \in 0 .. POR - 1 /\ 0 \in 0 .. DELAY - 1 /\ 0 \in 0 .. MaxResets
      BY LoopConstants, DecConstants
    <2>. QED
      BY <2>1 DEF Init, PlInRange, StartInRange
  <1>7. StageInv
    BY DEF Init, EncInit, EncPowerUp, TxInit, StageInv
  <1>8. SentInv
    BY <1>3 DEF Init, TxInit, SentInv
  <1>9. GapInv
    BY DEF Init, TxInit, TxPowerUp, Cp!CpInit, Cp!CpReset, GapInv
  <1>10. FeedInv
    BY <1>3 DEF Init, FeedInv, RxIdle
  <1>11. LampInv
    BY DEF Init, DecPowerUp, LampInv
  <1>. QED
    BY <1>1, <1>2, <1>4, <1>5, <1>6, <1>7, <1>8, <1>9, <1>10, <1>11 DEF LoopInv, PathInv

LEMMA NextLoopInv == LoopInv /\ [Next]_vars => LoopInv'
  <1> SUFFICES ASSUME LoopInv, [Next]_vars PROVE LoopInv'
    OBVIOUS
  <1>1. CASE Tick
    <2>1. por_cnt' \in 0 .. POR - 1 /\ por_done' \in BOOLEAN
      <3>1. Por /\ POR \in Nat \ {0} /\ por_cnt \in 0 .. POR - 1 /\ por_done \in BOOLEAN
        BY <1>1, LoopConstants DEF Tick, LoopInv, PlInRange
      <3>2. /\ \/ por_cnt' = por_cnt
               \/ por_cnt # POR - 1 /\ por_cnt' = por_cnt + 1
            /\ por_done' = TRUE \/ por_done' = por_done
        BY <3>1 DEF Por
      <3>3. por_cnt' \in 0 .. POR - 1
        BY <3>1, <3>2
      <3>4. por_done' \in BOOLEAN
        BY <3>1, <3>2
      <3>. QED
        BY <3>3, <3>4
    <2>2. PlInRange'
      BY <1>1, <2>1 DEF Tick, LoopInv, PlInRange
    <2>3. CASE rst_n /\ Run
      <3>1. Clocked
        BY <1>1, <2>3 DEF Clocked, Tick, LoopInv, PlInRange
      <3>. QED
        BY <2>2, <3>1, RunStep DEF LoopInv
    <2>4. CASE ~rst_n /\ UNCHANGED datapath
      <3>1. UNCHANGED TEST_BITS
        BY <1>1 DEF Tick
      <3>. QED
        BY <2>2, <2>4, <3>1, HoldStep DEF LoopInv
    <2>. QED
      BY <1>1, <2>3, <2>4 DEF Tick
  <1>2. CASE Press
    <2>1. PlInRange'
      <3>1. resets' \in 0 .. MaxResets
        BY <1>2, DecConstants DEF Press, LoopInv, PlInRange
      <3>2. /\ por_cnt' = por_cnt /\ por_done' = por_done
            /\ rst_n_ext' = FALSE /\ TEST_BITS' \in Blocks
        BY <1>2 DEF Press
      <3>. QED
        BY <3>1, <3>2 DEF LoopInv, PlInRange
    <2>2. PathInv'
      BY <1>2, RestartStep DEF Press, LoopInv
    <2>. QED
      BY <2>1, <2>2 DEF LoopInv
  <1>3. CASE Release
    <2>1. PlInRange'
      BY <1>3 DEF Release, LoopInv, PlInRange
    <2>2. PathInv'
      BY <1>3, HoldStep DEF Release, LoopInv
    <2>. QED
      BY <2>1, <2>2 DEF LoopInv
  <1>4. CASE UNCHANGED vars
    <2>1. UNCHANGED resetIns /\ UNCHANGED datapath
      BY <1>4 DEF vars
    <2>2. PlInRange'
      BY <2>1 DEF resetIns, LoopInv, PlInRange
    <2>3. PathInv'
      BY <2>1, HoldStep DEF resetIns, LoopInv
    <2>. QED
      BY <2>2, <2>3 DEF LoopInv
  <1>. QED
    BY <1>1, <1>2, <1>3, <1>4 DEF Next

LEMMA LoopInvariant == Spec => []LoopInv
  BY InitLoopInv, NextLoopInv, PTL DEF Spec

-----------------------------------------------------------------------------
(* Every register of the loop stays in its range, through any number of     *)
(* resets (ofdm_ldpc_pl.v:38-49, 86-91, 158-183).                           *)
THEOREM LoopTypeCorrect == Spec => []TypeOK
  <1>1. LoopInv => TypeOK
    BY RxInvType DEF LoopInv, PlInRange, PathInv, StartInRange, EncInv, TxInv, TypeOK
  <1>. QED
    BY <1>1, LoopInvariant, PTL

(* What the decoder hands over is what was encoded, bit for bit, whenever   *)
(* the resets come (ofdm_ldpc_pl.v:93-120).                                 *)
THEOREM BitsComeThrough == Spec => []EndToEnd
  <1>1. LoopInv => EndToEnd
    BY ResultRecovers DEF LoopInv, EndToEnd
  <1>. QED
    BY <1>1, LoopInvariant, PTL

(* The lamp for done never lights without the one for pass, and both are    *)
(* right about all the bits (ofdm_ldpc_pl.v:170-183).                       *)
THEOREM DoneMeansPass == Spec => []PassWhenDone
  <1>1. LoopInv => PassWhenDone
    BY DEF LoopInv, PathInv, LampInv, PassWhenDone
  <1>. QED
    BY <1>1, LoopInvariant, PTL

(* The pulse for every symbol finds cp_remove at the start of one           *)
(* (ofdm_ldpc_pl.v:86-91, cp_remove.v:36).                                  *)
THEOREM NeverRealigned == Spec => []StartsInPlace
  <1>1. ASSUME LoopInv PROVE StartsInPlace
    <2>1. rx_frame_start => place.pos = 0
      BY <1>1 DEF LoopInv, PathInv, GapInv, rx_frame_start
    <2>2. sample_cnt = place.pos
      BY <1>1 DEF LoopInv, PathInv, RxInv, RemoveInv
    <2>. QED
      BY <2>1, <2>2 DEF StartsInPlace
  <1>. QED
    BY <1>1, LoopInvariant, PTL
=============================================================================
