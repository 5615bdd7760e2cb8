------------------------------ MODULE PlLoopback ------------------------------
(***************************************************************************)
(* ofdm_ldpc_pl.v: the whole of ofdm_ldpc_top with its transmit output     *)
(* wired back to its receive input.  After power-up and after every        *)
(* external reset startup_gen gives one pulse, TEST_BITS go through        *)
(* encoder, transmit path, receive path and decoder, and the first result  *)
(* is compared with them.  All blocks share one clock; on the wire between *)
(* the two halves a sample spends no clock at all.                         *)
(***************************************************************************)
EXTENDS TxPath, RxPath, LdpcEncoder, LdpcDecoder

CONSTANTS Level,       (* the LLR of a bin received without noise *)
          POR, DELAY   (* clocks of power-on reset, and to the start pulse *)

(* How the sizes of the blocks fit together.  TEST_BITS are one of Blocks,  *)
(* and may be another after each reset, so that what is left of the run     *)
(* before can be told.                                                      *)
ASSUME LoopAssumption ==
    /\ N_CW = 2 * MB * Z /\ KB = MB /\ Level \in 1 .. Sat
    /\ POR \in Nat \ {0} /\ DELAY \in Nat \ {0}

VARIABLES
    por_cnt, por_done, rst_n_ext, TEST_BITS,    (* reset *)
    start_cnt, start_done, tx_start,            (* startup_gen *)
    tx_valid_d1, pass_flag, rx_done

(* The number the decoder reads for entry k of the LLR memory. *)
LlrValue(e) == IF "bit" \notin DOMAIN e THEN NoNumber
               ELSE IF e.bit % Z \in e.cw[e.bit \div Z] THEN -Level ELSE Level
llrRead == [a \in VarAddr |-> LlrValue(llr[a[1] * Z + a[2]])]

resetIns == <<por_cnt, por_done, rst_n_ext, TEST_BITS, resets>>
plRegs   == <<start_cnt, start_done, tx_start, tx_valid_d1, pass_flag, rx_done>>
datapath == <<plRegs, encVars, txVars, rxVars, decVars>>
vars     == <<resetIns, datapath>>

-----------------------------------------------------------------------------
rst_n == por_done /\ rst_n_ext

Por ==
    \/ /\ por_done
       /\ UNCHANGED <<por_cnt, por_done>>
    \/ /\ ~por_done /\ por_cnt = POR - 1
       /\ por_done' = TRUE /\ UNCHANGED por_cnt
    \/ /\ ~por_done /\ por_cnt # POR - 1
       /\ por_cnt' = por_cnt + 1 /\ UNCHANGED por_done

(* startup_gen: one pulse per reset. *)
Startup ==
    \/ /\ ~start_done /\ start_cnt = DELAY - 1
       /\ tx_start' = TRUE /\ start_done' = TRUE
       /\ UNCHANGED start_cnt
    \/ /\ ~start_done /\ start_cnt # DELAY - 1
       /\ tx_start' = FALSE /\ start_cnt' = start_cnt + 1
       /\ UNCHANGED start_done
    \/ /\ start_done
       /\ tx_start' = FALSE
       /\ UNCHANGED <<start_cnt, start_done>>

(* Mutant: a level in place of an edge. *)
Mut_rx_frame_start == m_tvalid

(* The first sample of a symbol: cp_insert pauses before each. *)
rx_frame_start == m_tvalid /\ ~tx_valid_d1

(* Of the information bits only the low 64, the first column, are compared. *)
Column0(decoded) == {j \in Pos : decoded[<<0, j>>]}

PassLatch ==
    \/ /\ rx_valid_out /\ ~rx_done
       /\ rx_done' = TRUE
       /\ pass_flag' = (Column0(rx_decoded) = TEST_BITS[0])
    \/ /\ ~(rx_valid_out /\ ~rx_done)
       /\ UNCHANGED <<rx_done, pass_flag>>

(* Mutant: the lamps stay on through a reset. *)
MutPassRestart == UNCHANGED <<pass_flag, rx_done>>

PassRestart == pass_flag' = FALSE /\ rx_done' = FALSE

(* One clock out of reset. *)
Run ==
    /\ Startup
    /\ EncTick(tx_start, TEST_BITS)
    /\ TxTick(enc_valid_out, enc_codeword)
    /\ tx_valid_d1' = m_tvalid
    /\ RxClock(rx_frame_start, m_tvalid, m_tdata)
    /\ DecTick(llr_done) /\ frame' = llrRead'
    /\ PassLatch
    /\ UNCHANGED resets

(* The record of the run starts over. *)
Forget ==
    /\ enc_offered' = 0 /\ taken' = ZeroInfo
    /\ tx_offered' = 0 /\ sent' = <<>> /\ place' = [sym |-> 0, pos |-> 0]
    /\ fed' = FALSE

(* Every register goes to its reset value; the memories keep their words.   *)
Restart ==
    /\ start_cnt' = 0 /\ start_done' = FALSE /\ tx_start' = FALSE
    /\ tx_valid_d1' = FALSE
    /\ PassRestart
    /\ EncRestart
    /\ TxRestart
    /\ RxRestart
    /\ DecRestart /\ frame' = llrRead'
    /\ Forget

Init ==
    /\ por_cnt = 0 /\ por_done = FALSE /\ rst_n_ext = TRUE
    /\ TEST_BITS \in Blocks /\ resets = 0
    /\ start_cnt = 0 /\ start_done = FALSE /\ tx_start = FALSE
    /\ tx_valid_d1 = FALSE /\ pass_flag = FALSE /\ rx_done = FALSE
    /\ EncInit /\ TxInit /\ RxPowerUp
    /\ DecPowerUp /\ frame = llrRead /\ fed = FALSE

Tick ==
    /\ Por
    /\ \/ rst_n /\ Run
       \/ ~rst_n /\ UNCHANGED datapath
    /\ UNCHANGED <<rst_n_ext, TEST_BITS, resets>>

(* rst_n_ext is asynchronous: it may fall between any two clocks. *)
Press ==
    /\ rst_n_ext /\ resets < MaxResets
    /\ rst_n_ext' = FALSE /\ resets' = resets + 1
    /\ TEST_BITS' \in Blocks
    /\ Restart
    /\ UNCHANGED <<por_cnt, por_done>>

Release ==
    /\ ~rst_n_ext /\ rst_n_ext' = TRUE
    /\ UNCHANGED <<por_cnt, por_done, TEST_BITS, resets, datapath>>

Next == Tick \/ Press \/ Release

Spec     == Init /\ [][Next]_vars
FairSpec == Spec /\ WF_vars(Tick) /\ WF_vars(Release)

-----------------------------------------------------------------------------
(* Registers in range (ofdm_ldpc_pl.v:38-49, 86-91, 158-183).               *)
TypeOK ==
    /\ por_cnt \in 0 .. POR - 1 /\ por_done \in BOOLEAN /\ rst_n_ext \in BOOLEAN
    /\ start_cnt \in 0 .. DELAY - 1 /\ start_done \in BOOLEAN /\ tx_start \in BOOLEAN
    /\ TEST_BITS \in Blocks /\ resets \in 0 .. MaxResets
    /\ tx_valid_d1 \in BOOLEAN /\ pass_flag \in BOOLEAN /\ rx_done \in BOOLEAN
    /\ EncTypeOK /\ TxInRange /\ RxTypeOK

Recovered == \A c \in InfoCol, j \in Pos : rx_decoded[<<c, j>>] <=> j \in TEST_BITS[c]

(* What the decoder hands over is what was encoded, bit for bit, through    *)
(* all blocks, whenever the reset came and whatever the run before left in  *)
(* buffers and memories (ofdm_ldpc_pl.v:93-120).                            *)
EndToEnd == rx_valid_out => Recovered

(* The lamp that says done never lights without the one that says pass, and *)
(* both speak of the bits of this run, all of them, though only the low 64  *)
(* are compared (ofdm_ldpc_pl.v:170-183).                                   *)
PassWhenDone == rx_done => pass_flag /\ Recovered

(* rx_frame_start comes for every symbol, found by the gap in the output;   *)
(* after the first it must find cp_remove at the start of a symbol, or the  *)
(* block would be realigned in the middle of one (ofdm_ldpc_pl.v:86-91,     *)
(* cp_remove.v:36).                                                         *)
StartsInPlace == rst_n /\ rx_frame_start /\ synced => sample_cnt = 0

(* Out of reset the result comes, unless another reset does.                *)
Finishes == rst_n ~> (rx_done \/ ~rst_n)
=============================================================================
