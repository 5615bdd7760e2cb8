------------------------------- MODULE TxPath -------------------------------
(***************************************************************************)
(* The transmit path of ofdm_ldpc_top.v behind the encoder: subcarrier     *)
(* mapper, IFFT and cyclic-prefix inserter, chained by ready/valid wires   *)
(* and clocked together.  The encoder may pulse codeword_vld in any clock; *)
(* the sink is always ready (ofdm_ldpc_top.v:163).                         *)
(***************************************************************************)
EXTENDS Link

ASSUME TxAssumption == MaxCw \in Nat

VARIABLES
    cw_reg, active, bit_ptr, bin_ptr, sym_cnt,                  (* mapper *)
    ifft_inverse_q, ifft_in_buf, ifft_in_cnt, ifft_load_done,   (* IFFT *)
    ifft_out_buf, ifft_out_cnt, ifft_out_busy, ifft_m_tvalid, ifft_m_tdata,
    buf, wr_bank, wr_ptr, wr_full,                              (* cp_insert *)
    rd_bank, rd_ptr, rd_active, m_tvalid, m_tdata,
    tx_offered  (* codewords the encoder has offered *)

Map  == INSTANCE TxSubcarrierMap
Ifft == INSTANCE Xfft WITH N <- N_FFT, inverse_q <- ifft_inverse_q,
            in_buf <- ifft_in_buf, in_cnt <- ifft_in_cnt,
            load_done <- ifft_load_done, out_buf <- ifft_out_buf,
            out_cnt <- ifft_out_cnt, out_busy <- ifft_out_busy,
            m_tvalid <- ifft_m_tvalid, m_tdata <- ifft_m_tdata
Cp   == INSTANCE CpInsert

ASSUME TxBlockAssumptions ==
    Map!MapAssumption /\ Ifft!XfftAssumption /\ Cp!CpAssumption

txRegs == <<cw_reg, active, bit_ptr, bin_ptr, sym_cnt,
            ifft_inverse_q, ifft_in_buf, ifft_in_cnt, ifft_load_done, ifft_out_buf,
            ifft_out_cnt, ifft_out_busy, ifft_m_tvalid, ifft_m_tdata,
            buf, wr_bank, wr_ptr, wr_full, rd_bank, rd_ptr, rd_active, m_tvalid, m_tdata>>
txVars == <<txRegs, tx_offered, sent, place>>

TxPowerUp == Map!MapReset /\ Ifft!XfftInit /\ Cp!CpInit
TxRestart == Map!MapRestart /\ Ifft!XfftRestart /\ Cp!CpRestart

(* The three blocks in one clock, wired as in ofdm_ldpc_top.v:119-164. *)
TxClock(codeword_vld, codeword) ==
    /\ Map!Clock(codeword_vld, codeword, Ifft!s_tready)
    /\ Ifft!Clock(TRUE, Map!ifft_tvalid, Map!ifft_tdata, Cp!s_tready)
    /\ Cp!Clock(ifft_m_tvalid, ifft_m_tdata, TRUE)

TxInit ==
    /\ TxPowerUp
    /\ tx_offered = 0 /\ sent = <<>>
    /\ place = [sym |-> 0, pos |-> 0]

TxTick(codeword_vld, codeword) ==
    /\ TxClock(codeword_vld, codeword)
    /\ tx_offered' = IF codeword_vld THEN tx_offered + 1 ELSE tx_offered
    /\ sent' = IF codeword_vld /\ ~active THEN Append(sent, codeword) ELSE sent
    /\ place' = IF m_tvalid THEN NextPlace(place) ELSE place

(* A codeword is named by its number. *)
TxNext == \E codeword_vld \in BOOLEAN :
              (codeword_vld => tx_offered < MaxCw) /\ TxTick(codeword_vld, tx_offered)

(* The clock keeps running while something is on its way. *)
TxWork == \/ active \/ ifft_load_done \/ ifft_out_busy \/ ifft_m_tvalid
          \/ wr_full \/ rd_active \/ m_tvalid

TxSpec     == TxInit /\ [][TxNext]_txVars
TxFairSpec == TxSpec /\ WF_txVars(TxWork /\ TxNext)

-----------------------------------------------------------------------------
(* Registers in range; the mapper's bit pointer stays even, so that the two *)
(* bits it names exist (tx_subcarrier_map.v:25-28, 61).                     *)
TxInRange ==
    /\ active \in BOOLEAN /\ bin_ptr \in 0 .. N_FFT - 1 /\ sym_cnt \in 0 .. N_SYM - 1
    /\ bit_ptr \in 0 .. PtrMod - 1 /\ bit_ptr % 2 = 0
    /\ ifft_in_cnt \in 0 .. N_FFT - 1 /\ ifft_out_cnt \in 0 .. N_FFT - 1
    /\ ifft_load_done \in BOOLEAN /\ ifft_out_busy \in BOOLEAN /\ ifft_m_tvalid \in BOOLEAN
    /\ wr_bank \in {0, 1} /\ wr_ptr \in 0 .. N_FFT - 1 /\ wr_full \in BOOLEAN
    /\ rd_bank \in {0, 1} /\ rd_ptr \in 0 .. N_OUT - 1 /\ rd_active \in BOOLEAN
    /\ m_tvalid \in BOOLEAN

TxTypeOK == TxInRange /\ tx_offered \in 0 .. MaxCw /\ Len(sent) <= tx_offered

(* The three blocks count samples on their own and never resynchronise:     *)
(* bin_ptr and the IFFT's in_cnt, the IFFT's place in its block and         *)
(* cp_insert's wr_ptr must agree for good                                   *)
(* (tx_subcarrier_map.v:88-97, xfft_stub.v:94-99, cp_insert.v:64-69).       *)
TxAligned ==
    /\ active /\ Ifft!s_tready => bin_ptr = ifft_in_cnt
    /\ ifft_m_tvalid /\ Cp!s_tready => ifft_m_tdata.n = wr_ptr

(* The IFFT drops its valid after the last sample of a block without        *)
(* looking at m_tready (xfft_stub.v:159-161): in front of cp_insert that    *)
(* sample is always taken in its first clock.                               *)
LastSampleTaken == ifft_m_tvalid /\ ~ifft_out_busy => Cp!s_tready

(* What leaves the path: symbol after symbol, codeword after codeword, each *)
(* sample the one its place calls for, with every codeword bit on its bin,  *)
(* pilots and nulls on theirs (tx_subcarrier_map.v:58-98 and on).           *)
FrameInOrder ==
    m_tvalid => place.sym \div N_SYM < Len(sent) /\ m_tdata = SampleAt(place)

(* Every codeword the mapper takes leaves as N_SYM whole symbols: no chain  *)
(* of not-ready blocks waits for itself (cp_insert.v:90-92 records one that *)
(* did).                                                                    *)
FrameSent ==
    \A k \in 1 .. MaxCw : Len(sent) >= k ~> place.sym >= k * N_SYM
=============================================================================
