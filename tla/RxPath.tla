------------------------------- MODULE RxPath -------------------------------
(***************************************************************************)
(* The receive path of ofdm_ldpc_top.v up to the decoder's LLR memory:     *)
(* cp_remove, FFT, and LlrPath, clocked together.  Its input is a stream   *)
(* of well-formed symbols in which any clock may bring no sample.  The     *)
(* pulse rx_frame_start comes with the first sample of the first symbol    *)
(* (tb_ofdm_ldpc.v:87-101), which samples of no symbol may precede, as in  *)
(* ofdm_ldpc_rf_pl.v, and may come with that of any later one              *)
(* (ofdm_ldpc_pl.v:86-91 raises it for every symbol).                      *)
(***************************************************************************)
EXTENDS Link

(* A frame has room for a codeword; no bin is both pilot and data; bit_ptr  *)
(* has the width of a codeword, so that every data bin carries bits; there  *)
(* is a prefix, which gives the FFT the clock its transform takes.          *)
ASSUME RxAssumption ==
    /\ MaxCw \in Nat
    /\ N_SYM \in 1 .. 16 /\ 2 * N_SYM * Cardinality(DataBins) >= N_CW
    /\ DataBins \cap PilotBins = {} /\ PilotBins \subseteq 0 .. N_FFT - 1
    /\ PtrMod = N_CW
    /\ N_CP >= 1

VARIABLES
    sample_cnt, synced, rem_tvalid, rem_tdata,                  (* cp_remove *)
    fft_inverse_q, fft_in_buf, fft_in_cnt, fft_load_done,       (* FFT *)
    fft_out_buf, fft_out_cnt, fft_out_busy, fft_m_tvalid, fft_m_tdata,
    eq_valid, eq_data, bin_cnt, demap_valid, demap_data,        (* LlrPath *)
    demod_valid, llr0, llr1, llr, wr_cnt, done_latched, llr_done

Rem == INSTANCE CpRemove WITH m_tvalid <- rem_tvalid, m_tdata <- rem_tdata
Fft == INSTANCE Xfft WITH N <- N_FFT, inverse_q <- fft_inverse_q,
            in_buf <- fft_in_buf, in_cnt <- fft_in_cnt,
            load_done <- fft_load_done, out_buf <- fft_out_buf,
            out_cnt <- fft_out_cnt, out_busy <- fft_out_busy,
            m_tvalid <- fft_m_tvalid, m_tdata <- fft_m_tdata
Llr == INSTANCE LlrPath

ASSUME RxBlockAssumptions ==
    Rem!RemoveAssumption /\ Fft!XfftAssumption /\ Llr!LlrAssumption

rxRegs == <<sample_cnt, synced, rem_tvalid, rem_tdata,
            fft_inverse_q, fft_in_buf, fft_in_cnt, fft_load_done, fft_out_buf,
            fft_out_cnt, fft_out_busy, fft_m_tvalid, fft_m_tdata,
            eq_valid, eq_data, bin_cnt, demap_valid, demap_data,
            demod_valid, llr0, llr1, llr, wr_cnt, done_latched, llr_done>>
rxVars == <<rxRegs, sent, place>>

RxPowerUp == Rem!RemoveReset /\ Fft!XfftInit /\ Llr!LlrInit
RxRestart == Rem!RemoveRestart /\ Fft!XfftRestart /\ Llr!LlrRestart

(* The blocks in one clock, wired as in ofdm_ldpc_top.v:185-273.  Nobody    *)
(* looks at the FFT's s_tready (line 207).                                  *)
RxClock(frame_start, valid_in, iq) ==
    /\ Rem!Clock(frame_start, valid_in, iq)
    /\ Fft!Clock(FALSE, rem_tvalid, rem_tdata, TRUE)
    /\ Llr!Clock(fft_m_tvalid, fft_m_tdata)

-----------------------------------------------------------------------------
(* The transmitter sends MaxCw codewords, which are named by their numbers. *)
Sending == place.sym < MaxCw * N_SYM

RxInit ==
    /\ RxPowerUp
    /\ sent = [k \in 1 .. MaxCw |-> k - 1]
    /\ place = [sym |-> 0, pos |-> 0]

Receive(frame_start) ==
    /\ Sending
    /\ frame_start => place.pos = 0
    /\ place = [sym |-> 0, pos |-> 0] => frame_start
    /\ RxClock(frame_start, TRUE, SampleAt(place))
    /\ place' = NextPlace(place)
    /\ UNCHANGED sent

Pause ==
    /\ RxClock(FALSE, FALSE, Junk)
    /\ UNCHANGED <<sent, place>>

(* A late start: a sample from before the first symbol. *)
Early ==
    /\ place = [sym |-> 0, pos |-> 0]
    /\ RxClock(FALSE, TRUE, Junk)
    /\ UNCHANGED <<sent, place>>

RxNext == (\E frame_start \in BOOLEAN : Receive(frame_start)) \/ Pause \/ Early

(* The clock keeps running while a sample or a bin is on its way.  Nothing  *)
(* is assumed of the transmitter.                                           *)
RxWork == \/ rem_tvalid \/ fft_load_done \/ fft_out_busy \/ fft_m_tvalid
          \/ eq_valid \/ demap_valid \/ demod_valid

RxSpec     == RxInit /\ [][RxNext]_rxVars
RxFairSpec == RxSpec /\ WF_rxVars(RxWork /\ RxNext)

-----------------------------------------------------------------------------
(* Counters in range; the LLR write counter never indexes past the memory   *)
(* (cp_remove.v:25, xfft_stub.v:70-72, llr_buffer.v:21).                    *)
RxTypeOK ==
    /\ sample_cnt \in 0 .. N_OUT - 1 /\ synced \in BOOLEAN
    /\ fft_in_cnt \in 0 .. N_FFT - 1 /\ fft_out_cnt \in 0 .. N_FFT - 1
    /\ fft_load_done \in BOOLEAN /\ fft_out_busy \in BOOLEAN
    /\ bin_cnt \in 0 .. N_FFT - 1
    /\ wr_cnt \in 0 .. N_CW \div 2 - 1
    /\ done_latched \in BOOLEAN /\ llr_done \in BOOLEAN

(* cp_remove cannot be held off and the FFT's s_tready is left open         *)
(* (ofdm_ldpc_top.v:207): the sample it brings always finds room, however   *)
(* closely the symbols follow each other.                                   *)
NoSampleDropped == rem_tvalid => Fft!s_tready

(* cp_remove, FFT and demapper count on their own; frame_start touches only *)
(* the first.  Sample n of a body meets the FFT at in_cnt = n, and a bin    *)
(* meets the demapper at its own number, so that pilots and nulls are never *)
(* taken for data (cp_remove.v:28-35 tells of the stream off by one).       *)
RxAligned ==
    /\ rem_tvalid => rem_tdata.n = fft_in_cnt
    /\ eq_valid => (eq_data.kind = "data" <=> bin_cnt \in DataBins)

(* When the decoder is told to start, and from then on, its memory holds    *)
(* the first frame's codeword, bit k at address k: neither the spare bins   *)
(* of the last symbols nor a later frame overwrite what it reads            *)
(* (llr_buffer.v:22-26, 44-51).                                             *)
LlrComplete ==
    done_latched => \A k \in 0 .. N_CW - 1 : llr[k] = [cw |-> sent[1], bit |-> k]

(* A received frame reaches the decoder.                                    *)
FrameDecodable == place.sym >= N_SYM ~> done_latched
=============================================================================
