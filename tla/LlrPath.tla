------------------------------- MODULE LlrPath ------------------------------
(***************************************************************************)
(* From the FFT to the decoder's memory: the channel estimator in its      *)
(* stream mode (one register), the subcarrier demapper, the QPSK           *)
(* demodulator and the LLR buffer.  Each is one register deep, so the      *)
(* registers of a clock all move together.  No block of the chain can      *)
(* refuse a bin, and the demapper knows which bin it holds only by having  *)
(* counted since reset.                                                    *)
(***************************************************************************)
EXTENDS Integers

CONSTANTS N_FFT, N_CW, DataBins, Junk

(* Assumed by the modules that instantiate this one. *)
LlrAssumption ==
    /\ N_FFT \in 2 .. 64
    /\ N_CW \in Nat \ {0} /\ N_CW % 2 = 0
    /\ DataBins \subseteq 0 .. N_FFT - 1

VARIABLES
    eq_valid, eq_data,                  (* channel_est *)
    bin_cnt, demap_valid, demap_data,   (* rx_subcarrier_demap *)
    demod_valid, llr0, llr1,            (* qpsk_demod *)
    llr, wr_cnt, done_latched, llr_done (* llr_buffer; llr[2k], llr[2k+1] are   *)
                                        (* buf_e[k], buf_o[k]                   *)

(* What the demodulator reads off the I and the Q of a bin: the bit that    *)
(* was put there, nothing for a bin that carries none.                      *)
Soft(bin) == IF bin.kind = "data"
             THEN <<[cw |-> bin.cw, bit |-> bin.i], [cw |-> bin.cw, bit |-> bin.q]>>
             ELSE <<Junk, Junk>>

LlrReset ==
    /\ eq_valid = FALSE /\ eq_data = Junk
    /\ bin_cnt = 0 /\ demap_valid = FALSE /\ demap_data = Junk
    /\ demod_valid = FALSE /\ llr0 = Junk /\ llr1 = Junk
    /\ wr_cnt = 0 /\ done_latched = FALSE /\ llr_done = FALSE

LlrInit == llr = [k \in 0 .. N_CW - 1 |-> Junk] /\ LlrReset

(* Mutant: the freeze is not lifted by a reset. *)
MutLlrRestart ==
    /\ eq_valid' = FALSE /\ eq_data' = Junk
    /\ bin_cnt' = 0 /\ demap_valid' = FALSE /\ demap_data' = Junk
    /\ demod_valid' = FALSE /\ llr0' = Junk /\ llr1' = Junk
    /\ wr_cnt' = 0 /\ llr_done' = FALSE
    /\ UNCHANGED <<llr, done_latched>>

(* rst_n while it runs: the LLR memory keeps what it holds. *)
LlrRestart ==
    /\ eq_valid' = FALSE /\ eq_data' = Junk
    /\ bin_cnt' = 0 /\ demap_valid' = FALSE /\ demap_data' = Junk
    /\ demod_valid' = FALSE /\ llr0' = Junk /\ llr1' = Junk
    /\ wr_cnt' = 0 /\ done_latched' = FALSE /\ llr_done' = FALSE
    /\ UNCHANGED llr

-----------------------------------------------------------------------------
(* channel_est with STREAM_MODE = 1 *)
Equalise(fft_valid, fft_data) == eq_valid' = fft_valid /\ eq_data' = fft_data

(* rx_subcarrier_demap *)
Demap ==
    /\ bin_cnt' = IF eq_valid THEN (bin_cnt + 1) % N_FFT ELSE bin_cnt
    /\ \/ /\ eq_valid /\ bin_cnt \in DataBins
          /\ demap_valid' = TRUE /\ demap_data' = eq_data
       \/ /\ ~(eq_valid /\ bin_cnt \in DataBins)
          /\ demap_valid' = FALSE /\ UNCHANGED demap_data

(* qpsk_demod *)
Demod ==
    /\ demod_valid' = demap_valid
    /\ IF demap_valid
       THEN llr0' = Soft(demap_data)[1] /\ llr1' = Soft(demap_data)[2]
       ELSE UNCHANGED <<llr0, llr1>>

(* Mutant: the buffer is not frozen once full, as it once was not. *)
Mut_write_en == demod_valid

(* llr_buffer: takes N_CW / 2 pairs, then none until reset. *)
write_en == demod_valid /\ ~done_latched

(* Mutants: the end of the buffer one pair late, or counted in LLRs. *)
MutLastPairLate == wr_cnt = N_CW \div 2
MutLastPairLlrs == wr_cnt = N_CW - 1

LastPair == wr_cnt = N_CW \div 2 - 1

BufWrite ==
    /\ write_en
    /\ llr' = [llr EXCEPT ![2 * wr_cnt] = llr0, ![2 * wr_cnt + 1] = llr1]
    /\ \/ /\ ~LastPair
          /\ wr_cnt' = wr_cnt + 1
          /\ llr_done' = FALSE
          /\ UNCHANGED done_latched
       \/ /\ LastPair
          /\ wr_cnt' = 0
          /\ llr_done' = TRUE
          /\ done_latched' = TRUE

BufHold ==
    /\ ~write_en
    /\ llr_done' = FALSE
    /\ UNCHANGED <<llr, wr_cnt, done_latched>>

Clock(fft_valid, fft_data) ==
    /\ Equalise(fft_valid, fft_data)
    /\ Demap
    /\ Demod
    /\ BufWrite \/ BufHold
=============================================================================
