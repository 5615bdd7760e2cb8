--------------------------- MODULE TxSubcarrierMap --------------------------
(***************************************************************************)
(* tx_subcarrier_map.v: walks a codeword through the bins of N_SYM OFDM    *)
(* symbols, two bits (one QPSK point) to a data bin.  What it drives is    *)
(* combinational: the bin under bin_ptr is offered for as long as the IFFT *)
(* does not take it.                                                       *)
(***************************************************************************)
EXTENDS Integers

CONSTANTS N_FFT, N_SYM, N_CW,
          DataBins, PilotBins,   (* is_data and is_pilot *)
          PtrMod,                (* bit_ptr is a register of values 0 .. PtrMod - 1 *)
          Junk

(* Assumed by the modules that instantiate this one. *)
MapAssumption ==
    /\ N_FFT \in 2 .. 64 /\ N_SYM \in 1 .. 16
    /\ N_CW \in Nat \ {0} /\ N_CW % 2 = 0
    /\ PtrMod \in Nat /\ PtrMod >= N_CW
    /\ DataBins \subseteq 0 .. N_FFT - 1
    /\ PilotBins \subseteq (0 .. N_FFT - 1) \ DataBins

VARIABLES cw_reg,    (* the codeword being sent *)
          active, bit_ptr, bin_ptr, sym_cnt

mapRegs == <<cw_reg, active, bit_ptr, bin_ptr, sym_cnt>>

MapReset ==
    /\ active = FALSE
    /\ bit_ptr = 0 /\ bin_ptr = 0 /\ sym_cnt = 0
    /\ cw_reg = Junk

(* rst_n while it runs. *)
MapRestart ==
    /\ active' = FALSE
    /\ bit_ptr' = 0 /\ bin_ptr' = 0 /\ sym_cnt' = 0
    /\ cw_reg' = Junk

(* The contents of a bin: the codeword bits on its I and Q, by index. *)
Pilot           == [kind |-> "pilot"]
Null            == [kind |-> "null"]
Qpsk(cw, i, q)  == [kind |-> "data", cw |-> cw, i |-> i, q |-> q]

carries_bits == bin_ptr \in DataBins /\ bit_ptr < N_CW - 1

ifft_tdata ==
    IF bin_ptr \in PilotBins THEN Pilot
    ELSE IF carries_bits THEN Qpsk(cw_reg, bit_ptr, bit_ptr + 1)
    ELSE Null

ifft_tvalid == active

-----------------------------------------------------------------------------
(* Mutant: a codeword is loaded over the one being sent. *)
MutMapLoad(codeword_vld, codeword) ==
    /\ codeword_vld
    /\ cw_reg' = codeword
    /\ active' = TRUE
    /\ bit_ptr' = 0 /\ bin_ptr' = 0 /\ sym_cnt' = 0

(* A codeword that arrives while another is being sent is not looked at.   *)
MapLoad(codeword_vld, codeword) ==
    /\ codeword_vld /\ ~active
    /\ cw_reg' = codeword
    /\ active' = TRUE
    /\ bit_ptr' = 0 /\ bin_ptr' = 0 /\ sym_cnt' = 0

(* Mutant: a bin uses up one bit. *)
MutTakeBits == bit_ptr' = IF carries_bits THEN (bit_ptr + 1) % PtrMod ELSE bit_ptr

(* Only a bin that carries bits uses them up. *)
TakeBits == bit_ptr' = IF carries_bits THEN (bit_ptr + 2) % PtrMod ELSE bit_ptr

(* Mutant: the frame ends one symbol early. *)
Mut_last_sym == sym_cnt = N_SYM - 2

last_sym == sym_cnt = N_SYM - 1

NextBin ==
    \/ /\ bin_ptr # N_FFT - 1
       /\ bin_ptr' = bin_ptr + 1
       /\ UNCHANGED <<sym_cnt, active>>
    \/ /\ bin_ptr = N_FFT - 1 /\ ~last_sym
       /\ bin_ptr' = 0
       /\ sym_cnt' = sym_cnt + 1
       /\ UNCHANGED active
    \/ /\ bin_ptr = N_FFT - 1 /\ last_sym
       /\ bin_ptr' = 0
       /\ active' = FALSE
       /\ UNCHANGED sym_cnt

(* Mutant: the IFFT is not asked. *)
MutMapAdvance(ifft_tready) ==
    /\ active
    /\ TakeBits
    /\ NextBin
    /\ UNCHANGED cw_reg

MapAdvance(ifft_tready) ==
    /\ active /\ ifft_tready
    /\ TakeBits
    /\ NextBin
    /\ UNCHANGED cw_reg

MapHold(codeword_vld, ifft_tready) ==
    /\ ~(codeword_vld /\ ~active)
    /\ ~(active /\ ifft_tready)
    /\ UNCHANGED mapRegs

Clock(codeword_vld, codeword, ifft_tready) ==
    \/ MapLoad(codeword_vld, codeword)
    \/ MapAdvance(ifft_tready)
    \/ MapHold(codeword_vld, ifft_tready)
=============================================================================
