---------------------------- MODULE Paths_proofs ----------------------------
(***************************************************************************)
(* Proofs about TxPath and RxPath.                                         *)
(*                                                                         *)
(* TxPath, for every layout of the bins and every N_FFT, N_CP, N_SYM,      *)
(* N_CW, PtrMod and MaxCw that the assumptions of the three blocks allow:  *)
(* the registers stay in range, the three counters that nothing ever       *)
(* resynchronises agree for good, and the frames leave in order.           *)
(*                                                                         *)
(* RxPath, for every N_FFT, N_CP >= 1, N_SYM, N_CW and layout of the bins: *)
(* however closely or loosely the samples follow each other, none is       *)
(* dropped, the counters of the blocks agree, and the LLR memory holds the *)
(* first frame's codeword once the decoder is told to start.               *)
(***************************************************************************)
EXTENDS TxPath, RxPath, FiniteSetTheorems, TLAPS

(***************************************************************************)
(* Counting the members of a set of bins below a bin, and the symbols of   *)
(* codewords.                                                              *)
(***************************************************************************)
Below(D, b) == Cardinality({d \in D : d < b})

One(p) == IF p THEN 1 ELSE 0

(* The count grows by one at each member, from 0 to the size of the set.    *)
LEMMA BelowCounts ==
    ASSUME NEW n \in Nat, NEW D, D \subseteq 0 .. n - 1
    PROVE  /\ Below(D, 0) = 0 /\ Below(D, n) = Cardinality(D)
           /\ Cardinality(D) \in Nat
           /\ \A b \in 0 .. n - 1 :
                 /\ Below(D, b) \in Nat
                 /\ Below(D, b + 1) = Below(D, b) + One(b \in D)
  <1>1. \A d \in D : d \in 0 .. n - 1
    OBVIOUS
  <1>2. IsFiniteSet(D)
    <2>1. IsFiniteSet(0 .. n - 1)
      BY FS_Interval
    <2>. QED
      BY <2>1, FS_Subset
  <1>3. {d \in D : d < 0} = {} /\ {d \in D : d < n} = D
    <2>1. \A d \in D : ~(d < 0) /\ d < n
      BY <1>1
    <2>. QED
      BY <2>1
  <1>4. ASSUME NEW b \in 0 .. n - 1
        PROVE  /\ Below(D, b) \in Nat
               /\ Below(D, b + 1) = Below(D, b) + One(b \in D)
    <2> DEFINE S == {d \in D : d < b}
    <2>1. IsFiniteSet(S)
      BY <1>2, FS_Subset
    <2>2. Cardinality(S) \in Nat
      BY <2>1, FS_CardinalityType
    <2>3. \A d \in D : d < b + 1 <=> d < b \/ d = b
      BY <1>1
    <2>4. CASE b \in D
      <3>1. {d \in D : d < b + 1} = S \cup {b}
        BY <2>3, <2>4, Zenon
      <3>2. b \notin S
        OBVIOUS
      <3>3. Cardinality(S \cup {b}) = Cardinality(S) + 1
        BY <2>1, <3>2, FS_AddElement
      <3>. QED
        BY <2>2, <2>4, <3>1, <3>3 DEF Below, One
    <2>5. CASE b \notin D
      <3>1. \A d \in D : d # b
        BY <2>5
      <3>2. {d \in D : d < b + 1} = S
        BY <2>3, <3>1
      <3>. QED
        BY <2>2, <2>5, <3>2 DEF Below, One
    <2>. QED
      BY <2>4, <2>5
  <1>. QED
    BY <1>2, <1>3, <1>4, FS_EmptySet, FS_CardinalityType DEF Below

(* Symbol r of codeword k has the absolute number k * n + r.                *)
LEMMA SymbolNumber ==
    ASSUME NEW n \in 1 .. 16, NEW k \in Nat, NEW r \in 0 .. n - 1
    PROVE  /\ k * n + r \in Nat
           /\ (k * n + r) \div n = k /\ (k * n + r) % n = r
           /\ (k + 1) * n = k * n + n
  BY Z3

-----------------------------------------------------------------------------
(* What the assumptions of the blocks say of the constants. *)
LEMMA TxConstants ==
    /\ N_FFT \in 2 .. 64 /\ N_SYM \in 1 .. 16
    /\ N_CW \in Nat \ {0} /\ N_CW % 2 = 0
    /\ PtrMod \in Nat /\ PtrMod >= N_CW
    /\ DataBins \subseteq 0 .. N_FFT - 1
    /\ PilotBins \subseteq (0 .. N_FFT - 1) \ DataBins
    /\ N_CP \in 0 .. N_FFT /\ N_OUT = N_FFT + N_CP /\ Cp!N_OUT = N_OUT
    /\ MaxCw \in Nat
  BY TxAssumption, TxBlockAssumptions
     DEF Map!MapAssumption, Ifft!XfftAssumption, Cp!CpAssumption, Cp!N_OUT, N_OUT

-----------------------------------------------------------------------------
(* The inductive invariant.  The mapper hands over bin bin_ptr exactly when *)
(* the IFFT loads place in_cnt, so the two are always the same number; an   *)
(* idle mapper is at bin 0.                                                 *)
LoadAligned ==
    /\ bin_ptr = ifft_in_cnt
    /\ ~active => bin_ptr = 0

(* On the other side of the IFFT: the sample on its output is the one       *)
(* cp_insert writes next, and after an answered sample both move.           *)
OutAligned ==
    /\ ifft_m_tvalid => ifft_m_tdata.n = wr_ptr
    /\ ifft_m_tvalid /\ ifft_out_busy => ifft_out_cnt = wr_ptr + 1
    /\ ifft_m_tvalid /\ ~ifft_out_busy => wr_ptr = N_FFT - 1 /\ ifft_out_cnt = 0
    /\ ~ifft_m_tvalid => wr_ptr = 0 /\ ifft_out_cnt = 0
    /\ wr_full => wr_ptr = 0

(* A loaded block is transformed backwards, and what is being streamed is   *)
(* numbered from 0.                                                         *)
Streaming ==
    /\ ifft_load_done => ifft_inverse_q
    /\ ifft_out_busy => \A n \in 0 .. N_FFT - 1 : ifft_out_buf[n].n = n

TxInv == TxInRange /\ LoadAligned /\ OutAligned /\ Streaming

-----------------------------------------------------------------------------
(* The path at rest: as a reset leaves it, whatever the buffers hold.       *)
TxRest ==
    /\ active = FALSE /\ bit_ptr = 0 /\ bin_ptr = 0 /\ sym_cnt = 0
    /\ ifft_in_cnt = 0 /\ ifft_load_done = FALSE /\ ifft_out_cnt = 0
    /\ ifft_out_busy = FALSE /\ ifft_m_tvalid = FALSE
    /\ ifft_in_buf = [i \in 0 .. N_FFT - 1 |-> ifft_in_buf[i]]
    /\ DOMAIN buf = {0, 1} /\ \A k \in {0, 1} : DOMAIN buf[k] = 0 .. N_FFT - 1
    /\ wr_bank = 0 /\ wr_ptr = 0 /\ wr_full = FALSE
    /\ rd_bank = 0 /\ rd_ptr = 0 /\ rd_active = FALSE /\ m_tvalid = FALSE
    /\ sent = <<>> /\ place = [sym |-> 0, pos |-> 0]

LEMMA InitRest == TxInit => TxRest
  <1> SUFFICES ASSUME TxInit PROVE TxRest
    OBVIOUS
  <1>1. /\ active = FALSE /\ bit_ptr = 0 /\ bin_ptr = 0 /\ sym_cnt = 0
    BY DEF TxInit, TxPowerUp, Map!MapReset
  <1>2. /\ ifft_in_cnt = 0 /\ ifft_load_done = FALSE /\ ifft_out_cnt = 0
        /\ ifft_out_busy = FALSE /\ ifft_m_tvalid = FALSE
        /\ ifft_in_buf = [i \in 0 .. N_FFT - 1 |-> ifft_in_buf[i]]
    BY DEF TxInit, TxPowerUp, Ifft!XfftInit, Ifft!XfftReset, Ifft!Point
  <1>3. /\ DOMAIN buf = {0, 1} /\ \A k \in {0, 1} : DOMAIN buf[k] = 0 .. N_FFT - 1
        /\ wr_bank = 0 /\ wr_ptr = 0 /\ wr_full = FALSE
        /\ rd_bank = 0 /\ rd_ptr = 0 /\ rd_active = FALSE /\ m_tvalid = FALSE
    BY DEF TxInit, TxPowerUp, Cp!CpInit, Cp!CpReset, Cp!Bank, Cp!Index
  <1>4. sent = <<>> /\ place = [sym |-> 0, pos |-> 0]
    BY DEF TxInit
  <1>. QED
    BY <1>1, <1>2, <1>3, <1>4 DEF TxRest

LEMMA RestTxInv == TxRest => TxInv
  <1> SUFFICES ASSUME TxRest PROVE TxInv
    OBVIOUS
  <1>a. N_FFT \in 2 .. 64 /\ N_SYM \in 1 .. 16 /\ N_OUT \in Nat \ {0} /\ PtrMod \in Nat \ {0}
    BY TxConstants
  <1> USE DEF TxRest
  <1>1. /\ active \in BOOLEAN /\ ifft_load_done \in BOOLEAN /\ ifft_out_busy \in BOOLEAN
        /\ ifft_m_tvalid \in BOOLEAN /\ wr_full \in BOOLEAN /\ rd_active \in BOOLEAN
        /\ m_tvalid \in BOOLEAN
    BY Zenon
  <1>2. TxInRange
    <2>1. 0 \in 0 .. N_FFT - 1 /\ 0 \in 0 .. N_SYM - 1 /\ 0 \in 0 .. PtrMod - 1
          /\ 0 \in 0 .. N_OUT - 1 /\ 0 % 2 = 0 /\ 0 \in {0, 1}
      BY ONLY <1>a
    <2>. QED
      BY <1>1, <2>1, Zenon DEF TxInRange
  <1>3. LoadAligned /\ OutAligned /\ Streaming
    BY <1>a DEF LoadAligned, OutAligned, Streaming
  <1>. QED
    BY <1>2, <1>3 DEF TxInv

(* What one clock of the path is, block by block. *)
LEMMA TickParts ==
    ASSUME NEW vld, NEW cw, TxTick(vld, cw)
    PROVE  /\ Map!Clock(vld, cw, Ifft!s_tready)
           /\ ifft_inverse_q'
           /\ Ifft!Load(active, Map!ifft_tdata)
           /\ Ifft!Output(Cp!s_tready)
           /\ Cp!Writer(ifft_m_tvalid, ifft_m_tdata)
           /\ Cp!Reader(TRUE)
           /\ tx_offered' = (IF vld THEN tx_offered + 1 ELSE tx_offered)
           /\ sent' = (IF vld /\ ~active THEN Append(sent, cw) ELSE sent)
           /\ place' = (IF m_tvalid THEN NextPlace(place) ELSE place)
  BY DEF TxTick, TxClock, Ifft!Clock, Cp!Clock, Map!ifft_tvalid

(* The bit pointer stays even and below PtrMod: the sum wraps only at the   *)
(* very end of the register.                                                *)
LEMMA TakeBitsType ==
    ASSUME bit_ptr \in 0 .. PtrMod - 1, bit_ptr % 2 = 0, Map!TakeBits
    PROVE  bit_ptr' \in 0 .. PtrMod - 1 /\ bit_ptr' % 2 = 0
  <1> USE TxConstants
  <1>1. CASE Map!carries_bits
    <2>1. bit_ptr + 2 <= N_CW
      BY <1>1 DEF Map!carries_bits
    <2>2. CASE bit_ptr + 2 = PtrMod
      BY <1>1, <2>2 DEF Map!TakeBits
    <2>3. CASE bit_ptr + 2 < PtrMod
      BY <1>1, <2>3 DEF Map!TakeBits
    <2>. QED
      BY <2>1, <2>2, <2>3
  <1>2. CASE ~Map!carries_bits
    BY <1>2 DEF Map!TakeBits
  <1>. QED
    BY <1>1, <1>2

(* The mapper: its registers stay in range, and it moves with the IFFT.     *)
LEMMA MapperStep ==
    ASSUME TxInv, NEW vld \in BOOLEAN, NEW cw, TxTick(vld, cw)
    PROVE  /\ active' \in BOOLEAN /\ bin_ptr' \in 0 .. N_FFT - 1
           /\ sym_cnt' \in 0 .. N_SYM - 1
           /\ bit_ptr' \in 0 .. PtrMod - 1 /\ bit_ptr' % 2 = 0
           /\ ifft_in_cnt' \in 0 .. N_FFT - 1 /\ ifft_load_done' \in BOOLEAN
           /\ LoadAligned'
  <1> USE TxConstants DEF TxInv, LoadAligned
  <1>1. /\ active \in BOOLEAN /\ bin_ptr \in 0 .. N_FFT - 1 /\ sym_cnt \in 0 .. N_SYM - 1
        /\ bit_ptr \in 0 .. PtrMod - 1 /\ bit_ptr % 2 = 0 /\ ifft_load_done \in BOOLEAN
    BY DEF TxInRange
  <1>2. /\ Map!MapLoad(vld, cw) \/ Map!MapAdvance(Ifft!s_tready)
               \/ Map!MapHold(vld, Ifft!s_tready)
        /\ Ifft!LoadTaken \/ Ifft!LoadSample(active, Map!ifft_tdata)
               \/ Ifft!LoadHold(active)
    BY TickParts DEF Map!Clock, Ifft!Load
  <1>3. CASE Map!MapLoad(vld, cw)
    <2>1. ifft_in_cnt' = 0 /\ ifft_load_done' \in BOOLEAN
      BY <1>1, <1>2, <1>3 DEF Map!MapLoad, Ifft!LoadTaken, Ifft!LoadSample,
                              Ifft!LoadHold, Ifft!loadRegs
    <2>. QED
      BY <1>3, <2>1 DEF Map!MapLoad
  <1>4. CASE Map!MapAdvance(Ifft!s_tready)
    <2>1. active /\ ~ifft_load_done /\ Map!NextBin /\ Map!TakeBits
      BY <1>4 DEF Map!MapAdvance, Ifft!s_tready
    <2>2. Ifft!LoadSample(active, Map!ifft_tdata)
      BY <1>2, <2>1 DEF Ifft!LoadTaken, Ifft!LoadHold, Ifft!s_tready
    <2>3. /\ active' \in BOOLEAN /\ bin_ptr' \in 0 .. N_FFT - 1
          /\ sym_cnt' \in 0 .. N_SYM - 1
          /\ bin_ptr' = (IF bin_ptr = N_FFT - 1 THEN 0 ELSE bin_ptr + 1)
          /\ ~active' => bin_ptr' = 0
      <3>1. active' \in BOOLEAN
        BY <1>1, <2>1, Zenon DEF Map!NextBin
      <3>2. CASE bin_ptr # N_FFT - 1
        <4>1. bin_ptr' = bin_ptr + 1 /\ sym_cnt' = sym_cnt /\ active'
          BY <2>1, <3>2, Zenon DEF Map!NextBin
        <4>. QED
          BY <1>1, <3>1, <3>2, <4>1
      <3>3. CASE bin_ptr = N_FFT - 1 /\ ~Map!last_sym
        <4>1. bin_ptr' = 0 /\ sym_cnt' = sym_cnt + 1 /\ sym_cnt # N_SYM - 1
          BY <2>1, <3>3, Zenon DEF Map!NextBin, Map!last_sym
        <4>. QED
          BY <1>1, <3>1, <3>3, <4>1
      <3>4. CASE bin_ptr = N_FFT - 1 /\ Map!last_sym
        <4>1. bin_ptr' = 0 /\ sym_cnt' = sym_cnt
          BY <2>1, <3>4, Zenon DEF Map!NextBin
        <4>. QED
          BY <1>1, <3>1, <3>4, <4>1
      <3>. QED
        BY <3>2, <3>3, <3>4
    <2>4. /\ ifft_in_cnt' = (IF ifft_in_cnt = N_FFT - 1 THEN 0 ELSE ifft_in_cnt + 1)
          /\ ifft_load_done' \in BOOLEAN
      BY <1>1, <2>2 DEF Ifft!LoadSample
    <2>. QED
      BY <1>1, <2>1, <2>3, <2>4, TakeBitsType
  <1>5. CASE Map!MapHold(vld, Ifft!s_tready)
    <2>1. ifft_in_cnt' = ifft_in_cnt /\ ifft_load_done' \in BOOLEAN
      BY <1>1, <1>2, <1>5 DEF Map!MapHold, Ifft!LoadTaken, Ifft!LoadSample,
                              Ifft!LoadHold, Ifft!loadRegs
    <2>. QED
      BY <1>1, <1>5, <2>1 DEF Map!MapHold, Map!mapRegs
  <1>. QED
    BY <1>2, <1>3, <1>4, <1>5

(* The writer of cp_insert moves on exactly when it takes a sample; it can  *)
(* only become full at place 0.                                             *)
LEMMA WriterStep ==
    ASSUME TxInv, NEW vld \in BOOLEAN, NEW cw, TxTick(vld, cw)
    PROVE  /\ wr_bank' \in {0, 1} /\ wr_full' \in BOOLEAN
           /\ wr_full' => wr_ptr' = 0
           /\ ifft_m_tvalid /\ ~wr_full
                => wr_ptr' = (IF wr_ptr = N_FFT - 1 THEN 0 ELSE wr_ptr + 1)
           /\ ~(ifft_m_tvalid /\ ~wr_full) => wr_ptr' = wr_ptr
  <1> USE TxConstants
  <1>1. /\ wr_bank \in {0, 1} /\ wr_ptr \in 0 .. N_FFT - 1 /\ wr_full \in BOOLEAN
        /\ wr_full => wr_ptr = 0
    BY DEF TxInv, TxInRange, OutAligned
  <1>2. CASE Cp!WrRelease
    <2>1. wr_full /\ wr_full' = FALSE /\ wr_bank' = 1 - wr_bank /\ wr_ptr' = 0
      BY <1>2, Zenon DEF Cp!WrRelease
    <2>2. wr_full' \in BOOLEAN
      BY <2>1, Zenon
    <2>. QED
      BY <1>1, <2>1, <2>2
  <1>3. CASE Cp!WrAccept(ifft_m_tvalid, ifft_m_tdata)
    <2>1. wr_full' \in BOOLEAN
      BY <1>1, <1>3, Zenon DEF Cp!WrAccept
    <2>2. ifft_m_tvalid /\ ~wr_full /\ wr_bank' = wr_bank
      BY <1>3 DEF Cp!WrAccept, Cp!s_tready
    <2>3. \/ wr_ptr # N_FFT - 1 /\ wr_ptr' = wr_ptr + 1 /\ wr_full' = wr_full
          \/ wr_ptr = N_FFT - 1 /\ wr_ptr' = 0
      BY <1>3 DEF Cp!WrAccept
    <2>. QED
      BY <1>1, <2>1, <2>2, <2>3
  <1>4. CASE Cp!WrHold(ifft_m_tvalid)
    BY <1>1, <1>4 DEF Cp!WrHold, Cp!wrRegs, Cp!s_tready
  <1>. QED
    BY <1>2, <1>3, <1>4, TickParts DEF Cp!Writer

(* The IFFT's output side and the writer of cp_insert move together.        *)
LEMMA OutputStep ==
    ASSUME TxInv, NEW vld \in BOOLEAN, NEW cw, TxTick(vld, cw)
    PROVE  /\ ifft_out_cnt' \in 0 .. N_FFT - 1 /\ ifft_out_busy' \in BOOLEAN
           /\ ifft_m_tvalid' \in BOOLEAN
           /\ wr_bank' \in {0, 1} /\ wr_ptr' \in 0 .. N_FFT - 1 /\ wr_full' \in BOOLEAN
           /\ OutAligned' /\ Streaming'
  <1> USE TxConstants
  <1>1. /\ ifft_out_cnt \in 0 .. N_FFT - 1 /\ ifft_out_busy \in BOOLEAN
        /\ ifft_m_tvalid \in BOOLEAN
        /\ wr_bank \in {0, 1} /\ wr_ptr \in 0 .. N_FFT - 1 /\ wr_full \in BOOLEAN
    BY DEF TxInv, TxInRange
  <1>2. OutAligned /\ Streaming
    BY DEF TxInv
  <1>3. /\ wr_bank' \in {0, 1} /\ wr_full' \in BOOLEAN
        /\ wr_full' => wr_ptr' = 0
        /\ ifft_m_tvalid /\ ~wr_full
             => wr_ptr' = (IF wr_ptr = N_FFT - 1 THEN 0 ELSE wr_ptr + 1)
        /\ ~(ifft_m_tvalid /\ ~wr_full) => wr_ptr' = wr_ptr
    BY WriterStep
  <1>4. CASE Ifft!OutIdle
    <2>1. ~ifft_out_busy /\ ~ifft_load_done /\ ifft_m_tvalid' = FALSE
          /\ ifft_out_cnt' = ifft_out_cnt /\ ifft_out_busy' = ifft_out_busy
          /\ ifft_out_cnt = 0
      BY <1>2, <1>4, Zenon DEF Ifft!OutIdle, OutAligned
    <2>2. wr_ptr' = 0
      BY <1>1, <1>2, <1>3, <2>1 DEF OutAligned
    <2>3. Streaming'
      BY <2>1, TickParts, Zenon DEF Streaming
    <2>. QED
      BY <1>1, <1>3, <2>1, <2>2, <2>3 DEF OutAligned
  <1>5. CASE Ifft!OutCompute
    <2>1. ~ifft_out_busy /\ ifft_load_done /\ ifft_m_tvalid' = FALSE
          /\ ifft_out_cnt' = 0 /\ ifft_out_busy' = TRUE
      BY <1>5, Zenon DEF Ifft!OutCompute
    <2>2. wr_ptr' = 0
      BY <1>1, <1>2, <1>3, <2>1 DEF OutAligned
    <2>3. ifft_out_buf' = [n \in 0 .. N_FFT - 1 |-> Ifft!Time(ifft_in_buf, n)]
      BY <1>2, <1>5, <2>1 DEF Ifft!OutCompute, Ifft!Dft, Ifft!Point, Streaming
    <2>4. Streaming'
      BY <2>3, TickParts DEF Streaming, Ifft!Time
    <2>5. OutAligned'
      BY <1>3, <2>1, <2>2, Zenon DEF OutAligned
    <2>6. ifft_out_busy' \in BOOLEAN /\ ifft_m_tvalid' \in BOOLEAN
      BY <2>1, Zenon
    <2>. QED
      BY <1>1, <1>3, <2>1, <2>2, <2>4, <2>5, <2>6
  <1>6. CASE Ifft!OutDrive(Cp!s_tready)
    <2>1. /\ ifft_out_busy /\ (~wr_full \/ ~ifft_m_tvalid)
          /\ ifft_m_tdata' = ifft_out_buf[ifft_out_cnt] /\ ifft_m_tvalid' = TRUE
          /\ ifft_out_buf' = ifft_out_buf
      BY <1>6 DEF Ifft!OutDrive, Cp!s_tready
    <2>2. \/ ifft_out_cnt # N_FFT - 1 /\ ifft_out_cnt' = ifft_out_cnt + 1
                /\ ifft_out_busy'
          \/ ifft_out_cnt = N_FFT - 1 /\ ifft_out_cnt' = 0 /\ ifft_out_busy' = FALSE
      BY <1>6 DEF Ifft!OutDrive
    <2>3. ifft_out_buf[ifft_out_cnt].n = ifft_out_cnt
      BY <1>1, <1>2, <2>1 DEF Streaming
    <2>4. ifft_m_tdata'.n = ifft_out_cnt
      BY <2>1, <2>3
    <2>5. wr_ptr' = ifft_out_cnt
      BY <1>1, <1>2, <1>3, <2>1 DEF OutAligned
    <2>6. /\ ifft_out_busy' => ifft_out_busy
          /\ ifft_out_busy' \in BOOLEAN /\ ifft_m_tvalid' \in BOOLEAN
      BY <1>1, <1>6, <2>1, Zenon DEF Ifft!OutDrive
    <2>7. Streaming'
      BY <1>2, <2>1, <2>6, TickParts, Zenon DEF Streaming
    <2>8. OutAligned'
      <3>1. CASE ifft_out_cnt # N_FFT - 1
        <4>1. ifft_out_busy' /\ ifft_out_cnt' = ifft_out_cnt + 1
          BY <2>1, <2>2, <3>1, Zenon
        <4>. QED
          BY <1>3, <2>1, <2>4, <2>5, <4>1 DEF OutAligned
      <3>2. CASE ifft_out_cnt = N_FFT - 1
        <4>1. ~ifft_out_busy' /\ ifft_out_cnt' = 0
          BY <2>2, <3>2, Zenon
        <4>. QED
          BY <1>3, <2>1, <2>4, <2>5, <3>2, <4>1 DEF OutAligned
      <3>. QED
        BY <3>1, <3>2
    <2>9. ifft_out_cnt' \in 0 .. N_FFT - 1
      BY <1>1, <2>2
    <2>. QED
      BY <1>1, <1>3, <2>5, <2>6, <2>7, <2>8, <2>9
  <1>7. CASE Ifft!OutWait(Cp!s_tready)
    <2>1. /\ ifft_out_busy /\ wr_full /\ ifft_m_tvalid
          /\ UNCHANGED <<ifft_out_buf, ifft_out_cnt, ifft_out_busy,
                         ifft_m_tvalid, ifft_m_tdata>>
      BY <1>7 DEF Ifft!OutWait, Ifft!outputRegs, Cp!s_tready
    <2>2. wr_ptr' = 0 /\ wr_ptr = 0
      BY <1>2, <1>3, <2>1 DEF OutAligned
    <2>3. Streaming'
      BY <1>2, <2>1, TickParts, Zenon DEF Streaming
    <2>. QED
      BY <1>1, <1>2, <1>3, <2>1, <2>2, <2>3 DEF OutAligned
  <1>. QED
    BY <1>4, <1>5, <1>6, <1>7, TickParts DEF Ifft!Output

(* The reader of cp_insert and the counters of the environment.             *)
LEMMA ReaderStep ==
    ASSUME TxInv, NEW vld \in BOOLEAN, NEW cw, TxTick(vld, cw)
    PROVE  /\ rd_bank' \in {0, 1} /\ rd_ptr' \in 0 .. N_OUT - 1
           /\ rd_active' \in BOOLEAN /\ m_tvalid' \in BOOLEAN
  <1>1. /\ rd_bank \in {0, 1} /\ rd_ptr \in 0 .. N_OUT - 1
        /\ rd_active \in BOOLEAN /\ m_tvalid \in BOOLEAN
    BY DEF TxInv, TxInRange
  <1> USE TickParts DEF Cp!Reader, Cp!RdActivate, Cp!RdWait, Cp!RdAdvance,
                        Cp!RdFinish, Cp!RdStall, Cp!RdLoad
  <1>2. rd_active' \in BOOLEAN /\ m_tvalid' \in BOOLEAN
    BY <1>1, Zenon
  <1>3. \/ rd_bank' = rd_bank /\ (rd_ptr' = rd_ptr \/ rd_ptr' = 0)
        \/ rd_bank' = rd_bank /\ rd_ptr # Cp!N_OUT - 1 /\ rd_ptr' = rd_ptr + 1
        \/ rd_bank' = 1 - rd_bank /\ rd_ptr' = 0
    BY Zenon
  <1>4. rd_bank' \in {0, 1} /\ rd_ptr' \in 0 .. N_OUT - 1
    BY ONLY TxConstants, <1>1, <1>3
  <1>. QED
    BY <1>2, <1>4

LEMMA TxInvStep ==
    ASSUME TxInv, NEW vld \in BOOLEAN, NEW cw, TxTick(vld, cw)
    PROVE  TxInv'
  <1>1. TxInRange'
    BY MapperStep, OutputStep, ReaderStep DEF TxInRange, N_OUT
  <1>. QED
    BY <1>1, MapperStep, OutputStep DEF TxInv

(* The codewords the mapper takes are of those the encoder offers.          *)
LEMMA SentStep ==
    ASSUME NEW Words, sent \in Seq(Words), NEW cw \in Words,
           NEW vld \in BOOLEAN, TxTick(vld, cw)
    PROVE  /\ sent' \in Seq(Words)
           /\ Len(sent') = Len(sent) + One(vld /\ ~active)
  <1>1. sent' = (IF vld /\ ~active THEN Append(sent, cw) ELSE sent)
    BY TickParts
  <1>2. CASE vld /\ ~active
    BY <1>1, <1>2 DEF One
  <1>3. CASE ~(vld /\ ~active)
    BY <1>1, <1>3 DEF One
  <1>. QED
    BY <1>2, <1>3

(* The environment's counters: no codeword is taken that was not offered.   *)
Offers == sent \in Seq(Nat) /\ tx_offered \in 0 .. MaxCw /\ Len(sent) <= tx_offered

LEMMA TxStutters ==
    ASSUME TxInv, UNCHANGED txVars
    PROVE  TxInv'
  <1>1. UNCHANGED <<active, bit_ptr, bin_ptr, sym_cnt, ifft_inverse_q, ifft_in_cnt,
                    ifft_load_done, ifft_out_buf, ifft_out_cnt, ifft_out_busy,
                    ifft_m_tvalid, ifft_m_tdata, wr_bank, wr_ptr, wr_full, rd_bank,
                    rd_ptr, rd_active, m_tvalid>>
    BY DEF txVars, txRegs
  <1>. QED
    BY <1>1 DEF TxInv, TxInRange, LoadAligned, OutAligned, Streaming, N_OUT

LEMMA NextTxInv == TxInv /\ Offers /\ [TxNext]_txVars => TxInv' /\ Offers'
  <1> SUFFICES ASSUME TxInv, Offers, [TxNext]_txVars PROVE TxInv' /\ Offers'
    OBVIOUS
  <1>1. ASSUME NEW vld \in BOOLEAN, vld => tx_offered < MaxCw, TxTick(vld, tx_offered)
        PROVE  TxInv' /\ Offers'
    <2>1. TxInv'
      BY <1>1, TxInvStep
    <2>2. sent \in Seq(Nat) /\ tx_offered \in 0 .. MaxCw /\ Len(sent) <= tx_offered
      BY DEF Offers
    <2>3. sent' \in Seq(Nat) /\ Len(sent') = Len(sent) + One(vld /\ ~active)
      <3>1. tx_offered \in Nat
        BY <2>2
      <3>. QED
        BY <1>1, <2>2, <3>1, SentStep
    <2>4. tx_offered' = tx_offered + One(vld) /\ One(vld /\ ~active) <= One(vld)
      <3>1. tx_offered' = (IF vld THEN tx_offered + 1 ELSE tx_offered)
        BY <1>1, TickParts
      <3>. QED
        BY <2>2, <3>1 DEF One
    <2>5. One(vld) \in {0, 1} /\ One(vld /\ ~active) \in {0, 1} /\ (vld <=> One(vld) = 1)
      BY DEF One
    <2>6. tx_offered' \in 0 .. MaxCw /\ Len(sent') <= tx_offered'
      <3>1. Len(sent) \in Nat /\ MaxCw \in Nat
        BY <2>2, TxConstants
      <3>. QED
        BY ONLY <1>1, <2>2, <2>3, <2>4, <2>5, <3>1
    <2>. QED
      BY <2>1, <2>3, <2>6 DEF Offers
  <1>2. CASE UNCHANGED txVars
    BY <1>2, TxStutters DEF Offers, txVars
  <1>. QED
    BY <1>1, <1>2 DEF TxNext

LEMMA TxInvariant == TxSpec => [](TxInv /\ Offers)
  <1>1. TxInit => Offers
    <2> SUFFICES ASSUME TxInit PROVE Offers
      OBVIOUS
    <2>1. tx_offered = 0 /\ sent = <<>>
      BY DEF TxInit
    <2>2. sent \in Seq(Nat) /\ Len(sent) = 0
      BY <2>1
    <2>. QED
      BY <2>1, <2>2, TxConstants DEF Offers
  <1>. QED
    BY <1>1, InitRest, RestTxInv, NextTxInv, PTL DEF TxSpec

-----------------------------------------------------------------------------
(* The registers of the three blocks stay in range, and the bit pointer     *)
(* even (tx_subcarrier_map.v:25-28, 61).                                    *)
THEOREM TxTypeCorrect == TxSpec => []TxTypeOK
  <1>1. TxInv /\ Offers => TxTypeOK
    BY DEF TxInv, Offers, TxTypeOK
  <1>. QED
    BY <1>1, TxInvariant, PTL

(* The counters of the mapper, the IFFT and cp_insert agree for good        *)
(* (tx_subcarrier_map.v:88-97, xfft_stub.v:94-99, cp_insert.v:64-69).       *)
THEOREM TxCountersAligned == TxSpec => []TxAligned
  <1>1. TxInv => TxAligned
    BY DEF TxInv, LoadAligned, OutAligned, TxAligned
  <1>. QED
    BY <1>1, TxInvariant, PTL

(* The last sample of a block, which the IFFT offers for one clock only     *)
(* (xfft_stub.v:159-161), finds cp_insert ready: a full bank has its writer *)
(* at place 0, and the last sample is written at place N_FFT - 1.           *)
THEOREM LastSampleIsTaken == TxSpec => []LastSampleTaken
  <1>1. TxInv => LastSampleTaken
    BY TxConstants DEF TxInv, OutAligned, LastSampleTaken, Cp!s_tready
  <1>. QED
    BY <1>1, TxInvariant, PTL

-----------------------------------------------------------------------------
(***************************************************************************)
(* FrameInOrder: what leaves the transmit path is symbol after symbol of   *)
(* the codewords the mapper took, each bin with the bits that belong there.*)
(* The invariant numbers the symbols absolutely and says of every buffer   *)
(* of the pipeline which symbol it holds.                                  *)
(***************************************************************************)
(* The absolute numbers of the symbols the blocks are busy with: the one    *)
(* the mapper fills, the one on the IFFT's output, the one in the bank of   *)
(* cp_insert's writer.                                                      *)
TxLoadSym == IF active THEN (Len(sent) - 1) * N_SYM + sym_cnt ELSE Len(sent) * N_SYM
OutSym  == TxLoadSym - One(ifft_load_done) - One(ifft_out_busy \/ ifft_m_tvalid)
WrSym   == OutSym - One(wr_full)

(* The place of the next sample cp_insert's reader puts on the output.      *)
RdPlace == IF m_tvalid THEN NextPlace(place) ELSE place

(* Block X is symbol S of the codewords cws; x is sample n of its body.     *)
Good(X, S, cws) == S \in Nat /\ S \div N_SYM < Len(cws) /\ X = BlockOf(cws, S)

Is(x, n, S, cws) == S \in Nat /\ S \div N_SYM < Len(cws) /\ x = BodySample(cws, S, n)

(* Where bit_ptr stands at slot k of the frame.                             *)
Spot(k) == IF BitAt(k) < N_CW THEN BitAt(k) ELSE N_CW

MapperInv ==
    active =>
        /\ Len(sent) >= 1 /\ cw_reg = sent[Len(sent)]
        /\ bit_ptr = Spot(Slot(sym_cnt, bin_ptr))

TxLoadInv ==
    /\ ifft_in_buf = [i \in 0 .. N_FFT - 1 |-> ifft_in_buf[i]]
    /\ active => \A b \in 0 .. N_FFT - 1 :
          b < ifft_in_cnt => ifft_in_buf[b] = BinOf(sent[Len(sent)], sym_cnt, b)
    /\ ifft_load_done => ifft_in_cnt = 0 /\ Good(ifft_in_buf, TxLoadSym - 1, sent)

TxOutInv ==
    /\ OutSym \in Nat
    /\ ifft_out_busy => \A n \in 0 .. N_FFT - 1 : Is(ifft_out_buf[n], n, OutSym, sent)
    /\ ifft_m_tvalid => Is(ifft_m_tdata, wr_ptr, OutSym, sent)

BankInv ==
    /\ DOMAIN buf = {0, 1} /\ \A k \in {0, 1} : DOMAIN buf[k] = 0 .. N_FFT - 1
    /\ \A i \in 0 .. N_FFT - 1 :
          i < wr_ptr \/ wr_full => Is(buf[wr_bank][i], i, WrSym, sent)

ReaderInv ==
    /\ place \in [sym : Nat, pos : 0 .. N_OUT - 1]
    /\ RdPlace.pos = rd_ptr
    /\ ~rd_active => rd_ptr = 0
    /\ rd_bank = wr_bank => RdPlace.sym = WrSym
    /\ rd_bank # wr_bank => RdPlace.sym = WrSym - 1 /\ rd_active
    /\ rd_active /\ rd_bank = wr_bank => wr_full /\ rd_ptr = 0
    /\ rd_active => \A i \in 0 .. N_FFT - 1 : Is(buf[rd_bank][i], i, RdPlace.sym, sent)
    /\ m_tvalid => Is(m_tdata, Cp!rd_buf_idx(place.pos), place.sym, sent)

FrameInv == MapperInv /\ TxLoadInv /\ TxOutInv /\ BankInv /\ ReaderInv

-----------------------------------------------------------------------------
(* Slot goes on by two at every data bin, and on to the next symbol.        *)
LEMMA SlotNext ==
    ASSUME NEW s \in 0 .. N_SYM - 1, NEW b \in 0 .. N_FFT - 1
    PROVE  /\ Slot(s, b) \in Nat /\ Slot(s, b) % 2 = 0
           /\ b # N_FFT - 1 => Slot(s, b + 1) = Slot(s, b) + 2 * One(b \in DataBins)
           /\ b = N_FFT - 1 => Slot(s + 1, 0) = Slot(s, b) + 2 * One(b \in DataBins)
           /\ Slot(0, 0) = 0
  <1> DEFINE D == Cardinality(DataBins)
             C(c) == Below(DataBins, c)
  <1>1. \A k \in Nat, c \in 0 .. N_FFT : Slot(k, c) = 2 * (k * D + C(c))
    BY DEF Slot, Rank, Below
  <1>2. /\ D \in Nat /\ C(b) \in Nat /\ C(b + 1) = C(b) + One(b \in DataBins)
        /\ C(0) = 0 /\ C(N_FFT) = D /\ One(b \in DataBins) \in Nat
    <2>1. N_FFT \in Nat /\ DataBins \subseteq 0 .. N_FFT - 1
      BY TxConstants
    <2>2. One(b \in DataBins) \in Nat
      BY DEF One
    <2>. QED
      BY <2>1, <2>2, BelowCounts
  <1> HIDE DEF D, C
  <1>3. s * D \in Nat /\ (s + 1) * D = s * D + D /\ 0 * D = 0
    BY <1>2, TxConstants
  <1>4. /\ Slot(s, b) = 2 * (s * D + C(b))
        /\ b # N_FFT - 1 => Slot(s, b + 1) = 2 * (s * D + C(b + 1))
        /\ Slot(s + 1, 0) = 2 * ((s + 1) * D + C(0))
        /\ Slot(0, 0) = 2 * (0 * D + C(0))
    BY <1>1, TxConstants
  <1>5. b = N_FFT - 1 => b + 1 = N_FFT
    BY TxConstants
  <1> DEFINE P == s * D
             Q == (s + 1) * D
             Z == 0 * D
  <1>6. /\ Slot(s, b) = 2 * (P + C(b))
        /\ b # N_FFT - 1 => Slot(s, b + 1) = 2 * (P + C(b + 1))
        /\ Slot(s + 1, 0) = 2 * (Q + C(0))
        /\ Slot(0, 0) = 2 * (Z + C(0))
        /\ P \in Nat /\ Q = P + D /\ Z = 0
    BY <1>3, <1>4
  <1> HIDE DEF P, Q, Z
  <1>7. \A i \in Nat : (2 * i) % 2 = 0
    OBVIOUS
  <1>8. P + C(b) \in Nat
    BY <1>2, <1>6
  <1>. QED
    BY <1>2, <1>5, <1>6, <1>7, <1>8

(* The bit pointer in step with it: two bits further, past the end or back  *)
(* to the head.                                                             *)
LEMMA Remainder ==
    ASSUME NEW n \in Nat \ {0}, NEW q \in Nat, NEW r \in 0 .. n - 1
    PROVE  (q * n + r) % n = r
  BY Z3

LEMMA RemainderNext ==
    ASSUME NEW n \in Nat \ {0}, NEW k \in Nat, n % 2 = 0, k % 2 = 0
    PROVE  /\ k % n \in 0 .. n - 2 /\ (k % n) % 2 = 0
           /\ (k + 2) % n = ((k % n) + 2) % n
  <1> DEFINE q == k \div n
             r == k % n
             h == n \div 2
  <1>1. q \in Nat /\ r \in 0 .. n - 1 /\ k = n * q + r
    BY Z3
  <1>2. h \in Nat /\ n = 2 * h
    BY Z3
  <1>3. n * q = 2 * (h * q) /\ h * q \in Nat
    BY <1>1, <1>2, Z3
  <1>4. n * (q + 1) = n * q + n
    BY <1>1, Z3
  <1> HIDE DEF q, r, h
  <1>5. r % 2 = 0 /\ r <= n - 2
    <2> DEFINE e == h * q
    <2>1. e \in Nat /\ k = 2 * e + r
      BY <1>1, <1>3
    <2> HIDE DEF e
    <2>. QED
      BY <1>1, <1>2, <2>1
  <1>6. CASE r + 2 < n
    <2>1. k + 2 = q * n + (r + 2) /\ r + 2 \in 0 .. n - 1
      BY <1>1, <1>6, Z3
    <2>2. (q * n + (r + 2)) % n = r + 2
      BY <1>1, <2>1, Remainder
    <2>3. (r + 2) % n = r + 2
      BY <1>1, <1>6
    <2>. QED
      BY <1>1, <1>5, <2>1, <2>2, <2>3 DEF r
  <1>7. CASE r + 2 = n
    <2>1. k + 2 = (q + 1) * n + 0
      BY <1>1, <1>4, <1>7, Z3
    <2>2. ((q + 1) * n + 0) % n = 0 /\ n % n = 0
      <3>1. q + 1 \in Nat /\ 0 \in 0 .. n - 1
        BY <1>1
      <3>2. ((q + 1) * n + 0) % n = 0
        BY <3>1, Remainder
      <3>. QED
        BY <3>2
    <2>. QED
      BY <1>1, <1>5, <1>7, <2>1, <2>2 DEF r
  <1>. QED
    BY <1>1, <1>5, <1>6, <1>7

LEMMA SpotNext ==
    ASSUME NEW k \in Nat, k % 2 = 0
    PROVE  /\ Spot(k) < N_CW - 1 => Spot(k + 2) = (Spot(k) + 2) % PtrMod
           /\ Spot(k) < N_CW - 1 <=> BitAt(k) < N_CW
           /\ ~(Spot(k) < N_CW - 1) => Spot(k + 2) = Spot(k)
           /\ Spot(0) = 0
  <1>1. /\ N_CW \in Nat \ {0} /\ N_CW % 2 = 0 /\ PtrMod \in Nat /\ PtrMod >= N_CW
    BY TxConstants
  <1>2. CASE PtrMod = N_CW
    <2>1. /\ k % N_CW \in 0 .. N_CW - 2 /\ (k + 2) % N_CW = ((k % N_CW) + 2) % N_CW
      BY <1>1, RemainderNext
    <2>2. (k + 2) % N_CW \in 0 .. N_CW - 1 /\ 0 % N_CW = 0
      BY <1>1
    <2>. QED
      BY <1>1, <1>2, <2>1, <2>2 DEF Spot, BitAt
  <1>3. CASE PtrMod # N_CW
    <2>1. BitAt(k) = k /\ BitAt(k + 2) = k + 2 /\ BitAt(0) = 0
      BY <1>3 DEF BitAt
    <2>2. k < N_CW => k <= N_CW - 2 /\ (k + 2) % PtrMod = k + 2
      BY <1>1, <1>3
    <2>. QED
      BY <1>1, <2>1, <2>2 DEF Spot
  <1>. QED
    BY <1>2, <1>3

(* Taking a further codeword changes nothing for the symbols of the others. *)
LEMMA GoodAppend ==
    ASSUME NEW Words, NEW cws \in Seq(Words), NEW c \in Words, NEW S, S \in Nat,
           S \div N_SYM < Len(cws)
    PROVE  /\ S \div N_SYM < Len(Append(cws, c))
           /\ BlockOf(Append(cws, c), S) = BlockOf(cws, S)
  <1>1. S \div N_SYM \in Nat
    BY TxConstants
  <1>2. /\ Len(Append(cws, c)) = Len(cws) + 1
        /\ Append(cws, c)[S \div N_SYM + 1] = cws[S \div N_SYM + 1]
    BY <1>1
  <1>. QED
    BY <1>1, <1>2 DEF BlockOf

LEMMA GoodStep ==
    ASSUME NEW Words, sent \in Seq(Words), NEW cw \in Words,
           NEW vld \in BOOLEAN, TxTick(vld, cw)
    PROVE  /\ \A X, S : Good(X, S, sent) => Good(X, S, sent')
           /\ \A x, n, S : Is(x, n, S, sent) => Is(x, n, S, sent')
  <1>1. sent' = Append(sent, cw) \/ sent' = sent
    BY TickParts
  <1>2. ASSUME NEW S, S \in Nat, S \div N_SYM < Len(sent)
        PROVE  S \div N_SYM < Len(sent') /\ BlockOf(sent', S) = BlockOf(sent, S)
    <2>1. CASE sent' = Append(sent, cw)
      <3>1. /\ S \div N_SYM < Len(Append(sent, cw))
            /\ BlockOf(Append(sent, cw), S) = BlockOf(sent, S)
        BY <1>2, GoodAppend
      <3>. QED
        BY <2>1, <3>1
    <2>2. CASE sent' = sent
      BY <1>2, <2>2
    <2>. QED
      BY <1>1, <2>1, <2>2
  <1>. QED
    BY <1>2 DEF Good, Is, BodySample

-----------------------------------------------------------------------------
LEMMA RestFrameInv == TxRest => FrameInv
  <1> SUFFICES ASSUME TxRest PROVE FrameInv
    OBVIOUS
  <1>1. N_FFT \in 2 .. 64 /\ N_SYM \in 1 .. 16 /\ N_OUT \in Nat \ {0}
    BY TxConstants
  <1>2. /\ active = FALSE /\ ifft_in_buf = [i \in 0 .. N_FFT - 1 |-> ifft_in_buf[i]]
        /\ ifft_load_done = FALSE /\ ifft_out_busy = FALSE /\ ifft_m_tvalid = FALSE
    BY DEF TxRest
  <1>3. /\ DOMAIN buf = {0, 1} /\ \A k \in {0, 1} : DOMAIN buf[k] = 0 .. N_FFT - 1
        /\ wr_bank = 0 /\ wr_ptr = 0 /\ wr_full = FALSE
        /\ rd_bank = 0 /\ rd_ptr = 0 /\ rd_active = FALSE /\ m_tvalid = FALSE
    BY DEF TxRest
  <1>4. Len(sent) = 0 /\ place = [sym |-> 0, pos |-> 0]
    BY DEF TxRest
  <1>5. TxLoadSym = 0 /\ OutSym = 0 /\ WrSym = 0
    BY <1>1, <1>2, <1>3, <1>4 DEF TxLoadSym, OutSym, WrSym, One
  <1>6. MapperInv /\ TxLoadInv /\ TxOutInv
    BY <1>2, <1>5 DEF MapperInv, TxLoadInv, TxOutInv
  <1>7. BankInv
    BY <1>1, <1>3 DEF BankInv
  <1>8. ReaderInv
    <2>1. RdPlace = place
      BY <1>3 DEF RdPlace
    <2>. QED
      BY <1>1, <1>3, <1>4, <1>5, <2>1 DEF ReaderInv
  <1>. QED
    BY <1>6, <1>7, <1>8 DEF FrameInv

(* The bin the mapper offers is the one its place in the frame calls for.   *)
LEMMA OfferedBin ==
    ASSUME TxInv, MapperInv, active
    PROVE  /\ Map!ifft_tdata = BinOf(sent[Len(sent)], sym_cnt, bin_ptr)
           /\ Map!carries_bits <=> bin_ptr \in DataBins /\ bit_ptr < N_CW - 1
           /\ bit_ptr = Spot(Slot(sym_cnt, bin_ptr))
  <1>1. cw_reg = sent[Len(sent)] /\ bit_ptr = Spot(Slot(sym_cnt, bin_ptr))
    BY DEF MapperInv
  <1>2. bin_ptr \in 0 .. N_FFT - 1 /\ sym_cnt \in 0 .. N_SYM - 1
    BY DEF TxInv, TxInRange
  <1>3. bit_ptr < N_CW - 1 <=> BitAt(Slot(sym_cnt, bin_ptr)) < N_CW
    BY <1>1, <1>2, SlotNext, SpotNext
  <1>4. BitAt(Slot(sym_cnt, bin_ptr)) < N_CW => bit_ptr = BitAt(Slot(sym_cnt, bin_ptr))
    BY <1>1 DEF Spot
  <1>. QED
    BY <1>1, <1>3, <1>4 DEF Map!ifft_tdata, Map!carries_bits, Map!Pilot, Map!Qpsk, Map!Null,
                            BinOf

(* The bits are taken in step with the bins.                                *)
LEMMA BitsInStep ==
    ASSUME TxInv, MapperInv, active, Map!TakeBits,
           NEW next, next = Slot(sym_cnt, bin_ptr) + 2 * One(bin_ptr \in DataBins)
    PROVE  bit_ptr' = Spot(next)
  <1>1. /\ Map!carries_bits <=> bin_ptr \in DataBins /\ bit_ptr < N_CW - 1
        /\ bit_ptr = Spot(Slot(sym_cnt, bin_ptr))
    BY OfferedBin
  <1>2. bin_ptr \in 0 .. N_FFT - 1 /\ sym_cnt \in 0 .. N_SYM - 1
    BY DEF TxInv, TxInRange
  <1>3. Slot(sym_cnt, bin_ptr) \in Nat /\ Slot(sym_cnt, bin_ptr) % 2 = 0
    BY <1>2, SlotNext
  <1>4. CASE bin_ptr \in DataBins
    <2>1. next = Slot(sym_cnt, bin_ptr) + 2
      BY <1>3, <1>4 DEF One
    <2>. QED
      BY <1>1, <1>3, <1>4, <2>1, SpotNext DEF Map!TakeBits
  <1>5. CASE bin_ptr \notin DataBins
    <2>1. next = Slot(sym_cnt, bin_ptr)
      BY <1>3, <1>5 DEF One
    <2>. QED
      BY <1>1, <1>5, <2>1 DEF Map!TakeBits
  <1>. QED
    BY <1>4, <1>5

(* The load side: the mapper and the IFFT's input buffer go through the     *)
(* frame together, and a full buffer is symbol LoadSym - 1.                 *)
LEMMA TxLoadFrame ==
    ASSUME TxInv, MapperInv, TxLoadInv, NEW Words, sent \in Seq(Words), NEW cw \in Words,
           NEW vld \in BOOLEAN, TxTick(vld, cw)
    PROVE  /\ MapperInv' /\ TxLoadInv'
           /\ TxLoadSym \in Nat /\ TxLoadSym' \in Nat
           /\ TxLoadSym' - One(ifft_load_done')
                = TxLoadSym - One(ifft_load_done) + One(ifft_load_done /\ ~ifft_out_busy)
  <1> DEFINE b == bin_ptr
             s == sym_cnt
  <1>1. /\ N_FFT \in 2 .. 64 /\ N_SYM \in 1 .. 16
        /\ b \in 0 .. N_FFT - 1 /\ s \in 0 .. N_SYM - 1
        /\ active \in BOOLEAN /\ ifft_load_done \in BOOLEAN /\ ifft_out_busy \in BOOLEAN
        /\ Len(sent) \in Nat
    BY TxConstants DEF TxInv, TxInRange
  <1>2. ifft_in_cnt = b /\ (~active => b = 0)
    BY DEF TxInv, LoadAligned
  <1>3. /\ Map!MapLoad(vld, cw) \/ Map!MapAdvance(Ifft!s_tready)
               \/ Map!MapHold(vld, Ifft!s_tready)
        /\ Ifft!LoadTaken \/ Ifft!LoadSample(active, Map!ifft_tdata)
               \/ Ifft!LoadHold(active)
        /\ sent' = (IF vld /\ ~active THEN Append(sent, cw) ELSE sent)
    BY TickParts DEF Map!Clock, Ifft!Load
  <1>4. active => Len(sent) >= 1 /\ cw_reg = sent[Len(sent)]
    BY DEF MapperInv
  <1>5. /\ ifft_in_buf = [i \in 0 .. N_FFT - 1 |-> ifft_in_buf[i]]
        /\ ifft_load_done => ifft_in_cnt = 0 /\ Good(ifft_in_buf, TxLoadSym - 1, sent)
    BY DEF TxLoadInv
  <1>6. TxLoadSym \in Nat
    BY <1>1, <1>4, SymbolNumber DEF TxLoadSym
  <1>7. CASE Map!MapLoad(vld, cw)
    <2>1. /\ vld /\ ~active /\ cw_reg' = cw /\ active' = TRUE
          /\ bit_ptr' = 0 /\ bin_ptr' = 0 /\ sym_cnt' = 0
      BY <1>7, Zenon DEF Map!MapLoad
    <2>2. sent' = Append(sent, cw)
      BY <1>3, <2>1
    <2>3. Len(sent') = Len(sent) + 1 /\ sent'[Len(sent')] = cw
      BY <1>1, <2>2
    <2>4. TxLoadSym' = TxLoadSym
      <3>1. TxLoadSym' = (Len(sent') - 1) * N_SYM + 0 /\ TxLoadSym = Len(sent) * N_SYM
        BY <2>1 DEF TxLoadSym
      <3>2. Len(sent') - 1 = Len(sent)
        BY <1>1, <2>3
      <3>. QED
        BY <1>1, <1>6, <3>1, <3>2
    <2>5. MapperInv'
      <3>1. Slot(0, 0) = 0 /\ Spot(0) = 0
        BY <1>1, SlotNext, SpotNext
      <3>. QED
        BY <1>1, <2>1, <2>3, <3>1 DEF MapperInv
    <2>6. /\ ifft_in_buf' = ifft_in_buf /\ ifft_in_cnt' = 0
          /\ \/ ifft_load_done /\ ~ifft_out_busy /\ ~ifft_load_done'
             \/ ~(ifft_load_done /\ ~ifft_out_busy) /\ ifft_load_done' = ifft_load_done
      BY <1>2, <1>3, <2>1
         DEF Ifft!LoadTaken, Ifft!LoadSample, Ifft!LoadHold, Ifft!loadRegs
    <2>7. ifft_load_done => Good(ifft_in_buf', TxLoadSym' - 1, sent')
      BY <1>5, <2>4, <2>6, GoodStep
    <2>8. ifft_load_done' => ifft_load_done
      BY <2>6
    <2>9. TxLoadInv'
      BY <1>1, <1>5, <2>6, <2>7, <2>8 DEF TxLoadInv
    <2>. QED
      BY <1>6, <2>4, <2>5, <2>6, <2>9 DEF One
  <1>8. CASE Map!MapAdvance(Ifft!s_tready)
    <2>1. /\ active /\ ~ifft_load_done /\ Map!TakeBits /\ Map!NextBin /\ cw_reg' = cw_reg
      BY <1>8 DEF Map!MapAdvance, Ifft!s_tready
    <2>2. sent' = sent
      BY <1>3, <2>1
    <2>3. /\ ifft_in_buf' = [ifft_in_buf EXCEPT ![b] = Map!ifft_tdata]
          /\ \/ b # N_FFT - 1 /\ ifft_in_cnt' = b + 1 /\ ~ifft_load_done'
             \/ b = N_FFT - 1 /\ ifft_in_cnt' = 0 /\ ifft_load_done'
      BY <1>2, <1>3, <2>1
         DEF Ifft!LoadTaken, Ifft!LoadSample, Ifft!LoadHold, Ifft!s_tready
    <2>4. \A c \in 0 .. N_FFT - 1 :
             c < b + 1 => ifft_in_buf'[c] = BinOf(sent[Len(sent)], s, c)
      <3>1. TAKE c \in 0 .. N_FFT - 1
      <3>2. CASE c < b
        <4>1. ifft_in_buf[c] = BinOf(sent[Len(sent)], s, c)
          BY <1>2, <2>1, <3>2 DEF TxLoadInv
        <4>2. ifft_in_buf'[c] = ifft_in_buf[c]
          BY <1>1, <1>5, <2>3, <3>2
        <4>. QED
          BY <4>1, <4>2
      <3>3. CASE c = b
        <4>1. ifft_in_buf'[c] = Map!ifft_tdata
          BY <1>1, <1>5, <2>3, <3>3
        <4>. QED
          BY <2>1, <3>3, <4>1, OfferedBin
      <3>. QED
        BY <1>1, <3>2, <3>3
    <2>5. ifft_in_buf' = [i \in 0 .. N_FFT - 1 |-> ifft_in_buf'[i]]
      BY <1>5, <2>3
    <2>6. TxLoadSym = (Len(sent) - 1) * N_SYM + s /\ Len(sent) - 1 \in Nat
      BY <1>1, <1>4, <2>1 DEF TxLoadSym
    <2>7. CASE b # N_FFT - 1
      <3>1. bin_ptr' = b + 1 /\ sym_cnt' = s /\ active' = active
        BY <2>1, <2>7, Zenon DEF Map!NextBin
      <3>2. TxLoadSym' = TxLoadSym
        BY <2>2, <3>1 DEF TxLoadSym
      <3>3. TxLoadInv'
        BY <2>2, <2>3, <2>4, <2>5, <2>7, <3>1 DEF TxLoadInv
      <3>4. bit_ptr' = Spot(Slot(s, b + 1))
        <4>1. Slot(s, b + 1) = Slot(s, b) + 2 * One(b \in DataBins)
          BY <1>1, <2>7, SlotNext
        <4>. QED
          BY <2>1, <4>1, BitsInStep
      <3>5. MapperInv'
        BY <1>4, <2>1, <2>2, <3>1, <3>4 DEF MapperInv
      <3>. QED
        BY <1>6, <2>1, <2>3, <2>7, <3>2, <3>3, <3>5 DEF One
    <2>8. CASE b = N_FFT - 1
      <3>1. /\ bin_ptr' = 0
            /\ \/ s # N_SYM - 1 /\ sym_cnt' = s + 1 /\ active' = active
               \/ s = N_SYM - 1 /\ active' = FALSE
        BY <2>1, <2>8, Zenon DEF Map!NextBin, Map!last_sym
      <3>2. TxLoadSym' = TxLoadSym + 1
        <4>1. CASE s # N_SYM - 1
          <5>1. TxLoadSym' = (Len(sent) - 1) * N_SYM + (s + 1)
            BY <2>1, <2>2, <3>1, <4>1 DEF TxLoadSym
          <5>2. s + 1 \in 0 .. N_SYM - 1
            BY <1>1, <4>1
          <5>. QED
            BY <1>1, <2>6, <5>1, <5>2, SymbolNumber
        <4>2. CASE s = N_SYM - 1
          <5>1. TxLoadSym' = Len(sent) * N_SYM
            BY <2>1, <2>2, <3>1, <4>2 DEF TxLoadSym
          <5>2. ((Len(sent) - 1) + 1) * N_SYM = (Len(sent) - 1) * N_SYM + N_SYM
            BY <1>1, <2>6, SymbolNumber
          <5>. QED
            BY <1>1, <2>6, <4>2, <5>1, <5>2
        <4>. QED
          BY <4>1, <4>2
      <3>3. Good(ifft_in_buf', TxLoadSym, sent)
        <4>1. TxLoadSym \div N_SYM = Len(sent) - 1 /\ TxLoadSym % N_SYM = s
          BY <1>1, <2>6, SymbolNumber
        <4>2. \A c \in 0 .. N_FFT - 1 :
                 ifft_in_buf'[c] = BinOf(sent[Len(sent)], s, c)
          BY <1>1, <2>4, <2>8
        <4>. QED
          BY <1>1, <1>6, <2>5, <2>6, <4>1, <4>2 DEF Good, BlockOf
      <3>4. TxLoadInv'
        <4>1. TxLoadSym' - 1 = TxLoadSym
          BY <1>6, <3>2
        <4>2. ifft_in_cnt' = 0
          BY <2>3, <2>8
        <4>3. \A c \in 0 .. N_FFT - 1 : ~(c < ifft_in_cnt')
          BY <4>2
        <4>. QED
          BY <2>2, <2>5, <3>3, <4>1, <4>2, <4>3 DEF TxLoadInv
      <3>5. bit_ptr' = Spot(Slot(s + 1, 0))
        <4>1. Slot(s + 1, 0) = Slot(s, b) + 2 * One(b \in DataBins)
          BY <1>1, <2>8, SlotNext
        <4>. QED
          BY <2>1, <4>1, BitsInStep
      <3>6. MapperInv'
        BY <1>4, <2>1, <2>2, <3>1, <3>5 DEF MapperInv
      <3>. QED
        BY <1>6, <2>1, <2>3, <2>8, <3>2, <3>4, <3>6 DEF One
    <2>. QED
      BY <2>7, <2>8
  <1>9. CASE Map!MapHold(vld, Ifft!s_tready)
    <2>1. /\ sent' = sent /\ ~(active /\ ~ifft_load_done)
          /\ UNCHANGED <<cw_reg, active, bit_ptr, bin_ptr, sym_cnt>>
      BY <1>3, <1>9, Zenon DEF Map!MapHold, Map!mapRegs, Ifft!s_tready
    <2>2. /\ ifft_in_buf' = ifft_in_buf /\ ifft_in_cnt' = ifft_in_cnt
          /\ \/ ifft_load_done /\ ~ifft_out_busy /\ ~ifft_load_done'
             \/ ~(ifft_load_done /\ ~ifft_out_busy) /\ ifft_load_done' = ifft_load_done
      BY <1>3, <2>1 DEF Ifft!LoadTaken, Ifft!LoadSample, Ifft!LoadHold,
                        Ifft!loadRegs, Ifft!s_tready
    <2>3. TxLoadSym' = TxLoadSym
      BY <2>1 DEF TxLoadSym
    <2>4. MapperInv'
      BY <2>1 DEF MapperInv
    <2>5. ifft_load_done' => ifft_load_done
      BY <2>2
    <2>6. TxLoadInv'
      BY <2>1, <2>2, <2>3, <2>5 DEF TxLoadInv
    <2>. QED
      BY <1>6, <2>2, <2>3, <2>4, <2>6 DEF One
  <1>. QED
    BY <1>3, <1>7, <1>8, <1>9

(* The IFFT's output: it turns to the next symbol when the last sample of   *)
(* the one before has been taken.                                           *)
LEMMA TxOutFrame ==
    ASSUME TxInv, FrameInv, NEW Words, sent \in Seq(Words), NEW cw \in Words,
           NEW vld \in BOOLEAN, TxTick(vld, cw)
    PROVE  /\ TxOutInv'
           /\ OutSym' = OutSym + One(ifft_m_tvalid /\ ~ifft_out_busy)
  <1>1. /\ TxOutInv /\ TxLoadInv
        /\ ifft_load_done \in BOOLEAN /\ ifft_out_busy \in BOOLEAN /\ ifft_m_tvalid \in BOOLEAN
        /\ ifft_load_done' \in BOOLEAN
        /\ N_FFT \in 2 .. 64 /\ wr_ptr \in 0 .. N_FFT - 1
        /\ ifft_out_cnt \in 0 .. N_FFT - 1
    BY MapperStep, TxConstants DEF TxInv, TxInRange, FrameInv
  <1>2. /\ TxLoadSym \in Nat /\ TxLoadSym' \in Nat
        /\ TxLoadSym' - One(ifft_load_done')
             = TxLoadSym - One(ifft_load_done) + One(ifft_load_done /\ ~ifft_out_busy)
    BY TxLoadFrame DEF FrameInv
  <1>3. /\ OutSym = TxLoadSym - One(ifft_load_done) - One(ifft_out_busy \/ ifft_m_tvalid)
        /\ OutSym' = TxLoadSym' - One(ifft_load_done') - One(ifft_out_busy' \/ ifft_m_tvalid')
        /\ OutSym \in Nat
    BY <1>1 DEF OutSym, TxOutInv
  <1>11. /\ One(ifft_load_done) \in Nat /\ One(ifft_load_done') \in Nat
        /\ One(ifft_m_tvalid /\ ~ifft_out_busy) \in Nat
    BY DEF One
  <1>4. ASSUME NEW X, NEW S, Good(X, S, sent) PROVE Good(X, S, sent')
    BY <1>4, GoodStep
  <1>5. ASSUME NEW x, NEW n, NEW S, Is(x, n, S, sent) PROVE Is(x, n, S, sent')
    BY <1>5, GoodStep
  <1>6. OutAligned
    BY DEF TxInv
  <1>7. CASE Ifft!OutIdle
    <2>1. /\ ~ifft_out_busy /\ ~ifft_load_done /\ ~ifft_m_tvalid' /\ ~ifft_out_busy'
      BY <1>7, Zenon DEF Ifft!OutIdle
    <2>0. /\ One(ifft_out_busy' \/ ifft_m_tvalid') = 0
          /\ One(ifft_load_done /\ ~ifft_out_busy) = 0
          /\ One(ifft_out_busy \/ ifft_m_tvalid) = One(ifft_m_tvalid /\ ~ifft_out_busy)
      BY <2>1, Zenon DEF One
    <2>2. OutSym' = OutSym + One(ifft_m_tvalid /\ ~ifft_out_busy)
      BY <1>2, <1>3, <1>11, <2>0
    <2>. QED
      BY <1>3, <1>11, <2>1, <2>2 DEF TxOutInv
  <1>8. CASE Ifft!OutCompute
    <2>1. /\ ~ifft_out_busy /\ ifft_load_done /\ ~ifft_m_tvalid' /\ ifft_out_busy'
      BY <1>8, Zenon DEF Ifft!OutCompute
    <2>0. /\ One(ifft_out_busy' \/ ifft_m_tvalid') = 1
          /\ One(ifft_load_done) = 1 /\ One(ifft_load_done /\ ~ifft_out_busy) = 1
          /\ One(ifft_out_busy \/ ifft_m_tvalid) = One(ifft_m_tvalid /\ ~ifft_out_busy)
      BY <2>1, Zenon DEF One
    <2>2. OutSym' = OutSym + One(ifft_m_tvalid /\ ~ifft_out_busy)
      BY <1>2, <1>3, <1>11, <2>0
    <2>3. OutSym' = TxLoadSym - 1
      BY <1>2, <1>3, <1>11, <2>0
    <2>4. ifft_out_buf' = [n \in 0 .. N_FFT - 1 |-> Ifft!Time(ifft_in_buf, n)]
      BY <1>8, <2>1 DEF TxInv, Ifft!OutCompute, Ifft!Dft, Ifft!Point, Streaming
    <2>5. Good(ifft_in_buf, OutSym', sent')
      BY <1>1, <1>4, <2>1, <2>3 DEF TxLoadInv
    <2>6. \A n \in 0 .. N_FFT - 1 : Is(ifft_out_buf'[n], n, OutSym', sent')
      BY <2>4, <2>5 DEF Good, Is, BodySample, Ifft!Time
    <2>. QED
      <3>1. OutSym' \in Nat
        BY <1>3, <1>11, <2>2
      <3>. QED
        BY <2>1, <2>2, <2>6, <3>1, Zenon DEF TxOutInv
  <1>9. CASE Ifft!OutDrive(Cp!s_tready)
    <2>1. /\ ifft_out_busy /\ (~wr_full \/ ~ifft_m_tvalid)
          /\ ifft_m_tdata' = ifft_out_buf[ifft_out_cnt] /\ ifft_m_tvalid' = TRUE
          /\ ifft_out_buf' = ifft_out_buf
      BY <1>9 DEF Ifft!OutDrive, Cp!s_tready
    <2>0. /\ One(ifft_out_busy' \/ ifft_m_tvalid') = 1
          /\ One(ifft_load_done /\ ~ifft_out_busy) = 0
          /\ One(ifft_out_busy \/ ifft_m_tvalid) = 1
          /\ One(ifft_m_tvalid /\ ~ifft_out_busy) = 0
      BY <2>1, Zenon DEF One
    <2>2. OutSym' = OutSym
      BY <1>2, <1>3, <1>11, <2>0
    <2>3. wr_ptr' = ifft_out_cnt
      <3>1. /\ ifft_m_tvalid => ifft_out_cnt = wr_ptr + 1
            /\ ~ifft_m_tvalid => wr_ptr = 0 /\ ifft_out_cnt = 0
        BY <1>6, <2>1 DEF OutAligned
      <3>. QED
        BY <1>1, <2>1, <3>1, WriterStep
    <2>4. Is(ifft_m_tdata', wr_ptr', OutSym', sent')
      BY <1>1, <1>5, <2>1, <2>2, <2>3 DEF TxOutInv
    <2>5. \A n \in 0 .. N_FFT - 1 : Is(ifft_out_buf'[n], n, OutSym', sent')
      BY <1>1, <1>5, <2>1, <2>2 DEF TxOutInv
    <2>. QED
      BY <1>3, <2>2, <2>4, <2>5, <2>0 DEF TxOutInv
  <1>10. CASE Ifft!OutWait(Cp!s_tready)
    <2>1. /\ ifft_out_busy /\ wr_full /\ ifft_m_tvalid
          /\ UNCHANGED <<ifft_out_buf, ifft_out_cnt, ifft_out_busy,
                         ifft_m_tvalid, ifft_m_tdata>>
      BY <1>10 DEF Ifft!OutWait, Ifft!outputRegs, Cp!s_tready
    <2>0. /\ One(ifft_out_busy' \/ ifft_m_tvalid') = 1
          /\ One(ifft_load_done /\ ~ifft_out_busy) = 0
          /\ One(ifft_out_busy \/ ifft_m_tvalid) = 1
          /\ One(ifft_m_tvalid /\ ~ifft_out_busy) = 0
      BY <2>1, Zenon DEF One
    <2>2. OutSym' = OutSym
      BY <1>2, <1>3, <1>11, <2>0
    <2>3. wr_ptr' = wr_ptr
      BY <2>1, WriterStep
    <2>4. Is(ifft_m_tdata', wr_ptr', OutSym', sent')
      BY <1>1, <1>5, <2>1, <2>2, <2>3 DEF TxOutInv
    <2>5. \A n \in 0 .. N_FFT - 1 : Is(ifft_out_buf'[n], n, OutSym', sent')
      BY <1>1, <1>5, <2>1, <2>2 DEF TxOutInv
    <2>. QED
      BY <1>3, <2>2, <2>4, <2>5, <2>0 DEF TxOutInv
  <1>. QED
    BY <1>7, <1>8, <1>9, <1>10, TickParts DEF Ifft!Output

(* The bank the writer fills, and the number of its symbol.                 *)
LEMMA BankFrame ==
    ASSUME TxInv, FrameInv, NEW Words, sent \in Seq(Words), NEW cw \in Words,
           NEW vld \in BOOLEAN, TxTick(vld, cw)
    PROVE  /\ BankInv'
           /\ Cp!WrRelease => /\ WrSym' = WrSym + 1 /\ buf' = buf /\ ~wr_full'
                              /\ wr_bank' = 1 - wr_bank
           /\ ~Cp!WrRelease => /\ WrSym' = WrSym /\ wr_bank' = wr_bank
                               /\ buf'[1 - wr_bank] = buf[1 - wr_bank]
                               /\ wr_full => wr_full' /\ buf' = buf
           /\ WrSym \in Int
  <1>1. /\ BankInv /\ TxOutInv /\ OutAligned
        /\ ifft_out_busy \in BOOLEAN /\ ifft_m_tvalid \in BOOLEAN
        /\ wr_bank \in {0, 1} /\ wr_full \in BOOLEAN /\ wr_ptr \in 0 .. N_FFT - 1
        /\ N_FFT \in 2 .. 64
    BY TxConstants DEF TxInv, TxInRange, FrameInv
  <1>2. /\ wr_full' \in BOOLEAN /\ wr_full' => wr_ptr' = 0
        /\ ifft_m_tvalid /\ ~wr_full
             => wr_ptr' = (IF wr_ptr = N_FFT - 1 THEN 0 ELSE wr_ptr + 1)
        /\ ~(ifft_m_tvalid /\ ~wr_full) => wr_ptr' = wr_ptr
    BY WriterStep
  <1>3. /\ OutSym \in Nat /\ OutSym' = OutSym + One(ifft_m_tvalid /\ ~ifft_out_busy)
        /\ WrSym = OutSym - One(wr_full) /\ WrSym' = OutSym' - One(wr_full')
    BY <1>1, TxOutFrame DEF TxOutInv, WrSym
  <1>4. ASSUME NEW x, NEW n, NEW S, Is(x, n, S, sent) PROVE Is(x, n, S, sent')
    BY <1>4, GoodStep
  <1>5. /\ DOMAIN buf = {0, 1} /\ \A k \in {0, 1} : DOMAIN buf[k] = 0 .. N_FFT - 1
        /\ \A i \in 0 .. N_FFT - 1 :
              i < wr_ptr \/ wr_full => Is(buf[wr_bank][i], i, WrSym, sent)
    BY <1>1 DEF BankInv
  <1>6. wr_full => wr_ptr = 0 /\ ~(ifft_m_tvalid /\ ~ifft_out_busy)
    BY <1>1 DEF OutAligned
  <1>7. CASE Cp!WrRelease
    <2>1. /\ wr_full /\ wr_full' = FALSE /\ wr_bank' = 1 - wr_bank
          /\ wr_ptr' = 0 /\ buf' = buf
      BY <1>7, Zenon DEF Cp!WrRelease
    <2>2. WrSym' = WrSym + 1
      BY <1>1, <1>3, <1>6, <2>1 DEF One
    <2>3. BankInv'
      BY <1>1, <1>5, <2>1 DEF BankInv
    <2>. QED
      BY <1>3, <1>7, <2>1, <2>2, <2>3 DEF One
  <1>8. CASE Cp!WrAccept(ifft_m_tvalid, ifft_m_tdata)
    <2>1. /\ ifft_m_tvalid /\ ~wr_full /\ wr_bank' = wr_bank
          /\ buf' = [buf EXCEPT ![wr_bank][wr_ptr] = ifft_m_tdata]
          /\ \/ wr_ptr # N_FFT - 1 /\ wr_ptr' = wr_ptr + 1 /\ ~wr_full'
             \/ wr_ptr = N_FFT - 1 /\ wr_ptr' = 0 /\ wr_full'
      BY <1>8 DEF Cp!WrAccept, Cp!s_tready
    <2>2. ~ifft_out_busy <=> wr_ptr = N_FFT - 1
      <3>1. CASE ifft_out_busy
        <4>1. ifft_out_cnt = wr_ptr + 1 /\ ifft_out_cnt \in 0 .. N_FFT - 1
          BY <1>1, <2>1, <3>1 DEF OutAligned, TxInv, TxInRange
        <4>. QED
          BY <1>1, <3>1, <4>1
      <3>2. CASE ~ifft_out_busy
        BY <1>1, <2>1, <3>2 DEF OutAligned
      <3>. QED
        BY <3>1, <3>2
    <2>3. WrSym' = WrSym /\ WrSym = OutSym
      BY <1>1, <1>3, <2>1, <2>2 DEF One
    <2>4. Is(ifft_m_tdata, wr_ptr, WrSym, sent)
      BY <1>1, <2>1, <2>3 DEF TxOutInv
    <2>5. /\ DOMAIN buf' = {0, 1}
          /\ buf'[1 - wr_bank] = buf[1 - wr_bank]
          /\ buf'[wr_bank] = [buf[wr_bank] EXCEPT ![wr_ptr] = ifft_m_tdata]
      <3>1. 1 - wr_bank \in {0, 1} /\ 1 - wr_bank # wr_bank
        BY <1>1
      <3>. QED
        BY <1>1, <1>5, <2>1, <3>1, Zenon
    <2>6. \A k \in {0, 1} : DOMAIN buf'[k] = 0 .. N_FFT - 1
      BY <1>1, <1>5, <2>5
    <2>7. \A i \in 0 .. N_FFT - 1 :
             i < wr_ptr' \/ wr_full' => Is(buf'[wr_bank'][i], i, WrSym', sent')
      <3>1. TAKE i \in 0 .. N_FFT - 1
      <3>2. CASE i = wr_ptr
        <4>1. buf'[wr_bank'][i] = ifft_m_tdata
          BY <1>1, <1>5, <2>1, <2>5, <3>2
        <4>. QED
          BY <1>4, <2>3, <2>4, <3>2, <4>1
      <3>3. CASE i < wr_ptr
        <4>1. buf'[wr_bank'][i] = buf[wr_bank][i]
          BY <1>1, <1>5, <2>1, <2>5, <3>3
        <4>2. Is(buf[wr_bank][i], i, WrSym, sent)
          BY <1>5, <3>3
        <4>. QED
          BY <1>4, <2>3, <4>1, <4>2
      <3>4. CASE i > wr_ptr
        BY <1>1, <2>1, <3>4
      <3>. QED
        BY <1>1, <3>2, <3>3, <3>4
    <2>8. BankInv'
      BY <2>5, <2>6, <2>7 DEF BankInv
    <2>9. ~Cp!WrRelease
      BY <2>1 DEF Cp!WrRelease
    <2>. QED
      BY <1>3, <2>1, <2>3, <2>5, <2>8, <2>9
  <1>9. CASE Cp!WrHold(ifft_m_tvalid)
    <2>1. /\ UNCHANGED <<buf, wr_bank, wr_ptr, wr_full>>
          /\ ~Cp!WrRelease /\ ~(ifft_m_tvalid /\ ~wr_full)
      BY <1>9, Zenon DEF Cp!WrHold, Cp!wrRegs, Cp!WrRelease, Cp!s_tready
    <2>2. WrSym' = WrSym
      BY <1>1, <1>3, <1>6, <2>1 DEF One
    <2>3. BankInv'
      BY <1>4, <1>5, <2>1, <2>2 DEF BankInv
    <2>. QED
      BY <1>3, <2>1, <2>2, <2>3 DEF One
  <1>. QED
    BY <1>7, <1>8, <1>9, TickParts DEF Cp!Writer

(* The place after a place of the stream. *)
LEMMA PlaceAfter ==
    ASSUME N_OUT \in Nat \ {0},
           NEW x \in [sym : Nat, pos : 0 .. N_OUT - 1]
    PROVE  /\ NextPlace(x) \in [sym : Nat, pos : 0 .. N_OUT - 1]
           /\ x.pos # N_OUT - 1 =>
                 NextPlace(x).sym = x.sym /\ NextPlace(x).pos = x.pos + 1
           /\ x.pos = N_OUT - 1 =>
                 NextPlace(x).sym = x.sym + 1 /\ NextPlace(x).pos = 0
  BY DEF NextPlace

(* The reader: its bank is the symbol of the next place, and what it put on *)
(* the output is the sample of the place before.                            *)
LEMMA ReaderFrame ==
    ASSUME TxInv, FrameInv, NEW Words, sent \in Seq(Words), NEW cw \in Words,
           NEW vld \in BOOLEAN, TxTick(vld, cw)
    PROVE  ReaderInv'
  <1>a. N_OUT \in Nat \ {0}
    BY TxConstants
  <1>1. /\ ReaderInv /\ BankInv
        /\ wr_bank \in {0, 1} /\ rd_bank \in {0, 1}
        /\ wr_full \in BOOLEAN /\ rd_active \in BOOLEAN /\ m_tvalid \in BOOLEAN
        /\ rd_ptr \in 0 .. N_OUT - 1
    BY TxConstants DEF TxInv, TxInRange, FrameInv
  <1>2. /\ N_FFT \in 2 .. 64 /\ N_CP \in 0 .. N_FFT /\ N_OUT = N_FFT + N_CP
        /\ N_OUT \in Nat \ {0, 1} /\ Cp!N_OUT = N_OUT
    BY TxConstants
  <1>3. ASSUME NEW x, NEW n, NEW S, Is(x, n, S, sent) PROVE Is(x, n, S, sent')
    BY <1>3, GoodStep
  <1>4. /\ Cp!WrRelease => /\ WrSym' = WrSym + 1 /\ buf' = buf /\ ~wr_full'
                           /\ wr_bank' = 1 - wr_bank
        /\ ~Cp!WrRelease => /\ WrSym' = WrSym /\ wr_bank' = wr_bank
                            /\ buf'[1 - wr_bank] = buf[1 - wr_bank]
                            /\ wr_full => wr_full' /\ buf' = buf
        /\ WrSym \in Int
    BY BankFrame
  <1>5. Cp!WrRelease <=> wr_full /\ rd_active /\ rd_bank = wr_bank
    <2>1. Cp!WrRelease => wr_full /\ rd_active /\ rd_bank = wr_bank
      BY DEF Cp!WrRelease
    <2>2. Cp!WrAccept(ifft_m_tvalid, ifft_m_tdata) => ~wr_full
      BY DEF Cp!WrAccept, Cp!s_tready
    <2>3. Cp!WrHold(ifft_m_tvalid) => ~(wr_full /\ rd_active /\ rd_bank = wr_bank)
      BY DEF Cp!WrHold
    <2>. QED
      BY <2>1, <2>2, <2>3, TickParts DEF Cp!Writer
  <1>6. /\ place \in [sym : Nat, pos : 0 .. N_OUT - 1]
        /\ RdPlace.pos = rd_ptr
        /\ ~rd_active => rd_ptr = 0
        /\ rd_bank = wr_bank => RdPlace.sym = WrSym
        /\ rd_bank # wr_bank => RdPlace.sym = WrSym - 1 /\ rd_active
        /\ rd_active /\ rd_bank = wr_bank => wr_full /\ rd_ptr = 0
        /\ rd_active => \A i \in 0 .. N_FFT - 1 : Is(buf[rd_bank][i], i, RdPlace.sym, sent)
    BY <1>1 DEF ReaderInv
  <1>7. RdPlace \in [sym : Nat, pos : 0 .. N_OUT - 1]
    BY <1>6, <1>a, PlaceAfter DEF RdPlace
  <1>8. place' = RdPlace /\ RdPlace' = (IF m_tvalid' THEN NextPlace(place') ELSE place')
    BY TickParts DEF RdPlace
  <1>9. CASE Cp!RdActivate
    <2>1. /\ ~rd_active /\ wr_full /\ wr_bank = rd_bank
          /\ rd_active' = TRUE /\ rd_ptr' = 0 /\ m_tvalid' = FALSE /\ rd_bank' = rd_bank
      BY <1>9, Zenon DEF Cp!RdActivate
    <2>2. /\ RdPlace' = RdPlace /\ WrSym' = WrSym /\ wr_bank' = wr_bank
          /\ wr_full' /\ buf' = buf
      BY <1>4, <1>5, <1>8, <2>1
    <2>3. \A i \in 0 .. N_FFT - 1 : Is(buf'[rd_bank'][i], i, RdPlace'.sym, sent')
      BY <1>1, <1>3, <1>6, <2>1, <2>2 DEF BankInv
    <2>. QED
      BY <1>6, <1>7, <1>8, <2>1, <2>2, <2>3 DEF ReaderInv
  <1>10. CASE Cp!RdWait
    <2>1. /\ ~rd_active /\ rd_active' = FALSE /\ m_tvalid' = FALSE
          /\ rd_bank' = rd_bank /\ rd_ptr' = rd_ptr
      BY <1>1, <1>10, Zenon DEF Cp!RdWait
    <2>2. RdPlace' = RdPlace /\ WrSym' = WrSym /\ wr_bank' = wr_bank
      BY <1>4, <1>5, <1>8, <2>1
    <2>. QED
      BY <1>6, <1>7, <1>8, <2>1, <2>2 DEF ReaderInv
  <1>11. CASE Cp!RdAdvance(TRUE) \/ Cp!RdFinish(TRUE)
    <2>1. /\ rd_active /\ m_tvalid' = TRUE
          /\ m_tdata' = buf[rd_bank][Cp!rd_buf_idx(rd_ptr)]
      BY <1>11, Zenon DEF Cp!RdAdvance, Cp!RdFinish, Cp!RdLoad, Cp!rd_data
    <2>2. Cp!rd_buf_idx(rd_ptr) \in 0 .. N_FFT - 1
      BY <1>1, <1>2 DEF Cp!rd_buf_idx
    <2>3. Is(m_tdata', Cp!rd_buf_idx(place'.pos), place'.sym, sent')
      <3>1. Is(m_tdata', Cp!rd_buf_idx(rd_ptr), RdPlace.sym, sent')
        BY <1>3, <1>6, <2>1, <2>2
      <3>. QED
        BY <1>6, <1>8, <3>1
    <2>4. RdPlace' = NextPlace(RdPlace)
      BY <1>8, <2>1
    <2>5. CASE Cp!RdAdvance(TRUE)
      <3>1. /\ rd_ptr # N_OUT - 1 /\ rd_ptr' = rd_ptr + 1
            /\ rd_bank' = rd_bank /\ rd_active' = rd_active
        BY <1>2, <2>5, Zenon DEF Cp!RdAdvance
      <3>2. RdPlace'.sym = RdPlace.sym /\ RdPlace'.pos = rd_ptr'
        BY <1>6, <1>7, <1>a, <2>4, <3>1, PlaceAfter
      <3>3. buf'[rd_bank] = buf[rd_bank]
        <4>1. CASE Cp!WrRelease
          BY <1>4, <4>1
        <4>2. CASE ~Cp!WrRelease
          <5>1. rd_bank # wr_bank
            BY <1>5, <1>6, <2>1, <4>2
          <5>2. rd_bank = 1 - wr_bank
            BY <1>1, <5>1
          <5>. QED
            BY <1>4, <4>2, <5>2
        <4>. QED
          BY <4>1, <4>2
      <3>4. \A i \in 0 .. N_FFT - 1 : Is(buf'[rd_bank'][i], i, RdPlace'.sym, sent')
        BY <1>3, <1>6, <2>1, <3>1, <3>2, <3>3
      <3>5. wr_bank' # rd_bank' /\ RdPlace'.sym = WrSym' - 1
        <4>1. CASE Cp!WrRelease
          <5>1. wr_bank' = 1 - wr_bank /\ rd_bank = wr_bank /\ WrSym' = WrSym + 1
            BY <1>4, <1>5, <4>1
          <5>. QED
            BY <1>1, <1>4, <1>6, <3>1, <3>2, <5>1
        <4>2. CASE ~Cp!WrRelease
          BY <1>4, <1>5, <1>6, <2>1, <3>1, <3>2, <4>2
        <4>. QED
          BY <4>1, <4>2
      <3>. QED
        BY <1>7, <1>8, <2>1, <2>3, <3>1, <3>2, <3>4, <3>5 DEF ReaderInv
    <2>6. CASE Cp!RdFinish(TRUE)
      <3>1. /\ rd_ptr = N_OUT - 1 /\ rd_ptr' = 0 /\ rd_active' = FALSE
            /\ rd_bank' = 1 - rd_bank
        BY <1>2, <2>6, Zenon DEF Cp!RdFinish
      <3>2. RdPlace'.sym = RdPlace.sym + 1 /\ RdPlace'.pos = 0
        BY <1>6, <1>7, <1>a, <2>4, <3>1, PlaceAfter
      <3>3. rd_bank # wr_bank
        BY <1>2, <1>6, <2>1, <3>1
      <3>4. ~Cp!WrRelease /\ wr_bank' = wr_bank /\ WrSym' = WrSym
        BY <1>4, <1>5, <3>3
      <3>5. rd_bank' = wr_bank' /\ RdPlace'.sym = WrSym'
        <4>1. WrSym \in Int /\ RdPlace.sym = WrSym - 1
          BY <1>4, <1>6, <3>3, Zenon
        <4>2. RdPlace'.sym = WrSym'
          BY <3>2, <3>4, <4>1
        <4>3. 1 - rd_bank = wr_bank
          BY <1>1, <3>3
        <4>. QED
          BY <3>1, <3>4, <4>2, <4>3
      <3>. QED
        BY <1>7, <1>8, <2>1, <2>3, <3>1, <3>2, <3>5 DEF ReaderInv
    <2>. QED
      BY <1>11, <2>5, <2>6
  <1>. QED
    BY <1>9, <1>10, <1>11, TickParts DEF Cp!Reader, Cp!RdStall

LEMMA FrameInvStep ==
    ASSUME TxInv, FrameInv, NEW Words, sent \in Seq(Words), NEW cw \in Words,
           NEW vld \in BOOLEAN, TxTick(vld, cw)
    PROVE  FrameInv'
  BY TxLoadFrame, TxOutFrame, BankFrame, ReaderFrame DEF FrameInv

(* A reset of a path at work puts it to rest: what the buffers hold stays.  *)
LEMMA TxRestartInv ==
    ASSUME FrameInv, TxRestart, sent' = <<>>, place' = [sym |-> 0, pos |-> 0]
    PROVE  TxInv' /\ FrameInv'
  <1>1. ifft_in_buf = [i \in 0 .. N_FFT - 1 |-> ifft_in_buf[i]]
    BY DEF FrameInv, TxLoadInv
  <1>2. DOMAIN buf = {0, 1} /\ \A k \in {0, 1} : DOMAIN buf[k] = 0 .. N_FFT - 1
    BY DEF FrameInv, BankInv
  <1>3. TxRest'
    BY <1>1, <1>2 DEF TxRest, TxRestart, Map!MapRestart, Ifft!XfftRestart, Cp!CpRestart
  <1>. QED
    BY <1>3, RestTxInv, RestFrameInv, PTL

LEMMA FrameInvOrder == FrameInv => FrameInOrder
  <1> SUFFICES ASSUME FrameInv, m_tvalid PROVE FrameInOrder
    BY DEF FrameInOrder
  <1>1. Is(m_tdata, Cp!rd_buf_idx(place.pos), place.sym, sent)
    BY DEF FrameInv, ReaderInv
  <1>. QED
    BY <1>1 DEF Is, FrameInOrder, SampleAt, BodyIndex, Cp!rd_buf_idx

LEMMA FrameStutters ==
    ASSUME FrameInv, UNCHANGED txVars
    PROVE  FrameInv'
  <1>1. UNCHANGED <<cw_reg, active, bit_ptr, bin_ptr, sym_cnt, ifft_in_buf, ifft_in_cnt,
                    ifft_load_done, ifft_out_buf, ifft_out_cnt, ifft_out_busy,
                    ifft_m_tvalid, ifft_m_tdata, buf, wr_bank, wr_ptr, wr_full, rd_bank,
                    rd_ptr, rd_active, m_tvalid, m_tdata, sent, place>>
    BY DEF txVars, txRegs
  <1>2. TxLoadSym' = TxLoadSym /\ OutSym' = OutSym /\ WrSym' = WrSym /\ RdPlace' = RdPlace
    BY <1>1 DEF TxLoadSym, OutSym, WrSym, RdPlace
  <1>3. MapperInv'
    BY <1>1 DEF FrameInv, MapperInv
  <1>4. TxLoadInv'
    BY <1>1, <1>2 DEF FrameInv, TxLoadInv
  <1>5. TxOutInv'
    BY <1>1, <1>2 DEF FrameInv, TxOutInv
  <1>6. BankInv'
    BY <1>1, <1>2 DEF FrameInv, BankInv
  <1>7. ReaderInv'
    BY <1>1, <1>2 DEF FrameInv, ReaderInv
  <1>. QED
    BY <1>3, <1>4, <1>5, <1>6, <1>7 DEF FrameInv

LEMMA NextFrameInv == TxInv /\ Offers /\ FrameInv /\ [TxNext]_txVars => FrameInv'
  <1> SUFFICES ASSUME TxInv, Offers, FrameInv, [TxNext]_txVars PROVE FrameInv'
    OBVIOUS
  <1>1. ASSUME NEW vld \in BOOLEAN, TxTick(vld, tx_offered)
        PROVE  FrameInv'
    <2>1. sent \in Seq(Nat) /\ tx_offered \in Nat
      BY TxConstants DEF Offers
    <2>. QED
      BY <1>1, <2>1, FrameInvStep
  <1>2. CASE UNCHANGED txVars
    BY <1>2, FrameStutters
  <1>. QED
    BY <1>1, <1>2 DEF TxNext

-----------------------------------------------------------------------------
(* What leaves the path is the frames of the codewords the mapper took,     *)
(* symbol after symbol, sample after sample, every bin with its own bits    *)
(* (tx_subcarrier_map.v:58-98, xfft_stub.v:70-161, cp_insert.v:50-131).     *)
THEOREM FramesInOrder == TxSpec => []FrameInOrder
  <1>1. FrameInv => FrameInOrder
    BY FrameInvOrder
  <1>2. TxInv /\ Offers /\ FrameInv /\ [TxNext]_txVars => FrameInv'
    BY NextFrameInv
  <1>. QED
    BY <1>1, <1>2, InitRest, RestFrameInv, TxInvariant, PTL DEF TxSpec

-----------------------------------------------------------------------------
(***************************************************************************)
(* The receive path.                                                       *)
(***************************************************************************)

(* The symbol the FFT is loading, and the index in its body of the sample   *)
(* cp_remove offers, or offers next.                                        *)
RxLoadSym == IF place.pos = 0 THEN place.sym - 1 ELSE place.sym
LoadIdx ==
    IF rem_tvalid
    THEN IF place.pos = 0 THEN N_FFT - 1 ELSE place.pos - 1 - N_CP
    ELSE IF place.pos <= N_CP THEN 0 ELSE place.pos - N_CP

(* How many symbols the FFT has taken over for its output, and the place of *)
(* the next bin it puts out.                                                *)
Taken == place.sym - One(place.pos = 0 /\ rem_tvalid) - One(fft_load_done)

At(s, b) == [sym |-> s, bin |-> b]
Before(x) == IF x.bin = 0 THEN At(x.sym - 1, N_FFT - 1) ELSE At(x.sym, x.bin - 1)
BinAt(cws, x) == BinOf(cws[x.sym \div N_SYM + 1], x.sym % N_SYM, x.bin)

(* The places the FFT puts out next, the equaliser takes next and the       *)
(* demapper takes next.                                                     *)
FftPlace   == IF fft_out_busy THEN At(Taken - 1, fft_out_cnt) ELSE At(Taken, 0)
EqPlace    == IF fft_m_tvalid THEN Before(FftPlace) ELSE FftPlace
DemapPlace == IF eq_valid THEN Before(EqPlace) ELSE EqPlace

(* The number of the data bin the demapper, the demodulator and the LLR     *)
(* buffer take next, counted from the first symbol on.                      *)
DataBin(x)  == x.sym * Cardinality(DataBins) + Rank(x.bin)
DemapCount  == DataBin(DemapPlace) - One(demap_valid)
DemodCount  == DemapCount - One(demod_valid)

RemoveInv ==
    /\ place \in [sym : Nat, pos : 0 .. N_OUT - 1]
    /\ sample_cnt = place.pos
    /\ synced \in BOOLEAN /\ rem_tvalid \in BOOLEAN
    /\ synced \/ place = [sym |-> 0, pos |-> 0]
    /\ place = [sym |-> 0, pos |-> 0] => ~synced
    /\ rem_tvalid => /\ (place.pos = 0 /\ place.sym >= 1) \/ place.pos > N_CP
                     /\ rem_tdata = Fft!Time(BlockOf(sent, RxLoadSym), LoadIdx)

RxLoadInv ==
    /\ DOMAIN fft_in_buf = 0 .. N_FFT - 1
    /\ fft_in_cnt = LoadIdx
    /\ \A i \in 0 .. N_FFT - 1 :
          i < fft_in_cnt => fft_in_buf[i] = Fft!Time(BlockOf(sent, RxLoadSym), i)
    /\ fft_load_done \in BOOLEAN
    /\ fft_load_done =>
          /\ ~rem_tvalid /\ ~fft_out_busy /\ place.pos <= 1
          /\ \A i \in 0 .. N_FFT - 1 : fft_in_buf[i] = Fft!Time(BlockOf(sent, place.sym - 1), i)

RxOutInv ==
    /\ fft_inverse_q = FALSE
    /\ fft_out_busy \in BOOLEAN /\ fft_m_tvalid \in BOOLEAN
    /\ fft_out_cnt \in 0 .. N_FFT - 1
    /\ fft_out_busy =>
          /\ IF place.pos = 0 /\ rem_tvalid THEN fft_out_cnt = N_FFT - 1
                                            ELSE place.pos <= fft_out_cnt + 2
          /\ fft_out_buf = BlockOf(sent, Taken - 1)
    /\ ~fft_out_busy => fft_out_cnt = 0
    /\ FftPlace.sym \in Nat /\ EqPlace.sym \in Nat
    /\ fft_m_tvalid => fft_m_tdata = BinAt(sent, EqPlace)

DemapInv ==
    /\ DemapPlace.sym \in Nat /\ bin_cnt = DemapPlace.bin
    /\ eq_valid \in BOOLEAN
    /\ eq_valid => eq_data = BinAt(sent, DemapPlace)
    /\ demap_valid \in BOOLEAN /\ demod_valid \in BOOLEAN
    /\ DemapCount \in Nat /\ DemodCount \in Nat

LlrInv ==
    /\ demap_valid /\ 2 * DemapCount < N_CW =>
          demap_data = [kind |-> "data", cw |-> sent[1], i |-> 2 * DemapCount, q |-> 2 * DemapCount + 1]
    /\ demod_valid /\ 2 * DemodCount < N_CW =>
          llr0 = [cw |-> sent[1], bit |-> 2 * DemodCount] /\ llr1 = [cw |-> sent[1], bit |-> 2 * DemodCount + 1]
    /\ DOMAIN llr = 0 .. N_CW - 1
    /\ done_latched \in BOOLEAN /\ llr_done \in BOOLEAN
    /\ ~done_latched => /\ wr_cnt = DemodCount /\ 2 * wr_cnt < N_CW
                        /\ \A k \in 0 .. N_CW - 1 : k < 2 * wr_cnt => llr[k] = [cw |-> sent[1], bit |-> k]
    /\ done_latched => wr_cnt = 0 /\ \A k \in 0 .. N_CW - 1 : llr[k] = [cw |-> sent[1], bit |-> k]

RxInv == RemoveInv /\ RxLoadInv /\ RxOutInv /\ DemapInv /\ LlrInv

-----------------------------------------------------------------------------
(* What the assumptions say of the constants. *)
LEMMA RxConstants ==
    /\ N_FFT \in 2 .. 64 /\ N_CP \in 1 .. N_FFT /\ N_OUT = N_FFT + N_CP /\ Rem!N_OUT = N_OUT
    /\ N_SYM \in 1 .. 16
    /\ N_CW \in Nat \ {0} /\ N_CW % 2 = 0
    /\ DataBins \subseteq 0 .. N_FFT - 1 /\ DataBins \cap PilotBins = {}
    /\ PtrMod = N_CW
  BY RxAssumption, RxBlockAssumptions
     DEF Rem!RemoveAssumption, Fft!XfftAssumption, Llr!LlrAssumption, Rem!N_OUT, N_OUT

LEMMA OneBit == \A p : One(p) \in {0, 1}
  BY DEF One

(* The path at rest, as a reset leaves it and as it stays while no sample   *)
(* arrives.                                                                 *)
RxIdle ==
    /\ place = [sym |-> 0, pos |-> 0]
    /\ sample_cnt = 0 /\ synced = FALSE /\ rem_tvalid = FALSE
    /\ fft_inverse_q = FALSE /\ DOMAIN fft_in_buf = 0 .. N_FFT - 1 /\ fft_in_cnt = 0
    /\ fft_load_done = FALSE /\ fft_out_cnt = 0 /\ fft_out_busy = FALSE
    /\ fft_m_tvalid = FALSE
    /\ eq_valid = FALSE /\ bin_cnt = 0 /\ demap_valid = FALSE /\ demod_valid = FALSE
    /\ wr_cnt = 0 /\ done_latched = FALSE /\ llr_done = FALSE
    /\ DOMAIN llr = 0 .. N_CW - 1

LEMMA PowerUpIdle ==
    ASSUME RxPowerUp, place = [sym |-> 0, pos |-> 0]
    PROVE  RxIdle
  BY DEF RxIdle, RxPowerUp, Rem!RemoveReset, Fft!XfftInit, Fft!XfftReset, Fft!Point,
         Llr!LlrInit, Llr!LlrReset

(* At rest the invariant holds whatever has been sent. *)
LEMMA IdleInv == RxIdle => RxInv
  <1> SUFFICES ASSUME RxIdle PROVE RxInv
    OBVIOUS
  <1>1. /\ N_FFT \in 2 .. 64 /\ N_CP \in 1 .. N_FFT /\ N_OUT = N_FFT + N_CP
        /\ N_CW \in Nat \ {0}
    BY RxConstants
  <1>2. place = [sym |-> 0, pos |-> 0]
    BY DEF RxIdle
  <1>3. sample_cnt = 0 /\ synced = FALSE /\ rem_tvalid = FALSE
    BY DEF RxIdle
  <1>4. /\ fft_inverse_q = FALSE /\ DOMAIN fft_in_buf = 0 .. N_FFT - 1 /\ fft_in_cnt = 0
        /\ fft_load_done = FALSE /\ fft_out_cnt = 0 /\ fft_out_busy = FALSE
        /\ fft_m_tvalid = FALSE
    BY DEF RxIdle
  <1>5. /\ eq_valid = FALSE /\ bin_cnt = 0 /\ demap_valid = FALSE /\ demod_valid = FALSE
        /\ wr_cnt = 0 /\ done_latched = FALSE /\ llr_done = FALSE
        /\ DOMAIN llr = 0 .. N_CW - 1
    BY DEF RxIdle
  <1>. /\ synced \in BOOLEAN /\ rem_tvalid \in BOOLEAN
       /\ fft_load_done \in BOOLEAN /\ fft_out_busy \in BOOLEAN /\ fft_m_tvalid \in BOOLEAN
       /\ done_latched \in BOOLEAN /\ llr_done \in BOOLEAN
    BY <1>3, <1>4, <1>5, Zenon
  <1>6. RemoveInv
    BY <1>1, <1>2, <1>3 DEF RemoveInv
  <1>7. RxLoadInv
    <2>1. LoadIdx = 0
      BY <1>1, <1>2, <1>3 DEF LoadIdx
    <2>. QED
      BY <1>1, <1>2, <1>4, <2>1 DEF RxLoadInv
  <1>8. Taken = 0
    BY <1>2, <1>3, <1>4 DEF Taken, One
  <1>9. FftPlace = At(0, 0) /\ EqPlace = At(0, 0) /\ DemapPlace = At(0, 0)
    BY <1>4, <1>5, <1>8 DEF FftPlace, EqPlace, DemapPlace
  <1>10. RxOutInv
    BY <1>1, <1>4, <1>9 DEF RxOutInv, At
  <1>11. DemapCount = 0 /\ DemodCount = 0
    <2>1. Cardinality(DataBins) \in Nat /\ Rank(0) = 0
      <3>1. N_FFT \in Nat /\ DataBins \subseteq 0 .. N_FFT - 1
        BY RxConstants
      <3>. QED
        BY <3>1, BelowCounts DEF Rank, Below
    <2>2. DataBin(DemapPlace) = 0
      BY <1>9, <2>1 DEF DataBin, At
    <2>. QED
      <3>1. One(demap_valid) = 0 /\ One(demod_valid) = 0
        BY <1>5, Zenon DEF One
      <3>. QED
        BY <2>2, <3>1 DEF DemapCount, DemodCount
  <1>12. DemapInv
    BY <1>5, <1>9, <1>11 DEF DemapInv, At
  <1>13. LlrInv
    BY <1>1, <1>5, <1>11 DEF LlrInv
  <1>. QED
    BY <1>6, <1>7, <1>10, <1>12, <1>13 DEF RxInv

(* Without a sample the path stays at rest, through a reset too. *)
LEMMA IdleStep ==
    ASSUME RxIdle, NEW iq, RxClock(FALSE, FALSE, iq) \/ RxRestart, UNCHANGED place
    PROVE  RxIdle'
  <1>1. CASE RxClock(FALSE, FALSE, iq)
    <2>1. rem_tvalid' = FALSE /\ sample_cnt' = sample_cnt /\ synced' = synced
      BY <1>1 DEF RxIdle, RxClock, Rem!Clock, Rem!RemoveSample, Rem!RemoveSkip
    <2>2. /\ fft_inverse_q' = FALSE
          /\ fft_in_buf' = fft_in_buf /\ fft_in_cnt' = fft_in_cnt /\ fft_load_done' = FALSE
          /\ fft_out_cnt' = fft_out_cnt /\ fft_out_busy' = FALSE /\ fft_m_tvalid' = FALSE
      BY <1>1, Zenon
         DEF RxIdle, RxClock, Fft!Clock, Fft!Load, Fft!LoadTaken, Fft!LoadSample,
             Fft!LoadHold, Fft!loadRegs, Fft!s_tready,
             Fft!Output, Fft!OutIdle, Fft!OutCompute, Fft!OutDrive, Fft!OutWait
    <2>3. /\ eq_valid' = FALSE /\ bin_cnt' = bin_cnt
          /\ demap_valid' = FALSE /\ demod_valid' = FALSE
          /\ wr_cnt' = wr_cnt /\ done_latched' = done_latched /\ llr_done' = FALSE
          /\ llr' = llr
      BY <1>1, Zenon
         DEF RxIdle, RxClock, Llr!Clock, Llr!Equalise, Llr!Demap, Llr!Demod,
             Llr!BufWrite, Llr!BufHold, Llr!write_en
    <2>. QED
      BY <2>1, <2>2, <2>3 DEF RxIdle
  <1>2. CASE RxRestart
    BY <1>2 DEF RxIdle, RxRestart, Rem!RemoveRestart, Fft!XfftRestart, Llr!LlrRestart
  <1>. QED
    BY <1>1, <1>2

(* A reset puts a path that was at work to rest. *)
LEMMA RestartIdle ==
    ASSUME RxInv, RxRestart, place' = [sym |-> 0, pos |-> 0]
    PROVE  RxIdle'
  BY DEF RxInv, RxLoadInv, LlrInv, RxIdle, RxRestart, Rem!RemoveRestart, Fft!XfftRestart,
         Llr!LlrRestart

(* A clock of the path: the FFT and the LLR path do the same whether or not *)
(* a sample arrives.                                                        *)
RxTick ==
    /\ Fft!Clock(FALSE, rem_tvalid, rem_tdata, TRUE)
    /\ Llr!Clock(fft_m_tvalid, fft_m_tdata)

(* What the path asks of its surroundings: the samples come in their order, *)
(* the first with frame_start, and no later one than that of a symbol's     *)
(* beginning has it.                                                        *)
RxTake(frame_start, valid_in, iq) ==
    /\ RxClock(frame_start, valid_in, iq)
    /\ valid_in => iq = SampleAt(place)
    /\ frame_start => valid_in /\ place.pos = 0
    /\ valid_in /\ place = [sym |-> 0, pos |-> 0] => frame_start
    /\ place' = IF valid_in THEN NextPlace(place) ELSE place
    /\ UNCHANGED sent

RxStep == \E frame_start \in BOOLEAN, valid_in \in BOOLEAN : \E iq : RxTake(frame_start, valid_in, iq)

(* A sample from before the first symbol does what no sample does. *)
LEMMA EarlyIsPause == RxInv /\ Early => Pause
  <1> SUFFICES ASSUME RxInv, Early PROVE Pause
    OBVIOUS
  <1>1. ~synced
    BY DEF Early, RxInv, RemoveInv
  <1>2. Rem!Clock(FALSE, TRUE, Junk)
    BY DEF Early, RxClock
  <1>3. Rem!Clock(FALSE, FALSE, Junk)
    BY <1>1, <1>2 DEF Rem!Clock, Rem!RemoveSample, Rem!RemoveSkip
  <1>. QED
    BY <1>3 DEF Early, Pause, RxClock

LEMMA NextIsStep == RxInv /\ RxNext => RxStep
  <1>1. ASSUME NEW frame_start \in BOOLEAN, Receive(frame_start)
        PROVE  RxStep
    BY <1>1 DEF Receive, RxStep, RxTake
  <1>2. CASE Pause
    BY <1>2 DEF Pause, RxStep, RxTake
  <1>. QED
    BY <1>1, <1>2, EarlyIsPause DEF RxNext

(* cp_remove: a sample of a symbol is counted, a body sample goes on.       *)
LEMMA RemoveFrame ==
    ASSUME RxInv, RxStep
    PROVE  /\ RemoveInv' /\ RxTick
           /\ sent' = sent
           /\ \/ /\ place' = NextPlace(place)
                 /\ rem_tvalid' <=> place.pos >= N_CP
              \/ place' = place /\ ~rem_tvalid'
  <1>1. /\ place \in [sym : Nat, pos : 0 .. N_OUT - 1]
        /\ place.sym \in Nat /\ place.pos \in 0 .. N_OUT - 1
        /\ sample_cnt = place.pos
        /\ synced \in BOOLEAN /\ rem_tvalid \in BOOLEAN
        /\ synced \/ place = [sym |-> 0, pos |-> 0]
        /\ place = [sym |-> 0, pos |-> 0] => ~synced
    BY DEF RxInv, RemoveInv
  <1>2. /\ N_FFT \in 2 .. 64 /\ N_CP \in 1 .. N_FFT /\ N_OUT = N_FFT + N_CP
    BY RxConstants
  <1>a. PICK frame_start \in BOOLEAN, valid_in \in BOOLEAN :
            \E iq : RxTake(frame_start, valid_in, iq)
    BY DEF RxStep
  <1>b. PICK iq : RxTake(frame_start, valid_in, iq)
    BY <1>a
  <1>3. /\ Rem!Clock(frame_start, valid_in, iq) /\ RxTick
        /\ valid_in => iq = SampleAt(place)
        /\ frame_start => valid_in /\ place.pos = 0
        /\ valid_in /\ place = [sym |-> 0, pos |-> 0] => frame_start
        /\ place' = IF valid_in THEN NextPlace(place) ELSE place
        /\ sent' = sent
    BY <1>b DEF RxTake, RxClock, RxTick
  <1>4. CASE valid_in
    <2>1. /\ frame_start => place.pos = 0
          /\ place = [sym |-> 0, pos |-> 0] => frame_start
          /\ Rem!Clock(frame_start, TRUE, SampleAt(place))
          /\ place' = NextPlace(place) /\ sent' = sent
      BY <1>3, <1>4
    <2>2. frame_start \/ synced
      BY <1>1, <2>1
    <2>3. Rem!RemoveSample(frame_start, TRUE, SampleAt(place)) /\ synced'
      BY <2>1, <2>2 DEF Rem!Clock, Rem!RemoveSkip
    <2>4. Rem!cnt_curr(frame_start) = place.pos
      BY <1>1, <2>1 DEF Rem!cnt_curr
    <2>5. /\ sample_cnt' = (place.pos + 1) % N_OUT
          /\ \/ place.pos < N_CP /\ rem_tvalid' = FALSE
             \/ place.pos >= N_CP /\ rem_tvalid' = TRUE /\ rem_tdata' = SampleAt(place)
      BY <2>3, <2>4, RxConstants DEF Rem!RemoveSample
    <2>6. rem_tvalid' \in BOOLEAN /\ synced' \in BOOLEAN
      BY <1>1, <2>1, <2>5, Zenon DEF Rem!Clock
    <2>7. sample_cnt' = place'.pos
      <3>1. CASE place.pos = N_OUT - 1
        BY <1>1, <1>2, <2>1, <2>5, <3>1, PlaceAfter
      <3>2. CASE place.pos # N_OUT - 1
        <4>1. place'.pos = place.pos + 1 /\ place.pos + 1 \in 0 .. N_OUT - 1
          BY <1>1, <1>2, <2>1, <3>2, PlaceAfter
        <4>2. (place.pos + 1) % N_OUT = place.pos + 1
          BY <1>2, <4>1
        <4>. QED
          BY <2>5, <4>1, <4>2
      <3>. QED
        BY <3>1, <3>2
    <2>8. rem_tvalid' =>
             /\ (place'.pos = 0 /\ place'.sym >= 1) \/ place'.pos > N_CP
             /\ rem_tdata' = Fft!Time(BlockOf(sent, RxLoadSym'), LoadIdx')
      <3> SUFFICES ASSUME rem_tvalid'
                   PROVE  /\ (place'.pos = 0 /\ place'.sym >= 1) \/ place'.pos > N_CP
                          /\ rem_tdata' = Fft!Time(BlockOf(sent, RxLoadSym'), LoadIdx')
        OBVIOUS
      <3>1. place.pos >= N_CP /\ rem_tdata' = Fft!Time(BlockOf(sent, place.sym), place.pos - N_CP)
        BY <1>1, <1>2, <2>5 DEF SampleAt, BodySample, BodyIndex, Fft!Time
      <3>2. CASE place.pos = N_OUT - 1
        <4>1. place'.sym = place.sym + 1 /\ place'.pos = 0
          BY <1>1, <1>2, <2>1, <3>2, PlaceAfter
        <4>2. RxLoadSym' = place.sym /\ LoadIdx' = place.pos - N_CP
          BY <1>1, <1>2, <3>2, <4>1 DEF RxLoadSym, LoadIdx
        <4>. QED
          BY <1>1, <3>1, <4>1, <4>2
      <3>3. CASE place.pos # N_OUT - 1
        <4>1. place'.sym = place.sym /\ place'.pos = place.pos + 1
          BY <1>1, <1>2, <2>1, <3>3, PlaceAfter
        <4>2. RxLoadSym' = place.sym /\ LoadIdx' = place.pos - N_CP
          BY <1>1, <1>2, <4>1 DEF RxLoadSym, LoadIdx
        <4>. QED
          BY <1>1, <1>2, <3>1, <4>1, <4>2
      <3>. QED
        BY <3>2, <3>3
    <2>9. RemoveInv'
      BY <1>1, <1>2, <2>1, <2>3, <2>6, <2>7, <2>8, PlaceAfter DEF RemoveInv
    <2>. QED
      BY <1>1, <1>2, <1>3, <2>1, <2>5, <2>9
  <1>5. CASE ~valid_in
    <2>1. Rem!Clock(FALSE, FALSE, iq) /\ place' = place /\ sent' = sent
      BY <1>3, <1>5
    <2>2. rem_tvalid' = FALSE /\ sample_cnt' = sample_cnt /\ synced' = (synced \/ FALSE)
      BY <2>1 DEF Rem!Clock, Rem!RemoveSample, Rem!RemoveSkip
    <2>3. rem_tvalid' \in BOOLEAN /\ synced' \in BOOLEAN /\ (synced <=> synced')
      BY <1>1, <2>2, Zenon
    <2>4. RemoveInv'
      BY <1>1, <2>1, <2>2, <2>3 DEF RemoveInv
    <2>. QED
      BY <1>3, <2>1, <2>2, <2>4
  <1>. QED
    BY <1>3, <1>4, <1>5

(* The FFT's input buffer.  A block is complete one clock after its last    *)
(* sample; by then the output side has just finished the block before, and  *)
(* it takes the new one over before the prefix that follows has passed.     *)
LEMMA RxLoadFrame ==
    ASSUME RxInv, RxStep
    PROVE  /\ RxLoadInv'
           /\ fft_load_done' <=> rem_tvalid /\ place.pos = 0
  <1>1. /\ place \in [sym : Nat, pos : 0 .. N_OUT - 1]
        /\ place.sym \in Nat /\ place.pos \in 0 .. N_OUT - 1
        /\ rem_tvalid \in BOOLEAN
        /\ rem_tvalid => (place.pos = 0 /\ place.sym >= 1) \/ place.pos > N_CP
        /\ rem_tvalid => rem_tdata = Fft!Time(BlockOf(sent, RxLoadSym), LoadIdx)
    BY DEF RxInv, RemoveInv
  <1>2. /\ DOMAIN fft_in_buf = 0 .. N_FFT - 1
        /\ fft_in_cnt = LoadIdx
        /\ \A i \in 0 .. N_FFT - 1 :
              i < fft_in_cnt => fft_in_buf[i] = Fft!Time(BlockOf(sent, RxLoadSym), i)
        /\ fft_load_done \in BOOLEAN
        /\ fft_load_done => ~rem_tvalid /\ ~fft_out_busy /\ place.pos <= 1
    BY DEF RxInv, RxLoadInv
  <1>3. /\ N_FFT \in 2 .. 64 /\ N_CP \in 1 .. N_FFT /\ N_OUT = N_FFT + N_CP
    BY RxConstants
  <1>4. /\ \/ /\ place' = NextPlace(place)
              /\ rem_tvalid' <=> place.pos >= N_CP
           \/ place' = place /\ ~rem_tvalid'
        /\ RxTick /\ RemoveInv' /\ sent' = sent
    BY RemoveFrame
  <1>5. /\ place'.sym \in Nat /\ place'.pos \in 0 .. N_OUT - 1
        /\ rem_tvalid' \in BOOLEAN
        /\ rem_tvalid' => (place'.pos = 0 /\ place'.sym >= 1) \/ place'.pos > N_CP
    BY <1>4 DEF RemoveInv
  <1>6. \/ place'.pos = place.pos /\ place'.sym = place.sym /\ ~rem_tvalid'
        \/ /\ place.pos # N_OUT - 1 /\ place'.pos = place.pos + 1
           /\ place'.sym = place.sym /\ (rem_tvalid' <=> place.pos >= N_CP)
        \/ /\ place.pos = N_OUT - 1 /\ place'.pos = 0
           /\ place'.sym = place.sym + 1 /\ rem_tvalid'
    BY <1>1, <1>3, <1>4, PlaceAfter
  <1>7. Fft!LoadTaken \/ Fft!LoadSample(rem_tvalid, rem_tdata) \/ Fft!LoadHold(rem_tvalid)
    BY <1>4 DEF RxTick, Fft!Clock, Fft!Load
  <1>8. CASE rem_tvalid
    <2>1. Fft!LoadSample(rem_tvalid, rem_tdata) /\ ~fft_load_done
      BY <1>2, <1>7, <1>8 DEF Fft!LoadTaken, Fft!LoadHold, Fft!s_tready
    <2>2. /\ fft_in_buf' = [fft_in_buf EXCEPT ![fft_in_cnt] = rem_tdata]
          /\ \/ fft_in_cnt # N_FFT - 1 /\ fft_in_cnt' = fft_in_cnt + 1 /\ ~fft_load_done'
             \/ fft_in_cnt = N_FFT - 1 /\ fft_in_cnt' = 0 /\ fft_load_done'
      BY <2>1 DEF Fft!LoadSample
    <2>3. fft_load_done' \in BOOLEAN
      BY <1>2, <2>1, Zenon DEF Fft!LoadSample
    <2>4. LoadIdx \in 0 .. N_FFT - 1
      BY <1>1, <1>3, <1>8 DEF LoadIdx
    <2>5. DOMAIN fft_in_buf' = 0 .. N_FFT - 1
      BY <1>2, <2>2
    <2>6. \A i \in 0 .. N_FFT - 1 :
             i <= LoadIdx => fft_in_buf'[i] = Fft!Time(BlockOf(sent, RxLoadSym), i)
      <3>1. TAKE i \in 0 .. N_FFT - 1
      <3>2. CASE i < LoadIdx
        BY <1>2, <2>2, <2>4, <3>2
      <3>3. CASE i = LoadIdx
        BY <1>1, <1>2, <1>8, <2>2, <2>4, <3>3
      <3>. QED
        BY <2>4, <3>2, <3>3
    <2>7. CASE place.pos = 0
      <3>1. LoadIdx = N_FFT - 1 /\ RxLoadSym = place.sym - 1
        BY <1>8, <2>7 DEF LoadIdx, RxLoadSym
      <3>2. fft_in_cnt' = 0 /\ fft_load_done'
        BY <1>2, <1>3, <2>2, <3>1
      <3>3. place'.pos <= 1 /\ place'.sym = place.sym /\ ~rem_tvalid'
        BY <1>1, <1>3, <1>6, <2>7
      <3>4. LoadIdx' = 0
        BY <1>3, <1>5, <3>3 DEF LoadIdx
      <3>5. ~fft_out_busy'
        <4>1. fft_out_busy => fft_out_cnt = N_FFT - 1
          BY <1>8, <2>7 DEF RxInv, RxOutInv
        <4>2. Fft!OutIdle \/ Fft!OutCompute \/ Fft!OutDrive(TRUE) \/ Fft!OutWait(TRUE)
          BY <1>4 DEF RxTick, Fft!Clock, Fft!Output
        <4>. QED
          BY <2>1, <4>1, <4>2, Zenon DEF Fft!OutIdle, Fft!OutCompute, Fft!OutDrive, Fft!OutWait
      <3>6. \A i \in 0 .. N_FFT - 1 : fft_in_buf'[i] = Fft!Time(BlockOf(sent, place'.sym - 1), i)
        BY <1>3, <2>6, <3>1, <3>3
      <3>7. \A i \in 0 .. N_FFT - 1 : ~(i < fft_in_cnt')
        BY <3>2
      <3>. QED
        BY <1>4, <1>8, <2>3, <2>5, <2>7, <3>2, <3>3, <3>4, <3>5, <3>6, <3>7 DEF RxLoadInv
    <2>8. CASE place.pos # 0
      <3>1. /\ place.pos > N_CP /\ LoadIdx = place.pos - 1 - N_CP /\ RxLoadSym = place.sym
        BY <1>1, <1>8, <2>8 DEF LoadIdx, RxLoadSym
      <3>2. fft_in_cnt' = LoadIdx + 1 /\ ~fft_load_done'
        BY <1>1, <1>2, <1>3, <2>2, <3>1
      <3>3. LoadIdx' = LoadIdx + 1 /\ RxLoadSym' = RxLoadSym
        <4>1. CASE place'.pos = place.pos /\ place'.sym = place.sym /\ ~rem_tvalid'
          BY <1>1, <1>3, <2>8, <3>1, <4>1 DEF LoadIdx, RxLoadSym
        <4>2. CASE /\ place.pos # N_OUT - 1 /\ place'.pos = place.pos + 1
                   /\ place'.sym = place.sym /\ (rem_tvalid' <=> place.pos >= N_CP)
          <5>1. rem_tvalid' /\ place'.pos # 0
            BY <1>1, <1>3, <3>1, <4>2
          <5>. QED
            BY <1>1, <1>3, <3>1, <4>2, <5>1 DEF LoadIdx, RxLoadSym
        <4>3. CASE /\ place.pos = N_OUT - 1 /\ place'.pos = 0
                   /\ place'.sym = place.sym + 1 /\ rem_tvalid'
          BY <1>1, <1>3, <3>1, <4>3 DEF LoadIdx, RxLoadSym
        <4>. QED
          BY <1>6, <4>1, <4>2, <4>3
      <3>4. \A i \in 0 .. N_FFT - 1 :
               i < fft_in_cnt' => fft_in_buf'[i] = Fft!Time(BlockOf(sent, RxLoadSym'), i)
        BY <2>4, <2>6, <3>2, <3>3
      <3>. QED
        BY <1>4, <2>3, <2>5, <2>8, <3>2, <3>3, <3>4 DEF RxLoadInv
    <2>. QED
      BY <2>7, <2>8
  <1>9. CASE ~rem_tvalid
    <2>1. /\ fft_in_buf' = fft_in_buf /\ fft_in_cnt' = fft_in_cnt
          /\ fft_load_done' = FALSE
      BY <1>2, <1>7, <1>9, Zenon
         DEF Fft!LoadTaken, Fft!LoadSample, Fft!LoadHold, Fft!loadRegs
    <2>2. fft_load_done' \in BOOLEAN
      BY <2>1, Zenon
    <2>3. LoadIdx' = LoadIdx
      <3>1. LoadIdx = IF place.pos <= N_CP THEN 0 ELSE place.pos - N_CP
        BY <1>9 DEF LoadIdx
      <3>. QED
        BY <1>1, <1>3, <1>6, <3>1 DEF LoadIdx
    <2>4. LoadIdx = 0 \/ RxLoadSym' = RxLoadSym
      BY <1>1, <1>3, <1>6, <1>9 DEF LoadIdx, RxLoadSym
    <2>5. \A i \in 0 .. N_FFT - 1 :
             i < fft_in_cnt' => fft_in_buf'[i] = Fft!Time(BlockOf(sent, RxLoadSym'), i)
      BY <1>2, <2>1, <2>4
    <2>. QED
      BY <1>2, <1>4, <1>9, <2>1, <2>2, <2>3, <2>5 DEF RxLoadInv
  <1>. QED
    BY <1>1, <1>8, <1>9

(* The FFT's output: the next bin, in its turn, from the block of its       *)
(* symbol; the transform of a symbol's samples is the symbol.               *)
LEMMA RxOutFrame ==
    ASSUME RxInv, RxStep
    PROVE  /\ RxOutInv' /\ EqPlace' = FftPlace
           /\ fft_m_tvalid' = fft_out_busy
  <1>1. /\ place \in [sym : Nat, pos : 0 .. N_OUT - 1]
        /\ place.sym \in Nat /\ place.pos \in 0 .. N_OUT - 1
        /\ rem_tvalid \in BOOLEAN
        /\ rem_tvalid => (place.pos = 0 /\ place.sym >= 1) \/ place.pos > N_CP
    BY DEF RxInv, RemoveInv
  <1>2. /\ fft_load_done \in BOOLEAN
        /\ fft_load_done =>
              /\ ~rem_tvalid /\ ~fft_out_busy /\ place.pos <= 1
              /\ \A i \in 0 .. N_FFT - 1 : fft_in_buf[i] = Fft!Time(BlockOf(sent, place.sym - 1), i)
    BY DEF RxInv, RxLoadInv
  <1>3. /\ N_FFT \in 2 .. 64 /\ N_CP \in 1 .. N_FFT /\ N_OUT = N_FFT + N_CP
    BY RxConstants
  <1>4. RxOutInv /\ RxTick /\ sent' = sent /\ (fft_load_done' <=> rem_tvalid /\ place.pos = 0)
    BY RemoveFrame, RxLoadFrame DEF RxInv
  <1>5. /\ place'.sym \in Nat /\ place'.pos \in 0 .. N_OUT - 1 /\ rem_tvalid' \in BOOLEAN
        /\ \/ place'.pos = place.pos /\ place'.sym = place.sym /\ ~rem_tvalid'
           \/ /\ place.pos # N_OUT - 1 /\ place'.pos = place.pos + 1
              /\ place'.sym = place.sym
           \/ /\ place.pos = N_OUT - 1 /\ place'.pos = 0
              /\ place'.sym = place.sym + 1 /\ rem_tvalid'
    BY <1>1, <1>3, RemoveFrame, PlaceAfter DEF RemoveInv
  <1>6. /\ fft_inverse_q = FALSE /\ fft_out_busy \in BOOLEAN /\ fft_m_tvalid \in BOOLEAN
        /\ fft_out_cnt \in 0 .. N_FFT - 1
        /\ fft_out_busy =>
              /\ IF place.pos = 0 /\ rem_tvalid THEN fft_out_cnt = N_FFT - 1
                                                ELSE place.pos <= fft_out_cnt + 2
              /\ fft_out_buf = BlockOf(sent, Taken - 1)
        /\ ~fft_out_busy => fft_out_cnt = 0
        /\ FftPlace.sym \in Nat
    BY <1>4 DEF RxOutInv
  <1>7. Taken \in Int
    BY <1>1, OneBit DEF Taken
  <1>8. Taken' = Taken + One(fft_load_done)
    <2> DEFINE L == One(place.pos = 0 /\ rem_tvalid)
               M == One(place'.pos = 0 /\ rem_tvalid')
    <2>1. L \in Int /\ M \in Int /\ One(fft_load_done) \in Int
      BY OneBit
    <2>2. One(fft_load_done') = L
      BY <1>4, Zenon DEF One
    <2>3. place'.sym = place.sym + M
      <3>1. CASE place.pos = N_OUT - 1 /\ place'.pos = 0
                 /\ place'.sym = place.sym + 1 /\ rem_tvalid'
        BY <3>1 DEF One
      <3>2. CASE place'.sym = place.sym /\ ~(place'.pos = 0 /\ rem_tvalid')
        BY <1>1, <3>2 DEF One
      <3>3. CASE /\ place.pos # N_OUT - 1 /\ place'.pos = place.pos + 1
                 /\ place'.sym = place.sym
        BY <1>1, <1>3, <3>2, <3>3
      <3>. QED
        BY <1>5, <3>1, <3>2, <3>3
    <2>4. Taken = place.sym - L - One(fft_load_done) /\ Taken' = place'.sym - M - One(fft_load_done')
      BY DEF Taken
    <2> HIDE DEF L, M
    <2>. QED
      BY <1>1, <1>5, <2>1, <2>2, <2>3, <2>4
  <1>9. Fft!OutIdle \/ Fft!OutCompute \/ Fft!OutDrive(TRUE)
    BY <1>4 DEF RxTick, Fft!Clock, Fft!Output, Fft!OutWait
  <1>10. fft_inverse_q' = FALSE
    BY <1>4 DEF RxTick, Fft!Clock
  <1>11. CASE Fft!OutIdle
    <2>1. /\ ~fft_out_busy /\ ~fft_load_done /\ fft_m_tvalid' = FALSE
          /\ fft_out_cnt' = fft_out_cnt /\ fft_out_busy' = FALSE
      BY <1>6, <1>11, Zenon DEF Fft!OutIdle
    <2>2. fft_m_tvalid' \in BOOLEAN /\ fft_out_busy' \in BOOLEAN
      BY <2>1, Zenon
    <2>3. Taken' = Taken
      BY <1>7, <1>8, <2>1 DEF One
    <2>4. FftPlace = At(Taken, 0) /\ FftPlace' = At(Taken, 0) /\ EqPlace' = At(Taken, 0)
      BY <2>1, <2>3 DEF FftPlace, EqPlace
    <2>. QED
      BY <1>6, <1>10, <2>1, <2>2, <2>4 DEF RxOutInv
  <1>12. CASE Fft!OutCompute
    <2>1. /\ ~fft_out_busy /\ fft_load_done /\ fft_m_tvalid' = FALSE
          /\ fft_out_cnt' = 0 /\ fft_out_busy' = TRUE
          /\ fft_out_buf' = Fft!Dft(FALSE, fft_in_buf)
      BY <1>6, <1>12, Zenon DEF Fft!OutCompute
    <2>2. fft_m_tvalid' \in BOOLEAN /\ fft_out_busy' \in BOOLEAN
      BY <2>1, Zenon
    <2>3. Taken' = Taken + 1 /\ Taken = place.sym - 1
      <3>1. One(fft_load_done) = 1 /\ One(place.pos = 0 /\ rem_tvalid) = 0
        BY <1>2, <2>1, Zenon DEF One
      <3>. QED
        BY <1>1, <1>8, <3>1 DEF Taken
    <2>4. fft_out_buf' = BlockOf(sent', Taken)
      <3>1. /\ fft_in_buf[0].kind = "time" /\ fft_in_buf[0].of = BlockOf(sent, Taken)
            /\ \A n \in 0 .. N_FFT - 1 : fft_in_buf[n] = Fft!Time(fft_in_buf[0].of, n)
        <4>1. \A n \in 0 .. N_FFT - 1 : fft_in_buf[n] = Fft!Time(BlockOf(sent, Taken), n)
          BY <1>2, <2>1, <2>3
        <4>2. fft_in_buf[0] = Fft!Time(BlockOf(sent, Taken), 0)
          BY <1>3, <4>1
        <4>3. fft_in_buf[0].kind = "time" /\ fft_in_buf[0].of = BlockOf(sent, Taken)
          BY <4>2 DEF Fft!Time
        <4>. QED
          BY <4>1, <4>3
      <3>. QED
        BY <1>4, <2>1, <3>1 DEF Fft!Dft, Fft!Point
    <2>5. FftPlace = At(Taken, 0) /\ FftPlace' = At(Taken, 0) /\ EqPlace' = At(Taken, 0)
      BY <1>7, <2>1, <2>3 DEF FftPlace, EqPlace
    <2>6. place'.pos <= 2 /\ ~(place'.pos = 0 /\ rem_tvalid')
      BY <1>1, <1>2, <1>3, <1>5, <2>1
    <2>7. Taken' - 1 = Taken
      BY <1>7, <2>3
    <2>8. fft_m_tvalid' = fft_out_busy
      BY <1>6, <2>1, Zenon
    <2>9. fft_out_cnt' \in 0 .. N_FFT - 1 /\ place'.pos <= fft_out_cnt' + 2
      BY <1>3, <2>1, <2>6
    <2>10. FftPlace'.sym \in Nat /\ EqPlace'.sym \in Nat
      BY <1>6, <2>5
    <2>11. RxOutInv'
      BY <1>10, <2>1, <2>2, <2>4, <2>6, <2>7, <2>9, <2>10, Zenon DEF RxOutInv
    <2>. QED
      BY <2>5, <2>8, <2>11
  <1>13. CASE Fft!OutDrive(TRUE)
    <2>1. /\ fft_out_busy /\ fft_m_tdata' = fft_out_buf[fft_out_cnt]
          /\ fft_m_tvalid' = TRUE /\ fft_out_buf' = fft_out_buf
          /\ \/ fft_out_cnt # N_FFT - 1 /\ fft_out_cnt' = fft_out_cnt + 1 /\ fft_out_busy'
             \/ fft_out_cnt = N_FFT - 1 /\ fft_out_cnt' = 0 /\ fft_out_busy' = FALSE
      BY <1>13 DEF Fft!OutDrive
    <2>2. fft_m_tvalid' \in BOOLEAN /\ fft_out_busy' \in BOOLEAN
      BY <1>6, <1>13, Zenon DEF Fft!OutDrive
    <2>3. Taken' = Taken
      BY <1>2, <1>7, <1>8, <2>1 DEF One
    <2>4. FftPlace = At(Taken - 1, fft_out_cnt)
      BY <2>1 DEF FftPlace
    <2>5. FftPlace' = IF fft_out_cnt = N_FFT - 1 THEN At(Taken, 0)
                                                 ELSE At(Taken - 1, fft_out_cnt + 1)
      BY <2>1, <2>3 DEF FftPlace
    <2>6. Before(FftPlace') = FftPlace
      BY <1>3, <1>6, <1>7, <2>4, <2>5 DEF Before, At
    <2>7. EqPlace' = FftPlace
      BY <2>1, <2>6 DEF EqPlace
    <2>8. FftPlace'.sym \in Nat
      BY <1>6, <1>7, <2>4, <2>5 DEF At
    <2>9. fft_m_tdata' = BinAt(sent', EqPlace')
      BY <1>4, <1>6, <2>1, <2>4, <2>7 DEF BinAt, BlockOf, At
    <2>10. fft_out_busy' =>
              IF place'.pos = 0 /\ rem_tvalid' THEN fft_out_cnt' = N_FFT - 1
                                               ELSE place'.pos <= fft_out_cnt' + 2
      BY <1>1, <1>3, <1>5, <1>6, <2>1
    <2>11. fft_m_tvalid' = fft_out_busy
      BY <1>6, <2>1, Zenon
    <2>12. fft_out_cnt' \in 0 .. N_FFT - 1 /\ (~fft_out_busy' => fft_out_cnt' = 0)
      BY <1>3, <1>6, <2>1
    <2>13. EqPlace'.sym \in Nat
      BY <1>6, <2>7
    <2>14. fft_out_buf' = BlockOf(sent', Taken' - 1)
      BY <1>4, <1>6, <2>1, <2>3
    <2>15. RxOutInv'
      BY <1>10, <2>2, <2>8, <2>9, <2>10, <2>12, <2>13, <2>14, Zenon DEF RxOutInv
    <2>. QED
      BY <2>7, <2>11, <2>15
  <1>. QED
    BY <1>9, <1>11, <1>12, <1>13

(* Data bins are counted one by one along the places.                       *)
LEMMA DataBinAfter ==
    ASSUME NEW x \in [sym : Nat, bin : 0 .. N_FFT - 1],
           NEW y \in [sym : Nat, bin : 0 .. N_FFT - 1], Before(y) = x
    PROVE  DataBin(x) \in Nat /\ DataBin(y) = DataBin(x) + One(x.bin \in DataBins)
  <1> DEFINE D == Cardinality(DataBins)
             C(c) == Below(DataBins, c)
  <1>1. /\ N_FFT \in 2 .. 64 /\ DataBins \subseteq 0 .. N_FFT - 1
        /\ x.bin \in 0 .. N_FFT - 1 /\ y.bin \in 0 .. N_FFT - 1 /\ x.sym \in Nat /\ y.sym \in Nat
    BY RxConstants
  <1>2. /\ DataBin(x) = x.sym * D + C(x.bin) /\ DataBin(y) = y.sym * D + C(y.bin)
    BY DEF DataBin, Rank, Below
  <1>3. /\ D \in Nat /\ C(x.bin) \in Nat /\ C(x.bin + 1) = C(x.bin) + One(x.bin \in DataBins)
        /\ C(0) = 0 /\ C(N_FFT) = D
    <2>1. N_FFT \in Nat
      BY <1>1
    <2>. QED
      BY <1>1, <2>1, BelowCounts
  <1>4. \/ y.bin # 0 /\ y.sym = x.sym /\ y.bin = x.bin + 1
        \/ y.bin = 0 /\ y.sym = x.sym + 1 /\ x.bin + 1 = N_FFT
    BY <1>1 DEF Before, At
  <1>5. One(x.bin \in DataBins) \in Nat
    BY OneBit
  <1> HIDE DEF D, C
  <1>6. x.sym * D \in Nat /\ (x.sym + 1) * D = x.sym * D + D
    BY <1>1, <1>3
  <1> DEFINE P == x.sym * D
             Q == (x.sym + 1) * D
  <1>7. /\ P \in Nat /\ Q = P + D /\ DataBin(x) = P + C(x.bin)
        /\ y.sym = x.sym => DataBin(y) = P + C(y.bin)
        /\ y.sym = x.sym + 1 => DataBin(y) = Q + C(y.bin)
    BY <1>2, <1>6
  <1> HIDE DEF P, Q
  <1>. QED
    BY <1>3, <1>4, <1>5, <1>7

(* A data bin among the first N_CW \div 2 belongs to the first frame and    *)
(* holds two bits of its codeword, by its number.                           *)
LEMMA FirstFrameBin ==
    ASSUME NEW x \in [sym : Nat, bin : 0 .. N_FFT - 1], x.bin \in DataBins,
           2 * DataBin(x) < N_CW
    PROVE  BinAt(sent, x) = [kind |-> "data", cw |-> sent[1],
                       i |-> 2 * DataBin(x), q |-> 2 * DataBin(x) + 1]
  <1> DEFINE D == Cardinality(DataBins)
             K == 2 * (x.sym * D + Rank(x.bin))
  <1>1. /\ N_FFT \in Nat /\ DataBins \subseteq 0 .. N_FFT - 1 /\ N_SYM \in 1 .. 16
        /\ N_CW \in Nat \ {0} /\ DataBins \cap PilotBins = {}
        /\ x.sym \in Nat /\ x.bin \in 0 .. N_FFT - 1
    BY RxConstants
  <1>2. D \in Nat /\ Rank(x.bin) \in Nat
    BY <1>1, BelowCounts DEF Rank, Below
  <1>3. K = 2 * DataBin(x) /\ K < N_CW
    BY DEF DataBin
  <1>4. 2 * N_SYM * D >= N_CW
    BY RxAssumption
  <1>5. K \in Nat
    BY <1>1, <1>2
  <1>6. x.sym < N_SYM
    <2> SUFFICES ASSUME x.sym >= N_SYM PROVE FALSE
      BY <1>1
    <2> DEFINE e == x.sym - N_SYM
    <2>1. e \in Nat /\ x.sym = N_SYM + e
      BY <1>1
    <2> HIDE DEF e, D
    <2>2. (N_SYM + e) * D = N_SYM * D + e * D /\ e * D \in Nat /\ N_SYM * D \in Nat
      BY <1>1, <1>2, <2>1
    <2>3. x.sym * D >= N_SYM * D /\ x.sym * D \in Nat
      BY <2>1, <2>2
    <2>4. 2 * N_SYM * D = 2 * (N_SYM * D)
      BY <1>1, <1>2
    <2> DEFINE P == x.sym * D
               Q == N_SYM * D
    <2>5. P >= Q /\ P \in Nat /\ Q \in Nat /\ 2 * Q >= N_CW /\ 2 * (P + Rank(x.bin)) < N_CW
      BY <1>3, <1>4, <2>2, <2>3, <2>4
    <2> HIDE DEF P, Q
    <2>. QED
      BY <1>1, <1>2, <2>5
  <1>7. x.sym \div N_SYM = 0 /\ x.sym % N_SYM = x.sym
    BY <1>1, <1>6
  <1>8. BitAt(Slot(x.sym, x.bin)) = K
    <2>1. Slot(x.sym, x.bin) = K /\ PtrMod = N_CW
      BY RxConstants DEF Slot
    <2>2. K % N_CW = K
      BY <1>1, <1>3, <1>5
    <2>. QED
      BY <2>1, <2>2 DEF BitAt
  <1>9. BinAt(sent, x) = [kind |-> "data", cw |-> sent[1], i |-> K, q |-> K + 1]
    <2>1. x.bin \notin PilotBins
      BY <1>1
    <2>2. BinAt(sent, x) = BinOf(sent[1], x.sym, x.bin)
      BY <1>7 DEF BinAt
    <2>. QED
      BY <1>3, <1>8, <2>1, <2>2 DEF BinOf
  <1>. QED
    BY <1>3, <1>9

(* The places of the equaliser and of the demapper are places of the stream. *)
LEMMA PlacesType ==
    ASSUME RxInv
    PROVE  /\ EqPlace \in [sym : Nat, bin : 0 .. N_FFT - 1]
           /\ DemapPlace \in [sym : Nat, bin : 0 .. N_FFT - 1]
  <1>1. RxOutInv /\ DemapInv /\ N_FFT \in 2 .. 64
    BY RxConstants DEF RxInv
  <1>2. Taken \in Int /\ fft_out_cnt \in 0 .. N_FFT - 1
    BY <1>1, OneBit DEF Taken, RxInv, RemoveInv, RxOutInv
  <1>3. FftPlace \in [sym : Int, bin : 0 .. N_FFT - 1]
    BY <1>1, <1>2 DEF FftPlace, At
  <1>4. \A x \in [sym : Int, bin : 0 .. N_FFT - 1] :
           Before(x) \in [sym : Int, bin : 0 .. N_FFT - 1]
    BY <1>1 DEF Before, At
  <1>5. EqPlace \in [sym : Int, bin : 0 .. N_FFT - 1]
    BY <1>3, <1>4 DEF EqPlace
  <1>6. DemapPlace \in [sym : Int, bin : 0 .. N_FFT - 1]
    BY <1>4, <1>5 DEF DemapPlace
  <1>7. EqPlace.sym \in Nat /\ DemapPlace.sym \in Nat
    BY <1>1 DEF RxOutInv, DemapInv
  <1>. QED
    BY <1>5, <1>6, <1>7

(* The demapper has counted right: bin_cnt is the bin it holds.  And the    *)
(* counts of the data bins go down the pipeline, clock by clock.            *)
LEMMA DemapFrame ==
    ASSUME RxInv, RxStep
    PROVE  /\ DemapInv'
           /\ DemodCount' = DemapCount /\ DemapCount' = DataBin(DemapPlace)
           /\ DemapPlace \in [sym : Nat, bin : 0 .. N_FFT - 1]
  <1>1. RxOutInv /\ DemapInv /\ N_FFT \in 2 .. 64 /\ DataBins \subseteq 0 .. N_FFT - 1
    BY RxConstants DEF RxInv
  <1>2. /\ RxOutInv' /\ EqPlace' = FftPlace /\ fft_m_tvalid' = fft_out_busy
    BY RxOutFrame
  <1>3. Llr!Equalise(fft_m_tvalid, fft_m_tdata) /\ Llr!Demap /\ Llr!Demod
    BY RemoveFrame DEF RxTick, Llr!Clock
  <1>4. eq_valid' = fft_m_tvalid /\ eq_data' = fft_m_tdata
    BY <1>3 DEF Llr!Equalise
  <1>5. DemapPlace' = EqPlace
    BY <1>2, <1>4 DEF DemapPlace, EqPlace
  <1>11. /\ EqPlace \in [sym : Nat, bin : 0 .. N_FFT - 1]
         /\ DemapPlace \in [sym : Nat, bin : 0 .. N_FFT - 1]
    BY PlacesType
  <1>12. bin_cnt' = DemapPlace'.bin
    <2>1. bin_cnt = DemapPlace.bin /\ bin_cnt' = IF eq_valid THEN (bin_cnt + 1) % N_FFT ELSE bin_cnt
      BY <1>1, <1>3 DEF DemapInv, Llr!Demap
    <2>2. CASE eq_valid
      <3>1. DemapPlace = Before(EqPlace)
        BY <2>2 DEF DemapPlace
      <3>2. \/ EqPlace.bin = 0 /\ bin_cnt = N_FFT - 1
            \/ EqPlace.bin # 0 /\ bin_cnt = EqPlace.bin - 1
        BY <1>11, <2>1, <3>1 DEF Before, At
      <3>3. (bin_cnt + 1) % N_FFT = EqPlace.bin
        BY <1>1, <1>11, <3>2
      <3>. QED
        BY <1>5, <2>1, <2>2, <3>3
    <2>3. CASE ~eq_valid
      BY <1>5, <2>1, <2>3 DEF DemapPlace
    <2>. QED
      BY <2>2, <2>3
  <1>13. demap_valid' = (eq_valid /\ bin_cnt \in DataBins) /\ demod_valid' = demap_valid
    BY <1>3 DEF Llr!Demap, Llr!Demod
  <1>14. One(demap_valid') = One(eq_valid /\ DemapPlace.bin \in DataBins)
    <2>1. bin_cnt = DemapPlace.bin
      BY <1>1 DEF DemapInv
    <2>. QED
      BY <1>13, <2>1 DEF One
  <1>15. DataBin(DemapPlace) \in Nat /\ DataBin(DemapPlace') = DataBin(DemapPlace) + One(demap_valid')
    <2>1. CASE eq_valid
      <3>1. DemapPlace = Before(EqPlace)
        BY <2>1 DEF DemapPlace
      <3>2. One(demap_valid') = One(DemapPlace.bin \in DataBins)
        BY <1>14, <2>1, Zenon DEF One
      <3>. QED
        BY <1>5, <1>11, <3>1, <3>2, DataBinAfter
    <2>2. CASE ~eq_valid
      <3>1. DemapPlace' = DemapPlace
        BY <1>5, <2>2 DEF DemapPlace
      <3>2. One(demap_valid') = 0
        BY <1>14, <2>2, Zenon DEF One
      <3>3. DataBin(DemapPlace) \in Nat
        <4>1. Cardinality(DataBins) \in Nat /\ Rank(DemapPlace.bin) \in Nat
          <5>1. N_FFT \in Nat /\ DemapPlace.bin \in 0 .. N_FFT - 1
            BY <1>1, <1>11
          <5>. QED
            BY <1>1, <5>1, BelowCounts DEF Rank, Below
        <4>. QED
          BY <1>11, <4>1 DEF DataBin
      <3>. QED
        BY <3>1, <3>2, <3>3
    <2>. QED
      BY <2>1, <2>2
  <1>16. One(demap_valid') \in Int
    BY OneBit
  <1>17. DemapCount' = DataBin(DemapPlace)
    BY <1>15, <1>16 DEF DemapCount
  <1>18. DemodCount' = DemapCount
    <2>1. DemodCount' = DemapCount' - One(demap_valid)
      BY <1>13 DEF DemodCount
    <2>. QED
      BY <1>17, <2>1 DEF DemapCount
  <1>19. eq_valid' => eq_data' = BinAt(sent', DemapPlace')
    BY <1>1, <1>4, <1>5, RemoveFrame DEF RxOutInv
  <1>20. eq_valid' \in BOOLEAN /\ demap_valid' \in BOOLEAN /\ demod_valid' \in BOOLEAN
    BY <1>1, <1>4, <1>13, Zenon DEF RxOutInv, DemapInv
  <1>21. DemapCount' \in Nat /\ DemodCount' \in Nat
    BY <1>1, <1>15, <1>17, <1>18 DEF DemapInv
  <1>22. DemapPlace'.sym \in Nat
    BY <1>5, <1>11
  <1>23. DemapInv'
    BY <1>12, <1>19, <1>20, <1>21, <1>22, Zenon DEF DemapInv
  <1>. QED
    BY <1>11, <1>17, <1>18, <1>23

(* The demodulator and the LLR buffer: pair k of the buffer comes from data *)
(* bin k, until the buffer is full; after that nothing is written.          *)
LEMMA LlrFrame ==
    ASSUME RxInv, RxStep
    PROVE  LlrInv'
  <1>1. LlrInv /\ DemapInv /\ N_CW \in Nat \ {0} /\ N_CW % 2 = 0
    BY RxConstants DEF RxInv
  <1>2. /\ DemodCount' = DemapCount /\ DemapCount' = DataBin(DemapPlace)
        /\ DemapPlace \in [sym : Nat, bin : 0 .. N_FFT - 1]
    BY DemapFrame
  <1>3. Llr!Demap /\ Llr!Demod /\ (Llr!BufWrite \/ Llr!BufHold) /\ sent' = sent
    BY RemoveFrame DEF RxTick, Llr!Clock
  <1>4. demap_valid' /\ 2 * DemapCount' < N_CW =>
           demap_data' = [kind |-> "data", cw |-> sent[1],
                          i |-> 2 * DemapCount', q |-> 2 * DemapCount' + 1]
    <2> SUFFICES ASSUME demap_valid', 2 * DemapCount' < N_CW
                 PROVE  demap_data' = [kind |-> "data", cw |-> sent[1],
                                       i |-> 2 * DemapCount', q |-> 2 * DemapCount' + 1]
      OBVIOUS
    <2>1. eq_valid /\ bin_cnt \in DataBins /\ demap_data' = eq_data
      BY <1>3, Zenon DEF Llr!Demap
    <2>2. eq_data = BinAt(sent, DemapPlace) /\ DemapPlace.bin \in DataBins
      BY <1>1, <2>1 DEF DemapInv
    <2>. QED
      BY <1>2, <2>1, <2>2, FirstFrameBin
  <1>5. demod_valid' /\ 2 * DemodCount' < N_CW =>
           /\ llr0' = [cw |-> sent[1], bit |-> 2 * DemodCount']
           /\ llr1' = [cw |-> sent[1], bit |-> 2 * DemodCount' + 1]
    <2> SUFFICES ASSUME demod_valid', 2 * DemodCount' < N_CW
                 PROVE  /\ llr0' = [cw |-> sent[1], bit |-> 2 * DemodCount']
                        /\ llr1' = [cw |-> sent[1], bit |-> 2 * DemodCount' + 1]
      OBVIOUS
    <2>1. /\ demap_valid
          /\ llr0' = Llr!Soft(demap_data)[1] /\ llr1' = Llr!Soft(demap_data)[2]
      BY <1>3 DEF Llr!Demod
    <2>2. demap_data = [kind |-> "data", cw |-> sent[1], i |-> 2 * DemapCount, q |-> 2 * DemapCount + 1]
      BY <1>1, <1>2, <2>1 DEF LlrInv
    <2>3. Llr!Soft(demap_data) = <<[cw |-> sent[1], bit |-> 2 * DemapCount],
                                   [cw |-> sent[1], bit |-> 2 * DemapCount + 1]>>
      BY <2>2 DEF Llr!Soft
    <2>. QED
      BY <1>2, <2>1, <2>3
  <1>6. /\ DOMAIN llr = 0 .. N_CW - 1
        /\ done_latched \in BOOLEAN /\ llr_done \in BOOLEAN
        /\ ~done_latched => /\ wr_cnt = DemodCount /\ 2 * wr_cnt < N_CW
                            /\ \A k \in 0 .. N_CW - 1 :
                                  k < 2 * wr_cnt => llr[k] = [cw |-> sent[1], bit |-> k]
        /\ done_latched =>
              wr_cnt = 0 /\ \A k \in 0 .. N_CW - 1 : llr[k] = [cw |-> sent[1], bit |-> k]
    BY <1>1 DEF LlrInv
  <1>7. DemodCount \in Nat /\ DemapCount = DemodCount + One(demod_valid)
    <2>1. DemapCount \in Nat /\ DemodCount \in Nat /\ One(demod_valid) \in Int
      BY <1>1, OneBit DEF DemapInv
    <2>. QED
      BY <2>1 DEF DemodCount
  <1>8. CASE Llr!BufWrite
    <2>1. /\ demod_valid /\ ~done_latched
          /\ llr' = [llr EXCEPT ![2 * wr_cnt] = llr0, ![2 * wr_cnt + 1] = llr1]
          /\ \/ /\ wr_cnt # N_CW \div 2 - 1 /\ wr_cnt' = wr_cnt + 1
                /\ llr_done' = FALSE /\ ~done_latched'
             \/ /\ wr_cnt = N_CW \div 2 - 1 /\ wr_cnt' = 0
                /\ llr_done' = TRUE /\ done_latched' = TRUE
      BY <1>8 DEF Llr!BufWrite, Llr!write_en, Llr!LastPair
    <2>2. done_latched' \in BOOLEAN /\ llr_done' \in BOOLEAN
      BY <1>6, <1>8, Zenon DEF Llr!BufWrite
    <2>3. wr_cnt \in Nat /\ 2 * wr_cnt + 1 < N_CW
      BY <1>1, <1>6, <1>7, <2>1
    <2>4. llr0 = [cw |-> sent[1], bit |-> 2 * wr_cnt] /\ llr1 = [cw |-> sent[1], bit |-> 2 * wr_cnt + 1]
      BY <1>1, <1>6, <2>1 DEF LlrInv
    <2>5. DOMAIN llr' = 0 .. N_CW - 1
      BY <1>6, <2>1
    <2>6. \A k \in 0 .. N_CW - 1 : k < 2 * wr_cnt + 2 => llr'[k] = [cw |-> sent[1], bit |-> k]
      <3>1. TAKE k \in 0 .. N_CW - 1
      <3>2. CASE k = 2 * wr_cnt
        <4>1. k # 2 * wr_cnt + 1
          BY <2>3, <3>2
        <4>2. llr'[k] = llr0
          BY <1>6, <2>1, <3>2, <4>1
        <4>. QED
          BY <2>4, <3>2, <4>2
      <3>3. CASE k = 2 * wr_cnt + 1
        <4>1. llr'[k] = llr1
          BY <1>6, <2>1, <3>3
        <4>. QED
          BY <2>4, <3>3, <4>1
      <3>4. CASE k < 2 * wr_cnt
        <4>1. llr'[k] = llr[k]
          BY <1>6, <2>1, <2>3, <3>4
        <4>. QED
          BY <1>6, <2>1, <3>4, <4>1
      <3>. QED
        BY <2>3, <3>2, <3>3, <3>4
    <2>7. DemodCount' = wr_cnt + 1
      <3>1. One(demod_valid) = 1
        BY <2>1, Zenon DEF One
      <3>. QED
        BY <1>2, <1>6, <1>7, <2>1, <3>1
    <2>8. CASE wr_cnt # N_CW \div 2 - 1
      <3>1. wr_cnt' = wr_cnt + 1 /\ ~done_latched'
        BY <2>1, <2>8
      <3>2. 2 * wr_cnt' < N_CW
        BY <1>1, <2>3, <2>8, <3>1
      <3>3. \A k \in 0 .. N_CW - 1 : k < 2 * wr_cnt' => llr'[k] = [cw |-> sent[1], bit |-> k]
        BY <2>3, <2>6, <3>1
      <3>. QED
        BY <1>3, <1>4, <1>5, <2>2, <2>5, <2>7, <3>1, <3>2, <3>3 DEF LlrInv
    <2>9. CASE wr_cnt = N_CW \div 2 - 1
      <3>1. wr_cnt' = 0 /\ done_latched'
        BY <2>1, <2>9
      <3>2. 2 * wr_cnt + 2 = N_CW
        BY <1>1, <2>9
      <3>3. \A k \in 0 .. N_CW - 1 : llr'[k] = [cw |-> sent[1], bit |-> k]
        <4>1. \A k \in 0 .. N_CW - 1 : k < 2 * wr_cnt + 2
          BY <1>1, <3>2
        <4>. QED
          BY <2>6, <4>1
      <3>. QED
        BY <1>3, <1>4, <1>5, <2>2, <2>5, <3>1, <3>3 DEF LlrInv
    <2>. QED
      BY <2>8, <2>9
  <1>9. CASE Llr!BufHold
    <2>1. /\ ~(demod_valid /\ ~done_latched) /\ llr_done' = FALSE
          /\ UNCHANGED <<llr, wr_cnt, done_latched>>
      BY <1>9 DEF Llr!BufHold, Llr!write_en
    <2>2. llr_done' \in BOOLEAN
      BY <2>1, Zenon
    <2>3. ~done_latched => DemodCount' = DemodCount
      <3> SUFFICES ASSUME ~done_latched PROVE DemodCount' = DemodCount
        OBVIOUS
      <3>1. One(demod_valid) = 0
        BY <2>1, Zenon DEF One
      <3>. QED
        BY <1>2, <1>7, <3>1
    <2>. QED
      BY <1>3, <1>4, <1>5, <1>6, <2>1, <2>2, <2>3 DEF LlrInv
  <1>. QED
    BY <1>3, <1>8, <1>9

LEMMA RxInvStep == RxInv /\ RxStep => RxInv'
  BY RemoveFrame, RxLoadFrame, RxOutFrame, DemapFrame, LlrFrame DEF RxInv

LEMMA RxStutters ==
    ASSUME RxInv, UNCHANGED rxVars
    PROVE  RxInv'
  <1>1. UNCHANGED <<sample_cnt, synced, rem_tvalid, rem_tdata, fft_inverse_q, fft_in_buf,
                    fft_in_cnt, fft_load_done, fft_out_buf, fft_out_cnt, fft_out_busy,
                    fft_m_tvalid, fft_m_tdata, eq_valid, eq_data, bin_cnt, demap_valid,
                    demap_data, demod_valid, llr0, llr1, llr, wr_cnt, done_latched,
                    llr_done, place, sent>>
    BY DEF rxVars, rxRegs
  <1>2. RxLoadSym' = RxLoadSym /\ LoadIdx' = LoadIdx /\ Taken' = Taken
    BY <1>1 DEF RxLoadSym, LoadIdx, Taken
  <1>3. FftPlace' = FftPlace
    BY <1>1, <1>2 DEF FftPlace
  <1>4. EqPlace' = EqPlace
    BY <1>1, <1>3 DEF EqPlace
  <1>5. DemapPlace' = DemapPlace
    BY <1>1, <1>4 DEF DemapPlace
  <1>6. DemapCount' = DemapCount /\ DemodCount' = DemodCount
    BY <1>1, <1>5 DEF DemapCount, DemodCount
  <1>7. RemoveInv'
    BY <1>1, <1>2 DEF RxInv, RemoveInv, N_OUT
  <1>8. RxLoadInv'
    BY <1>1, <1>2 DEF RxInv, RxLoadInv
  <1>9. RxOutInv'
    BY <1>1, <1>2, <1>3, <1>4 DEF RxInv, RxOutInv
  <1>10. DemapInv'
    BY <1>1, <1>5, <1>6 DEF RxInv, DemapInv
  <1>11. LlrInv'
    BY <1>1, <1>6 DEF RxInv, LlrInv
  <1>. QED
    BY <1>7, <1>8, <1>9, <1>10, <1>11 DEF RxInv

LEMMA NextRxInv == RxInv /\ [RxNext]_rxVars => RxInv'
  <1> SUFFICES ASSUME RxInv, [RxNext]_rxVars PROVE RxInv'
    OBVIOUS
  <1>1. CASE RxNext
    BY <1>1, NextIsStep, RxInvStep
  <1>2. CASE UNCHANGED rxVars
    BY <1>2, RxStutters
  <1>. QED
    BY <1>1, <1>2

LEMMA RxInvariant == RxSpec => []RxInv
  <1>1. RxInit => RxIdle
    BY PowerUpIdle DEF RxInit
  <1>. QED
    BY <1>1, IdleInv, NextRxInv, PTL DEF RxSpec

LEMMA RxInvType == RxInv => RxTypeOK
  <1> SUFFICES ASSUME RxInv PROVE RxTypeOK
    OBVIOUS
  <1>1. /\ N_FFT \in 2 .. 64 /\ N_CP \in 1 .. N_FFT /\ N_OUT = N_FFT + N_CP
        /\ N_CW \in Nat \ {0} /\ N_CW % 2 = 0
    BY RxConstants
  <1>2. sample_cnt \in 0 .. N_OUT - 1 /\ synced \in BOOLEAN
    BY DEF RxInv, RemoveInv
  <1>3. fft_in_cnt \in 0 .. N_FFT - 1 /\ fft_load_done \in BOOLEAN
    BY <1>1 DEF RxInv, RemoveInv, RxLoadInv, LoadIdx
  <1>4. fft_out_cnt \in 0 .. N_FFT - 1 /\ fft_out_busy \in BOOLEAN
    BY DEF RxInv, RxOutInv
  <1>5. bin_cnt \in 0 .. N_FFT - 1
    BY PlacesType DEF RxInv, DemapInv
  <1>6. wr_cnt \in 0 .. N_CW \div 2 - 1 /\ done_latched \in BOOLEAN /\ llr_done \in BOOLEAN
    BY <1>1 DEF RxInv, DemapInv, LlrInv
  <1>. QED
    BY <1>2, <1>3, <1>4, <1>5, <1>6 DEF RxTypeOK

-----------------------------------------------------------------------------
(* The counters stay in range and the LLR write counter in its memory       *)
(* (cp_remove.v:25, xfft_stub.v:70-72, llr_buffer.v:21).                    *)
THEOREM RxTypeCorrect == RxSpec => []RxTypeOK
  BY RxInvType, RxInvariant, PTL

(* The FFT has room for every sample cp_remove brings, though neither of    *)
(* the two asks (ofdm_ldpc_top.v:207).                                      *)
THEOREM EverySampleTaken == RxSpec => []NoSampleDropped
  <1>1. RxInv => NoSampleDropped
    BY DEF RxInv, RxLoadInv, NoSampleDropped, Fft!s_tready
  <1>. QED
    BY <1>1, RxInvariant, PTL

(* A sample meets the FFT at its own place and a bin the demapper at its    *)
(* own number, whatever the pace of the samples (cp_remove.v:28-35).        *)
THEOREM RxCountersAligned == RxSpec => []RxAligned
  <1>1. ASSUME RxInv PROVE RxAligned
    <2>1. rem_tvalid => rem_tdata.n = fft_in_cnt
      BY <1>1 DEF RxInv, RemoveInv, RxLoadInv, Fft!Time
    <2>2. eq_valid => (eq_data.kind = "data" <=> bin_cnt \in DataBins)
      <3>1. eq_valid => eq_data = BinAt(sent, DemapPlace) /\ bin_cnt = DemapPlace.bin
        BY <1>1 DEF RxInv, DemapInv
      <3>2. BinAt(sent, DemapPlace).kind = "data" <=> DemapPlace.bin \in DataBins
        <4>1. /\ DataBins \cap PilotBins = {} /\ DataBins \subseteq 0 .. N_FFT - 1
              /\ N_FFT \in Nat /\ N_SYM \in Nat \ {0} /\ N_CW \in Nat \ {0} /\ PtrMod = N_CW
          BY RxConstants
        <4>2. DemapPlace.sym \in Nat /\ DemapPlace.bin \in 0 .. N_FFT - 1
          BY <1>1, PlacesType
        <4> DEFINE r == DemapPlace.sym % N_SYM
                   D == Cardinality(DataBins)
        <4>3. r \in Nat /\ D \in Nat /\ Rank(DemapPlace.bin) \in Nat
          <5>1. r \in Nat
            BY <4>1, <4>2
          <5>2. D \in Nat /\ Rank(DemapPlace.bin) \in Nat
            BY <4>1, <4>2, BelowCounts DEF Rank, Below
          <5>. QED
            BY <5>1, <5>2
        <4> HIDE DEF r, D
        <4>4. r * D \in Nat
          BY <4>3
        <4>5. Slot(r, DemapPlace.bin) \in Nat
          BY <4>3, <4>4 DEF Slot, D
        <4>6. BitAt(Slot(r, DemapPlace.bin)) < N_CW
          BY <4>1, <4>5 DEF BitAt
        <4>. QED
          BY <4>1, <4>6 DEF BinAt, BinOf, r
      <3>. QED
        BY <3>1, <3>2
    <2>. QED
      BY <2>1, <2>2 DEF RxAligned
  <1>. QED
    BY <1>1, RxInvariant, PTL

(* When the decoder is told to start, and ever after, its memory holds bit  *)
(* k of the first frame's codeword at address k (llr_buffer.v:22-51).       *)
THEOREM CodewordComplete == RxSpec => []LlrComplete
  <1>1. RxInv => LlrComplete
    BY DEF RxInv, LlrInv, LlrComplete
  <1>. QED
    BY <1>1, RxInvariant, PTL
=============================================================================
