-------------------------- MODULE CpStream_proofs ---------------------------
(***************************************************************************)
(* Proofs about CpStream for all N_FFT, N_CP and MaxSym that CpAssumption  *)
(* and StreamAssumption allow.  TypeOK and BankExclusive hold whatever the *)
(* sink does; InOrder, BurstIsSymbol and the refinement need the sink of   *)
(* ofdm_ldpc_top, which is always ready.                                   *)
(***************************************************************************)
EXTENDS CpStream, TLAPS

(* The reader's index stays inside the bank, for prefix and body alike. *)
LEMMA IndexInBank ==
    ASSUME NEW p \in 0 .. N_OUT - 1
    PROVE  rd_buf_idx(p) \in Index
  BY CpAssumption DEF rd_buf_idx, Index, N_OUT

LEMMA InitTypeOK == Init => TypeOK
  <1> SUFFICES ASSUME Init PROVE TypeOK
    OBVIOUS
  <1> USE CpAssumption DEF Init, CpInit, CpReset, Index, N_OUT, Bank
  <1>1. buf \in [Bank -> [Index -> Samples \cup {Junk}]]
    OBVIOUS
  <1>2. Sample(0, 0) \in Samples
    BY DEF Samples, Sample
  <1>3. Sample(0, 0) \in [sym : Nat, pos : 0 .. N_OUT - 1]
    BY DEF Sample
  <1>4. wr_full \in BOOLEAN /\ rd_active \in BOOLEAN /\ m_tvalid \in BOOLEAN
    BY Zenon
  <1>5. wr_bank \in Bank /\ wr_ptr \in Index /\ rd_bank \in Bank /\ rd_ptr \in 0 .. N_OUT - 1
    OBVIOUS
  <1>6. src = Sample(0, 0) /\ snk = Sample(0, 0) /\ got = Junk /\ m_tdata = Junk
    OBVIOUS
  <1>. QED
    BY <1>1, <1>2, <1>3, <1>4, <1>5, <1>6 DEF TypeOK

(* The successor of a sample of an n-sample symbol is one. *)
LEMMA AfterType ==
    ASSUME NEW n \in Nat \ {0}, NEW x \in [sym : Nat, pos : 0 .. n - 1]
    PROVE  After(x, n) \in [sym : Nat, pos : 0 .. n - 1]
  BY DEF After, Sample

LEMMA NextTypeOK == TypeOK /\ [Next]_vars => TypeOK'
  <1> SUFFICES ASSUME TypeOK, [Next]_vars PROVE TypeOK'
    OBVIOUS
  <1>1. ASSUME NEW s_tvalid \in BOOLEAN, NEW m_tready \in Ready,
               Tick(s_tvalid, m_tready)
        PROVE  TypeOK'
    <2> USE CpAssumption DEF Index, N_OUT, Bank
    <2>1. Writer(s_tvalid, src) /\ Reader(m_tready)
      BY <1>1 DEF Tick, Clock
    <2>2. wr_full' \in BOOLEAN /\ rd_active' \in BOOLEAN /\ m_tvalid' \in BOOLEAN
      BY <2>1, Zenon DEF Writer, WrRelease, WrAccept, WrHold, wrRegs,
                         Reader, RdActivate, RdWait, RdAdvance, RdFinish,
                         RdStall, RdLoad, TypeOK
    <2>3. /\ buf' \in [Bank -> [Index -> Samples \cup {Junk}]]
          /\ wr_bank' \in Bank /\ wr_ptr' \in Index
      <3>1. CASE WrRelease
        BY <3>1 DEF WrRelease, TypeOK
      <3>2. CASE WrAccept(s_tvalid, src)
        BY <3>2 DEF WrAccept, TypeOK
      <3>3. CASE WrHold(s_tvalid)
        BY <3>3 DEF WrHold, wrRegs, TypeOK
      <3>. QED
        BY <2>1, <3>1, <3>2, <3>3 DEF Writer
    <2>4. /\ rd_bank' \in Bank /\ rd_ptr' \in 0 .. N_OUT - 1
          /\ m_tdata' \in Samples \cup {Junk}
      <3>1. CASE RdActivate
        BY <3>1 DEF RdActivate, TypeOK
      <3>2. CASE RdWait
        BY <3>2 DEF RdWait, TypeOK
      <3>3. rd_data \in Samples \cup {Junk}
        BY IndexInBank DEF rd_data, TypeOK
      <3>4. CASE RdAdvance(m_tready)
        BY <3>3, <3>4 DEF RdAdvance, RdLoad, TypeOK
      <3>5. CASE RdFinish(m_tready)
        BY <3>3, <3>5 DEF RdFinish, RdLoad, TypeOK
      <3>6. CASE RdStall(m_tready)
        BY <3>3, <3>6 DEF RdStall, RdLoad, TypeOK
      <3>. QED
        BY <2>1, <3>1, <3>2, <3>4, <3>5, <3>6 DEF Reader
    <2>5. /\ src' \in Samples /\ snk' \in [sym : Nat, pos : 0 .. N_OUT - 1]
          /\ got' \in Samples \cup {Junk}
      BY <1>1, AfterType DEF Tick, TypeOK, Samples
    <2>. QED
      BY <2>2, <2>3, <2>4, <2>5 DEF TypeOK
  <1>2. CASE UNCHANGED vars
    BY <1>2 DEF vars, cpRegs, wrRegs, rdRegs, TypeOK
  <1>. QED
    BY <1>1, <1>2 DEF Next

(* Pointers, flags and buffers keep their ranges in every run of cp_insert, *)
(* for every size of symbol and prefix and whatever the sink does.          *)
THEOREM TypeCorrect == Spec => []TypeOK
  BY InitTypeOK, NextTypeOK, PTL DEF Spec

-----------------------------------------------------------------------------
(* Who owns which bank.  BankExclusive alone is not inductive: a reader that *)
(* finishes must find the writer on the bank it turns to.                    *)
Ownership ==
    /\ rd_active /\ wr_bank = rd_bank => wr_full
    /\ ~rd_active => wr_bank = rd_bank

LEMMA NextOwnership == TypeOK /\ Ownership /\ [Next]_vars => Ownership'
  <1> SUFFICES ASSUME TypeOK, Ownership, [Next]_vars PROVE Ownership'
    OBVIOUS
  <1>1. ASSUME NEW s_tvalid \in BOOLEAN, NEW m_tready \in Ready,
               Tick(s_tvalid, m_tready)
        PROVE  Ownership'
    <2> USE DEF Ownership, TypeOK, Bank
    <2>1. Writer(s_tvalid, src) /\ Reader(m_tready)
      BY <1>1 DEF Tick, Clock
    <2>2. CASE RdActivate
      BY <2>1, <2>2 DEF RdActivate, Writer, WrRelease, WrAccept, WrHold, wrRegs, s_tready
    <2>3. CASE RdWait
      BY <2>1, <2>3 DEF RdWait, Writer, WrRelease, WrAccept, WrHold, wrRegs, s_tready
    <2>4. CASE RdAdvance(m_tready)
      BY <2>1, <2>4 DEF RdAdvance, RdLoad, Writer, WrRelease, WrAccept, WrHold, wrRegs, s_tready
    <2>5. CASE RdFinish(m_tready)
      BY <2>1, <2>5 DEF RdFinish, RdLoad, Writer, WrRelease, WrAccept, WrHold, wrRegs, s_tready
    <2>6. CASE RdStall(m_tready)
      BY <2>1, <2>6 DEF RdStall, RdLoad, Writer, WrRelease, WrAccept, WrHold, wrRegs, s_tready
    <2>. QED
      BY <2>1, <2>2, <2>3, <2>4, <2>5, <2>6 DEF Reader
  <1>2. CASE UNCHANGED vars
    BY <1>2 DEF vars, cpRegs, wrRegs, rdRegs, Ownership
  <1>. QED
    BY <1>1, <1>2 DEF Next

(* The writer and the streaming reader never meet in a bank, for every size *)
(* of symbol and prefix and whatever the sink does.                         *)
THEOREM BankExclusion == Spec => []BankExclusive
  <1>1. Init => Ownership
    BY DEF Init, CpInit, CpReset, Ownership
  <1>2. Ownership => BankExclusive
    BY DEF Ownership, BankExclusive, s_tready
  <1>. QED
    BY <1>1, <1>2, TypeCorrect, NextOwnership, PTL DEF Spec

-----------------------------------------------------------------------------
(***************************************************************************)
(* The stream.  InOrder speaks of the output register alone; to carry it   *)
(* over a step one must know where the reader is in its symbol (RdPos),    *)
(* where the writer is in his (WrPos), which symbol each of them has in    *)
(* its bank (Turn) and that the banks hold those symbols (Stored).         *)
(***************************************************************************)

(* The symbol the reader streams, or will stream next. *)
RdSym == IF m_tvalid /\ ~rd_active THEN snk.sym + 1 ELSE snk.sym

(* The symbol in the writer's bank. *)
WrSym == IF wr_full THEN src.sym - 1 ELSE src.sym

RdPos ==
    /\ ~m_tvalid => snk.pos = 0
    /\ m_tvalid /\ ~rd_active => snk.pos = N_OUT - 1
    /\ m_tvalid /\ rd_active => rd_ptr = snk.pos + 1
    /\ ~m_tvalid /\ rd_active => rd_ptr = 0

WrPos ==
    /\ wr_full => wr_ptr = 0 /\ src.pos = 0
    /\ ~wr_full => src.pos = wr_ptr

Turn ==
    /\ wr_bank = rd_bank => WrSym = RdSym /\ ~(m_tvalid /\ rd_active)
    /\ wr_bank # rd_bank => WrSym = RdSym + 1

Stored ==
    /\ rd_active => \A i \in Index : buf[rd_bank][i] = Sample(RdSym, i)
    /\ \A i \in Index : wr_full \/ i < wr_ptr => buf[wr_bank][i] = Sample(WrSym, i)

StreamInv == Ownership /\ RdPos /\ WrPos /\ Turn /\ Stored /\ InOrder

LEMMA AfterFields ==
    ASSUME NEW n \in Nat, NEW x \in [sym : Nat, pos : Nat]
    PROVE  /\ x.pos = n - 1 => After(x, n).sym = x.sym + 1 /\ After(x, n).pos = 0
           /\ x.pos # n - 1 => After(x, n).sym = x.sym /\ After(x, n).pos = x.pos + 1
  BY DEF After, Sample

LEMMA InitStreamInv == Init => StreamInv
  <1> SUFFICES ASSUME Init PROVE StreamInv
    OBVIOUS
  <1> USE CpAssumption DEF Init, CpInit, CpReset
  <1>1. Sample(0, 0).sym = 0 /\ Sample(0, 0).pos = 0
    BY DEF Sample
  <1>2. Ownership /\ RdPos /\ WrPos /\ InOrder
    BY <1>1 DEF Ownership, RdPos, WrPos, InOrder
  <1>3. Turn /\ Stored
    BY <1>1 DEF Turn, Stored, RdSym, WrSym, Index
  <1>. QED
    BY <1>2, <1>3 DEF StreamInv

(* The sink's position moves with the reader's: one lemma for the step of   *)
(* the reader, in a clock whose sink is ready.                              *)
LEMMA ReaderStep ==
    ASSUME TypeOK, StreamInv, Reader(TRUE),
           snk' = IF m_tvalid THEN After(snk, N_OUT) ELSE snk
    PROVE  /\ RdPos' /\ InOrder'
           /\ RdSym' = IF rd_bank' = rd_bank THEN RdSym ELSE RdSym + 1
           /\ rd_active /\ ~rd_active' <=> rd_bank' # rd_bank
  <1> USE CpAssumption DEF N_OUT, Bank
  <1>1. /\ snk.sym \in Nat /\ snk.pos \in 0 .. N_OUT - 1
        /\ rd_ptr \in 0 .. N_OUT - 1 /\ rd_bank \in Bank
        /\ m_tvalid \in BOOLEAN /\ rd_active \in BOOLEAN
    BY DEF TypeOK
  <1>2. /\ m_tvalid /\ snk.pos = N_OUT - 1 => snk'.sym = snk.sym + 1 /\ snk'.pos = 0
        /\ m_tvalid /\ snk.pos # N_OUT - 1 => snk'.sym = snk.sym /\ snk'.pos = snk.pos + 1
        /\ ~m_tvalid => snk' = snk
    BY AfterFields DEF TypeOK
  <1>3. RdPos
    BY DEF StreamInv
  <1>4. CASE RdActivate
    BY <1>1, <1>2, <1>3, <1>4 DEF RdActivate, RdPos, RdSym, InOrder
  <1>5. CASE RdWait
    BY <1>1, <1>2, <1>3, <1>5 DEF RdWait, RdPos, RdSym, InOrder
  <1>6. ASSUME RdLoad
        PROVE  InOrder'
    <2>1. m_tdata' = Sample(RdSym, rd_buf_idx(rd_ptr))
      BY <1>6, IndexInBank DEF RdLoad, rd_data, StreamInv, Stored, TypeOK
    <2>2. RdSym = snk.sym
      BY <1>6 DEF RdSym, RdLoad
    <2>3. rd_ptr = snk'.pos /\ snk'.sym = snk.sym
      BY <1>1, <1>2, <1>3, <1>6 DEF RdLoad, RdPos
    <2>. QED
      BY <2>1, <2>2, <2>3 DEF InOrder, Framer!Body, rd_buf_idx, Sample
  <1>7. CASE RdAdvance(TRUE)
    <2>1. rd_active' /\ m_tvalid' /\ rd_active /\ rd_ptr' = rd_ptr + 1 /\ rd_bank' = rd_bank
      BY <1>7, <1>1 DEF RdAdvance, RdLoad
    <2>. QED
      BY <1>1, <1>2, <1>3, <1>6, <1>7, <2>1 DEF RdAdvance, RdPos, RdSym
  <1>8. CASE RdFinish(TRUE)
    <2>1. ~rd_active' /\ m_tvalid' /\ rd_active /\ rd_ptr = N_OUT - 1 /\ rd_bank' # rd_bank
      BY <1>8, <1>1 DEF RdFinish, RdLoad
    <2>. QED
      BY <1>1, <1>2, <1>3, <1>6, <1>8, <2>1 DEF RdFinish, RdPos, RdSym
  <1>. QED
    BY <1>4, <1>5, <1>7, <1>8 DEF Reader, RdStall

(* Likewise for the writer and the producer. *)
LEMMA WriterStep ==
    ASSUME TypeOK, WrPos, NEW s_tvalid \in BOOLEAN, Writer(s_tvalid, src),
           src' = IF s_tvalid /\ s_tready THEN After(src, N_FFT) ELSE src
    PROVE  /\ WrPos'
           /\ WrSym' = IF wr_bank' = wr_bank THEN WrSym ELSE WrSym + 1
           /\ wr_bank' # wr_bank <=> wr_full /\ rd_active /\ rd_bank = wr_bank
  <1> USE CpAssumption DEF Bank, Index
  <1>1. /\ src.sym \in Nat /\ src.pos \in 0 .. N_FFT - 1 /\ src \in [sym : Nat, pos : Nat]
        /\ wr_ptr \in 0 .. N_FFT - 1 /\ wr_bank \in Bank
        /\ wr_full \in BOOLEAN /\ rd_active \in BOOLEAN
    BY DEF TypeOK, Samples
  <1>2. CASE WrRelease
    BY <1>1, <1>2 DEF WrRelease, WrPos, WrSym, s_tready
  <1>3. CASE WrAccept(s_tvalid, src)
    BY <1>1, <1>3, AfterFields DEF WrAccept, WrPos, WrSym, s_tready
  <1>4. CASE WrHold(s_tvalid)
    BY <1>1, <1>4 DEF WrHold, wrRegs, WrPos, WrSym
  <1>. QED
    BY <1>2, <1>3, <1>4 DEF Writer

LEMMA NextStreamInv ==
    ASSUME Ready = {TRUE}
    PROVE  TypeOK /\ TypeOK' /\ StreamInv /\ [Next]_vars => StreamInv'
  <1> SUFFICES ASSUME TypeOK, TypeOK', StreamInv, [Next]_vars PROVE StreamInv'
    OBVIOUS
  <1>1. ASSUME NEW s_tvalid \in BOOLEAN, Tick(s_tvalid, TRUE)
        PROVE  StreamInv'
    <2> USE DEF Bank
    <2>1. /\ Writer(s_tvalid, src) /\ Reader(TRUE)
          /\ src' = IF s_tvalid /\ s_tready THEN After(src, N_FFT) ELSE src
          /\ snk' = IF m_tvalid THEN After(snk, N_OUT) ELSE snk
      BY <1>1 DEF Tick, Clock
    <2>2. /\ RdPos' /\ InOrder'
          /\ RdSym' = IF rd_bank' = rd_bank THEN RdSym ELSE RdSym + 1
          /\ rd_active /\ ~rd_active' <=> rd_bank' # rd_bank
      BY <2>1, ReaderStep
    <2>3. /\ WrPos'
          /\ WrSym' = IF wr_bank' = wr_bank THEN WrSym ELSE WrSym + 1
          /\ wr_bank' # wr_bank <=> wr_full /\ rd_active /\ rd_bank = wr_bank
      BY <2>1, WriterStep DEF StreamInv
    <2>4. Ownership /\ Ownership'
      BY NextOwnership DEF StreamInv
    <2>5. /\ wr_bank \in Bank /\ rd_bank \in Bank /\ wr_bank' \in Bank /\ rd_bank' \in Bank
          /\ wr_full \in BOOLEAN /\ rd_active \in BOOLEAN /\ m_tvalid \in BOOLEAN
          /\ wr_full' \in BOOLEAN /\ rd_active' \in BOOLEAN /\ m_tvalid' \in BOOLEAN
          /\ RdSym \in Int /\ WrSym \in Int
      BY DEF TypeOK, Samples, RdSym, WrSym
    <2>6. m_tvalid' /\ rd_active' => rd_active
      BY <2>1 DEF Reader, RdActivate, RdWait, RdAdvance, RdFinish, RdStall, RdLoad
    <2>7. Turn'
      BY <2>2, <2>3, <2>4, <2>5, <2>6 DEF Turn, Ownership, StreamInv
    <2>8. rd_active' => \A i \in Index : buf'[rd_bank'][i] = Sample(RdSym', i)
      <3> SUFFICES ASSUME rd_active', NEW i \in Index
                   PROVE  buf'[rd_bank'][i] = Sample(RdSym', i)
        OBVIOUS
      <3>1. rd_bank' = rd_bank /\ RdSym' = RdSym
        BY <2>2, <2>5
      <3>2. ASSUME rd_active PROVE buf'[rd_bank][i] = buf[rd_bank][i]
        BY <2>1, <2>4, <2>5, <3>2 DEF Ownership, Writer, WrRelease, WrAccept, WrHold,
                                      wrRegs, s_tready, TypeOK
      <3>3. CASE rd_active
        BY <3>1, <3>2, <3>3 DEF StreamInv, Stored
      <3>4. CASE ~rd_active
        <4>1. wr_full /\ wr_bank = rd_bank
          BY <2>1, <3>4 DEF Reader, RdActivate, RdWait, RdAdvance, RdFinish, RdStall, RdLoad
        <4>2. buf' = buf
          BY <2>1, <4>1 DEF Writer, WrRelease, WrAccept, WrHold, wrRegs, s_tready
        <4>3. WrSym = RdSym /\ buf[wr_bank][i] = Sample(WrSym, i)
          BY <4>1 DEF StreamInv, Turn, Stored
        <4>. QED
          BY <3>1, <4>1, <4>2, <4>3
      <3>. QED
        BY <3>3, <3>4
    <2>9. \A i \in Index : wr_full' \/ i < wr_ptr' => buf'[wr_bank'][i] = Sample(WrSym', i)
      <3> SUFFICES ASSUME NEW i \in Index, wr_full' \/ i < wr_ptr'
                   PROVE  buf'[wr_bank'][i] = Sample(WrSym', i)
        OBVIOUS
      <3> USE CpAssumption DEF Index
      <3>1. ~WrRelease
        BY <2>5 DEF WrRelease
      <3>2. CASE WrAccept(s_tvalid, src)
        <4>1. /\ WrSym = src.sym /\ src.pos = wr_ptr /\ WrSym' = WrSym
              /\ wr_bank' = wr_bank /\ ~wr_full
              /\ i = wr_ptr \/ i < wr_ptr
          BY <2>3, <3>2 DEF WrAccept, WrSym, WrPos, StreamInv, s_tready, TypeOK
        <4>2. src = Sample(src.sym, src.pos)
          BY DEF TypeOK, Samples, Sample
        <4>3. buf'[wr_bank][wr_ptr] = src
          BY <3>2 DEF WrAccept, TypeOK
        <4>4. i # wr_ptr => buf'[wr_bank][i] = buf[wr_bank][i]
          BY <3>2 DEF WrAccept, TypeOK
        <4>. QED
          BY <4>1, <4>2, <4>3, <4>4 DEF StreamInv, Stored
      <3>3. CASE WrHold(s_tvalid)
        BY <2>3, <3>3 DEF WrHold, wrRegs, StreamInv, Stored
      <3>. QED
        BY <2>1, <3>1, <3>2, <3>3 DEF Writer
    <2>. QED
      BY <2>2, <2>3, <2>4, <2>7, <2>8, <2>9 DEF StreamInv, Stored
  <1>2. CASE UNCHANGED vars
    BY <1>2 DEF vars, cpRegs, wrRegs, rdRegs, StreamInv, Ownership, RdPos, WrPos, Turn,
                Stored, InOrder, RdSym, WrSym
  <1>. QED
    BY <1>1, <1>2 DEF Next

LEMMA StreamInvariance ==
    ASSUME Ready = {TRUE}
    PROVE  Spec => [](TypeOK /\ StreamInv)
  BY InitTypeOK, NextTypeOK, InitStreamInv, NextStreamInv, PTL DEF Spec

(* With the sink of ofdm_ldpc_top every sample that reaches the output of   *)
(* cp_insert is the one its place in the stream calls for: no symbol, no    *)
(* prefix and no bank is ever taken for another, for every size of either.  *)
THEOREM StreamInOrder ==
    ASSUME Ready = {TRUE}
    PROVE  Spec => []InOrder
  BY StreamInvariance, PTL DEF StreamInv

-----------------------------------------------------------------------------
(* A symbol leaves cp_insert as one unbroken run of valid samples, and two  *)
(* symbols never as one: the rising edge of the output valid, which         *)
(* ofdm_ldpc_pl takes for rx_frame_start, is the start of a symbol.         *)
THEOREM BurstTheorem ==
    ASSUME Ready = {TRUE}
    PROVE  Spec => BurstIsSymbol
  <1>1. ASSUME TypeOK, StreamInv, [Next]_vars
        PROVE  [m_tvalid => (m_tvalid' <=> snk.pos # N_OUT - 1)]_vars
    <2> SUFFICES ASSUME m_tvalid, NEW s_tvalid \in BOOLEAN, Tick(s_tvalid, TRUE)
                 PROVE  m_tvalid' <=> snk.pos # N_OUT - 1
      BY <1>1 DEF Next
    <2>1. Reader(TRUE)
      BY DEF Tick, Clock
    <2>2. CASE rd_active
      <3>1. rd_ptr = snk.pos + 1 /\ rd_ptr \in 0 .. N_OUT - 1 /\ snk.pos \in Nat
        BY <1>1, <2>2 DEF StreamInv, RdPos, TypeOK
      <3>2. snk.pos # N_OUT - 1
        BY <3>1, CpAssumption DEF N_OUT
      <3>. QED
        BY <2>1, <2>2, <3>2 DEF Reader, RdActivate, RdWait, RdAdvance, RdFinish, RdStall, RdLoad
    <2>3. CASE ~rd_active
      <3>1. snk.pos = N_OUT - 1
        BY <1>1, <2>3 DEF StreamInv, RdPos
      <3>. QED
        BY <2>1, <2>3, <3>1 DEF Reader, RdActivate, RdWait, RdAdvance, RdFinish, RdStall, RdLoad
    <2>. QED
      BY <2>2, <2>3
  <1>. QED
    BY <1>1, StreamInvariance, PTL DEF BurstIsSymbol, Spec

-----------------------------------------------------------------------------
(* cp_insert, with its always-ready sink, implements the queue of two       *)
(* symbols: every clock takes and gives what CpFramer allows in one step.   *)
THEOREM Refinement ==
    ASSUME Ready = {TRUE}
    PROVE  Spec => ImplementsFramer
  <1> USE DEF Framer!vars
  <1>1. Init => Framer!Init
    BY DEF Init, Framer!Init, Sample
  <1>2. TypeOK /\ StreamInv /\ [Next]_vars => [Framer!Next]_(Framer!vars)
    <2> SUFFICES ASSUME TypeOK, StreamInv, [Next]_vars
                 PROVE  [Framer!Next]_(Framer!vars)
      OBVIOUS
    <2>1. ASSUME NEW s_tvalid \in BOOLEAN, Tick(s_tvalid, TRUE)
          PROVE  Framer!Next
      <3>1. /\ src' = IF s_tvalid /\ s_tready THEN After(src, N_FFT) ELSE src
            /\ snk' = IF m_tvalid THEN After(snk, N_OUT) ELSE snk
            /\ got' = IF m_tvalid THEN m_tdata ELSE got
        BY <2>1 DEF Tick
      <3>2. /\ src.sym \in Nat /\ snk.sym \in Nat /\ snk.pos \in 0 .. N_OUT - 1
            /\ wr_full \in BOOLEAN /\ rd_active \in BOOLEAN /\ m_tvalid \in BOOLEAN
            /\ snk \in [sym : Nat, pos : 0 .. N_OUT - 1] /\ src \in [sym : Nat, pos : Index]
        BY DEF TypeOK, Samples
      <3>3. WrSym = RdSym \/ WrSym = RdSym + 1
        BY DEF StreamInv, Turn
      <3>4. Framer!Take \/ UNCHANGED src
        <4> SUFFICES ASSUME s_tvalid, s_tready PROVE Framer!Take
          BY <3>1
        <4>1. src.sym - snk.sym < 2
          BY <3>2, <3>3 DEF s_tready, RdSym, WrSym, StreamInv, Ownership, Turn
        <4>. QED
          BY <3>1, <4>1 DEF Framer!Take, Framer!After, After, Sample
      <3>5. Framer!Give \/ UNCHANGED <<snk, got>>
        <4> SUFFICES ASSUME m_tvalid PROVE Framer!Give
          BY <3>1
        <4>1. snk.sym < src.sym
          BY <3>2, <3>3 DEF RdSym, WrSym, StreamInv, Ownership, Turn
        <4>2. got' = Framer!Body(snk)
          BY <3>1 DEF StreamInv, InOrder
        <4>. QED
          BY <3>1, <4>1, <4>2 DEF Framer!Give, Framer!After, Framer!N_OUT, After, N_OUT, Sample
      <3>. QED
        BY <3>4, <3>5 DEF Framer!Next
    <2>2. CASE UNCHANGED vars
      BY <2>2 DEF vars
    <2>. QED
      BY <2>1, <2>2 DEF Next
  <1>. QED
    BY <1>1, <1>2, StreamInvariance, PTL DEF Spec, Framer!Spec, ImplementsFramer
=============================================================================
