------------------------------ MODULE CpStream ------------------------------
(***************************************************************************)
(* cp_insert between a producer and a sink.  The producer numbers its      *)
(* samples: [sym, pos] is sample pos of symbol sym.  It offers one or not  *)
(* in each clock, as the IFFT does.  The sink of ofdm_ldpc_top has         *)
(* m_axis_tready tied high; Ready is the set of values m_axis_tready takes *)
(* in a clock, {TRUE} for that sink.                                       *)
(***************************************************************************)
EXTENDS CpInsert

CONSTANTS MaxSym,  (* bound: the producer stops after this many symbols *)
          Ready

ASSUME StreamAssumption == MaxSym \in Nat /\ Ready \in SUBSET BOOLEAN

VARIABLES
    src,       (* the next sample the producer will offer *)
    snk,       (* the next sample the sink is to receive  *)
    got        (* the sample the sink received last       *)

vars == <<cpRegs, src, snk, got>>

Sample(s, p) == [sym |-> s, pos |-> p]

(* What follows sample x in a stream of symbols of n samples. *)
After(x, n) ==
    IF x.pos = n - 1 THEN Sample(x.sym + 1, 0) ELSE Sample(x.sym, x.pos + 1)

Init ==
    /\ CpInit
    /\ src = Sample(0, 0)
    /\ snk = Sample(0, 0)
    /\ got = Junk

(* One clock edge: the producer sees its sample taken, the sink takes what  *)
(* the output register held.                                                *)
Tick(s_tvalid, m_tready) ==
    /\ Clock(s_tvalid, src, m_tready)
    /\ src' = IF s_tvalid /\ s_tready THEN After(src, N_FFT) ELSE src
    /\ snk' = IF m_tvalid /\ m_tready THEN After(snk, N_OUT) ELSE snk
    /\ got' = IF m_tvalid /\ m_tready THEN m_tdata ELSE got

Next ==
    \E s_tvalid \in BOOLEAN, m_tready \in Ready :
        (s_tvalid => src.sym < MaxSym) /\ Tick(s_tvalid, m_tready)

(* The clock does not stop while cp_insert holds work: nothing is assumed   *)
(* of the producer.                                                         *)
Work == wr_full \/ rd_active \/ m_tvalid

Spec     == Init /\ [][Next]_vars
FairSpec == Spec /\ WF_vars(Work /\ Next)

-----------------------------------------------------------------------------
(* Seen from its two streams, cp_insert is a queue of two symbols.          *)
Framer == INSTANCE CpFramer WITH Capacity <- 2, last <- got

Samples == [sym : Nat, pos : Index]

(* The registers keep the ranges their widths and uses suppose: in          *)
(* particular rd_ptr never leaves 0 .. N_OUT - 1 and wr_ptr never indexes   *)
(* past the bank (cp_insert.v:29-36).                                       *)
TypeOK ==
    /\ buf \in [Bank -> [Index -> Samples \cup {Junk}]]
    /\ wr_bank \in Bank /\ wr_ptr \in Index /\ wr_full \in BOOLEAN
    /\ rd_bank \in Bank /\ rd_ptr \in 0 .. N_OUT - 1 /\ rd_active \in BOOLEAN
    /\ m_tvalid \in BOOLEAN /\ m_tdata \in Samples \cup {Junk}
    /\ src \in Samples
    /\ snk \in [sym : Nat, pos : 0 .. N_OUT - 1]
    /\ got \in Samples \cup {Junk}

(* The writer never stores into the bank the reader is streaming: the two   *)
(* sides agree on who owns which bank though they exchange nothing but      *)
(* wr_full and rd_active, one clock late (cp_insert.v:51-56, 100-103).      *)
BankExclusive == rd_active /\ s_tready => wr_bank # rd_bank

(* What stands in the output register is the sample the stream calls for:   *)
(* prefix first, every symbol complete, none lost, repeated or overtaken    *)
(* (cp_insert.v:77-129; the comment at 114-120 tells of a lost sample).     *)
InOrder == m_tvalid => m_tdata = Framer!Body(snk)

(* Within a symbol the output has no hole, and between two symbols it has   *)
(* at least one: ofdm_ldpc_pl.v:86-91 takes a rising edge of the output     *)
(* valid for the start of a symbol.                                         *)
BurstIsSymbol ==
    [][m_tvalid => (m_tvalid' <=> snk.pos # N_OUT - 1)]_vars

(* Every clock of the circuit is a clock of that queue: samples come out    *)
(* framed, in order, only once their symbol is complete, and the producer   *)
(* is held off before it is two symbols ahead (cp_insert.v:42-129).         *)
ImplementsFramer == Framer!Spec

(* The full bank is streamed to its end: every symbol that was written is   *)
(* received (with rd_bank reset to 1, cp_insert.v:90-92, none was).         *)
Delivered == \A s \in 0 .. MaxSym - 1 : src.sym > s ~> snk.sym > s
=============================================================================
