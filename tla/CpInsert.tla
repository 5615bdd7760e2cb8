------------------------------ MODULE CpInsert ------------------------------
(***************************************************************************)
(* The cyclic-prefix inserter, cp_insert.v: a ping-pong buffer.  The       *)
(* writer fills one bank of N_FFT samples while the reader streams the     *)
(* other, its last N_CP samples first (the cyclic prefix), then all of it. *)
(*                                                                         *)
(* All always-blocks of the file fire on the same clock edge, each reading *)
(* the registers as they were before it.  A clock of the component is      *)
(* Clock(s_tvalid, s_tdata, m_tready): one step of the writer AND one of   *)
(* the reader, given the values of the input wires in that cycle.          *)
(***************************************************************************)
EXTENDS Integers

CONSTANTS N_FFT,   (* samples per symbol body *)
          N_CP,    (* samples of the cyclic prefix *)
          Junk     (* what a register holds before the code has written it *)

(***************************************************************************)
(* The widths of the code: rd_ptr and wr_ptr have 7 bits, and the low 6    *)
(* bits of rd_ptr index the prefix.                                        *)
(***************************************************************************)
ASSUME CpAssumption ==
    /\ N_FFT \in 1 .. 64
    /\ N_CP \in 0 .. N_FFT

N_OUT == N_FFT + N_CP

VARIABLES
    buf,        (* buf[0] is buf_a, buf[1] is buf_b *)
    wr_bank, wr_ptr, wr_full,
    rd_bank, rd_ptr, rd_active,
    m_tvalid, m_tdata

wrRegs == <<buf, wr_bank, wr_ptr, wr_full>>
rdRegs == <<rd_bank, rd_ptr, rd_active, m_tvalid, m_tdata>>
cpRegs == <<wrRegs, rdRegs>>

Bank  == {0, 1}
Index == 0 .. N_FFT - 1

(* Mutant: the reader waits for bank B first, as it once did. *)
MutCpReset ==
    /\ wr_bank = 0 /\ wr_ptr = 0 /\ wr_full = FALSE
    /\ rd_bank = 1 /\ rd_ptr = 0 /\ rd_active = FALSE
    /\ m_tvalid = FALSE /\ m_tdata = Junk

(* rst_n clears the registers; the banks keep what they hold. *)
CpReset ==
    /\ wr_bank = 0 /\ wr_ptr = 0 /\ wr_full = FALSE
    /\ rd_bank = 0 /\ rd_ptr = 0 /\ rd_active = FALSE
    /\ m_tvalid = FALSE /\ m_tdata = Junk

CpInit == buf = [b \in Bank |-> [i \in Index |-> Junk]] /\ CpReset

(* The same as a step of a system that is reset while it runs. *)
CpRestart ==
    /\ wr_bank' = 0 /\ wr_ptr' = 0 /\ wr_full' = FALSE
    /\ rd_bank' = 0 /\ rd_ptr' = 0 /\ rd_active' = FALSE
    /\ m_tvalid' = FALSE /\ m_tdata' = Junk
    /\ UNCHANGED buf

-----------------------------------------------------------------------------
(* The writer.                                                             *)

s_tready == ~wr_full

(* Mutant: the writer is released but stays on its bank. *)
MutWrRelease ==
    /\ wr_full /\ rd_active /\ rd_bank = wr_bank
    /\ wr_ptr' = 0
    /\ wr_full' = FALSE
    /\ UNCHANGED <<buf, wr_bank>>

(* The reader has begun to stream the full bank: go to the other one. *)
WrRelease ==
    /\ wr_full /\ rd_active /\ rd_bank = wr_bank
    /\ wr_bank' = 1 - wr_bank
    /\ wr_ptr' = 0
    /\ wr_full' = FALSE
    /\ UNCHANGED buf

(* Mutant: the end of the bank is looked for one place too late. *)
MutWrAccept(s_tvalid, s_tdata) ==
    /\ s_tvalid /\ s_tready
    /\ buf' = [buf EXCEPT ![wr_bank][wr_ptr] = s_tdata]
    /\ \/ wr_ptr # N_FFT /\ wr_ptr' = wr_ptr + 1 /\ UNCHANGED wr_full
       \/ wr_ptr = N_FFT /\ wr_ptr' = 0 /\ wr_full' = TRUE
    /\ UNCHANGED wr_bank

(* A sample is accepted; the last one of the bank makes it full. *)
WrAccept(s_tvalid, s_tdata) ==
    /\ s_tvalid /\ s_tready
    /\ buf' = [buf EXCEPT ![wr_bank][wr_ptr] = s_tdata]
    /\ \/ wr_ptr # N_FFT - 1 /\ wr_ptr' = wr_ptr + 1 /\ UNCHANGED wr_full
       \/ wr_ptr = N_FFT - 1 /\ wr_ptr' = 0 /\ wr_full' = TRUE
    /\ UNCHANGED wr_bank

WrHold(s_tvalid) ==
    /\ ~(wr_full /\ rd_active /\ rd_bank = wr_bank)
    /\ ~(s_tvalid /\ s_tready)
    /\ UNCHANGED wrRegs

Writer(s_tvalid, s_tdata) ==
    \/ WrRelease
    \/ WrAccept(s_tvalid, s_tdata)
    \/ WrHold(s_tvalid)

-----------------------------------------------------------------------------
(* The reader.                                                             *)

(* The place in the bank of the p-th sample of the output symbol. *)
rd_buf_idx(p) == IF p < N_CP THEN N_FFT - N_CP + p ELSE p - N_CP

rd_data == buf[rd_bank][rd_buf_idx(rd_ptr)]

(* Mutant: the reader does not wait for the bank to be full. *)
MutRdActivateEarly ==
    /\ ~rd_active /\ wr_bank = rd_bank
    /\ rd_active' = TRUE
    /\ rd_ptr' = 0
    /\ m_tvalid' = FALSE
    /\ UNCHANGED <<rd_bank, m_tdata>>

(* Mutant: the output stays valid after a symbol. *)
MutRdActivateValid ==
    /\ ~rd_active /\ wr_full /\ wr_bank = rd_bank
    /\ rd_active' = TRUE
    /\ rd_ptr' = 0
    /\ UNCHANGED <<rd_bank, m_tvalid, m_tdata>>

(* The writer has filled the bank the reader waits for. *)
RdActivate ==
    /\ ~rd_active /\ wr_full /\ wr_bank = rd_bank
    /\ rd_active' = TRUE
    /\ rd_ptr' = 0
    /\ m_tvalid' = FALSE
    /\ UNCHANGED <<rd_bank, m_tdata>>

RdWait ==
    /\ ~rd_active /\ ~(wr_full /\ wr_bank = rd_bank)
    /\ m_tvalid' = FALSE
    /\ UNCHANGED <<rd_bank, rd_ptr, rd_active, m_tdata>>

(* One sample goes to the output register.  The code looks at m_axis_tready *)
(* only to move rd_ptr: the register is loaded whatever the sink does.      *)
RdLoad ==
    /\ rd_active
    /\ m_tvalid' = TRUE
    /\ m_tdata' = rd_data

RdAdvance(m_tready) ==
    /\ RdLoad /\ m_tready /\ rd_ptr # N_OUT - 1
    /\ rd_ptr' = rd_ptr + 1
    /\ UNCHANGED <<rd_bank, rd_active>>

(* Mutant: the last sample goes out with its valid dropped, as it once did. *)
MutRdFinishDrop(m_tready) ==
    /\ rd_active /\ m_tready /\ rd_ptr = N_OUT - 1
    /\ m_tvalid' = FALSE
    /\ m_tdata' = rd_data
    /\ rd_ptr' = 0
    /\ rd_active' = FALSE
    /\ rd_bank' = 1 - rd_bank

(* The last sample of the symbol: turn to the other bank. *)
RdFinish(m_tready) ==
    /\ RdLoad /\ m_tready /\ rd_ptr = N_OUT - 1
    /\ rd_ptr' = 0
    /\ rd_active' = FALSE
    /\ rd_bank' = 1 - rd_bank

RdStall(m_tready) ==
    /\ RdLoad /\ ~m_tready
    /\ UNCHANGED <<rd_ptr, rd_bank, rd_active>>

Reader(m_tready) ==
    \/ RdActivate
    \/ RdWait
    \/ RdAdvance(m_tready)
    \/ RdFinish(m_tready)
    \/ RdStall(m_tready)

Clock(s_tvalid, s_tdata, m_tready) ==
    Writer(s_tvalid, s_tdata) /\ Reader(m_tready)

=============================================================================
