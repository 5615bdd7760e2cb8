-------------------------------- MODULE Xfft --------------------------------
(***************************************************************************)
(* The 64-point transform of xfft_stub.v: one buffer that loads, one that  *)
(* streams out.  load_done says that the input buffer is full, out_busy    *)
(* that a result is being streamed; the transform itself takes no clock.   *)
(*                                                                         *)
(* Numbers are abstracted to what they are about.  A frequency bin is any  *)
(* record; the time sample n of the inverse transform of block X is        *)
(* Time(X, n).  The forward transform returns X from the 64 samples        *)
(* Time(X, 0), Time(X, 1), ... in this order, and Noise from anything      *)
(* else.  Scaling (1/8 in both directions, hence X again) and rounding are *)
(* left out.                                                               *)
(***************************************************************************)
EXTENDS Integers

CONSTANTS N,     (* points: 64 *)
          Junk   (* what a register holds before the code has written it *)

(* Assumed by the modules that instantiate this one. *)
XfftAssumption == N \in 2 .. 64

VARIABLES
    inverse_q,                     (* direction, latched from the config port *)
    in_buf, in_cnt, load_done,     (* load side *)
    out_buf, out_cnt, out_busy,    (* output side *)
    m_tvalid, m_tdata

loadRegs   == <<in_buf, in_cnt, load_done>>
outputRegs == <<out_buf, out_cnt, out_busy, m_tvalid, m_tdata>>
xfftRegs   == <<inverse_q, loadRegs, outputRegs>>

Point == 0 .. N - 1

Time(X, n) == [kind |-> "time", of |-> X, n |-> n]
Noise      == [kind |-> "noise"]

XfftReset ==
    /\ inverse_q = FALSE
    /\ in_cnt = 0 /\ load_done = FALSE
    /\ out_cnt = 0 /\ out_busy = FALSE
    /\ m_tvalid = FALSE /\ m_tdata = Junk

XfftInit ==
    /\ in_buf = [n \in Point |-> Junk]
    /\ out_buf = [n \in Point |-> Junk]
    /\ XfftReset

(* rst_n while it runs: the buffers keep what they hold. *)
XfftRestart ==
    /\ inverse_q' = FALSE
    /\ in_cnt' = 0 /\ load_done' = FALSE
    /\ out_cnt' = 0 /\ out_busy' = FALSE
    /\ m_tvalid' = FALSE /\ m_tdata' = Junk
    /\ UNCHANGED <<in_buf, out_buf>>

(* do_dft *)
Dft(inverse, x) ==
    IF inverse THEN [n \in Point |-> Time(x, n)]
    ELSE IF x[0].kind = "time" /\ \A n \in Point : x[n] = Time(x[0].of, n)
         THEN x[0].of
         ELSE [n \in Point |-> Noise]

-----------------------------------------------------------------------------
s_tready == ~load_done

(* The output side takes the loaded block over in this clock. *)
LoadTaken ==
    /\ load_done /\ ~out_busy
    /\ load_done' = FALSE
    /\ UNCHANGED <<in_buf, in_cnt>>

LoadSample(s_tvalid, s_tdata) ==
    /\ s_tvalid /\ s_tready
    /\ in_buf' = [in_buf EXCEPT ![in_cnt] = s_tdata]
    /\ \/ in_cnt # N - 1 /\ in_cnt' = in_cnt + 1 /\ UNCHANGED load_done
       \/ in_cnt = N - 1 /\ in_cnt' = 0 /\ load_done' = TRUE

LoadHold(s_tvalid) ==
    /\ ~(load_done /\ ~out_busy)
    /\ ~(s_tvalid /\ s_tready)
    /\ UNCHANGED loadRegs

Load(s_tvalid, s_tdata) ==
    \/ LoadTaken
    \/ LoadSample(s_tvalid, s_tdata)
    \/ LoadHold(s_tvalid)

-----------------------------------------------------------------------------
(* Not streaming: the output goes invalid, whether or not the sink has      *)
(* taken the last sample.                                                   *)
OutIdle ==
    /\ ~out_busy /\ ~load_done
    /\ m_tvalid' = FALSE
    /\ UNCHANGED <<out_buf, out_cnt, out_busy, m_tdata>>

OutCompute ==
    /\ ~out_busy /\ load_done
    /\ out_buf' = Dft(inverse_q, in_buf)
    /\ out_busy' = TRUE
    /\ out_cnt' = 0
    /\ m_tvalid' = FALSE
    /\ UNCHANGED m_tdata

(* Mutant: the sink is not asked. *)
MutOutDrive(m_tready) ==
    /\ out_busy
    /\ m_tdata' = out_buf[out_cnt]
    /\ m_tvalid' = TRUE
    /\ \/ out_cnt # N - 1 /\ out_cnt' = out_cnt + 1 /\ UNCHANGED out_busy
       \/ out_cnt = N - 1 /\ out_cnt' = 0 /\ out_busy' = FALSE
    /\ UNCHANGED out_buf

OutDrive(m_tready) ==
    /\ out_busy
    /\ m_tready \/ ~m_tvalid
    /\ m_tdata' = out_buf[out_cnt]
    /\ m_tvalid' = TRUE
    /\ \/ out_cnt # N - 1 /\ out_cnt' = out_cnt + 1 /\ UNCHANGED out_busy
       \/ out_cnt = N - 1 /\ out_cnt' = 0 /\ out_busy' = FALSE
    /\ UNCHANGED out_buf

OutWait(m_tready) ==
    /\ out_busy
    /\ ~m_tready /\ m_tvalid
    /\ UNCHANGED outputRegs

Output(m_tready) ==
    \/ OutIdle
    \/ OutCompute
    \/ OutDrive(m_tready)
    \/ OutWait(m_tready)

(* One clock of the core; the config port is tied to one direction. *)
Clock(inverse, s_tvalid, s_tdata, m_tready) ==
    /\ inverse_q' = inverse
    /\ Load(s_tvalid, s_tdata)
    /\ Output(m_tready)
=============================================================================
