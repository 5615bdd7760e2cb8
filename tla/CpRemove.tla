------------------------------ MODULE CpRemove ------------------------------
(***************************************************************************)
(* cp_remove.v: counts the samples of a symbol and lets the body through.  *)
(* It has no ready wire in either direction.  frame_start counts the       *)
(* sample it comes with as sample 0; without a valid sample it only sets   *)
(* synced.                                                                 *)
(***************************************************************************)
EXTENDS Integers

CONSTANTS N_FFT, N_CP, Junk

(* Assumed by the modules that instantiate this one. *)
RemoveAssumption == N_FFT \in 1 .. 64 /\ N_CP \in 0 .. N_FFT

VARIABLES sample_cnt, synced, m_tvalid, m_tdata

N_OUT == N_FFT + N_CP     (* N_SYM of cp_remove.v *)

RemoveReset ==
    /\ sample_cnt = 0 /\ synced = FALSE
    /\ m_tvalid = FALSE /\ m_tdata = Junk

(* rst_n while it runs. *)
RemoveRestart ==
    /\ sample_cnt' = 0 /\ synced' = FALSE
    /\ m_tvalid' = FALSE /\ m_tdata' = Junk

cnt_curr(frame_start) == IF frame_start THEN 0 ELSE sample_cnt

(* Mutant: one sample of the prefix too many goes through. *)
MutRemovePrefix(frame_start, s_tvalid, s_tdata) ==
    /\ s_tvalid /\ (frame_start \/ synced)
    /\ sample_cnt' = (cnt_curr(frame_start) + 1) % N_OUT
    /\ \/ cnt_curr(frame_start) < N_CP - 1 /\ m_tvalid' = FALSE /\ UNCHANGED m_tdata
       \/ cnt_curr(frame_start) >= N_CP - 1 /\ m_tvalid' = TRUE /\ m_tdata' = s_tdata

(* Mutant: the sample that comes with frame_start is skipped, as it once was. *)
MutRemoveFirst(frame_start, s_tvalid, s_tdata) ==
    /\ s_tvalid /\ (frame_start \/ synced)
    /\ sample_cnt' = IF frame_start THEN 0 ELSE (sample_cnt + 1) % N_OUT
    /\ \/ (frame_start \/ sample_cnt < N_CP) /\ m_tvalid' = FALSE /\ UNCHANGED m_tdata
       \/ (~frame_start /\ sample_cnt >= N_CP) /\ m_tvalid' = TRUE /\ m_tdata' = s_tdata

(* A sample of a symbol: prefix samples stop here. *)
RemoveSample(frame_start, s_tvalid, s_tdata) ==
    /\ s_tvalid /\ (frame_start \/ synced)
    /\ sample_cnt' = (cnt_curr(frame_start) + 1) % N_OUT
    /\ \/ cnt_curr(frame_start) < N_CP /\ m_tvalid' = FALSE /\ UNCHANGED m_tdata
       \/ cnt_curr(frame_start) >= N_CP /\ m_tvalid' = TRUE /\ m_tdata' = s_tdata

(* No sample, or none yet that belongs to a symbol. *)
RemoveSkip(frame_start, s_tvalid) ==
    /\ ~(s_tvalid /\ (frame_start \/ synced))
    /\ m_tvalid' = FALSE
    /\ UNCHANGED <<sample_cnt, m_tdata>>

Clock(frame_start, s_tvalid, s_tdata) ==
    /\ synced' = (synced \/ frame_start)
    /\ \/ RemoveSample(frame_start, s_tvalid, s_tdata)
       \/ RemoveSkip(frame_start, s_tvalid)
=============================================================================
