------------------------------ MODULE CpFramer ------------------------------
(***************************************************************************)
(* What a cyclic-prefix inserter promises, without banks or pointers: a    *)
(* first-in first-out of at most Capacity symbols that returns each symbol *)
(* as its N_CP last samples and then all N_FFT, once the symbol is         *)
(* complete.                                                               *)
(***************************************************************************)
EXTENDS Integers

CONSTANTS N_FFT, N_CP, Capacity, Junk

VARIABLES
    src,       (* [sym, pos] of the next sample to be taken in   *)
    snk,       (* [sym, pos] of the next sample to be given out  *)
    last       (* the sample given out last            *)

vars == <<src, snk, last>>

N_OUT == N_FFT + N_CP

Body(x) == [sym |-> x.sym,
            pos |-> IF x.pos < N_CP THEN N_FFT - N_CP + x.pos ELSE x.pos - N_CP]

After(x, n) ==
    IF x.pos = n - 1 THEN [sym |-> x.sym + 1, pos |-> 0]
                     ELSE [sym |-> x.sym, pos |-> x.pos + 1]

Init ==
    /\ src = [sym |-> 0, pos |-> 0]
    /\ snk = [sym |-> 0, pos |-> 0]
    /\ last = Junk

Take ==
    /\ src.sym - snk.sym < Capacity
    /\ src' = After(src, N_FFT)

Give ==
    /\ snk.sym < src.sym
    /\ snk' = After(snk, N_OUT)
    /\ last' = Body(snk)

(* A clock may take a sample, give one, do both or neither. *)
Next ==
    /\ Take \/ UNCHANGED src
    /\ Give \/ UNCHANGED <<snk, last>>

Spec == Init /\ [][Next]_vars
=============================================================================
