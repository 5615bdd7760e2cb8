-------------------------------- MODULE Link --------------------------------
(***************************************************************************)
(* What the transmit and the receive path have in common: the sizes and    *)
(* the layout of a frame, the order of the samples on the wire between     *)
(* them, and a record of what has gone over it.  The wire and the record   *)
(* are no registers of the code: they let one say which sample is which.   *)
(***************************************************************************)
EXTENDS Integers, Sequences, FiniteSets

CONSTANTS N_FFT, N_CP, N_SYM, N_CW, DataBins, PilotBins,
          PtrMod,   (* the mapper's bit_ptr has the values 0 .. PtrMod - 1 *)
          Junk,     (* what a register holds before the code has written it *)
          MaxCw     (* bound: codewords sent *)

VARIABLES sent,     (* the codewords sent, in order *)
          place     (* the place in the stream of the next sample on the wire: *)
                    (* sample place.pos of symbol place.sym                    *)

N_OUT == N_FFT + N_CP

NextPlace(x) ==
    IF x.pos = N_OUT - 1 THEN [sym |-> x.sym + 1, pos |-> 0]
                         ELSE [x EXCEPT !.pos = @ + 1]

-----------------------------------------------------------------------------
(* Symbol s of codeword cw, bin by bin.  The data bins of the frame take    *)
(* the bits of the codeword two by two.  Past its end they carry nothing;   *)
(* but where bit_ptr has just the width of a codeword it has wrapped, and   *)
(* they repeat the head.                                                    *)
Rank(b) == Cardinality({d \in DataBins : d < b})

Slot(s, b) == 2 * (s * Cardinality(DataBins) + Rank(b))

BitAt(k) == IF PtrMod = N_CW THEN k % N_CW ELSE k

BinOf(cw, s, b) ==
    LET i == BitAt(Slot(s, b))
    IN  IF b \in PilotBins THEN [kind |-> "pilot"]
        ELSE IF b \in DataBins /\ i < N_CW
             THEN [kind |-> "data", cw |-> cw, i |-> i, q |-> i + 1]
        ELSE [kind |-> "null"]

(* Symbol number sym of the codewords cws, and sample n of its body.        *)
BlockOf(cws, sym) ==
    [b \in 0 .. N_FFT - 1 |-> BinOf(cws[sym \div N_SYM + 1], sym % N_SYM, b)]

BodySample(cws, sym, n) == [kind |-> "time", of |-> BlockOf(cws, sym), n |-> n]

(* The sample a place of the stream calls for: the end of the body comes    *)
(* first, as the cyclic prefix.                                             *)
BodyIndex(pos) == IF pos < N_CP THEN N_FFT - N_CP + pos ELSE pos - N_CP

SampleAt(x) == BodySample(sent, x.sym, BodyIndex(x.pos))
=============================================================================
