-------------------------------- MODULE RfPl ---------------------------------
(* The wrapper of the modem for the AD9363 (ofdm_ldpc_rf_pl.v): the start of  *)
(* the transmitter, the two FIFOs between the clock of the modem (clk) and    *)
(* that of the radio (data_clk), the DAC registers, and the frame start that  *)
(* anchors cp_remove.  The modem itself is the environment here: once started *)
(* it may offer a sample in any clock and it takes every one that comes.      *)
(* A sample is its number, 1, 2, ...; 0 is what a FIFO's output holds after a *)
(* reset.                                                                     *)
EXTENDS Integers, Sequences

CONSTANTS TX_DEPTH, RX_DEPTH,    \* 64 and 256 words
          START_DELAY,           \* 50000 clocks
          MaxTx, MaxRx           \* samples of a run, in each direction

ASSUME RfPlAssumption == TX_DEPTH \in Nat \ {0} /\ RX_DEPTH \in Nat \ {0} /\ START_DELAY \in Nat \ {0}

VARIABLES por,           \* por_done: the reset of the modem's side is released
          dsync,         \* ones in rst_n_dclk_sync
          start,         \* start_delay_cnt
          txf, rxf,      \* the FIFOs
          dac,           \* [data, valid]
          rx,            \* rx_valid_in_r, first_rx_seen_r, rx_frame_start_r
          cp,            \* cp_remove: synced, and the sample it took for number 0
          made, adc,     \* samples the modem and the radio have offered
          sent, played,  \* accepted by the transmit FIFO; pushed to the DAC
          heard, got,    \* accepted by the receive FIFO; taken by the modem
          quiet          \* the transmitter was muted at some time
vars == <<por, dsync, start, txf, rxf, dac, rx, cp, made, adc, sent, played, heard, got, quiet>>

-----------------------------------------------------------------------------
(* xpm_fifo_async in standard mode with a read latency of one clock: the word *)
(* that is read stands in dout after the clock.  The two sides know of each   *)
(* other late: the reader counts no more than there is, the writer no less.   *)
Fifo == [q |-> <<>>, seen |-> 0, used |-> 0, dout |-> 0]
empty(f) == f.seen = 0
full(f, depth) == f.used = depth
Write(f, x) == [f EXCEPT !.q = Append(@, x), !.used = @ + 1]
Read(f) == [f EXCEPT !.dout = Head(f.q), !.q = Tail(@), !.seen = @ - 1]
Crossed(f) == {[f EXCEPT !.seen = c[1], !.used = c[2]] :
                 c \in (f.seen..Len(f.q)) \X (Len(f.q)..f.used)}

-----------------------------------------------------------------------------
NoDac == [data |-> 0, valid |-> FALSE]
NoRx == [valid |-> FALSE, seen |-> FALSE, frame |-> FALSE]
NoCp == [synced |-> FALSE, zero |-> 0]

Init ==
  /\ por = FALSE /\ dsync = 0 /\ start = 0 /\ txf = Fifo /\ rxf = Fifo
  /\ dac = NoDac /\ rx = NoRx /\ cp = NoCp
  /\ made = 0 /\ adc = 0 /\ sent = <<>> /\ played = <<>> /\ heard = <<>> /\ got = <<>>
  /\ quiet = FALSE

\* rst_n_ext, at any time; the power-on counter has run once for all.
Restart ==
  /\ por /\ UNCHANGED por
  /\ dsync' = 0 /\ start' = 0 /\ txf' = Fifo /\ rxf' = Fifo
  /\ dac' = NoDac /\ rx' = NoRx /\ cp' = NoCp
  /\ made' = 0 /\ adc' = 0 /\ sent' = <<>> /\ played' = <<>> /\ heard' = <<>> /\ got' = <<>>
  /\ quiet' = FALSE

PowerOn == ~por /\ por' = TRUE
           /\ UNCHANGED <<dsync, start, txf, rxf, dac, rx, cp, made, adc, sent, played, heard, got, quiet>>

\* The start pulse comes START_DELAY clocks of rf_start after the first, once: long
\* enough for the reset of the radio's side to be released.
StartDelay(rf_start) ==
  /\ rf_start /\ start = START_DELAY => dsync = 3
  /\ start' = IF rf_start /\ start <= START_DELAY THEN start + 1 ELSE start
started == start > START_DELAY

\* A sample that finds the FIFO full is dropped.
TxWrite(tx_valid_out) ==
  LET wr_en == tx_valid_out /\ ~full(txf, TX_DEPTH)
  IN /\ made' = IF tx_valid_out THEN made + 1 ELSE made
     /\ txf' = IF wr_en THEN Write(txf, made') ELSE txf
     /\ sent' = IF wr_en THEN Append(sent, made') ELSE sent

(* Mutant: the valid goes out in the clock of the read. *)
MutRxRead ==
  /\ rxf' = IF empty(rxf) THEN rxf ELSE Read(rxf)
  /\ rx' = [valid |-> ~empty(rxf'), seen |-> rx.seen \/ rx.valid, frame |-> rx.valid /\ ~rx.seen]

\* The receive FIFO is read whenever it holds something, and the valid of the word is
\* a register as its output is; the frame start is set by the first valid.
RxRead ==
  /\ rxf' = IF empty(rxf) THEN rxf ELSE Read(rxf)
  /\ rx' = [valid |-> ~empty(rxf), seen |-> rx.seen \/ rx.valid, frame |-> rx.valid /\ ~rx.seen]

\* cp_remove takes the sample that comes with the frame start for number 0, or the
\* first one after it.
CpRemove ==
  /\ got' = IF rx.valid THEN Append(got, rxf.dout) ELSE got
  /\ cp' = [synced |-> cp.synced \/ rx.frame,
            zero |-> IF (cp.synced \/ rx.frame) /\ rx.valid /\ cp.zero = 0 THEN rxf.dout
                     ELSE cp.zero]

Clk == \E rf_start, tx_valid_out \in BOOLEAN :
  /\ por /\ (tx_valid_out => started /\ made < MaxTx)
  /\ StartDelay(rf_start) /\ TxWrite(tx_valid_out) /\ RxRead /\ CpRemove
  /\ UNCHANGED <<por, dsync, dac, adc, played, heard, quiet>>

-----------------------------------------------------------------------------
(* Mutant: an empty FIFO does not stop the DAC, which gets the last word again. *)
MutDacPush(muted) ==
  CASE dsync < 3 -> dac' = [data |-> 0, valid |-> FALSE] /\ UNCHANGED played
    [] dsync = 3 /\ muted -> dac' = [data |-> 0, valid |-> TRUE] /\ UNCHANGED played
    [] OTHER -> dac' = [data |-> txf.dout, valid |-> TRUE] /\ played' = Append(played, txf.dout)

\* The DAC takes the output of the FIFO in the clock of the read, zero when muted.
DacPush(muted) ==
  CASE dsync < 3 -> dac' = [data |-> 0, valid |-> FALSE] /\ UNCHANGED played
    [] dsync = 3 /\ muted -> dac' = [data |-> 0, valid |-> TRUE] /\ UNCHANGED played
    [] dsync = 3 /\ ~muted /\ ~empty(txf) ->
         dac' = [data |-> txf.dout, valid |-> TRUE] /\ played' = Append(played, txf.dout)
    [] OTHER -> dac' = [dac EXCEPT !.valid = FALSE] /\ UNCHANGED played

TxRead == txf' = IF empty(txf) THEN txf ELSE Read(txf)

RxWrite(adc_valid) ==
  LET wr_en == por /\ adc_valid /\ ~full(rxf, RX_DEPTH)
  IN /\ adc' = IF adc_valid THEN adc + 1 ELSE adc
     /\ rxf' = IF wr_en THEN Write(rxf, adc') ELSE rxf
     /\ heard' = IF wr_en THEN Append(heard, adc') ELSE heard

\* rf_loopback_dis may change at any time.
DataClk == \E muted, adc_valid \in BOOLEAN :
  /\ adc_valid => adc < MaxRx
  /\ dsync' = IF dsync < 3 THEN dsync + 1 ELSE dsync
  /\ DacPush(muted) /\ TxRead /\ RxWrite(adc_valid)
  /\ quiet' = (quiet \/ (dsync = 3 /\ muted))
  /\ UNCHANGED <<por, start, rx, cp, made, sent, got>>

\* The pointers of a FIFO reach the other side.
Cross ==
  /\ \/ txf' \in Crossed(txf) \ {txf} /\ UNCHANGED rxf
     \/ rxf' \in Crossed(rxf) \ {rxf} /\ UNCHANGED txf
  /\ UNCHANGED <<por, dsync, start, dac, rx, cp, made, adc, sent, played, heard, got, quiet>>

Next == Restart \/ PowerOn \/ Clk \/ DataClk \/ Cross

Spec == Init /\ [][Next]_vars

-----------------------------------------------------------------------------
\* Which pushes to the DAC carry a sample, not the value a FIFO has after a reset.
Samples == {i \in DOMAIN played : played[i] # 0}

\* What the radio transmits through the FIFO and its two clocks
\* (ofdm_ldpc_rf_pl.v:298-331): accepted samples, in order and each once, and never
\* muted none is left out before one that went out.  Of a burst that fits into the
\* FIFO no sample is refused, however late the pointers cross.
TransmitInOrder ==
  /\ \A i \in Samples : \E k \in DOMAIN sent : played[i] = sent[k]
  /\ \A i, j \in Samples : i < j => played[i] < played[j]
  /\ ~quiet => \A i \in Samples, k \in DOMAIN sent :
                 sent[k] < played[i] => \E h \in Samples : h < i /\ played[h] = sent[k]
  /\ Len(sent) < TX_DEPTH => Len(sent) = made

\* "When FIFO has data, push it" (ofdm_ldpc_rf_pl.v:310): never muted, the n-th word
\* pushed is the n-th accepted.
PushesWhatItHas == ~quiet => \A i \in DOMAIN played : played[i] = sent[i]

\* What the modem receives through the other FIFO (ofdm_ldpc_rf_pl.v:383-401): the
\* samples that were accepted, in order, each once and none left out.
ReceiveInOrder == Len(got) <= Len(heard) /\ \A i \in DOMAIN got : got[i] = heard[i]

\* "frame_start fires on the SAME cycle as the first valid sample" (cp_remove.v:28) and
\* the wrapper's "alignment by the first sample arrival" (ofdm_ldpc_rf_pl.v:405): the
\* sample cp_remove counts as number 0 is the first the modem receives.
FrameFromFirst == cp.zero # 0 => cp.zero = heard[1]

\* Each of the two comments is about one direction. This asks that at least one of them
\* is met: a state in which it is false is a counterexample to both.
EitherOnTime == PushesWhatItHas \/ FrameFromFirst
=============================================================================
