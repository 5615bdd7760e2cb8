------------------------------- MODULE Ad9361 -------------------------------
(* The AD9361 driver in use: main.c brings the radio up and configures it,    *)
(* and from then on any sequence of calls of ad9361_api.h may follow.  A call *)
(* is one step: the program has one thread and the driver no interrupt.       *)
(* During a call a calibration may not finish, the TX quadrature calibration  *)
(* may not converge, and a VCO may end with any ALC word; between calls the   *)
(* pins of the state machine may move the radio.                              *)
EXTENDS Ad9361Setup

CONSTANTS Params,        \* the initialisation parameters
          Calls,         \* the names of the calls made after main's sequence
          MaxCalls,      \* how many of them; a fault uses up what is left
          Faults,        \* the outcomes of a call other than Nominal
          Alcs,          \* ALC words a VCO calibration may end with
          Rates, Bws, Los,      \* arguments: sample rates, bandwidths, LO frequencies
          Fir                   \* configurations [rx, tx] of the filters

ASSUME ParamsAssumption ==
  /\ \A pd \in Params : DOMAIN pd = DOMAIN default_init_param
                         /\ pd.ext \in [{"rx", "tx"} -> BOOLEAN]
                         /\ pd.synth \in [{"rx", "tx"} -> Nat]
  /\ \A o \in Faults : o.quad.first \in QuadAnswers
  /\ Alcs \subseteq AlcWords /\ MaxCalls \in Nat

\* The reference is a frequency, and the baseband PLL is asked for one it can have.
ASSUME ClockAssumption ==
  \A pd \in Params : pd.ref \in Nat /\ pd.clks.rx.bbpll \in MinBbpll..MaxBbpll

VARIABLES s,             \* the driver and the radio
          phy,           \* the caller has a handle (ad9361_phy is not NULL)
          pc,            \* the step of main, MainEnd when it is through
          call,          \* the last call: [name, arg, rc]
          left,          \* calls left
          past           \* "fault": an outcome other than Nominal changed what a
                         \* call did; "refused": main's sequence met a failure;
                         \* "manual": the automatic TX calibration was switched
                         \* off; "halfway": the last setup returned early; "mixed":
                         \* a filter was replaced while the path clocks of another
                         \* design were remembered (filt_valid)
vars == <<s, phy, pc, call, left, past>>

Nominal == [late |-> {}, quad |-> [first |-> "conv", retry |-> "conv",
                                   search |-> "ok", phase |-> 0]]

During(t, o, a) == [t EXCEPT !.late = o.late, !.quad = o.quad, !.alc = a]
\* Between calls no outcome is pending.
Settled(t) == [During(t, Nominal, 0) EXCEPT !.rc = 0]

\* A call that leaves t, and would leave plain if nothing went wrong in the radio: the
\* state, the return code, the history.
Ends(name, arg, t, plain) ==
  LET hit == Settled(t) # Settled(plain) \/ t.rc # plain.rc
  IN /\ s' = Settled(t)
     /\ call' = [name |-> name, arg |-> arg, rc |-> t.rc]
     /\ left' = IF hit THEN 0 ELSE IF pc = 0 THEN left - 1 ELSE left
     /\ past' = (IF name = "set_no_ch_mode" THEN past \ {"halfway"} ELSE past)
                 \cup Bit(hit, "fault") \cup Bit(pc # 0 /\ t.rc < 0, "refused")
                 \cup Bit(name = "set_no_ch_mode" /\ ~t.autocal, "halfway")
                 \cup Bit(name = "set_tx_auto_cal_en_dis" /\ ~arg, "manual")
                 \cup Bit(s.fir.valid /\ name \in {"set_rx_fir_config", "set_tx_fir_config"},
                          "mixed")

\* One call, for some outcome.
Perform(name, arg, Op(_)) ==
  \E o \in {Nominal} \cup Faults, a \in Alcs :
    Ends(name, arg, Op(During(Ok(s), o, a)), Op(During(Ok(s), Nominal, a)))

-----------------------------------------------------------------------------
(* main.c: the initialisation and the fourteen calls after it, none of whose  *)
(* return codes it looks at.                                                  *)
sample_rate == Mega(40)
tx_lo_freq == 2400
rx_lo_freq == 2400
bandwidth == Mega(30)
gain == 10
txatt == 10000
rx_fir_config == [taps |-> 128, dest |-> 3, factor |-> 2, clks |-> NoPath, bw |-> 0]
tx_fir_config == [taps |-> 128, dest |-> 3, factor |-> 2, clks |-> NoPath, bw |-> 0]

set_sampling_freq(t, rate) ==
  LET planned(plan) ==
        IF plan.rc < 0 THEN Return(t, plan.rc)
        ELSE update_rf_bandwidth(set_trx_clock_chain(t, plan.rx, plan.tx), t.bw.rx, t.bw.tx)
  IN planned(Plan(t, rate))

\* ad9361_set_rx_rf_bandwidth and _set_tx_rf_bandwidth.
set_rf_bandwidth(t, p, bw) ==
  LET b == [t.bw EXCEPT ![p] = validate_rf_bw(t, bw)]
  IN IF t.bw = b THEN Ok(t) ELSE update_rf_bandwidth(t, b.rx, b.tx)

main(t, step) ==
  CASE step = 1 -> ad9361_init(t)
    [] step = 2 -> set_tx_fir_config(t, tx_fir_config)
    [] step = 3 -> set_rx_fir_config(t, rx_fir_config)
    [] step \in {4, 5} -> set_fir_en_dis(t, {IF step = 4 THEN "tx" ELSE "rx"}, TRUE)
    [] step \in {6, 7} -> set_sampling_freq(t, sample_rate)
    [] step \in {8, 9} -> set_lo(t, IF step = 8 THEN "tx" ELSE "rx",
                                  IF step = 8 THEN tx_lo_freq ELSE rx_lo_freq)
    [] step \in {10, 11} -> set_rf_bandwidth(t, IF step = 10 THEN "tx" ELSE "rx", bandwidth)
    [] step \in {12, 13} -> set_rx_rf_gain(t, step - 12, gain)
    [] step \in {14, 15} -> set_tx_attenuation(t, step - 14, txatt)
MainEnd == 0

\* After a failed initialisation the handle is NULL, and main goes on with it:
\* nothing is modelled from there.
MainStep ==
  /\ pc # MainEnd /\ (phy \/ pc = 1)
  /\ Perform("main", pc, LAMBDA t : main(t, pc))
  /\ phy' = (phy \/ call'.rc >= 0)
  /\ pc' = IF pc = 15 THEN MainEnd ELSE pc + 1

\* The pins ENABLE and TXNRX move a radio under pin control.
PinsMove ==
  /\ pc = MainEnd /\ s.en.pin /\ s.en.clocks
  /\ \E d \in (IF s.en.fdd THEN {"ALERT", "FDD"} ELSE {"ALERT", "TX", "RX"}) \ {s.en.dev} :
       s' = [s EXCEPT !.en.dev = d]
  /\ UNCHANGED <<phy, pc, call, left, past>>

-----------------------------------------------------------------------------
(* The calls.                                                                 *)
API(name, arg, Op(_)) ==
  /\ pc = MainEnd /\ left > 0 /\ name \in Calls
  /\ Perform(name, arg, Op)
  /\ UNCHANGED <<phy, pc>>

\* The name of the call for a path.
For(p, rx, tx) == IF p = "rx" THEN rx ELSE tx

Sampling == \E rate \in Rates :
  API("set_sampling_freq", rate, LAMBDA t : set_sampling_freq(t, rate))

Bandwidth == \E p \in {"rx", "tx"}, bw \in Bws :
  API(For(p, "set_rx_rf_bandwidth", "set_tx_rf_bandwidth"), bw,
      LAMBDA t : set_rf_bandwidth(t, p, bw))

SetLo == \E p \in {"rx", "tx"}, f \in Los :
  API(For(p, "set_rx_lo_freq", "set_tx_lo_freq"), f, LAMBDA t : set_lo(t, p, f))

\* The external LO, which the AD9363A does not have.
set_lo_int_ext(t, p, ext) ==
  IF t.pd.dev = "AD9363A" /\ ext THEN Return(t, -1)
  ELSE clk_mux_set_parent([t EXCEPT !.pd.ext[p] = ext], p, ext)

IntExt == \E p \in {"rx", "tx"}, ext \in BOOLEAN :
  API(For(p, "set_rx_lo_int_ext", "set_tx_lo_int_ext"), ext,
      LAMBDA t : set_lo_int_ext(t, p, ext))

LoPower == \E off \in BOOLEAN :
  LET option == IF off THEN "off" ELSE "on"
  IN \/ API("rx_lo_powerdown", off, LAMBDA t : synth_lo_powerdown(t, option, "dontcare"))
     \/ API("tx_lo_powerdown", off, LAMBDA t : synth_lo_powerdown(t, "dontcare", option))

Fastlocking == \E p \in {"rx", "tx"}, k \in Profiles :
  \/ API("fastlock_store", <<p, k>>, LAMBDA t : fastlock_store(t, p, k))
  \/ API("fastlock_recall", <<p, k>>, LAMBDA t : fastlock_recall(t, p, k))
  \/ \E j \in Profiles :          \* a profile saved and loaded again, into any place
       API("fastlock_load", <<p, k>>, LAMBDA t : fastlock_load(t, p, k, fastlock_save(t, p, j)))

Ensm == \E mode \in EnsmModes :
  API("set_en_state_machine_mode", mode, LAMBDA t : set_en_state_machine_mode(t, mode))

set_track_en_dis(t, which, on) ==
  LET want == IF on THEN t.trk.want \cup {which} ELSE t.trk.want \ {which}
  IN IF t.trk.want = want THEN Ok(t) ELSE tracking_control([t EXCEPT !.trk.want = want], want)

Tracking == \E which \in Trackings, on \in BOOLEAN :
  API("set_track_en_dis", <<which, on>>, LAMBDA t : set_track_en_dis(t, which, on))

AutoCal == \E on \in BOOLEAN :
  API("set_tx_auto_cal_en_dis", on, LAMBDA t : Ok([t EXCEPT !.autocal = on]))

Calibrate == \E cal \in {"TX_QUAD", "RFDC", "other"}, arg \in {-2, -1} :
  API("do_calib", <<cal, arg>>, LAMBDA t : do_calib_run(t, cal, arg))

FirEnable == \E on \in BOOLEAN :
  \/ API("set_rx_fir_en_dis", on, LAMBDA t : set_fir_en_dis(t, {"rx"}, on))
  \/ API("set_tx_fir_en_dis", on, LAMBDA t : set_fir_en_dis(t, {"tx"}, on))
  \/ API("set_trx_fir_en_dis", on, LAMBDA t : set_fir_en_dis(t, {"rx", "tx"}, on))

FirConfig == \E cfg \in Fir :
  \/ API("set_rx_fir_config", cfg, LAMBDA t : set_rx_fir_config(t, cfg.rx))
  \/ API("set_tx_fir_config", cfg, LAMBDA t : set_tx_fir_config(t, cfg.tx))
  \/ API("trx_load_enable_fir", cfg, LAMBDA t : trx_load_enable_fir(t, cfg.rx, cfg.tx))

RateGov == \E gov \in {0, 1} :
  API("set_trx_rate_gov", gov, LAMBDA t : Ok([t EXCEPT !.pd.gov = gov]))

\* The path clocks: those of a plan for a rate, whatever the filters are.
set_trx_path_clks(t, rx, tx) ==
  Then(set_trx_clock_chain(t, rx, tx), LAMBDA u : update_rf_bandwidth(u, u.bw.rx, u.bw.tx))

PathClks == \E rate \in Rates :
  LET plan == calculate_rf_clock_chain(rate, 0, 1, 1, FALSE)
  IN /\ plan.rc = 0
     /\ API("set_trx_path_clks", rate, LAMBDA t : set_trx_path_clks(t, plan.rx, plan.tx))

GainMode == \E ch \in {0, 1}, mode \in AgcModes :
  API("set_rx_gain_control_mode", <<ch, mode>>,
      LAMBDA t : set_rx_gain_control_mode(t, ch, mode))

Gains == \E ch \in {0, 1} :
  \/ \E g \in {10, 60} : API("set_rx_rf_gain", <<ch, g>>, LAMBDA t : set_rx_rf_gain(t, ch, g))
  \/ \E a \in {0, MaxAtten + 250} :
       API("set_tx_attenuation", <<ch, a>>, LAMBDA t : set_tx_attenuation(t, ch, a))

Mute == \E on \in BOOLEAN : API("tx_mute", on, LAMBDA t : tx_mute(t, on))

set_rx_rf_port_input(t, mode) ==
  rf_port_setup([t EXCEPT !.port.rx = mode], FALSE, mode, t.port.tx)
set_tx_rf_port_output(t, mode) ==
  rf_port_setup([t EXCEPT !.port.tx = mode], TRUE, t.port.rx, mode)

Ports ==
  \/ \E m \in {1, 11, 12} : API("set_rx_rf_port_input", m, LAMBDA t : set_rx_rf_port_input(t, m))
  \/ \E m \in {0, 1} : API("set_tx_rf_port_output", m, LAMBDA t : set_tx_rf_port_output(t, m))

\* Another number of channels: the radio is reset and set up again; the return code
\* of the setup is not looked at.
set_no_ch_mode(t, n) ==
  LET a == [t EXCEPT !.pd.rx2tx2 = n = 2]
      b == recalc_all(clear_state(ad9361_reset(a)))
  IN Ok(ad9361_setup(Ok(b)))

NoChMode == \E n \in {1, 2} :
  API("set_no_ch_mode", n, LAMBDA t : set_no_ch_mode(t, n))

\* Multi-chip synchronisation of two radios, from the side of one: a master keeps
\* its mode, a slave takes the master's.  Step 1 releases the synthesizers, and
\* MCS_RF_ENABLE stays set at the end.
mcs(t) == [t EXCEPT !.en.cfg2 = @ \ SynthBits, !.mcsrf = TRUE]
do_mcs(t, mode) ==
  IF t.pd.dev = "AD9363A" THEN Return(t, -1)
  ELSE Ok(set_en_state_machine_mode(mcs(set_en_state_machine_mode(t, "ALERT")), mode))

Mcs ==
  \/ API("do_mcs", "master", LAMBDA t : do_mcs(t, get_en_state_machine_mode(t)))
  \/ \E mode \in {"FDD", "ALERT", "RX"} : API("do_mcs", "slave", LAMBDA t : do_mcs(t, mode))

\* ad9361_rssi_gain_step_calib: the state machine is held in ALERT meanwhile.
GainStepCalib ==
  API("rssi_gain_step_calib", 0,
      LAMBDA t : Ok(ensm_restore_prev_state(ensm_force_state(t, "ALERT"))))

Dcxo == \E coarse \in {8, 9} :
  API("do_dcxo_tune_coarse", coarse, LAMBDA t : Ok([t EXCEPT !.dcxo[1] = coarse]))

-----------------------------------------------------------------------------
Init == /\ \E pd \in Params : s = ZeroPhy(pd)
        /\ phy = FALSE /\ pc = 1 /\ left = MaxCalls /\ past = {}
        /\ call = [name |-> "none", arg |-> 0, rc |-> 0]

Next == \/ MainStep \/ PinsMove \/ Sampling \/ Bandwidth \/ SetLo \/ IntExt \/ LoPower
        \/ Fastlocking \/ Ensm \/ Tracking \/ AutoCal \/ Calibrate \/ FirEnable
        \/ FirConfig \/ RateGov \/ PathClks \/ GainMode \/ Gains \/ Mute \/ Ports
        \/ NoChMode \/ Mcs \/ GainStepCalib \/ Dcxo

Spec == Init /\ [][Next]_vars

-----------------------------------------------------------------------------
(* Correctness.                                                               *)

\* The record has the ranges its fields have in the code.
TypeOK ==
  /\ s.en.dev \in EnsmStates /\ s.en.prev \in EnsmStates
  /\ s.en.curr \in EnsmModes /\ s.en.cfg2 \subseteq {"DUAL", "FDD_EXT", "SYNTH_PIN", "TXNRX"} \cup SynthBits
  /\ s.trk.want \subseteq Trackings /\ s.trk.chip \subseteq Trackings
  /\ \A c \in Factors : s.clk.div[c] \in 0..64
  /\ s.gain.table \in {NoTable, 0, 1, 2} /\ s.gain.idx \in [{1, 2} -> 0..GainMax]
  /\ \A p \in {"rx", "tx"} : s.lo[p].row \in 0..Len(VcoMHz) /\ s.lo[p].reg.vdiv \in 0..7
  /\ phy \in BOOLEAN /\ pc \in 0..15 /\ left \in 0..MaxCalls

\* A radio every calibration of which has ended and whose setup went to its end.
InUse == phy /\ past \cap {"fault", "halfway"} = {}

\* The analog filters, the ADC and everything whose times hang on a clock are set up
\* for the clocks and the bandwidth of this moment, after any calls in any order:
\* each call that moves a clock or the bandwidth repeats the setup
\* (__ad9361_update_rf_bandwidth, ad9361_bb_clk_change_handler), and the TX
\* quadrature calibration, which widens the filters, sets them back.
Tuned ==
  InUse => /\ s.tune = update_filters(s, s.bw.rx, s.bw.tx).tune
           /\ LET now == bb_clk_change_handler(s).times
              IN /\ s.times.rssi = now.rssi /\ s.times.auxadc = now.auxadc
                 /\ s.times.gc[1] = now.gc[1]

\* A call that is not about the state machine leaves the radio in the state it found
\* it in, though it may force ALERT and restore several times on its way, and does not
\* lose the pin control of the caller (ad9361_ensm_force_state, _restore_state).
EnsmCalls == {"none", "main", "set_en_state_machine_mode", "set_no_ch_mode", "do_mcs"}
AboutOther == call' # call /\ call'.rc >= 0 /\ call'.name \notin EnsmCalls /\ InUse'
EnsmKept == [][AboutOther => s'.en.dev = s.en.dev /\ (s.en.pin => s'.en.pin)]_vars

\* What the driver remembers of the radio is what is in the radio: the rates, by which
\* a call that finds its rate remembered leaves the divider alone (clk_set_rate), are
\* those of the dividers; the power-down of each synthesizer is what was last asked
\* for, though the TX quadrature calibration powers an LO up for itself.  Left out of
\* the first are filters switched on with the path clocks of another design: these
\* need not fit their factors, and the divider of a filter that does not change the
\* rate is written last, with nothing recomputed (ad9361_set_trx_clock_chain).
CachesTrue ==
  phy => /\ "mixed" \in past \/ s.clk.rate = TreeRates(s)
         /\ \A p \in {"rx", "tx"} : s.lo[p].chippd = s.lo[p].pd

\* The radio tracks what the caller wants it to track: every calibration that
\* suspends the tracking resumes it.
TrackingOn == InUse => s.trk.chip = s.trk.want

\* What main configures is what it gets, without a single return code looked at: if
\* nothing fails in the radio, no call of the sequence is refused, and at its end both
\* filters are on, the rate, the bandwidths, the LOs and the state are as asked.
Configured ==
  (pc = MainEnd /\ left = MaxCalls /\ past \cap {"fault"} = {} /\ s.pd = default_init_param) =>
     /\ "refused" \notin past
     /\ s.clk.rate["RX_SAMPL"] = sample_rate /\ s.clk.rate["TX_SAMPL"] = sample_rate
     /\ s.clk.div["RX_SAMPL"] = rx_fir_config.factor /\ s.clk.div["TX_SAMPL"] = tx_fir_config.factor
     /\ s.bw = [rx |-> bandwidth, tx |-> bandwidth] /\ s.en.dev = "FDD"
     /\ s.lo.rx.rate = rx_lo_freq /\ s.lo.tx.rate = tx_lo_freq
     /\ \A ch \in {1, 2} : get_rx_gain(s, ch, 0, TRUE).gain = gain /\ get_tx_atten(s, ch) = txatt

\* What the registers and the profiles of a synthesizer can stand for.
LoFreqs == Los \cup {rx_lo_freq, tx_lo_freq} \cup UNION {{pd.synth.rx, pd.synth.tx} : pd \in Params}
LoWords == {[RfpllWord(f) EXCEPT !.vdiv = d] : f \in LoFreqs, d \in 0..7}
             \cup {[vco |-> 0, vdiv |-> d] : d \in 0..7}

FLrx == INSTANCE Fastlock WITH fl <- s.lo.rx.fl, Freqs <- LoWords
FLtx == INSTANCE Fastlock WITH fl <- s.lo.tx.fl, Freqs <- LoWords

\* The driver implements the fastlock of each synthesizer: whatever a call does besides
\* (a frequency for the other LO, an external LO, a reset) is a step of Fastlock or none.
Fastlocks == FLrx!Spec /\ FLtx!Spec

\* In FDD mode the two synthesizers use the tables of TDD exactly while their LOs are
\* one frequency: whatever came before, a call that moves one LO also tunes the other
\* again when the tables have to change ("fix VCO" of ad9361_rfpll_int_set_rate).  Left
\* out is the time when one of them has not been tuned, after a setup with external LOs.
TablesAgree ==
  [][LET lo == s'.lo
         moved == \E p \in {"rx", "tx"} : lo[p].cur # s.lo[p].cur
     IN (moved /\ phy /\ "fault" \notin past' /\ DuplexLos(s') /\ 0 \notin {lo.rx.cur, lo.tx.cur})
          => \A p \in {"rx", "tx"} : lo[p].tdd <=> lo.rx.cur = lo.tx.cur]_vars

\* The transmitter was calibrated within the threshold of where its LO is, unless the
\* automatic calibration was off, or the last frequency asked for was out of range.
QuadNear ==
  (InUse /\ "manual" \notin past /\ ~s.pd.ext.tx /\ s.lo.tx.fl.profile = 0 /\ s.lo.tx.cur # 0) =>
     \/ DiffAbs(s.qc.freq, SynthRate(s.lo.tx)) <= CalThreshold
     \/ ~validate_rfpll(s, s.qc.freq)

\* "Set the RX LO frequency", "0 in case of success": after a call that returns 0 for a
\* frequency in the radio's range, the LO is at that frequency.
LoAsAsked ==
  [][call' # call /\ call'.name = "set_rx_lo_freq" /\ call'.rc = 0
       /\ call'.arg \in MinCarrier..MaxCarrier
       => rfpll_recalc_rate(s', "rx") = call'.arg]_vars

\* "We are restoring state only", says ad9361_ensm_restore_state: such a call does not
\* give the state machine to the pins if it was not theirs.
PinsAsFound == [][AboutOther => (s'.en.pin => s.en.pin)]_vars

\* "Set the number of channels mode", "0 in case of success": after a call that returns
\* 0 the radio is set up, with the state machine in the mode it was initialised for.
NoChModeDone ==
  [][call' # call /\ call'.name = "set_no_ch_mode" /\ call'.rc = 0
       => s'.autocal /\ s'.en.dev \in {"FDD", "RX"}]_vars
=============================================================================
