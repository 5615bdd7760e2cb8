---------------------------- MODULE Ad9361Setup -----------------------------
(* Bringing the radio up: the reset, the driver's state after it, the long    *)
(* sequence of ad9361_setup and its early returns, ad9361_init.               *)
(*   s.pd    the platform data (phy->pdata): what the caller of ad9361_init   *)
(*           asked for and the few fields later calls change                  *)
(*   s.port  rf_rx_input_sel, rf_tx_output_sel; the word of INPUT_SELECT and  *)
(*           the TX monitors that are powered                                 *)
EXTENDS Ad9361Gain

\* main.c, default_init_param: 2R2T, FDD, both LOs at 2400 MHz, 40 MSPS, 20 MHz.
default_init_param ==
  [dev |-> "AD9361", rx2tx2 |-> TRUE, rxnum |-> 0, txnum |-> 0, fdd |-> TRUE,
   indep |-> FALSE, dual |-> FALSE, skipcal |-> FALSE, pinctrl |-> FALSE,
   managed |-> TRUE, lvds |-> TRUE, eq2 |-> FALSE, gov |-> 1,
   ext |-> [rx |-> FALSE, tx |-> FALSE], synth |-> [rx |-> 2400, tx |-> 2400],
   clks |-> [rx |-> [bbpll |-> Mega(1280), conv |-> Mega(320), x2 |-> Mega(160),
                     x1 |-> Mega(80), xf |-> Mega(40), sampl |-> Mega(40)],
             tx |-> [bbpll |-> Mega(1280), conv |-> Mega(160), x2 |-> Mega(160),
                     x1 |-> Mega(80), xf |-> Mega(40), sampl |-> Mega(40)]],
   bw |-> [rx |-> Mega(20), tx |-> Mega(20)], agc |-> <<"manual", "manual">>,
   atten |-> 10000, port |-> [rx |-> 0, tx |-> 0], dcxo |-> <<8, 5920>>,
   ref |-> Mega(40)]

\* The registers after a reset, which the driver reads before it writes them: a
\* BBPLL at 16 times its reference and the filters at their greatest ratios.
ResetRegisters(s) ==
  LET baseband ==
        [s EXCEPT !.clk.word = [int |-> 16, fract |-> 0],
                  !.clk.div = [c \in Factors |->
                     CASE c = "ADC" -> 8 [] c \in {"RX_SAMPL", "TX_SAMPL"} -> 4
                       [] c = "DAC" -> 1 [] OTHER -> 2],
                  !.fir.chip = [rx |-> NoFilter, tx |-> NoFilter],
                  !.times = [gc |-> <<0, 0>>, rssi |-> 0, auxadc |-> 0],
                  !.gain.mode = <<"manual", "manual">>, !.gain.hybrid = FALSE,
                  !.gain.rxen = {}, !.gain.txen = {}, !.gain.idx = <<GainMax, GainMax>>]
      en == [s.en EXCEPT !.dev = "WAIT", !.pin = FALSE, !.clocks = FALSE, !.fdd = FALSE,
                         !.cfg2 = {}]
      port == [s.port EXCEPT !.select = 0, !.mon = {}]
      radio ==
        [baseband EXCEPT !.att.chip = <<AttenWord(0), AttenWord(0)>>, !.en = en,
                         !.trk.chip = {}, !.mcsrf = FALSE, !.dcband = FALSE, !.port = port,
                         !.tune = [rx |-> <<0, 0>>, tx |-> 0, tia |-> <<0, <<0, 0>>>>,
                                   second |-> 0, adc |-> <<0, 0, 0, <<0, 0>>>>]]
      fastlock(f) == [f EXCEPT !.mem = NoFastlock.mem, !.setup = 0, !.ready = FALSE,
                               !.vcocal = TRUE, !.alc = 0]
      synth(l) == [l EXCEPT !.reg = NoFreq, !.row = 0, !.chippd = {}, !.ext = FALSE,
                            !.fl = fastlock(l.fl)]
  IN [radio EXCEPT !.lo = [p \in DOMAIN s.lo |-> synth(s.lo[p])]]

\* ad9361_reset: by the pin, or by a soft reset and an error nobody looks at.
ad9361_reset(s) == ResetRegisters(s)

clear_state(s) ==
  LET fir == [s.fir EXCEPT !.rxby = TRUE, !.txby = TRUE, !.rxdec = 0, !.txint = 0,
                           !.taps = [rx |-> 0, tx |-> 0]]
      en == [s.en EXCEPT !.prev = "WAIT", !.curr = "WAIT", !.pinctl = FALSE]
      fastlock(f) == [f EXCEPT !.profile = 0, !.entry = NoFastlock.entry]
      synth(l) == [l EXCEPT !.cur = 0, !.tdd = FALSE, !.pd = {}, !.fl = fastlock(l.fl)]
      driver == [s EXCEPT !.gain.table = NoTable, !.pd.gov = 1, !.autocal = FALSE, !.fir = fir,
                          !.trk.want = Trackings, !.bw = [rx |-> 0, tx |-> 0], !.bbfdiv = 0,
                          !.en = en, !.qc.freq = 0]
  IN [driver EXCEPT !.lo = [p \in DOMAIN s.lo |-> synth(s.lo[p])]]

\* The rates the driver remembers for the clocks, from the registers as they are.
register_clocks(s) ==
  recalc_all([s EXCEPT !.lo = [p \in DOMAIN @ |-> [@[p] EXCEPT !.dummy = s.pd.synth[p]]]])

-----------------------------------------------------------------------------
validate_rf_bw(s, bw) == Clamp(bw, 0, IF s.pd.dev = "AD9363A" THEN Mega(20) ELSE Mega(56))

\* The frequency for a PLL from the reference: doubled, halved twice at most.
ref_div_sel(ref, max) ==
  CASE ref <= max \div 2 -> 2 * ref
    [] ref > max \div 2 /\ ref <= max -> ref
    [] ref > max /\ ref <= max * 2 -> ref \div 2
    [] ref > max * 2 /\ ref <= max * 4 -> ref \div 4
    [] OTHER -> 0

\* Inputs above 8 are the TX monitors: they are powered, the input stays what it was.
txmon_control(s, chans) == [s EXCEPT !.port.mon = chans]

rf_port_setup(s, isout, rx, tx) ==
  LET mon == IF isout THEN s
             ELSE txmon_control(s, IF rx > 8 THEN {c \in {1, 2} : (rx \div c) % 2 = 1} ELSE {})
      val == (IF rx < 3 THEN 3 * 2^(rx * 2) ELSE 2^(rx - 3)) + (IF tx # 0 THEN 64 ELSE 0)
  IN IF rx > 11 THEN Return(s, EINVAL)
     ELSE IF ~isout /\ rx > 8 THEN Ok(mon) ELSE Ok([mon EXCEPT !.port.select = val])

\* The platform data made consistent, the clocks on, the chain that was asked for.
SetupClocks(s) ==
  LET pd == [s.pd EXCEPT !.bw = [rx |-> validate_rf_bw(s, @.rx), tx |-> validate_rf_bw(s, @.tx)],
                         !.skipcal = @ /\ ~s.pd.fdd,
                         !.pinctrl = @ /\ ~(s.pd.fdd /\ s.pd.indep)]
      ref == ref_div_sel(s.pd.ref, Mega(70))
      a == [s EXCEPT !.pd = pd, !.dcxo = pd.dcxo, !.en.clocks = TRUE, !.clk.ref = ref]
  IN IF ref = 0 THEN Return([a EXCEPT !.clk.ref = s.clk.ref, !.en.clocks = s.en.clocks], EINVAL)
     ELSE set_trx_clock_chain(a, pd.clks.rx, pd.clks.tx)

\* The channels, and the ports.
SetupChannels(s) ==
  LET rx == IF s.pd.rx2tx2 THEN {1, 2} ELSE {Clamp(s.pd.rxnum, 1, 2)}
      tx == IF s.pd.rx2tx2 THEN {1, 2} ELSE {Clamp(s.pd.txnum, 1, 2)}
      a == [s EXCEPT !.gain.rxen = en_dis(@, {1, 2}, rx), !.gain.txen = en_dis(@, {1, 2}, tx)]
      b == IF s.pd.rx2tx2 THEN a ELSE [a EXCEPT !.pd.rxnum = Clamp(@, 1, 2),
                                                !.pd.txnum = Clamp(@, 1, 2)]
  IN Then(rf_port_setup(b, TRUE, s.port.rx, s.port.tx), auxadc_setup)

\* The synthesizers: charge pumps, the two LOs with the external ones switched
\* off, and without a calibration of the transmitter; then the external LOs.
SetupSynths(s) ==
  LET cp == Then(txrx_synth_cp_calib(s, "rx"), LAMBDA t : txrx_synth_cp_calib(t, "tx"))
      internal(t) == [t EXCEPT !.pd.ext = [rx |-> FALSE, tx |-> FALSE]]
      lo(t, p) == set_lo(t, p, t.pd.synth[p])
      both(t) == lo(lo([t EXCEPT !.qc.freq = t.pd.synth.tx], "rx"), "tx")
      ext(t) == [t EXCEPT !.pd.ext = s.pd.ext]
      mux(t) == Ok(clk_mux_set_parent(clk_mux_set_parent(t, "rx", s.pd.ext.rx),
                                      "tx", s.pd.ext.tx))
  IN Then(cp, LAMBDA t : mux(ext(both(internal(t)))))

\* The gain control, the filters for the bandwidth, the calibrations.
SetupCalibrations(s) ==
  LET half == [rx |-> s.pd.bw.rx \div 2, tx |-> s.pd.bw.tx \div 2]
      filters == update_filters(gc_setup(s), s.pd.bw.rx, s.pd.bw.tx)
      dc == Then(Then(filters, bb_dc_offset_calib),
                 LAMBDA t : rf_dc_offset_calib(t, rfpll_recalc_rate(t, "rx")))
      now(t) == [t EXCEPT !.bw = t.pd.bw, !.qc.phase = 32]
  IN Then(Then(dc, LAMBDA t : tx_quad_calib(now(t), half.rx, half.tx, -1)),
          LAMBDA t : tracking_control(t, t.trk.want))

\* The state machine's mode, the attenuation, and the state the radio is left in.
SetupEnsm(s) ==
  LET on == IF s.pd.rx2tx2 THEN {1, 2} ELSE {s.pd.txnum}
      att == Then(set_tx_atten(set_ensm_mode(s, s.pd.fdd, s.pd.pinctrl), s.pd.atten, on),
                  LAMBDA t : set_tx_atten(t, MaxAtten, {1, 2} \ on))
      state(t) == ensm_set_state([t EXCEPT !.en.curr = t.en.dev],
                                 IF t.pd.fdd THEN "FDD" ELSE "RX", t.pd.pinctrl)
  IN Then(Then(att, rssi_setup), LAMBDA t : Ok([state(t) EXCEPT !.autocal = TRUE]))

ad9361_setup(s) ==
  Then(Then(Then(Then(SetupClocks(s), SetupChannels), SetupSynths), SetupCalibrations), SetupEnsm)

-----------------------------------------------------------------------------
\* The memory ad9361_init allocates: all zero, but for the few fields it sets.
ZeroPhy(pd) ==
  [rc |-> 0, late |-> {}, quad |-> [first |-> "conv", retry |-> "conv", search |-> "ok", phase |-> 0],
   alc |-> 0, pd |-> pd, dcxo |-> <<0, 0>>,
   clk |-> [ref |-> pd.ref, word |-> [int |-> 0, fract |-> 0], div |-> [c \in Factors |-> 1],
            rate |-> [c \in Factors \cup {"BBPLL"} |-> 0], init |-> FALSE],
   fir |-> [rxby |-> TRUE, txby |-> TRUE, rxdec |-> 0, txint |-> 0,
            taps |-> [rx |-> 0, tx |-> 0], chip |-> [rx |-> NoFilter, tx |-> NoFilter],
            valid |-> FALSE, clks |-> [rx |-> NoPath, tx |-> NoPath], bw |-> [rx |-> 0, tx |-> 0]],
   times |-> [gc |-> <<0, 0>>, rssi |-> 0, auxadc |-> 0],
   gain |-> [agc |-> <<"manual", "manual">>, mode |-> <<"manual", "manual">>, hybrid |-> FALSE,
             rxen |-> {}, txen |-> {}, table |-> NoTable, idx |-> <<0, 0>>],
   att |-> [chip |-> <<AttenWord(0), AttenWord(0)>>, cached |-> <<0, 0>>],
   autocal |-> FALSE, mcsrf |-> FALSE, dcband |-> FALSE,
   port |-> [rx |-> pd.port.rx, tx |-> pd.port.tx, select |-> 0, mon |-> {}],
   lo |-> [p \in {"rx", "tx"} |->
             [reg |-> NoFreq, rate |-> 0, dummy |-> 0, cur |-> 0, div |-> 0, tdd |-> FALSE,
              row |-> 0, pd |-> {}, chippd |-> {}, ext |-> FALSE, fl |-> NoFastlock]],
   en |-> [dev |-> "WAIT", pin |-> FALSE, clocks |-> FALSE, fdd |-> FALSE, cfg2 |-> {},
           prev |-> "WAIT", curr |-> "WAIT", pinctl |-> FALSE],
   trk |-> [want |-> Trackings, chip |-> {}], bw |-> [rx |-> 0, tx |-> 0], bbfdiv |-> 0,
   tune |-> [rx |-> <<0, 0>>, tx |-> 0, tia |-> <<0, <<0, 0>>>>, second |-> 0,
             adc |-> <<0, 0, 0, <<0, 0>>>>],
   qc |-> [phase |-> 0, freq |-> 0]]

\* ad9361_init: whatever fails in the setup, the memory is freed and -ENODEV is
\* returned; the caller's pointer is set only at the end.
ENODEV == -19
ad9361_init(s) ==
  LET result(t) == IF t.rc < 0 THEN Return(t, ENODEV) ELSE Ok(t)
  IN result(ad9361_setup(register_clocks(ad9361_reset(s))))
=============================================================================
