----------------------------- MODULE Ad9361Cal ------------------------------
(* Calibrations of the AD9361 driver: the base-band filters and the ADC for a *)
(* bandwidth, the DC offsets, the TX quadrature calibration with its retries, *)
(* and the tracking that is suspended around them.                            *)
(*   s.tune   what the filters and the ADC were last set up for               *)
(*   s.bw     current_rx_bw_Hz, current_tx_bw_Hz     s.bbfdiv   rxbbf_div     *)
(*   s.trk    the tracking that is wanted and the one the radio does          *)
(*   s.qc     last_tx_quad_cal_phase, last_tx_quad_cal_freq                   *)
(* Bandwidths are in UNITs, as the clocks.                                    *)
EXTENDS Ad9361Ensm

Clamp(x, lo, hi) == IF x < lo THEN lo ELSE IF x > hi THEN hi ELSE x
DivUp(a, b) == (a + b - 1) \div b

\* Divider of a filter's tune clock; k / 10000 is the code's 1.4 * 2 pi / ln 2
\* of the receive and 1.6 * 2 pi / ln 2 of the transmit filter, times 10000.
TuneDiv(bbpll, bw, k) == Clamp(DivUp(bbpll * 10000, k * bw), 0, 511)

rx_bb_analog_filter_calib(s, bw, bbpll) ==
  LET b == Clamp(bw, 5, 700)                       \* 200 kHz .. 28 MHz
      div == TuneDiv(bbpll, b, 126906)
  IN run_calibration([s EXCEPT !.bbfdiv = div, !.tune.rx = <<b, div>>], "rxbb")

tx_bb_analog_filter_calib(s, bw, bbpll) ==
  LET b == Clamp(bw, 16, 500)                      \* 625 kHz .. 20 MHz
  IN run_calibration([s EXCEPT !.tune.tx = TuneDiv(bbpll, b, 145036)], "txbb")

\* The TIA goes by the bandwidth's class and by what the receive filter was tuned to.
rx_tia_calib(s, bw) ==
  Ok([s EXCEPT !.tune.tia = <<CASE bw <= 75 -> 1 [] bw \in 76..250 -> 2 [] OTHER -> 3, s.tune.rx>>])

tx_bb_second_filter_calib(s, bw) == Ok([s EXCEPT !.tune.second = Clamp(bw, 13, 500)])

rx_adc_setup(s, bbpll, adc) == Ok([s EXCEPT !.tune.adc = <<bbpll, adc, s.bbfdiv, s.tune.rx>>])

update_filters(s, rx, tx) ==                       \* __ad9361_update_rf_bandwidth
  LET bb == clk_get_rate(s, "BBPLL")
      a == rx_bb_analog_filter_calib(s, rx \div 2, bb)
      b == Then(a, LAMBDA t : tx_bb_analog_filter_calib(t, tx \div 2, bb))
      c == Then(b, LAMBDA t : rx_tia_calib(t, rx \div 2))
      d == Then(c, LAMBDA t : tx_bb_second_filter_calib(t, tx \div 2))
  IN Then(d, LAMBDA t : rx_adc_setup(t, bb, clk_get_rate(t, "ADC")))

-----------------------------------------------------------------------------
Trackings == {"bbdc", "rfdc", "quad"}

tracking_control(s, on) == Ok([s EXCEPT !.trk.chip = on])

bb_dc_offset_calib(s) == run_calibration(s, "bbdc")

\* It leaves the two DC trackings off; the attenuation goes by the frequency.
rf_dc_offset_calib(s, freq) ==
  run_calibration([s EXCEPT !.trk.chip = @ \ {"bbdc", "rfdc"}, !.dcband = freq > 4000], "rfdc")

\* The charge-pump calibration runs in ALERT, in FDD mode.
txrx_synth_cp_calib(s, p) ==
  LET m == [s EXCEPT !.en.cfg2 = {"DUAL"}, !.lo.rx.fl.ready = FALSE, !.lo.tx.fl.ready = FALSE]
  IN check_cal_done([Config1(m, "ALERT", FALSE) EXCEPT !.en.fdd = TRUE], "cp_" \o p)

-----------------------------------------------------------------------------
(* TX quadrature calibration.  s.quad is what the radio answers: first, the   *)
(* run at the phase of the table: it converges (conv), does not (no), does    *)
(* not finish (late), or does not finish and the status, which the code then  *)
(* reads uninitialised, says converged (garbage); retry, the run at the last  *)
(* good phase; search, the runs at all 32 phases, and the phase they find.    *)
TxNcoWord(bwtx, clkrf, clktf) ==
  LET w == Clamp(DivRound(bwtx * 8, clktf) - 1, 0, 3)
  IN IF clkrf = 2 * clktf /\ w \in {0, 2} THEN 1 ELSE w

RxPhase(s, bwtx, clkrf, clktf) ==
  LET w == Clamp(DivRound(bwtx * 8, clktf) - 1, 0, 3)
      t3only == /\ s.clk.div.T2 = 3 /\ s.clk.div.T1 = 1 /\ s.clk.div.CLKTF = 1
                /\ s.clk.div.TX_SAMPL = 2
  IN CASE clkrf = 2 * clktf -> (IF w = 3 THEN 8 ELSE 14)
       [] clkrf = clktf -> (CASE w \in {0, 3} -> 21 [] w = 2 -> 31
                              [] w = 1 -> (IF t3only THEN 21 ELSE 26))
       [] OTHER -> 0

\* How the first run may end.
QuadAnswers == {"conv", "no", "late", "garbage"}

tx_quad_phase_search(s) ==
  LET q == s.quad
  IN [s EXCEPT !.qc.phase = IF q.search = "late" THEN @ ELSE q.phase,
               !.rc = IF q.search = "ok" THEN 0 ELSE ETIMEDOUT]

\* The runs: the phase of the table, then the last one that was good, then all.
quad_runs(s, phase, forced) ==
  CASE forced -> tx_quad_phase_search(s)
    [] ~forced /\ s.quad.first = "conv" -> Ok([s EXCEPT !.qc.phase = phase])
    [] ~forced /\ s.quad.first = "garbage" -> Return([s EXCEPT !.qc.phase = phase], ETIMEDOUT)
    [] ~forced /\ s.quad.first \in {"no", "late"} ->
         IF s.qc.phase < 31 /\ s.quad.retry = "conv" THEN Ok(s) ELSE tx_quad_phase_search(s)

synth_lo_powerdown(s, rx, tx) ==
  LET pd(p, ctrl) == CASE ctrl = "off" -> s.lo[p].pd \cup {"LO"}
                       [] ctrl = "on" -> s.lo[p].pd \ {"LO"}
                       [] ctrl = "dontcare" -> s.lo[p].pd
      want == [rx |-> pd("rx", rx), tx |-> pd("tx", tx)]
  IN Ok([s EXCEPT !.lo = [p \in DOMAIN s.lo |->
                            [s.lo[p] EXCEPT !.pd = want[p], !.chippd = want[p]]]])

(* Mutant: the filters stay as wide as the calibration needs them. *)
MutQuadWide(s, bwrx, bwtx, nco, phase, forced) ==
  IF nco > bwrx \div 4 \/ nco > bwtx \div 4
  THEN Then(update_filters(s, nco * 8, nco * 8), LAMBDA t : quad_runs(t, phase, forced))
  ELSE quad_runs(s, phase, forced)

\* The runs with filters wide enough for a test tone at nco, which are set back to
\* the current bandwidth; a failure of the widening leaves them as they are.
quad_wide(s, bwrx, bwtx, nco, phase, forced) ==
  IF nco > bwrx \div 4 \/ nco > bwtx \div 4
  THEN Then(update_filters(s, nco * 8, nco * 8),
            LAMBDA t : Always(quad_runs(t, phase, forced),
                              LAMBDA u : update_filters(u, u.bw.rx, u.bw.tx)))
  ELSE quad_runs(s, phase, forced)

quad_at(s, bwrx, bwtx, arg, rf, tf) ==
  quad_wide(s, bwrx, bwtx, (tf * (TxNcoWord(bwtx, rf, tf) + 1)) \div 32,
            IF arg >= 0 THEN arg ELSE RxPhase(s, bwtx, rf, tf), arg = -2)

\* arg: a phase, -1 for the table's, -2 to search at once.  An LO that is off is
\* powered for the calibration, and off again after it, however it ends.
tx_quad_calib(s, bwrx, bwtx, arg) ==
  LET off == "LO" \in s.lo.tx.pd
      up == IF off THEN [s EXCEPT !.lo.tx.chippd = @ \ {"LO"}] ELSE s
      down(t) == IF off THEN Always(t, LAMBDA u : synth_lo_powerdown(u, "dontcare", "dontcare"))
                 ELSE t
  IN IF off /\ ~s.pd.managed THEN Return(s, EFAULT)
     ELSE down(quad_at(up, bwrx, bwtx, arg, clk_get_rate(s, "CLKRF"), clk_get_rate(s, "CLKTF")))

-----------------------------------------------------------------------------
(* A calibration run, and a change of the bandwidth.  Both suspend tracking   *)
(* and hold the radio in ALERT.  do_calib_run always gives both back; the     *)
(* change of bandwidth returns at the first failure without.  The return code *)
(* of do_calib_run is tracking_control's.                                     *)
Suspend(s) == ensm_force_state(tracking_control(s, {}), "ALERT")
Resume(s) == ensm_restore_prev_state(tracking_control(s, s.trk.want))

calib(s, cal, arg) ==
  CASE cal = "TX_QUAD" -> tx_quad_calib(s, s.bw.rx \div 2, s.bw.tx \div 2, arg)
    [] cal = "RFDC" -> rf_dc_offset_calib(s, rfpll_recalc_rate(s, "rx"))
    [] OTHER -> s

(* Mutant: the tracking is not resumed. *)
MutDoCalibRun(s, cal, arg) == Ok(ensm_restore_prev_state(calib(Suspend(s), cal, arg)))

do_calib_run(s, cal, arg) == Resume(calib(Suspend(s), cal, arg))

update_rf_bandwidth(s, rx, tx) ==
  LET a == update_filters(Suspend(s), rx, tx)
      b == Then(a, LAMBDA t : tx_quad_calib([t EXCEPT !.bw = [rx |-> rx, tx |-> tx]],
                                            rx \div 2, tx \div 2, -1))
  IN Then(b, Resume)
=============================================================================
