----------------------------- MODULE Ad9361Fir ------------------------------
(* The programmable FIR filters of the AD9361 driver: loading one, switching  *)
(* the two on or off with the clock chain that goes with them.                *)
(*   s.fir  rxby, txby     bypass_rx_fir, bypass_tx_fir                       *)
(*          rxdec, txint   rx_fir_dec, tx_fir_int                             *)
(*          taps           rx_fir_ntaps, tx_fir_ntaps                         *)
(*          chip           the filter in the radio: [taps, dest]              *)
(*          valid, clks, bw   filt_valid, filt_*_path_clks, filt_*_bw_Hz      *)
(* A configuration is [taps, dest, factor] and, for both filters at once, the *)
(* path [clks] and bandwidth [bw] it was designed for, NoPath and 0 for none. *)
EXTENDS Ad9361Rfpll

NoFilter == [taps |-> 0, dest |-> 0]

\* ad9361_load_fir_filter_coef: the filter is switched on while it is written, and
\* back to what it was; nothing is verified in a build without DEBUG.
load_fir_filter_coef(s, p, cfg) ==
  LET a == ensm_force_state(s, "ALERT")
      b == [a EXCEPT !.fir.taps[p] = cfg.taps,
                     !.fir.chip[p] = [taps |-> cfg.taps, dest |-> cfg.dest]]
  IN IF cfg.taps \notin {16 * n : n \in 1..8} THEN Return(s, EINVAL)
     ELSE Ok(ensm_restore_prev_state(b))

set_rx_fir_config(s, cfg) == load_fir_filter_coef([s EXCEPT !.fir.rxdec = cfg.factor], "rx", cfg)
set_tx_fir_config(s, cfg) == load_fir_filter_coef([s EXCEPT !.fir.txint = cfg.factor], "tx", cfg)

\* What the receiver's configuration reads back: the taps in the radio, the
\* decimation the driver remembers.
get_rx_fir_config(s) == [taps |-> s.fir.chip.rx.taps, factor |-> s.fir.rxdec]
get_tx_fir_config(s) == [taps |-> s.fir.chip.tx.taps, factor |-> s.fir.txint]

\* The checks that need no clock.
FactorsFit(s) ==
  /\ s.fir.txby \/ (s.fir.txint \in {1, 2, 4} /\ ~(s.fir.txint = 1 /\ s.fir.taps.tx > 64))
  /\ s.fir.rxby \/ s.fir.rxdec \in {1, 2, 4}

\* The taps a filter can compute between two of its samples.
TapsFit(s, rx, tx) ==
  /\ s.fir.txby \/ s.fir.taps.tx <= (tx.conv \div tx.sampl) * 16
  /\ s.fir.rxby \/ s.fir.taps.rx <=
       ((rx.conv \div (IF rx.conv = rx.x2 THEN 1 ELSE 2)) \div rx.sampl) * 16

\* The chain for the filters: the one they came with, or a plan for the rate there
\* is, or for the least rate of the mode (37 stands for 1.5 MHz, 37.5 UNITs).
FirChain(s) ==
  LET least == IF s.pd.gov = 0 THEN 25 ELSE 37
      planned(plan) == [rc |-> plan.rc, rx |-> plan.rx, tx |-> plan.tx, bw |-> s.bw]
      feasible(c) == IF c.rc < 0 THEN planned(Plan(s, least)) ELSE c
  IN IF s.fir.valid /\ ~s.fir.rxby /\ ~s.fir.txby
     THEN [rc |-> 0, rx |-> s.fir.clks.rx, tx |-> s.fir.clks.tx, bw |-> s.fir.bw]
     ELSE feasible(planned(Plan(s, clk_get_rate(s, "TX_SAMPL"))))

enable_on(s, c) ==
  CASE c.rc < 0 -> Return(s, c.rc)
    [] c.rc >= 0 /\ ~TapsFit(s, c.rx, c.tx) -> Return(s, EINVAL)
    [] OTHER -> Then(set_trx_clock_chain(s, c.rx, c.tx),
                     LAMBDA t : update_rf_bandwidth(t, c.bw.rx, c.bw.tx))

validate_enable_fir(s) ==
  IF FactorsFit(s) THEN enable_on(s, FirChain(s)) ELSE Return(s, EINVAL)

-----------------------------------------------------------------------------
(* The calls ad9361_set_rx_, _tx_ and _trx_fir_en_dis, for the filters ps.  A   *)
(* failure leaves those filters marked as bypassed.                           *)
bypass(s, ps, by) == [s EXCEPT !.fir.rxby = IF "rx" \in ps THEN by ELSE @,
                               !.fir.txby = IF "tx" \in ps THEN by ELSE @]

(* Mutant: the filter that is bypassed is taken for the one that is on. *)
MutSetFirEnDis(s, ps, on) ==
  LET checked(t) == IF t.rc < 0 THEN bypass(t, ps, TRUE) ELSE t
  IN IF bypass(s, ps, on) = s THEN Ok(s) ELSE checked(validate_enable_fir(bypass(s, ps, ~on)))

set_fir_en_dis(s, ps, on) ==
  LET checked(t) == IF t.rc < 0 THEN bypass(t, ps, TRUE) ELSE t
  IN IF bypass(s, ps, ~on) = s THEN Ok(s) ELSE checked(validate_enable_fir(bypass(s, ps, ~on)))

\* ad9361_trx_load_enable_fir: no return code is looked at, and 0 is returned.  The
\* path clocks of a configuration without any keep their old values.
trx_load_enable_fir(s, rxcfg, txcfg) ==
  LET clks(p, cfg) == IF cfg.clks.sampl # 0 THEN cfg.clks ELSE s.fir.clks[p]
      a == [s EXCEPT !.fir.valid = FALSE,
                     !.fir.bw = [rx |-> rxcfg.bw, tx |-> txcfg.bw],
                     !.fir.clks = [rx |-> clks("rx", rxcfg), tx |-> clks("tx", txcfg)]]
      b == set_rx_fir_config(set_tx_fir_config(a, txcfg), rxcfg)
      c == [b EXCEPT !.fir.valid = rxcfg.clks.sampl # 0 /\ txcfg.clks.sampl # 0]
  IN Ok(set_fir_en_dis(c, {"rx", "tx"}, TRUE))
=============================================================================
