----------------------------- MODULE Ad9361Clk ------------------------------
(* The clock tree of the AD9361 driver: the divider registers, the rates the  *)
(* driver remembers (phy->clks[]->rate), and the calls that set a clock or    *)
(* the whole receive and transmit chain.                                      *)
(*                                                                            *)
(* The driver is one record s; an operator named for a function of ad9361.c   *)
(* maps s to s as the function leaves it, its return code in s.rc.  What the  *)
(* outside decides during a call is in the record too: s.late, the            *)
(* calibrations that do not finish, and s.quad, how the TX quadrature         *)
(* calibration converges.                                                     *)
EXTENDS ClockChain, FiniteSets

Then(s, Op(_)) == IF s.rc < 0 THEN s ELSE Op(s)
Return(s, code) == [s EXCEPT !.rc = code]
Ok(s) == Return(s, 0)
Always(s, Op(_)) == Return(Op(s), s.rc)      \* a call whose return code nobody reads

\* ad9361_check_cal_done and ad9361_run_calibration: 20000 polls, then a timeout.
check_cal_done(s, cal) == Return(s, IF cal \in s.late THEN ETIMEDOUT ELSE 0)
run_calibration(s, cal) == check_cal_done(s, cal)

-----------------------------------------------------------------------------
(* Registers and rates.  s.clk.div[c] is the ratio in the register of c, 0    *)
(* for a bypassed FIR; s.clk.word the word of the BBPLL; s.clk.rate the rates *)
(* the driver remembers; s.lo[p] the synthesizers.                            *)
Parent == [ADC |-> "BBPLL", R2 |-> "ADC", R1 |-> "R2", CLKRF |-> "R1",
           RX_SAMPL |-> "CLKRF", DAC |-> "ADC", T2 |-> "DAC", T1 |-> "T2",
           CLKTF |-> "T1", TX_SAMPL |-> "CLKTF"]
Factors == DOMAIN Parent

clk_get_rate(s, c) ==
  IF c = "BBPLL" THEN BbpllRate(s.clk.word, s.clk.ref)
  ELSE s.clk.rate[Parent[c]] \div Ratio(s.clk.div[c])

\* The rate a synthesizer's registers stand for, or those of the recalled
\* fastlock profile; the external clock's when the mux selects it.
SynthRate(synth) ==
  LET word == IF synth.fl.profile = 0 THEN synth.reg
              ELSE synth.fl.mem[synth.fl.profile - 1].freq
  IN word.vco \div 2^(word.vdiv + 1)

rfpll_recalc_rate(s, p) == IF s.pd.ext[p] THEN s.lo[p].dummy ELSE SynthRate(s.lo[p])

\* What the tail of clk_set_rate recomputes, parents first.
TreeRates(s) ==
  LET rate[c \in Factors \cup {"BBPLL"}] ==
        IF c = "BBPLL" THEN BbpllRate(s.clk.word, s.clk.ref)
        ELSE rate[Parent[c]] \div Ratio(s.clk.div[c])
  IN rate

recalc_all(s) ==
  [s EXCEPT !.clk.rate = TreeRates(s),
            !.lo = [p \in DOMAIN s.lo |->
                      [s.lo[p] EXCEPT !.rate = rfpll_recalc_rate(s, p)]]]

recalc_clk(s, c) == [s EXCEPT !.clk.rate[c] = clk_get_rate(s, c)]

Bypassed(s, c) == \/ c = "RX_SAMPL" /\ s.fir.rxby
                  \/ c = "TX_SAMPL" /\ s.fir.txby

clk_factor_set_rate(s, c, rate) ==
  LET d == FactorDiv(c, rate, s.clk.rate[Parent[c]])
  IN IF d = 0 THEN Return(s, EINVAL)
     ELSE Ok([s EXCEPT !.clk.div[c] = ScalerWord(c, d, Bypassed(s, c))])

bbpll_set_rate(s, rate) ==
  check_cal_done([s EXCEPT !.clk.word = BbpllWord(bbpll_round_rate(rate, s.clk.ref), s.clk.ref),
                           !.clk.init = TRUE], "bbpll")

(* Mutant: the clocks below are not recomputed. *)
MutClkSetRate(s, c, rate) ==
  IF s.clk.rate[c] # rate
  THEN Ok(recalc_clk(IF c = "BBPLL" THEN bbpll_set_rate(s, rate)
                     ELSE clk_factor_set_rate(s, c, rate), c))
  ELSE Ok(s)

\* clk_set_rate of a base-band clock: it returns 0 whatever the setting said,
\* and does nothing when the rate it remembers is the one that is asked for.
clk_set_rate(s, c, rate) ==
  IF s.clk.rate[c] # rate
  THEN Ok(recalc_all(IF c = "BBPLL" THEN bbpll_set_rate(s, rate)
                     ELSE clk_factor_set_rate(s, c, rate)))
  ELSE IF c = "BBPLL" /\ ~s.clk.init
  THEN Ok(recalc_clk(bbpll_set_rate(s, rate), c))
  ELSE Ok(s)

-----------------------------------------------------------------------------
(* What depends on the clocks and is set up again when they change: the       *)
(* attack, settling and power-measurement times of the gain control, the      *)
(* RSSI durations, the dividers of the auxiliary ADC.                         *)
FastAgc(s) == \E ch \in DOMAIN s.gain.agc : s.gain.agc[ch] = "fast"

gc_update(s) ==
  Ok([s EXCEPT !.times.gc = <<clk_get_rate(s, "CLKRF"),
                              IF FastAgc(s) THEN 0 ELSE clk_get_rate(s, "RX_SAMPL")>>])

\* The durations of the parameters are in microseconds, so an update recomputes.
rssi_setup(s) == Ok([s EXCEPT !.times.rssi = clk_get_rate(s, "RX_SAMPL")])

auxadc_setup(s) == Ok([s EXCEPT !.times.auxadc = clk_get_rate(s, "BBPLL")])

bb_clk_change_handler(s) == auxadc_setup(rssi_setup(gc_update(s)))

-----------------------------------------------------------------------------
(* The chain.                                                                 *)
RateOf(rx, tx, c) ==
  CASE c = "BBPLL" -> rx.bbpll
    [] c = "ADC" -> rx.conv      [] c = "DAC" -> tx.conv
    [] c = "R2" -> rx.x2         [] c = "T2" -> tx.x2
    [] c = "R1" -> rx.x1         [] c = "T1" -> tx.x1
    [] c = "CLKRF" -> rx.xf      [] c = "CLKTF" -> tx.xf
    [] c = "RX_SAMPL" -> rx.sampl [] c = "TX_SAMPL" -> tx.sampl

\* A FIR whose rate does not change is switched by hand: the clock was not set.
switch_fir(s, c, factor, by) ==
  IF factor = 1 \/ by THEN [s EXCEPT !.clk.div[c] = IF by THEN 0 ELSE 1] ELSE s

\* The clocks in the order the driver sets them: receive and transmit side by side.
set_clock(s, rx, tx, c) == clk_set_rate(s, c, RateOf(rx, tx, c))
set_clocks(s, rx, tx) ==
  LET set(t, c) == set_clock(t, rx, tx, c)
      both(t, c, d) == set(set(t, c), d)
  IN both(both(both(both(both(set(s, "BBPLL"), "ADC", "DAC"), "R2", "T2"), "R1", "T1"),
               "CLKRF", "CLKTF"), "RX_SAMPL", "TX_SAMPL")

set_trx_clock_chain(s, rx, tx) ==
  IF ~validate_trx_clock_chain(rx, s.pd.rx2tx2, s.pd.lvds) THEN Return(s, EINVAL)
  ELSE LET chain == set_clocks(s, rx, tx)
           rxf == switch_fir(chain, "RX_SAMPL", s.fir.rxdec, s.fir.rxby)
       IN bb_clk_change_handler(switch_fir(rxf, "TX_SAMPL", s.fir.txint, s.fir.txby))

get_trx_clock_chain(s) ==
  LET path(conv, x2, x1, xf, sampl) ==
        [bbpll |-> clk_get_rate(s, "BBPLL"), conv |-> clk_get_rate(s, conv),
         x2 |-> clk_get_rate(s, x2), x1 |-> clk_get_rate(s, x1),
         xf |-> clk_get_rate(s, xf), sampl |-> clk_get_rate(s, sampl)]
  IN [rx |-> path("ADC", "R2", "R1", "CLKRF", "RX_SAMPL"),
      tx |-> path("DAC", "T2", "T1", "CLKTF", "TX_SAMPL")]

Plan(s, rate) ==
  calculate_rf_clock_chain(rate, s.pd.gov, IF s.fir.rxby THEN 1 ELSE s.fir.rxdec,
                           IF s.fir.txby THEN 1 ELSE s.fir.txint, s.pd.eq2)
=============================================================================
