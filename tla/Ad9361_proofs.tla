---------------------------- MODULE Ad9361_proofs ----------------------------
(* Proofs about the driver, for any parameters of the initialisation, any     *)
(* arguments, any number of calls in any order and any faults: the radio      *)
(* tracks what is wanted, its state outlives the calls that are not about it, *)
(* both synthesizers follow Fastlock and agree on their tables, the           *)
(* transmitter stays calibrated near its frequency, and what the driver keeps *)
(* stays in its ranges.                                                       *)
(*                                                                            *)
(* From the inside out: what an operator leaves alone (Quiet, Still), what it *)
(* does to the state machine and gives back (Returns, Held), what a tuning    *)
(* may do to a synthesizer (Rest, Base, Retuned), one lemma for each call     *)
(* (Kept, Fine, Turned), the setup (Set, Brought), the actions and the        *)
(* invariant; and at the end the same way through the operators, the calls    *)
(* and the actions once more, for the ranges (Ranged, Bounded).               *)
EXTENDS Ad9361, TLAPS, WellFoundedInduction

SynthFields == {"reg", "rate", "dummy", "cur", "div", "tdd", "row", "pd", "chippd", "ext", "fl"}
EnFields == {"dev", "pin", "clocks", "fdd", "cfg2", "prev", "curr", "pinctl"}
Fields == {"rc", "late", "quad", "alc", "pd", "dcxo", "clk", "fir", "times", "gain", "att",
           "autocal", "mcsrf", "dcband", "port", "lo", "en", "trk", "bw", "bbfdiv", "tune", "qc"}
Sides == {"rx", "tx"}

LockFields == {"entry", "profile", "mem", "setup", "ready", "vcocal", "alc"}
LockShape(f) == DOMAIN f = LockFields /\ f.vcocal \in BOOLEAN

\* The record of the driver has its fields.
Shape(x) == /\ DOMAIN x = Fields
            /\ DOMAIN x.lo = Sides
            /\ \A p \in Sides : DOMAIN x.lo[p] = SynthFields /\ LockShape(x.lo[p].fl)
            /\ x.alc \in AlcWords
            /\ x.quad.first \in QuadAnswers
            /\ DOMAIN x.en = EnFields /\ DOMAIN x.trk = {"want", "chip"}
            /\ DOMAIN x.pd = DOMAIN default_init_param
            /\ DOMAIN x.pd.ext = Sides /\ \A p \in Sides : x.pd.ext[p] \in BOOLEAN
            /\ DOMAIN x.qc = {"phase", "freq"} /\ x.qc.freq \in Int /\ x.pd.synth.tx \in Int

\* Of a synthesizer: the fastlock, the words its registers can hold, the table.
SameSynth(l, m) == /\ m.fl = l.fl /\ m.reg = l.reg /\ m.div = l.div /\ m.cur = l.cur
                   /\ m.tdd = l.tdd

\* From x to y only data the theorems do not speak of, the state machine's and the
\* tracking have changed; and not even those.
Still(x, y) == /\ Shape(y) /\ y.pd = x.pd /\ y.late = x.late /\ y.quad = x.quad
               /\ y.alc = x.alc /\ y.autocal = x.autocal /\ y.qc.freq = x.qc.freq
               /\ \A p \in Sides : SameSynth(x.lo[p], y.lo[p])
Quiet(x, y) == Still(x, y) /\ y.en = x.en /\ y.trk = x.trk

LEMMA QuietTrans ==
  ASSUME NEW x, NEW y, NEW z, Quiet(x, y), Quiet(y, z) PROVE Quiet(x, z)
  BY DEF Quiet, Still, SameSynth

LEMMA QuietShape ==
  ASSUME NEW x, NEW y, Quiet(x, y)
  PROVE  Still(x, y) /\ Shape(y) /\ y.en = x.en /\ y.trk = x.trk /\ y.late = x.late
  BY DEF Quiet, Still

LEMMA StillTrans ==
  ASSUME NEW x, NEW y, NEW z, Still(x, y), Still(y, z) PROVE Still(x, z)
  BY DEF Still, SameSynth

LEMMA QuietSelf == ASSUME NEW x, Shape(x) PROVE Quiet(x, x)
  BY DEF Quiet, Still, SameSynth

LEMMA ReturnQuiet ==
  ASSUME NEW x, Shape(x), NEW r
  PROVE  Quiet(x, Return(x, r)) /\ Return(x, r).rc = r
  BY DEF Quiet, Still, SameSynth, Return, Shape, Fields

LEMMA OkQuiet ==
  ASSUME NEW x, Shape(x)
  PROVE  Quiet(x, Ok(x)) /\ Ok(x).rc = 0
  BY ReturnQuiet DEF Ok

-----------------------------------------------------------------------------
(* The clocks.                                                                *)
LEMMA CalDoneQuiet ==
  ASSUME NEW x, Shape(x), NEW cal
  PROVE  /\ Quiet(x, check_cal_done(x, cal)) /\ Quiet(x, run_calibration(x, cal))
         /\ x.late = {} => check_cal_done(x, cal).rc = 0 /\ run_calibration(x, cal).rc = 0
  BY ReturnQuiet DEF check_cal_done, run_calibration

LEMMA RecalcQuiet ==
  ASSUME NEW x, Shape(x), NEW c
  PROVE  Quiet(x, recalc_all(x)) /\ Quiet(x, recalc_clk(x, c))
  <1>1. Quiet(x, recalc_clk(x, c))
    BY DEF recalc_clk, Quiet, Still, SameSynth, Shape, Fields
  <1>2. Quiet(x, recalc_all(x))
    <2> DEFINE lo == [p \in Sides |-> [x.lo[p] EXCEPT !.rate = rfpll_recalc_rate(x, p)]]
               y == [x EXCEPT !.clk.rate = TreeRates(x), !.lo = lo]
    <2>1. recalc_all(x) = y
      BY DEF recalc_all, Shape
    <2>2. /\ DOMAIN lo = Sides
          /\ \A p \in Sides : DOMAIN lo[p] = SynthFields /\ SameSynth(x.lo[p], lo[p])
      BY DEF Shape, SynthFields, SameSynth
    <2> HIDE DEF lo
    <2>3. Quiet(x, y)
      BY <2>2 DEF Quiet, Still, SameSynth, Shape, Fields
    <2> HIDE DEF y
    <2> QED BY <2>1, <2>3
  <1> QED BY <1>1, <1>2

LEMMA SetRateQuiet ==
  ASSUME NEW x, Shape(x), NEW c, NEW rate
  PROVE  Quiet(x, clk_set_rate(x, c, rate))
  <1>1. Quiet(x, bbpll_set_rate(x, rate))
    <2> DEFINE y == [x EXCEPT !.clk.word = BbpllWord(bbpll_round_rate(rate, x.clk.ref), x.clk.ref),
                              !.clk.init = TRUE]
    <2>1. Quiet(x, y)
      BY DEF Quiet, Still, SameSynth, Shape, Fields
    <2> HIDE DEF y
    <2>2. bbpll_set_rate(x, rate) = check_cal_done(y, "bbpll")
      BY DEF bbpll_set_rate, y
    <2> QED BY <2>1, <2>2, CalDoneQuiet, QuietTrans, QuietShape
  <1>2. Quiet(x, clk_factor_set_rate(x, c, rate))
    <2> DEFINE d == FactorDiv(c, rate, x.clk.rate[Parent[c]])
               y == [x EXCEPT !.clk.div[c] = ScalerWord(c, d, Bypassed(x, c))]
    <2>1. Quiet(x, y)
      BY DEF Quiet, Still, SameSynth, Shape, Fields
    <2>2. clk_factor_set_rate(x, c, rate) \in {Return(x, EINVAL), Ok(y)}
      BY DEF clk_factor_set_rate
    <2> HIDE DEF y
    <2> QED BY <2>1, <2>2, ReturnQuiet, OkQuiet, QuietTrans, QuietShape
  <1> DEFINE b == IF c = "BBPLL" THEN bbpll_set_rate(x, rate) ELSE clk_factor_set_rate(x, c, rate)
             d == bbpll_set_rate(x, rate)
  <1>3. clk_set_rate(x, c, rate) =
          IF x.clk.rate[c] # rate THEN Ok(recalc_all(b))
          ELSE IF c = "BBPLL" /\ ~x.clk.init THEN Ok(recalc_clk(d, c)) ELSE Ok(x)
    BY DEF clk_set_rate
  <1>4. Quiet(x, b) /\ Quiet(x, d)
    BY <1>1, <1>2
  <1> HIDE DEF b, d
  <1>5. Quiet(b, recalc_all(b)) /\ Quiet(d, recalc_clk(d, c))
    BY <1>4, RecalcQuiet, QuietShape
  <1>6. Quiet(recalc_all(b), Ok(recalc_all(b))) /\ Quiet(recalc_clk(d, c), Ok(recalc_clk(d, c)))
    BY <1>5, OkQuiet, QuietShape
  <1>7. Quiet(x, Ok(recalc_all(b))) /\ Quiet(x, Ok(recalc_clk(d, c)))
    BY <1>4, <1>5, <1>6, QuietTrans
  <1> QED BY <1>3, <1>7, OkQuiet

LEMMA ChainQuiet ==
  ASSUME NEW x, Shape(x), NEW rx, NEW tx
  PROVE  Quiet(x, set_trx_clock_chain(x, rx, tx))
  <1> DEFINE set(t, c) == set_clock(t, rx, tx, c)
             both(t, c, d) == set(set(t, c), d)
  <1>1. ASSUME NEW t, Quiet(x, t), NEW c PROVE Quiet(x, set(t, c))
    BY <1>1, SetRateQuiet, QuietTrans, QuietShape DEF set_clock
  <1>2. ASSUME NEW t, Quiet(x, t), NEW c, NEW d PROVE Quiet(x, both(t, c, d))
    <2> HIDE DEF set
    <2> QED BY <1>1, <1>2
  <1>3. Quiet(x, set_clocks(x, rx, tx))
    <2>1. set_clocks(x, rx, tx) =
            both(both(both(both(both(set(x, "BBPLL"), "ADC", "DAC"), "R2", "T2"), "R1", "T1"),
               "CLKRF", "CLKTF"), "RX_SAMPL", "TX_SAMPL")
      BY DEF set_clocks
    <2> HIDE DEF set, both
    <2> QED BY <1>1, <1>2, <2>1, QuietSelf
  <1>4. ASSUME NEW t, Quiet(x, t), NEW c, NEW factor, NEW by
        PROVE  Quiet(x, switch_fir(t, c, factor, by))
    <2>1. Quiet(t, switch_fir(t, c, factor, by))
      BY <1>4, QuietSelf DEF switch_fir, Quiet, Still, SameSynth, Shape, Fields
    <2> QED BY <1>4, <2>1, QuietTrans
  <1>5. ASSUME NEW t, Quiet(x, t) PROVE Quiet(x, bb_clk_change_handler(t))
    <2>1. ASSUME NEW u, Shape(u)
          PROVE Quiet(u, gc_update(u)) /\ Quiet(u, rssi_setup(u)) /\ Quiet(u, auxadc_setup(u))
      BY <2>1 DEF gc_update, rssi_setup, auxadc_setup, Ok, Return, Quiet, Still, SameSynth, Shape, Fields
    <2>2. Shape(t)
      BY <1>5 DEF Quiet, Still
    <2>3. Quiet(t, rssi_setup(gc_update(t)))
      BY <2>1, <2>2, QuietTrans, QuietShape
    <2>4. Quiet(t, auxadc_setup(rssi_setup(gc_update(t))))
      BY <2>1, <2>3, QuietTrans, QuietShape
    <2> QED BY <1>5, <2>4, QuietTrans DEF bb_clk_change_handler
  <1>6. \/ set_trx_clock_chain(x, rx, tx) = Return(x, EINVAL)
        \/ set_trx_clock_chain(x, rx, tx) =
             bb_clk_change_handler(switch_fir(switch_fir(set_clocks(x, rx, tx), "RX_SAMPL",
               x.fir.rxdec, x.fir.rxby), "TX_SAMPL", x.fir.txint, x.fir.txby))
    BY DEF set_trx_clock_chain
  <1> QED BY <1>3, <1>4, <1>5, <1>6, ReturnQuiet

-----------------------------------------------------------------------------
(* The calibrations: in a radio where every one ends, they return 0.          *)
LEMMA FiltersQuiet ==
  ASSUME NEW x, Shape(x), NEW rx, NEW tx
  PROVE  /\ Quiet(x, update_filters(x, rx, tx))
         /\ x.late = {} => update_filters(x, rx, tx).rc = 0
  <1> DEFINE bb == clk_get_rate(x, "BBPLL")
             a == rx_bb_analog_filter_calib(x, rx \div 2, bb)
             b == Then(a, LAMBDA t : tx_bb_analog_filter_calib(t, tx \div 2, bb))
             c == Then(b, LAMBDA t : rx_tia_calib(t, rx \div 2))
             d == Then(c, LAMBDA t : tx_bb_second_filter_calib(t, tx \div 2))
             e == Then(d, LAMBDA t : rx_adc_setup(t, bb, clk_get_rate(t, "ADC")))
             Fine(t) == Quiet(x, t) /\ (x.late = {} => t.rc = 0)
  <1>1. ASSUME NEW t, Shape(t), NEW k
        PROVE  LET u == rx_bb_analog_filter_calib(t, k, bb)
               IN Quiet(t, u) /\ (t.late = {} => u.rc = 0)
    BY <1>1 DEF rx_bb_analog_filter_calib, run_calibration, check_cal_done, Return,
                Quiet, Still, SameSynth, Shape, Fields
  <1>2. ASSUME NEW t, Fine(t), NEW k PROVE Fine(tx_bb_analog_filter_calib(t, k, bb))
    <2>1. LET u == tx_bb_analog_filter_calib(t, k, bb)
          IN Quiet(t, u) /\ (t.late = {} => u.rc = 0)
      BY <1>2 DEF tx_bb_analog_filter_calib, run_calibration, check_cal_done, Return,
                  Quiet, Still, SameSynth, Shape, Fields
    <2> QED BY <1>2, <2>1, QuietTrans, QuietShape
  <1>3. ASSUME NEW t, Fine(t), NEW k, NEW m
        PROVE  Fine(rx_tia_calib(t, k)) /\ Fine(tx_bb_second_filter_calib(t, k))
                 /\ Fine(rx_adc_setup(t, k, m))
    <2>1. ASSUME NEW tune
          PROVE  Quiet(t, Ok([t EXCEPT !.tune = tune])) /\ Ok([t EXCEPT !.tune = tune]).rc = 0
      BY <1>3 DEF Ok, Return, Quiet, Still, SameSynth, Shape, Fields
    <2>2. ASSUME NEW tune PROVE Fine(Ok([t EXCEPT !.tune = tune]))
      BY <1>3, <2>1, QuietTrans
    <2> HIDE DEF Fine
    <2> QED BY <2>2 DEF rx_tia_calib, tx_bb_second_filter_calib, rx_adc_setup
  <1>4. Fine(a)
    BY <1>1
  <1> HIDE DEF bb, a
  <1>5. Fine(b)
    <2>1. b \in {a, tx_bb_analog_filter_calib(a, tx \div 2, bb)}
      BY DEF Then
    <2> QED BY <1>2, <1>4, <2>1
  <1> HIDE DEF b
  <1>6. Fine(c)
    <2>1. c \in {b, rx_tia_calib(b, rx \div 2)}
      BY DEF Then
    <2> QED BY <1>3, <1>5, <2>1
  <1> HIDE DEF c
  <1>7. Fine(d)
    <2>1. d \in {c, tx_bb_second_filter_calib(c, tx \div 2)}
      BY DEF Then
    <2> QED BY <1>3, <1>6, <2>1
  <1> HIDE DEF d
  <1>8. Fine(e)
    <2>1. e \in {d, rx_adc_setup(d, bb, clk_get_rate(d, "ADC"))}
      BY DEF Then
    <2> QED BY <1>3, <1>7, <2>1
  <1>9. update_filters(x, rx, tx) = e
    BY DEF update_filters, a, b, c, d, bb
  <1> QED BY <1>8, <1>9

\* Every calibration ends, and the TX quadrature calibration converges at once.
Converges(x) == x.late = {} /\ x.quad = Nominal.quad /\ x.pd.managed

LEMMA QuadRunsQuiet ==
  ASSUME NEW x, Shape(x), NEW phase, NEW forced \in BOOLEAN
  PROVE  /\ Quiet(x, quad_runs(x, phase, forced))
         /\ Converges(x) => quad_runs(x, phase, forced).rc = 0
  <1>1. /\ Quiet(x, tx_quad_phase_search(x))
        /\ x.quad.search = "ok" => tx_quad_phase_search(x).rc = 0
    BY DEF tx_quad_phase_search, Quiet, Still, SameSynth, Shape, Fields
  <1> DEFINE y == [x EXCEPT !.qc.phase = phase]
  <1>2. Quiet(x, y)
    BY DEF Quiet, Still, SameSynth, Shape, Fields
  <1>3. /\ quad_runs(x, phase, forced) \in
             {tx_quad_phase_search(x), Ok(y), Return(y, ETIMEDOUT), Ok(x)}
        /\ ~forced /\ x.quad.first = "conv" => quad_runs(x, phase, forced) = Ok(y)
        /\ forced => quad_runs(x, phase, forced) = tx_quad_phase_search(x)
    BY DEF quad_runs, Shape, QuadAnswers
  <1> HIDE DEF y
  <1>4. Quiet(x, Ok(y)) /\ Ok(y).rc = 0 /\ Quiet(x, Return(y, ETIMEDOUT))
    BY <1>2, OkQuiet, ReturnQuiet, QuietTrans, QuietShape
  <1>5. Converges(x) => x.quad.search = "ok" /\ x.quad.first = "conv"
    BY DEF Converges, Nominal
  <1> QED BY <1>1, <1>3, <1>4, <1>5, OkQuiet

LEMMA PowerdownQuiet ==
  ASSUME NEW x, Shape(x), NEW rx, NEW tx
  PROVE  Quiet(x, synth_lo_powerdown(x, rx, tx)) /\ synth_lo_powerdown(x, rx, tx).rc = 0
  <1> DEFINE pd(p, ctrl) == CASE ctrl = "off" -> x.lo[p].pd \cup {"LO"}
                              [] ctrl = "on" -> x.lo[p].pd \ {"LO"}
                              [] ctrl = "dontcare" -> x.lo[p].pd
             want == [rx |-> pd("rx", rx), tx |-> pd("tx", tx)]
             lo == [p \in Sides |-> [x.lo[p] EXCEPT !.pd = want[p], !.chippd = want[p]]]
  <1>1. synth_lo_powerdown(x, rx, tx) = Ok([x EXCEPT !.lo = lo])
    BY DEF synth_lo_powerdown, Shape
  <1> HIDE DEF want
  <1>2. /\ DOMAIN lo = Sides
        /\ \A p \in Sides : DOMAIN lo[p] = SynthFields /\ SameSynth(x.lo[p], lo[p])
    BY DEF Shape, SynthFields, SameSynth
  <1> HIDE DEF lo
  <1>3. Quiet(x, [x EXCEPT !.lo = lo])
    BY <1>2 DEF Quiet, Still, SameSynth, Shape, Fields
  <1> QED BY <1>1, <1>3, OkQuiet, QuietTrans, QuietShape

LEMMA QuadWideQuiet ==
  ASSUME NEW x, Shape(x), NEW bwrx, NEW bwtx, NEW nco, NEW phase, NEW forced \in BOOLEAN
  PROVE  /\ Quiet(x, quad_wide(x, bwrx, bwtx, nco, phase, forced))
         /\ Converges(x) => quad_wide(x, bwrx, bwtx, nco, phase, forced).rc = 0
  <1> DEFINE a == update_filters(x, nco * 8, nco * 8)
             b == quad_runs(a, phase, forced)
             c == Return(update_filters(b, b.bw.rx, b.bw.tx), b.rc)
  <1>1. quad_wide(x, bwrx, bwtx, nco, phase, forced) \in {quad_runs(x, phase, forced), a, c}
    BY DEF quad_wide, Then, Always
  <1>2. Quiet(x, a) /\ Shape(a) /\ (Converges(x) => a.rc = 0 /\ Converges(a))
    BY FiltersQuiet DEF Quiet, Still, Converges
  <1> HIDE DEF a
  <1>3. Quiet(x, b) /\ Shape(b) /\ (Converges(x) => b.rc = 0)
    <2>1. Quiet(a, b) /\ (Converges(a) => b.rc = 0)
      BY <1>2, QuadRunsQuiet
    <2> HIDE DEF b
    <2> QED BY <1>2, <2>1, QuietTrans, QuietShape
  <1> HIDE DEF b
  <1>4. Quiet(x, c) /\ (Converges(x) => c.rc = 0)
    <2>1. Quiet(b, update_filters(b, b.bw.rx, b.bw.tx))
      BY <1>3, FiltersQuiet
    <2>2. Quiet(b, c) /\ c.rc = b.rc
      BY <2>1, ReturnQuiet, QuietTrans, QuietShape
    <2> HIDE DEF c
    <2> QED BY <1>3, <2>2, QuietTrans
  <1> HIDE DEF c
  <1> QED BY <1>1, <1>2, <1>4, QuadRunsQuiet

LEMMA TxQuadQuiet ==
  ASSUME NEW x, Shape(x), NEW bwrx, NEW bwtx, NEW arg
  PROVE  /\ Quiet(x, tx_quad_calib(x, bwrx, bwtx, arg))
         /\ Converges(x) => tx_quad_calib(x, bwrx, bwtx, arg).rc = 0
  <1> DEFINE off == "LO" \in x.lo.tx.pd
             up == IF off THEN [x EXCEPT !.lo.tx.chippd = @ \ {"LO"}] ELSE x
             a == quad_at(up, bwrx, bwtx, arg, clk_get_rate(x, "CLKRF"), clk_get_rate(x, "CLKTF"))
             b == Return(synth_lo_powerdown(a, "dontcare", "dontcare"), a.rc)
  <1>1. /\ tx_quad_calib(x, bwrx, bwtx, arg) \in {Return(x, EFAULT), a, b}
        /\ x.pd.managed => tx_quad_calib(x, bwrx, bwtx, arg) \in {a, b}
    BY DEF tx_quad_calib, Always
  <1>2. Quiet(x, up)
    BY QuietSelf DEF Quiet, Still, SameSynth, Shape, Fields, SynthFields, Sides
  <1> HIDE DEF up
  <1>3. Quiet(x, a) /\ (Converges(x) => a.rc = 0)
    <2> DEFINE rf == clk_get_rate(x, "CLKRF")
               tf == clk_get_rate(x, "CLKTF")
               nco == (tf * (TxNcoWord(bwtx, rf, tf) + 1)) \div 32
               phase == IF arg >= 0 THEN arg ELSE RxPhase(up, bwtx, rf, tf)
    <2>0. a = quad_wide(up, bwrx, bwtx, nco, phase, arg = -2) /\ Shape(up)
      BY <1>2, QuietShape DEF quad_at
    <2> DEFINE forced == arg = -2
    <2>2. forced \in BOOLEAN
      OBVIOUS
    <2>3. a = quad_wide(up, bwrx, bwtx, nco, phase, forced)
      BY <2>0
    <2> HIDE DEF rf, tf, nco, phase, a, forced
    <2>1. Quiet(up, a) /\ (Converges(up) => a.rc = 0)
      BY <2>0, <2>2, <2>3, QuadWideQuiet
    <2> QED BY <1>2, <2>1, QuietTrans DEF Quiet, Still, Converges
  <1> HIDE DEF a
  <1>4. Quiet(x, b) /\ b.rc = a.rc
    <2>1. Quiet(a, synth_lo_powerdown(a, "dontcare", "dontcare"))
      BY <1>3, PowerdownQuiet DEF Quiet, Still
    <2>2. Quiet(a, b) /\ b.rc = a.rc
      BY <2>1, ReturnQuiet, QuietTrans, QuietShape
    <2> QED BY <1>3, <2>2, QuietTrans
  <1> HIDE DEF b
  <1> QED BY <1>1, <1>3, <1>4, ReturnQuiet DEF Converges

-----------------------------------------------------------------------------
(* The state machine.                                                         *)
\* With its clocks on the radio is in a state of its duplex mode; asleep it is in WAIT
\* and not under pin control.
Awake(x) == x.en.dev \in IF x.pd.fdd THEN {"ALERT", "FDD"} ELSE {"ALERT", "TX", "RX"}
Sane(x) == /\ x.en.fdd = x.pd.fdd
           /\ x.en.clocks => Awake(x)
           /\ ~x.en.clocks => x.en.dev = "WAIT" /\ ~x.en.pin /\ x.en.curr = "SLEEP"

\* The state, its clocks and its mode are as before, and pin control is not lost.
Held(x, y) ==
  Sane(x) => /\ Sane(y) /\ y.en.dev = x.en.dev /\ (x.en.pin => y.en.pin)

\* A call keeps the tracking that is wanted, and the state.
Returns(x, y) == (x.trk.chip = x.trk.want => y.trk.chip = y.trk.want) /\ Held(x, y)

LEMMA QuietReturns ==
  ASSUME NEW x, NEW y, Quiet(x, y) PROVE Returns(x, y) /\ Still(x, y) /\ Shape(y)
  BY DEF Returns, Held, Sane, Awake, Quiet, Still

LEMMA ReturnsTrans ==
  ASSUME NEW x, NEW y, NEW z, Returns(x, y), Returns(y, z) PROVE Returns(x, z)
  BY DEF Returns, Held

\* The state a write of ENSM_CONFIG_1 leaves.
To(x, force) == IF ~x.en.clocks THEN x.en.dev
                ELSE IF force \in {"TX", "RX"} THEN (IF x.en.fdd THEN "FDD" ELSE force)
                ELSE "ALERT"

Pinned(e, pin, dev) == [e EXCEPT !.pin = pin, !.dev = dev]
Unpinned(e, dev) == [e EXCEPT !.pin = FALSE, !.dev = dev]

\* Such a write is about the state and pin control.
LEMMA Config1Is ==
  ASSUME NEW x, Shape(x), NEW force, NEW pin, NEW y, y = Config1(x, force, pin)
  PROVE  /\ Still(x, y) /\ Shape(y) /\ y.trk = x.trk /\ y.rc = x.rc
         /\ y.en = Pinned(x.en, pin, To(x, force))
  <1>1. Config1(x, force, pin) = [x EXCEPT !.en.pin = pin, !.en.dev = To(x, force)]
    BY DEF Config1, To, Shape, Fields, EnFields
  <1> HIDE DEF To
  <1> DEFINE z == [x EXCEPT !.en.pin = pin, !.en.dev = To(x, force)]
  <1>2. /\ Still(x, z) /\ Shape(z) /\ z.trk = x.trk /\ z.rc = x.rc
        /\ z.en = Pinned(x.en, pin, To(x, force))
    BY DEF Still, SameSynth, Shape, Fields, Pinned
  <1> QED BY <1>1, <1>2

LEMMA Config1Off ==
  ASSUME NEW x, Shape(x), NEW force, NEW y, y = Config1(x, force, FALSE)
  PROVE  /\ Still(x, y) /\ Shape(y) /\ y.trk = x.trk /\ y.rc = x.rc
         /\ y.en = Unpinned(x.en, To(x, force))
  <1>1. Config1(x, force, FALSE) = [x EXCEPT !.en.pin = FALSE, !.en.dev = To(x, force)]
    BY DEF Config1, To, Shape, Fields, EnFields
  <1> HIDE DEF To
  <1> DEFINE z == [x EXCEPT !.en.pin = FALSE, !.en.dev = To(x, force)]
  <1>2. /\ Still(x, z) /\ Shape(z) /\ z.trk = x.trk /\ z.rc = x.rc
        /\ z.en = Unpinned(x.en, To(x, force))
    BY DEF Still, SameSynth, Shape, Fields, Unpinned
  <1> QED BY <1>1, <1>2

\* What is done to the state machine's record: forced to ALERT.
Forced(e) == IF e.dev = "ALERT" THEN [e EXCEPT !.prev = "ALERT"]
             ELSE [e EXCEPT !.prev = e.dev, !.pinctl = e.pin, !.pin = FALSE,
                            !.dev = IF e.clocks THEN "ALERT" ELSE e.dev]

LEMMA ForceIs ==
  ASSUME NEW x, Shape(x)
  PROVE  LET y == ensm_force_state(x, "ALERT")
         IN Still(x, y) /\ Shape(y) /\ y.trk = x.trk /\ y.rc = x.rc /\ y.en = Forced(x.en)
  <1> DEFINE kept == [x EXCEPT !.en.prev = x.en.dev]
             flag == [kept EXCEPT !.en.pinctl = x.en.pin]
             y == ensm_force_state(x, "ALERT")
  <1>1. /\ Still(x, kept) /\ Shape(kept) /\ kept.trk = x.trk /\ kept.rc = x.rc
        /\ kept.en = [x.en EXCEPT !.prev = x.en.dev]
    BY DEF Still, SameSynth, Shape, Fields
  <1>2. /\ Still(x, flag) /\ Shape(flag) /\ flag.trk = x.trk /\ flag.rc = x.rc
        /\ flag.en = [x.en EXCEPT !.prev = x.en.dev, !.pinctl = x.en.pin]
    BY DEF Still, SameSynth, Shape, Fields, EnFields
  <1>3. y = IF x.en.dev = "ALERT" THEN kept ELSE Config1(flag, "ALERT", FALSE)
    BY DEF ensm_force_state
  <1> HIDE DEF kept, flag, y
  <1>4. CASE x.en.dev = "ALERT"
    BY <1>1, <1>3, <1>4 DEF Forced, y
  <1>5. CASE x.en.dev # "ALERT"
    <2> DEFINE c == Config1(flag, "ALERT", FALSE)
    <2>2. y = c /\ c = Config1(flag, "ALERT", FALSE)
      BY <1>3, <1>5
    <2>0. Shape(flag)
      BY <1>2
    <2> HIDE DEF c
    <2>1. /\ Still(flag, c) /\ Shape(c) /\ c.trk = flag.trk /\ c.rc = flag.rc
          /\ c.en = Unpinned(flag.en, To(flag, "ALERT"))
      BY <2>0, <2>2, Config1Off
    <2>3. To(flag, "ALERT") = IF x.en.clocks THEN "ALERT" ELSE x.en.dev
      BY <1>2 DEF To, Shape, EnFields
    <2>4. c.en = Forced(x.en)
      BY <1>2, <1>5, <2>1, <2>3 DEF Forced, Unpinned, Shape, EnFields
    <2>5. Still(x, c)
      BY <1>2, <2>1, StillTrans
    <2> QED BY <1>2, <2>1, <2>2, <2>4, <2>5 DEF y
  <1> QED BY <1>4, <1>5

\* What a restore leaves: whatever it writes, it is about the state and pin control.
LEMMA RestoreIs ==
  ASSUME NEW x, Shape(x)
  PROVE  LET y == ensm_restore_prev_state(x)
             known == x.en.prev \in {"TX", "FDD", "RX", "ALERT"}
         IN /\ Still(x, y) /\ Shape(y) /\ y.trk = x.trk /\ y.rc = x.rc
            /\ ~known => y.en = x.en
            /\ known => /\ y.en.fdd = x.en.fdd /\ y.en.clocks = x.en.clocks
                        /\ y.en.curr = x.en.curr
                        /\ x.en.pin \/ x.en.pinctl => y.en.pin
                        /\ x.en.clocks => y.en.dev =
                             IF x.en.prev = "ALERT" THEN "ALERT"
                             ELSE IF x.en.fdd THEN "FDD"
                             ELSE IF x.en.prev = "FDD" THEN "TX" ELSE x.en.prev
  <1> DEFINE y == ensm_restore_prev_state(x)
             force == IF x.en.prev \in {"TX", "FDD"} THEN "TX"
                      ELSE IF x.en.prev = "RX" THEN "RX" ELSE "none"
             a == Config1(x, "ALERT", FALSE)
             b == Config1(a, force, x.en.pin)
             c == IF x.en.pinctl THEN [b EXCEPT !.en.pin = TRUE] ELSE b
  <1>1. CASE x.en.prev \notin {"TX", "FDD", "RX", "ALERT"}
    <2>1. y = x
      BY <1>1 DEF ensm_restore_prev_state, ensm_restore_state
    <2> QED BY <1>1, <2>1, QuietSelf DEF Quiet
  <1>2. CASE x.en.prev \in {"TX", "FDD", "RX", "ALERT"}
    <2>1. y = c
      BY <1>2 DEF ensm_restore_prev_state, ensm_restore_state
    <2>2. /\ Still(x, a) /\ Shape(a) /\ a.trk = x.trk /\ a.rc = x.rc
          /\ a.en = Unpinned(x.en, To(x, "ALERT"))
      <3>1. a = Config1(x, "ALERT", FALSE)
        OBVIOUS
      <3> HIDE DEF a
      <3> QED BY <3>1, Config1Off
    <2> HIDE DEF a, force, y
    <2>3. /\ Still(x, b) /\ Shape(b) /\ b.trk = x.trk /\ b.rc = x.rc
          /\ b.en = Pinned(a.en, x.en.pin, To(a, force))
      <3>1. /\ Still(a, b) /\ Shape(b) /\ b.trk = a.trk /\ b.rc = a.rc
            /\ b.en = Pinned(a.en, x.en.pin, To(a, force))
        <4>1. b = Config1(a, force, x.en.pin)
          OBVIOUS
        <4> HIDE DEF b
        <4> QED BY <2>2, <4>1, Config1Is
      <3> HIDE DEF b
      <3> QED BY <2>2, <3>1, StillTrans
    <2> HIDE DEF b
    <2>4. /\ Still(x, c) /\ Shape(c) /\ c.trk = x.trk /\ c.rc = x.rc
          /\ c.en = [b.en EXCEPT !.pin = IF x.en.pinctl THEN TRUE ELSE @]
      <3>1. CASE x.en.pinctl
        BY <2>3, <3>1 DEF Still, SameSynth, Shape, Fields
      <3>2. CASE ~x.en.pinctl
        <4>1. c = b
          BY <3>2
        <4>2. [b.en EXCEPT !.pin = IF x.en.pinctl THEN TRUE ELSE @] = b.en
          BY <2>3, <3>2 DEF Pinned
        <4> HIDE DEF c
        <4> QED BY <2>3, <4>1, <4>2
      <3> QED BY <3>1, <3>2
    <2> HIDE DEF c
    <2>5. /\ c.en.fdd = x.en.fdd /\ c.en.clocks = x.en.clocks /\ c.en.curr = x.en.curr
          /\ x.en.pin \/ x.en.pinctl => c.en.pin
      BY <2>2, <2>3, <2>4 DEF Pinned, Unpinned, Shape, EnFields
    <2>6. x.en.clocks => c.en.dev = To(a, force)
      BY <2>2, <2>3, <2>4 DEF Pinned, Unpinned, Shape, EnFields
    <2>7. x.en.clocks => To(a, force) = IF x.en.prev = "ALERT" THEN "ALERT"
                             ELSE IF x.en.fdd THEN "FDD"
                             ELSE IF x.en.prev = "FDD" THEN "TX" ELSE x.en.prev
      <3>1. a.en.clocks = x.en.clocks /\ a.en.fdd = x.en.fdd
        BY <2>2 DEF Pinned, Unpinned, Shape, EnFields
      <3> QED BY <1>2, <3>1 DEF To, force
    <2> QED BY <1>2, <2>1, <2>4, <2>5, <2>6, <2>7 DEF y
  <1> QED BY <1>1, <1>2

\* What is done in ALERT between a force and a restore leaves the state as it was.
LEMMA Bracket ==
  ASSUME NEW x, Shape(x), NEW t, Shape(t), t.pd.fdd = x.pd.fdd,
         \A f \in EnFields \ {"cfg2"} : t.en[f] = Forced(x.en)[f]
  PROVE  LET y == ensm_restore_prev_state(t)
         IN Still(t, y) /\ Shape(y) /\ y.trk = t.trk /\ y.rc = t.rc /\ Held(x, y)
  <1> DEFINE y == ensm_restore_prev_state(t)
  <1>3. /\ t.en.prev = x.en.dev /\ t.en.clocks = x.en.clocks /\ t.en.fdd = x.en.fdd
        /\ t.en.curr = x.en.curr
        /\ x.en.dev = "ALERT" => t.en.pin = x.en.pin /\ t.en.dev = "ALERT"
        /\ x.en.dev # "ALERT" => /\ ~t.en.pin /\ t.en.pinctl = x.en.pin
                                 /\ ~x.en.clocks => t.en.dev = x.en.dev
    <2> DEFINE e == Forced(x.en)
    <2>1. CASE x.en.dev = "ALERT"
      <3>1. e = [x.en EXCEPT !.prev = "ALERT"]
        BY <2>1 DEF Forced
      <3> HIDE DEF e
      <3>2. /\ e.prev = x.en.dev /\ e.clocks = x.en.clocks /\ e.fdd = x.en.fdd
            /\ e.curr = x.en.curr /\ e.pin = x.en.pin /\ e.dev = "ALERT"
        BY <2>1, <3>1 DEF Shape, EnFields
      <3> QED BY <2>1, <3>2 DEF EnFields, e
    <2>2. CASE x.en.dev # "ALERT"
      <3>1. e = [x.en EXCEPT !.prev = x.en.dev, !.pinctl = x.en.pin, !.pin = FALSE,
                             !.dev = IF x.en.clocks THEN "ALERT" ELSE x.en.dev]
        BY <2>2 DEF Forced
      <3> HIDE DEF e
      <3>2. /\ e.prev = x.en.dev /\ e.clocks = x.en.clocks /\ e.fdd = x.en.fdd
            /\ e.curr = x.en.curr /\ ~e.pin /\ e.pinctl = x.en.pin
            /\ ~x.en.clocks => e.dev = x.en.dev
        BY <3>1 DEF Shape, EnFields
      <3> QED BY <2>2, <3>2 DEF EnFields, e
    <2> QED BY <2>1, <2>2
  <1>4. LET known == t.en.prev \in {"TX", "FDD", "RX", "ALERT"}
        IN /\ Still(t, y) /\ Shape(y) /\ y.trk = t.trk /\ y.rc = t.rc
           /\ ~known => y.en = t.en
           /\ known => /\ y.en.fdd = t.en.fdd /\ y.en.clocks = t.en.clocks
                       /\ y.en.curr = t.en.curr
                       /\ t.en.pin \/ t.en.pinctl => y.en.pin
                       /\ t.en.clocks => y.en.dev =
                            IF t.en.prev = "ALERT" THEN "ALERT"
                            ELSE IF t.en.fdd THEN "FDD"
                            ELSE IF t.en.prev = "FDD" THEN "TX" ELSE t.en.prev
    BY RestoreIs
  <1> HIDE DEF y
  <1>5. y.pd = t.pd
    BY <1>4 DEF Still
  <1>6. ASSUME Sane(x) PROVE Sane(y) /\ y.en.dev = x.en.dev /\ (x.en.pin => y.en.pin)
    <2>1. CASE x.en.clocks
      BY <1>3, <1>4, <1>5, <1>6, <2>1 DEF Sane, Awake
    <2>2. CASE ~x.en.clocks
      BY <1>3, <1>4, <1>5, <1>6, <2>2 DEF Sane, Awake
    <2> QED BY <2>1, <2>2
  <1> QED BY <1>4, <1>6 DEF Held, y

-----------------------------------------------------------------------------
(* A calibration run, and a change of the bandwidth.                          *)
LEMMA SuspendIs ==
  ASSUME NEW x, Shape(x)
  PROVE  LET y == Suspend(x)
         IN /\ Still(x, y) /\ Shape(y) /\ y.rc = 0
            /\ y.en = Forced(x.en)
  <1> DEFINE a == tracking_control(x, {})
             y == ensm_force_state(a, "ALERT")
  <1>1. Still(x, a) /\ Shape(a) /\ a.rc = 0 /\ a.en = x.en
    BY DEF tracking_control, Ok, Return, Still, SameSynth, Shape, Fields
  <1> HIDE DEF a
  <1>2. Still(a, y) /\ Shape(y) /\ y.rc = 0 /\ y.en = Forced(x.en)
    BY <1>1, ForceIs
  <1> HIDE DEF y
  <1>3. Still(x, y)
    BY <1>1, <1>2, StillTrans
  <1> QED BY <1>2, <1>3 DEF Suspend, y, a

\* What was suspended comes back if nothing but the tracking changed in between.
LEMMA ResumeIs ==
  ASSUME NEW x, Shape(x), NEW t, Still(x, t), t.en = Forced(x.en)
  PROVE  LET y == Resume(t)
         IN Still(x, y) /\ Shape(y) /\ y.rc = 0 /\ Returns(x, y) /\ y.trk.chip = y.trk.want
  <1> DEFINE a == tracking_control(t, t.trk.want)
             y == ensm_restore_prev_state(a)
  <1>1. Still(t, a) /\ Shape(a) /\ a.rc = 0 /\ a.en = t.en /\ a.trk.chip = a.trk.want
    BY DEF tracking_control, Ok, Return, Still, SameSynth, Shape, Fields
  <1>2. a.pd = x.pd
    BY <1>1 DEF Still
  <1> HIDE DEF a
  <1>3. Still(a, y) /\ Shape(y) /\ y.trk = a.trk /\ y.rc = a.rc /\ Held(x, y)
    BY <1>1, <1>2, Bracket
  <1> HIDE DEF y
  <1>4. Still(x, y)
    BY <1>1, <1>3, StillTrans
  <1> QED BY <1>1, <1>3, <1>4 DEF Resume, y, a, Returns

LEMMA RfDcStill ==
  ASSUME NEW x, Shape(x), NEW freq
  PROVE  LET y == rf_dc_offset_calib(x, freq)
         IN Still(x, y) /\ Shape(y) /\ y.en = x.en /\ (x.late = {} => y.rc = 0)
  <1> DEFINE a == [x EXCEPT !.trk.chip = @ \ {"bbdc", "rfdc"}, !.dcband = freq > 4000]
             y == run_calibration(a, "rfdc")
  <1>1. Still(x, a) /\ Shape(a) /\ a.en = x.en /\ a.late = x.late
    BY DEF Still, SameSynth, Shape, Fields
  <1> HIDE DEF a
  <1>2. Quiet(a, y) /\ (x.late = {} => y.rc = 0)
    BY <1>1, CalDoneQuiet
  <1> HIDE DEF y
  <1>3. Still(x, y)
    BY <1>1, <1>2, StillTrans DEF Quiet
  <1> QED BY <1>1, <1>2, <1>3 DEF rf_dc_offset_calib, y, a, Quiet, Still

\* do_calib_run gives back what it suspends, however the calibration ends.
LEMMA CalibRun ==
  ASSUME NEW x, Shape(x), NEW cal, NEW arg
  PROVE  LET y == do_calib_run(x, cal, arg)
         IN Still(x, y) /\ Shape(y) /\ y.rc = 0 /\ Returns(x, y)
  <1> DEFINE a == Suspend(x)
             b == calib(a, cal, arg)
  <1>1. Still(x, a) /\ Shape(a) /\ a.en = Forced(x.en)
    BY SuspendIs
  <1> HIDE DEF a
  <1>2. Still(a, b) /\ b.en = a.en
    <2>1. b \in {tx_quad_calib(a, a.bw.rx \div 2, a.bw.tx \div 2, arg),
                 rf_dc_offset_calib(a, rfpll_recalc_rate(a, "rx")), a}
      BY DEF calib
    <2> QED BY <1>1, <2>1, TxQuadQuiet, RfDcStill, QuietSelf DEF Quiet
  <1> HIDE DEF b
  <1>3. Still(x, b) /\ b.en = Forced(x.en)
    BY <1>1, <1>2, StillTrans
  <1>4. do_calib_run(x, cal, arg) = Resume(b)
    BY DEF do_calib_run, b, a
  <1> QED BY <1>3, <1>4, ResumeIs

\* A change of the bandwidth gives them back when every calibration converges.
LEMMA BandwidthRun ==
  ASSUME NEW x, Shape(x), NEW rx, NEW tx
  PROVE  LET y == update_rf_bandwidth(x, rx, tx)
         IN /\ Still(x, y) /\ Shape(y)
            /\ Converges(x) => y.rc = 0 /\ Returns(x, y)
  <1> DEFINE z == Suspend(x)
             a == update_filters(z, rx, tx)
             w == [a EXCEPT !.bw = [rx |-> rx, tx |-> tx]]
             b == tx_quad_calib(w, rx \div 2, tx \div 2, -1)
             c == Resume(b)
             y == update_rf_bandwidth(x, rx, tx)
  <1>1. Still(x, z) /\ Shape(z) /\ z.en = Forced(x.en)
    BY SuspendIs
  <1>2. y = IF a.rc < 0 THEN a ELSE IF b.rc < 0 THEN b ELSE c
    BY DEF update_rf_bandwidth, Then
  <1> HIDE DEF z
  <1>3. Still(x, a) /\ Shape(a) /\ a.en = z.en /\ (Converges(x) => a.rc = 0)
    <2>1. Quiet(z, a) /\ (z.late = {} => a.rc = 0)
      BY <1>1, FiltersQuiet
    <2> HIDE DEF a
    <2> QED BY <1>1, <2>1, StillTrans DEF Quiet, Still, Converges
  <1> HIDE DEF a
  <1>4. Still(x, w) /\ Shape(w) /\ w.en = z.en
    <2>1. Still(a, w) /\ Shape(w) /\ w.en = a.en
      BY <1>3 DEF Still, SameSynth, Shape, Fields
    <2> HIDE DEF w
    <2> QED BY <1>3, <2>1, StillTrans
  <1> HIDE DEF w
  <1>5. Still(x, b) /\ Shape(b) /\ b.en = z.en /\ (Converges(x) => b.rc = 0)
    <2>1. Quiet(w, b) /\ (Converges(w) => b.rc = 0)
      BY <1>4, TxQuadQuiet
    <2> HIDE DEF b
    <2> QED BY <1>4, <2>1, StillTrans DEF Quiet, Still, Converges
  <1> HIDE DEF b
  <1>6. Still(x, c) /\ Shape(c) /\ c.rc = 0 /\ Returns(x, c)
    BY <1>1, <1>5, ResumeIs
  <1> HIDE DEF c, y
  <1>7. Converges(x) => y = c
    BY <1>2, <1>3, <1>5
  <1> QED BY <1>2, <1>3, <1>5, <1>6, <1>7 DEF y

-----------------------------------------------------------------------------
(* The synthesizers.                                                          *)
\* From x to y nothing but the synthesizers, and data, have changed.
Base(x, y) == /\ Shape(y) /\ y.pd = x.pd /\ y.late = x.late /\ y.quad = x.quad
              /\ y.alc = x.alc /\ y.autocal = x.autocal
Rest(x, y) == Base(x, y) /\ y.en = x.en /\ y.trk = x.trk /\ y.qc.freq = x.qc.freq

\* What a synthesizer can hold.
SynthOk(l) == l.reg \in LoWords /\ l.div \in 0..7 /\ l.cur \in LoFreqs \cup {0}
SynthsOk(x) == \A p \in Sides : SynthOk(x.lo[p])

\* Which frequencies the two have, and which tables; they agree.
SameLos(x, y) == \A p \in Sides : y.lo[p].cur = x.lo[p].cur
SameTables(x, y) == SameLos(x, y) /\ \A p \in Sides : y.lo[p].tdd = x.lo[p].tdd
Agree(y) == DuplexLos(y) => \A p \in Sides : y.lo[p].tdd <=> SameLo(y)
Tabled(x, y) == SameTables(x, y) \/ Agree(y)

\* They agree from when both have been tuned; from x to y one that moves sees to it.
Placed(y) == (\E p \in Sides : y.lo[p].cur = 0) \/ Agree(y)
Tables(x, y) == SameLos(x, y) \/ Placed(y)

\* What a call that tunes does to the fastlock of one of the two.
Retuned(f, g) ==
  \/ g = f \/ g = Leave(f)
  \/ \E a \in AlcWords : g = Tune(f, a)
  \/ \E a \in AlcWords, v \in BOOLEAN : g = [Tune(Leave(f), a) EXCEPT !.vcocal = v]

\* The state machine, the tracking and the last calibration may have changed as well.
Drifts(x, y) == Base(x, y) /\ \A p \in Sides : SameSynth(x.lo[p], y.lo[p])

LEMMA DriftIsBase ==
  ASSUME NEW x, NEW y, Drifts(x, y), SynthsOk(x)
  PROVE  /\ Base(x, y) /\ SynthsOk(y) /\ \A p \in Sides : y.lo[p].fl = x.lo[p].fl
         /\ SameTables(x, y)
  BY DEF Drifts, SameSynth, Base, SynthsOk, SynthOk, SameTables, SameLos

LEMMA StillDrifts ==
  ASSUME NEW x, NEW y, Still(x, y)
  PROVE  Drifts(x, y) /\ y.qc.freq = x.qc.freq
  BY DEF Still, Drifts, Base

LEMMA StillIsBase ==
  ASSUME NEW x, NEW y, Still(x, y), SynthsOk(x)
  PROVE  /\ Base(x, y) /\ SynthsOk(y) /\ \A p \in Sides : y.lo[p].fl = x.lo[p].fl
         /\ SameTables(x, y)
  BY StillDrifts, DriftIsBase

\* The transmitter's registers have the frequency it was last tuned to, which is one it
\* can have, but for the divider while the LO is external; it was calibrated near there.
TxWord(x) ==
  x.lo.tx.cur # 0 =>
    /\ validate_rfpll(x, x.lo.tx.cur) /\ x.lo.tx.div = RfpllWord(x.lo.tx.cur).vdiv
    /\ x.lo.tx.reg.vco = RfpllWord(x.lo.tx.cur).vco
TxAt(x) ==
  TxWord(x) /\ (x.lo.tx.cur # 0 /\ ~x.pd.ext.tx => x.lo.tx.reg.vdiv = x.lo.tx.div)
NearTo(x, f) == DiffAbs(x.qc.freq, f) <= CalThreshold \/ ~validate_rfpll(x, x.qc.freq)
Near(x) == x.lo.tx.cur # 0 => NearTo(x, x.lo.tx.cur)

\* A call keeps both, if the calibration is automatic.
QuadStep(x, y) == (TxAt(x) => TxAt(y)) /\ (x.autocal /\ TxAt(x) /\ Near(x) => Near(y))

\* Nothing the two speak of has changed; nor what the calibration goes by.
TxSame(x, y) == /\ y.lo.tx.reg = x.lo.tx.reg /\ y.lo.tx.div = x.lo.tx.div
                /\ y.lo.tx.cur = x.lo.tx.cur
                /\ y.pd.dev = x.pd.dev /\ y.pd.ext.tx = x.pd.ext.tx

LEMMA TxKept ==
  ASSUME NEW x, NEW y, TxSame(x, y)
  PROVE  /\ TxAt(x) => TxAt(y)
         /\ y.qc.freq = x.qc.freq /\ Near(x) => Near(y)
         /\ y.qc.freq = x.qc.freq => QuadStep(x, y)
  <1>1. \A f : validate_rfpll(y, f) <=> validate_rfpll(x, f)
    BY DEF TxSame, validate_rfpll
  <1>2. TxAt(x) => TxAt(y)
    BY <1>1 DEF TxAt, TxWord, TxSame
  <1>3. y.qc.freq = x.qc.freq /\ Near(x) => Near(y)
    BY <1>1 DEF Near, NearTo, TxSame
  <1> QED BY <1>2, <1>3 DEF QuadStep

LEMMA DevKept ==
  ASSUME NEW x, NEW y, y.pd.dev = x.pd.dev, NEW f
  PROVE  validate_rfpll(y, f) <=> validate_rfpll(x, f)
  BY DEF validate_rfpll

LEMMA NearKept ==
  ASSUME NEW x, NEW y, y.lo.tx.cur = x.lo.tx.cur, y.qc.freq = x.qc.freq, y.pd.dev = x.pd.dev
  PROVE  Near(x) => Near(y)
  BY DEF Near, NearTo, validate_rfpll

LEMMA StillTx ==
  ASSUME NEW x, NEW y, Still(x, y) PROVE TxSame(x, y) /\ QuadStep(x, y)
  <1>1. TxSame(x, y)
    BY DEF Still, SameSynth, TxSame, Sides
  <1> QED BY <1>1, TxKept DEF Still

LEMMA TabledTrans ==
  ASSUME NEW x, NEW y, NEW z, y.pd = x.pd
  PROVE  /\ SameTables(x, y) /\ SameTables(y, z) => SameTables(x, z)
         /\ SameTables(x, y) => Tabled(x, y)
         /\ Tabled(x, y) /\ SameTables(y, z) /\ z.pd = y.pd => Tabled(x, z)
         /\ SameTables(x, y) /\ Tabled(y, z) => Tabled(x, z)
         /\ SameTables(x, y) => DuplexLos(y) = DuplexLos(x) /\ SameLo(y) = SameLo(x)
         /\ Agree(x) /\ SameTables(x, y) => Agree(y)
         /\ Tabled(x, y) => Tables(x, y)
         /\ Placed(x) /\ Tabled(x, y) => Placed(y)
  BY DEF SameTables, SameLos, Tabled, Agree, DuplexLos, SameLo, Sides, Placed, Tables

LEMMA RestReturns ==
  ASSUME NEW x, NEW y, Base(x, y), y.en = x.en, y.trk = x.trk
  PROVE  Returns(x, y)
  BY DEF Base, Returns, Held, Sane, Awake

\* A word of a frequency with another divider.
Divided(w, d) == [w EXCEPT !.vdiv = d]

LEMMA WordsOk ==
  /\ \A f \in LoFreqs \cap (MinCarrier..MaxCarrier) :
       RfpllWord(f) \in LoWords /\ RfpllWord(f).vdiv \in 0..7
  /\ \A w \in LoWords, d \in 0..7 : Divided(w, d) \in LoWords
  <1>1. ASSUME NEW f \in LoFreqs, f \in MinCarrier..MaxCarrier
        PROVE  RfpllWord(f) \in LoWords /\ RfpllWord(f).vdiv \in 0..7
    <2>1. f \in 70..6000
      BY <1>1 DEF MinCarrier, MaxCarrier
    <2>2. RfpllWord(f).vdiv \in 0..7
      BY <2>1 DEF RfpllWord
    <2>3. RfpllWord(f) = [RfpllWord(f) EXCEPT !.vdiv = RfpllWord(f).vdiv]
      BY DEF RfpllWord
    <2> QED BY <2>2, <2>3 DEF LoWords
  <1>2. ASSUME NEW w \in LoWords, NEW d \in 0..7 PROVE [w EXCEPT !.vdiv = d] \in LoWords
    <2> DEFINE S == {[RfpllWord(f) EXCEPT !.vdiv = e] : f \in LoFreqs, e \in 0..7}
    <2>0. S \subseteq LoWords
      BY DEF LoWords
    <2>1. CASE \E f \in LoFreqs, e \in 0..7 : w = [RfpllWord(f) EXCEPT !.vdiv = e]
      <3> PICK f \in LoFreqs, e \in 0..7 : w = [RfpllWord(f) EXCEPT !.vdiv = e]
        BY <2>1
      <3> DEFINE r == RfpllWord(f)
      <3>1. [[r EXCEPT !.vdiv = e] EXCEPT !.vdiv = d] = [r EXCEPT !.vdiv = d]
        <4> HIDE DEF r
        <4> QED OBVIOUS
      <3>2. [r EXCEPT !.vdiv = d] \in S
        OBVIOUS
      <3>3. w = [r EXCEPT !.vdiv = e]
        BY <2>1
      <3>4. [w EXCEPT !.vdiv = d] = [r EXCEPT !.vdiv = d]
        <4> HIDE DEF r
        <4> QED BY <3>1, <3>3
      <3> HIDE DEF S, r
      <3> QED BY <2>0, <3>2, <3>4
    <2>2. CASE \E e \in 0..7 : w = [vco |-> 0, vdiv |-> e]
      <3>1. [w EXCEPT !.vdiv = d] = [vco |-> 0, vdiv |-> d]
        BY <2>2
      <3>2. [vco |-> 0, vdiv |-> d] \in {[vco |-> 0, vdiv |-> c] : c \in 0..7}
        OBVIOUS
      <3> QED BY <3>1, <3>2 DEF LoWords
    <2>3. w \in {[RfpllWord(f) EXCEPT !.vdiv = e] : f \in LoFreqs, e \in 0..7}
            \cup {[vco |-> 0, vdiv |-> e] : e \in 0..7}
      BY DEF LoWords
    <2> QED BY <2>1, <2>2, <2>3
  <1> QED BY <1>1, <1>2 DEF Divided

LEMMA ValidIs ==
  ASSUME NEW x, NEW f, validate_rfpll(x, f) PROVE f \in MinCarrier..MaxCarrier
  <1>1. CASE x.pd.dev = "AD9363A"
    <2>1. f \in 325..3800
      BY <1>1 DEF validate_rfpll
    <2> QED BY <2>1 DEF MinCarrier, MaxCarrier
  <1>2. CASE x.pd.dev # "AD9363A"
    BY <1>2 DEF validate_rfpll
  <1> QED BY <1>1, <1>2

\* One tuning: the registers, and the ALC word it ends with.
LEMMA TuneIs ==
  ASSUME NEW x, Shape(x), NEW p \in Sides, NEW w, NEW y, y = tune_synth(x, p, w)
  PROVE  /\ Rest(x, y) /\ Shape(y)
         /\ y.lo[p].fl = Tune(x.lo[p].fl, x.alc) /\ y.lo[p].reg = w
         /\ y.lo[p].div = x.lo[p].div /\ y.lo[p].cur = x.lo[p].cur
         /\ y.lo[p].tdd <=> ~(DuplexLos(x) /\ ~SameLo(x))
         /\ \A q \in Sides \ {p} : SameSynth(x.lo[q], y.lo[q])
  <1> DEFINE t == rfpll_vco_init(x, p, w.vco)
             g == Tune(t.lo[p].fl, x.alc)
             z == [t EXCEPT !.lo[p].reg = w, !.lo[p].fl = g]
             r == IF "lock_" \o p \in x.late THEN ETIMEDOUT ELSE 0
  <1>1. /\ Rest(x, t) /\ Shape(t) /\ t.alc = x.alc /\ t.late = x.late
        /\ t.lo[p].fl = x.lo[p].fl /\ t.lo[p].reg = x.lo[p].reg
        /\ t.lo[p].div = x.lo[p].div /\ t.lo[p].cur = x.lo[p].cur
        /\ t.lo[p].tdd <=> ~(DuplexLos(x) /\ ~SameLo(x))
        /\ \A q \in Sides \ {p} : SameSynth(x.lo[q], t.lo[q])
    <2> DEFINE tdd == ~(DuplexLos(x) /\ ~SameLo(x))
               row == VcoRow(w.vco)
               l == [x.lo[p] EXCEPT !.tdd = tdd, !.row = row]
    <2>1. t = [x EXCEPT !.lo[p] = l]
      BY DEF rfpll_vco_init, Shape, Fields
    <2>2. tdd <=> ~(DuplexLos(x) /\ ~SameLo(x))
      OBVIOUS
    <2> HIDE DEF tdd, row, t
    <2>3. /\ DOMAIN l = SynthFields /\ l.fl = x.lo[p].fl /\ l.reg = x.lo[p].reg
          /\ l.div = x.lo[p].div /\ l.cur = x.lo[p].cur /\ (l.tdd <=> tdd)
      BY DEF Shape, SynthFields
    <2> HIDE DEF l
    <2> QED BY <2>1, <2>2, <2>3 DEF Rest, Base, SameSynth, Shape, Fields
  <1>2. y = Return([t EXCEPT !.lo[p].reg = w, !.lo[p].fl = Tune(@, x.alc)],
                   IF "lock_" \o p \in [t EXCEPT !.lo[p].reg = w, !.lo[p].fl = Tune(@, x.alc)].late
                   THEN ETIMEDOUT ELSE 0)
    BY DEF tune_synth, check_cal_done
  <1> HIDE DEF t
  <1>3. LockShape(g)
    BY <1>1 DEF Shape, LockShape, LockFields, Tune
  <1>4. y = Return(z, r) /\ g = Tune(x.lo[p].fl, x.alc)
    <2>1. z = [t EXCEPT !.lo[p].reg = w, !.lo[p].fl = Tune(@, x.alc)] /\ z.late = x.late
      BY <1>1 DEF Shape, Fields, SynthFields
    <2> HIDE DEF z
    <2> QED BY <1>1, <1>2, <2>1
  <1> HIDE DEF g, r
  <1>5. /\ Rest(t, z) /\ Shape(z) /\ z.lo[p].fl = g /\ z.lo[p].reg = w
        /\ z.lo[p].div = t.lo[p].div /\ z.lo[p].cur = t.lo[p].cur /\ z.lo[p].tdd = t.lo[p].tdd
        /\ \A q \in Sides \ {p} : z.lo[q] = t.lo[q]
    BY <1>1, <1>3 DEF Rest, Base, Shape, Fields, SynthFields
  <1> HIDE DEF z
  <1>6. Quiet(z, y) /\ y.lo = z.lo
    <2>1. Quiet(z, y)
      BY <1>4, <1>5, ReturnQuiet
    <2>2. y.lo = z.lo
      BY <1>4, <1>5 DEF Return, Shape, Fields
    <2> QED BY <2>1, <2>2
  <1>7. Rest(x, y) /\ Shape(y)
    BY <1>1, <1>5, <1>6 DEF Quiet, Still, Rest, Base
  <1> QED BY <1>1, <1>4, <1>5, <1>6, <1>7 DEF SameSynth

WithLock(x, p, g) == [x EXCEPT !.lo[p].fl = g]

\* Out of fastlock, and VCO calibration on or off, as fields of one synthesizer.
LEMMA LockFieldIs ==
  ASSUME NEW x, Shape(x), NEW p \in Sides, NEW g, LockShape(g), NEW z, z = WithLock(x, p, g)
  PROVE  /\ Rest(x, z) /\ Shape(z) /\ z.rc = x.rc
         /\ z.lo[p].fl = g /\ z.lo[p].reg = x.lo[p].reg
         /\ z.lo[p].div = x.lo[p].div /\ z.lo[p].cur = x.lo[p].cur
         /\ \A q \in Sides \ {p} : SameSynth(x.lo[q], z.lo[q])
         /\ SameTables(x, z)
  BY DEF WithLock, Rest, Base, Shape, Fields, SynthFields, SameSynth, SameTables, SameLos

LEMMA LeaveShape ==
  ASSUME NEW f, LockShape(f)
  PROVE  /\ LockShape(Leave(f)) /\ \A v \in BOOLEAN : LockShape([f EXCEPT !.vcocal = v])
         /\ \A a : LockShape(Tune(f, a))
  BY DEF Leave, LockShape, LockFields, Tune

LEMMA RestTrans ==
  ASSUME NEW x, NEW y, NEW z, Rest(x, y), Rest(y, z) PROVE Rest(x, z)
  BY DEF Rest, Base

LEMMA VcoCalIs ==
  ASSUME NEW x, Shape(x), NEW p \in Sides, NEW v \in BOOLEAN, NEW z,
         z = trx_vco_cal_control(x, p, v)
  PROVE  /\ Rest(x, z) /\ Shape(z) /\ z.rc = x.rc
         /\ z.lo[p].fl = [x.lo[p].fl EXCEPT !.vcocal = v] /\ z.lo[p].reg = x.lo[p].reg
         /\ z.lo[p].div = x.lo[p].div /\ z.lo[p].cur = x.lo[p].cur
         /\ \A q \in Sides \ {p} : SameSynth(x.lo[q], z.lo[q])
         /\ SynthsOk(x) => SynthsOk(z)
         /\ SameTables(x, z)
  <1> DEFINE g == [x.lo[p].fl EXCEPT !.vcocal = v]
  <1>1. LockShape(g)
    BY LeaveShape DEF Shape
  <1>2. z = WithLock(x, p, g)
    BY DEF WithLock, trx_vco_cal_control
  <1>3. g = [x.lo[p].fl EXCEPT !.vcocal = v]
    OBVIOUS
  <1> HIDE DEF g
  <1>4. /\ Rest(x, z) /\ Shape(z) /\ z.rc = x.rc
        /\ z.lo[p].fl = g /\ z.lo[p].reg = x.lo[p].reg
        /\ z.lo[p].div = x.lo[p].div /\ z.lo[p].cur = x.lo[p].cur
        /\ \A q \in Sides \ {p} : SameSynth(x.lo[q], z.lo[q])
        /\ SameTables(x, z)
    BY <1>1, <1>2, LockFieldIs
  <1>5. SynthsOk(x) => SynthsOk(z)
    BY <1>4 DEF SynthsOk, SynthOk, SameSynth
  <1> QED BY <1>3, <1>4, <1>5

\* With the VCO calibration skipped it is switched on for a tuning, and off after it.
LEMMA SkippedIs ==
  ASSUME NEW x, Shape(x), NEW p \in Sides, NEW v \in BOOLEAN, NEW z,
         z = vco_cal_if_skipped(x, p, v)
  PROVE  /\ Rest(x, z) /\ Shape(z)
         /\ z.lo[p].fl = IF x.pd.skipcal THEN [x.lo[p].fl EXCEPT !.vcocal = v] ELSE x.lo[p].fl
         /\ z.lo[p].reg = x.lo[p].reg /\ z.lo[p].div = x.lo[p].div
         /\ \A q \in Sides \ {p} : SameSynth(x.lo[q], z.lo[q])
         /\ SynthsOk(x) => SynthsOk(z)
         /\ SameTables(x, z)
  <1>1. CASE x.pd.skipcal
    <2>1. z = trx_vco_cal_control(x, p, v)
      BY <1>1 DEF vco_cal_if_skipped
    <2> QED BY <1>1, <2>1, VcoCalIs
  <1>2. CASE ~x.pd.skipcal
    <2>1. z = x
      BY <1>2 DEF vco_cal_if_skipped
    <2> QED BY <1>2, <2>1 DEF Rest, Base, SameSynth, SameTables, SameLos
  <1> QED BY <1>1, <1>2

\* A transmitter tuned to its frequency is at it.
LEMMA TxTuned ==
  ASSUME NEW x, NEW y, y.pd = x.pd, NEW f, y.lo.tx.cur = f,
         f # 0 => /\ validate_rfpll(x, f) /\ y.lo.tx.reg = RfpllWord(f)
                  /\ y.lo.tx.div = RfpllWord(f).vdiv
  PROVE  TxAt(y)
  <1>1. validate_rfpll(y, f) <=> validate_rfpll(x, f)
    BY DEF validate_rfpll
  <1> QED BY <1>1 DEF TxAt, TxWord

\* The other synthesizer, tuned again for another table.
LEMMA FixIs ==
  ASSUME NEW x, Shape(x), SynthsOk(x), NEW q \in Sides, NEW w \in LoWords
  PROVE  LET y == fix_other(x, q, w)
         IN /\ Rest(x, y) /\ Shape(y) /\ SynthOk(y.lo[q])
            /\ Retuned(x.lo[q].fl, y.lo[q].fl)
            /\ y.lo[q].cur = x.lo[q].cur /\ (y.lo[q].tdd <=> ~(DuplexLos(x) /\ ~SameLo(x)))
            /\ \A r \in Sides \ {q} : SameSynth(x.lo[r], y.lo[r])
            /\ q = "tx" /\ TxAt(x) /\ (SameLo(x) => w = RfpllWord(x.lo.tx.cur)) => TxAt(y)
  <1> DEFINE f == x.lo[q].fl
             z == [x EXCEPT !.lo[q].fl = Leave(@)]
             v == IF validate_rfpll(z, z.lo[q].cur) THEN RfpllWord(z.lo[q].cur) ELSE w
             y == fix_other(x, q, w)
  <1>1. CASE SameLo(x)
    <2>1. y = tune_synth(x, q, w)
      BY <1>1 DEF fix_other
    <2> HIDE DEF y
    <2>2. /\ Rest(x, y) /\ Shape(y) /\ y.lo[q].fl = Tune(f, x.alc) /\ y.lo[q].reg = w
          /\ y.lo[q].div = x.lo[q].div /\ y.lo[q].cur = x.lo[q].cur
          /\ y.lo[q].tdd <=> ~(DuplexLos(x) /\ ~SameLo(x))
          /\ \A r \in Sides \ {q} : SameSynth(x.lo[r], y.lo[r])
      BY <2>1, TuneIs
    <2>3. q = "tx" /\ TxAt(x) /\ (SameLo(x) => w = RfpllWord(x.lo.tx.cur)) => TxAt(y)
      BY <1>1, <2>2, TxTuned DEF Rest, Base, TxAt, TxWord
    <2> QED BY <2>2, <2>3 DEF Retuned, SynthsOk, SynthOk, Shape, y
  <1>2. CASE ~SameLo(x)
    <2>1. /\ Rest(x, z) /\ Shape(z) /\ z.lo[q].fl = Leave(f) /\ z.lo[q].reg = x.lo[q].reg
          /\ z.lo[q].div = x.lo[q].div /\ z.lo[q].cur = x.lo[q].cur
          /\ \A r \in Sides \ {q} : SameSynth(x.lo[r], z.lo[r])
          /\ SameTables(x, z)
      <3> DEFINE g == Leave(f)
      <3>1. LockShape(g) /\ z = WithLock(x, q, g)
        BY LeaveShape DEF Shape, WithLock
      <3> HIDE DEF g, z
      <3>2. /\ Rest(x, z) /\ Shape(z) /\ z.lo[q].fl = g /\ z.lo[q].reg = x.lo[q].reg
            /\ z.lo[q].div = x.lo[q].div /\ z.lo[q].cur = x.lo[q].cur
            /\ \A r \in Sides \ {q} : SameSynth(x.lo[r], z.lo[r])
            /\ SameTables(x, z)
        BY <3>1, LockFieldIs
      <3> QED BY <3>2 DEF g
    <2>2. y = tune_synth(z, q, IF validate_rfpll(x, x.lo[q].cur) THEN RfpllWord(x.lo[q].cur) ELSE w)
      BY <1>2 DEF fix_other, fastlock_prepare
    <2>3. validate_rfpll(x, x.lo[q].cur) => x.lo[q].cur \in LoFreqs \cap (MinCarrier..MaxCarrier)
      <3>1. x.lo[q].cur \in LoFreqs \cup {0} /\ 0 \notin MinCarrier..MaxCarrier
        BY DEF SynthsOk, SynthOk, MinCarrier, MaxCarrier
      <3> QED BY <3>1, ValidIs
    <2> DEFINE u == IF validate_rfpll(x, x.lo[q].cur) THEN RfpllWord(x.lo[q].cur) ELSE w
    <2>4. u \in LoWords
      BY <2>3, WordsOk
    <2> HIDE DEF y, z, u
    <2>5. /\ Rest(z, y) /\ Shape(y) /\ y.lo[q].fl = Tune(z.lo[q].fl, z.alc) /\ y.lo[q].reg = u
          /\ y.lo[q].div = z.lo[q].div /\ y.lo[q].cur = z.lo[q].cur
          /\ y.lo[q].tdd <=> ~(DuplexLos(z) /\ ~SameLo(z))
          /\ \A r \in Sides \ {q} : SameSynth(z.lo[r], y.lo[r])
      BY <2>1, <2>2, TuneIs DEF u
    <2>6. z.alc = x.alc /\ x.alc \in AlcWords /\ LockShape(f)
      BY <2>1 DEF Rest, Base, Shape
    <2>7. Tune(Leave(f), x.alc) = [Tune(Leave(f), x.alc) EXCEPT !.vcocal = Leave(f).vcocal]
          /\ Leave(f).vcocal \in BOOLEAN
      BY <2>6 DEF Tune, Leave, LockShape, LockFields
    <2>8. Retuned(f, y.lo[q].fl)
      BY <2>1, <2>5, <2>6, <2>7 DEF Retuned
    <2>9. SynthOk(y.lo[q])
      BY <2>1, <2>4, <2>5 DEF SynthsOk, SynthOk
    <2>10. Rest(x, y) /\ \A r \in Sides \ {q} : SameSynth(x.lo[r], y.lo[r])
      BY <2>1, <2>5, RestTrans DEF SameSynth
    <2>11. DuplexLos(z) = DuplexLos(x) /\ SameLo(z) = SameLo(x)
      BY <2>1, TabledTrans DEF Rest, Base
    <2>12. q = "tx" /\ TxAt(x) => TxAt(y)
      BY <2>1, <2>5, <2>10, TxTuned DEF Rest, Base, TxAt, TxWord, u
    <2> QED BY <2>1, <2>5, <2>8, <2>9, <2>10, <2>11, <2>12 DEF y
  <1> QED BY <1>1, <1>2

\* The two rounds of the loop: a frequency's own synthesizer is tuned, and then, maybe,
\* the other one.
LEMMA BothIs ==
  ASSUME NEW x, Shape(x), SynthsOk(x), NEW p \in Sides, NEW w \in LoWords
  PROVE  LET y == tune_both(x, p, w)
         IN /\ Rest(x, y) /\ Shape(y) /\ SynthsOk(y)
            /\ y.lo[p].fl = Tune(x.lo[p].fl, x.alc)
            /\ \A r \in Sides \ {p} : Retuned(x.lo[r].fl, y.lo[r].fl)
            /\ Agree(y) /\ SameLos(x, y)
            /\ /\ x.lo[p].div = w.vdiv /\ w = RfpllWord(x.lo[p].cur)
               /\ validate_rfpll(x, x.lo[p].cur) /\ (p # "tx" => TxAt(x))
               => TxAt(y)
  <1> DEFINE q == Other(p)
             z == tune_synth(x, p, w)
             u == fix_other(z, q, w)
             y == tune_both(x, p, w)
  <1>1. q \in Sides /\ Sides \ {p} = {q} /\ Sides \ {q} = {p}
    BY DEF Other, Sides
  <1>2. /\ Rest(x, z) /\ Shape(z)
        /\ z.lo[p].fl = Tune(x.lo[p].fl, x.alc) /\ z.lo[p].reg = w
        /\ z.lo[p].div = x.lo[p].div /\ z.lo[p].cur = x.lo[p].cur
        /\ z.lo[p].tdd <=> ~(DuplexLos(x) /\ ~SameLo(x))
        /\ \A r \in Sides \ {p} : SameSynth(x.lo[r], z.lo[r])
    BY TuneIs
  <1>3. y = IF fixup_other(z) THEN u ELSE z
    BY DEF tune_both
  <1> HIDE DEF q, z, y
  <1>4. SynthsOk(z) /\ SameSynth(x.lo[q], z.lo[q])
    BY <1>1, <1>2 DEF SynthsOk, SynthOk, SameSynth
  <1>5. /\ Rest(z, u) /\ Shape(u) /\ SynthOk(u.lo[q]) /\ Retuned(z.lo[q].fl, u.lo[q].fl)
        /\ u.lo[q].cur = z.lo[q].cur /\ (u.lo[q].tdd <=> ~(DuplexLos(z) /\ ~SameLo(z)))
        /\ SameSynth(z.lo[p], u.lo[p])
        /\ q = "tx" /\ TxAt(z) /\ (SameLo(z) => w = RfpllWord(z.lo.tx.cur)) => TxAt(u)
    BY <1>1, <1>2, <1>4, FixIs
  <1> HIDE DEF u
  <1>6. SynthsOk(u)
    BY <1>1, <1>4, <1>5 DEF SynthsOk, SynthOk, SameSynth
  <1>7. Rest(x, u)
    BY <1>2, <1>5, RestTrans
  <1>8. Retuned(x.lo[q].fl, z.lo[q].fl) /\ Retuned(x.lo[q].fl, u.lo[q].fl)
    BY <1>4, <1>5 DEF SameSynth, Retuned
  <1>9. /\ DuplexLos(z) = DuplexLos(x) /\ DuplexLos(u) = DuplexLos(x)
        /\ SameLo(z) = SameLo(x) /\ SameLo(u) = SameLo(x)
    BY <1>1, <1>2, <1>4, <1>5, <1>7 DEF Rest, Base, SameSynth, DuplexLos, SameLo, Sides
  <1>10. fixup_other(z) => Agree(u)
    BY <1>1, <1>2, <1>5, <1>9 DEF SameSynth, Agree
  <1>11. ~fixup_other(z) => Agree(z)
    BY <1>1, <1>2, <1>9 DEF Agree, fixup_other, Sides
  <1>12. SameLos(x, z) /\ SameLos(x, u)
    BY <1>1, <1>2, <1>4, <1>5 DEF SameLos, SameSynth
  <1>13. ASSUME x.lo[p].div = w.vdiv, w = RfpllWord(x.lo[p].cur),
                validate_rfpll(x, x.lo[p].cur), p # "tx" => TxAt(x)
         PROVE  TxAt(z) /\ TxAt(u)
    <2>0. u.pd = z.pd /\ z.pd = x.pd
      BY <1>2, <1>5 DEF Rest, Base
    <2>1. CASE p = "tx"
      <3>1. TxAt(z)
        BY <1>2, <1>13, <2>0, <2>1, TxTuned
      <3>2. TxSame(z, u)
        BY <1>5, <2>0, <2>1 DEF TxSame, SameSynth
      <3> QED BY <3>1, <3>2, TxKept
    <2>2. CASE p # "tx"
      <3>1. q = "tx" /\ p = "rx"
        BY <1>1, <2>2 DEF Sides
      <3>2. TxSame(x, z)
        BY <1>4, <2>0, <3>1 DEF TxSame, SameSynth
      <3>3. TxAt(z)
        BY <1>13, <2>2, <3>2, TxKept
      <3>4. SameLo(z) => w = RfpllWord(z.lo.tx.cur)
        BY <1>2, <1>13, <3>1 DEF SameLo
      <3> QED BY <1>5, <3>1, <3>3, <3>4
    <2> QED BY <2>1, <2>2
  <1> QED BY <1>1, <1>2, <1>3, <1>4, <1>5, <1>6, <1>7, <1>8, <1>10, <1>11, <1>12, <1>13 DEF SameSynth, y

\* A frequency is set in the registers.
LEMMA IntSetIs ==
  ASSUME NEW x, Shape(x), SynthsOk(x), NEW p \in Sides, NEW f,
         f \in MinCarrier..MaxCarrier => f \in LoFreqs
  PROVE  LET y == rfpll_int_set_rate(x, p, f)
         IN /\ Rest(x, y) /\ Shape(y) /\ SynthsOk(y)
            /\ \A r \in Sides : Retuned(x.lo[r].fl, y.lo[r].fl)
            /\ Tabled(x, y) /\ (TxAt(x) => TxAt(y))
            /\ y.lo.tx.cur = IF p = "tx" /\ validate_rfpll(x, f) THEN f ELSE x.lo.tx.cur
  <1> DEFINE l == [x EXCEPT !.lo[p].fl = Leave(@)]
             y == rfpll_int_set_rate(x, p, f)
             g == x.lo[p].fl
  <1>1. /\ Rest(x, l) /\ Shape(l) /\ l.lo[p].fl = Leave(g) /\ l.lo[p].reg = x.lo[p].reg
        /\ l.lo[p].div = x.lo[p].div /\ l.lo[p].cur = x.lo[p].cur
        /\ \A r \in Sides \ {p} : SameSynth(x.lo[r], l.lo[r])
        /\ SameTables(x, l)
    <2> DEFINE h == Leave(g)
    <2>1. LockShape(h) /\ l = WithLock(x, p, h)
      BY LeaveShape DEF Shape, WithLock
    <2> HIDE DEF h, l
    <2>2. /\ Rest(x, l) /\ Shape(l) /\ l.lo[p].fl = h /\ l.lo[p].reg = x.lo[p].reg
          /\ l.lo[p].div = x.lo[p].div /\ l.lo[p].cur = x.lo[p].cur
          /\ \A r \in Sides \ {p} : SameSynth(x.lo[r], l.lo[r])
          /\ SameTables(x, l)
      BY <2>1, LockFieldIs
    <2> QED BY <2>2 DEF h
  <1>2. LockShape(g) /\ l.alc = x.alc /\ x.alc \in AlcWords /\ l.pd = x.pd
    BY <1>1 DEF Shape, Rest, Base
  <1>3. SynthsOk(l)
    BY <1>1 DEF SynthsOk, SynthOk, SameSynth
  <1>6. TxSame(x, l)
    BY <1>1, <1>2 DEF TxSame, SameSynth, Sides
  <1>4. CASE ~validate_rfpll(x, f)
    <2>1. y = Return(l, EINVAL)
      BY <1>4 DEF rfpll_int_set_rate, fastlock_prepare
    <2> HIDE DEF l
    <2>2. Quiet(l, y) /\ Shape(y)
      BY <1>1, <2>1, ReturnQuiet DEF Quiet, Still
    <2> HIDE DEF y
    <2>3. Rest(x, y)
      BY <1>1, <2>2 DEF Quiet, Still, Rest, Base
    <2>4. SynthsOk(y)
      BY <1>3, <2>2 DEF SynthsOk, SynthOk, Quiet, Still, SameSynth
    <2>5. \A r \in Sides : y.lo[r].fl = l.lo[r].fl
      BY <2>2 DEF Quiet, Still, SameSynth
    <2>6. SameTables(l, y) /\ l.pd = x.pd
      BY <1>1, <2>2 DEF Quiet, Still, SameSynth, SameTables, SameLos, Rest, Base
    <2>7. Tabled(x, y)
      BY <1>1, <2>6, TabledTrans DEF Tabled
    <2>8. TxSame(l, y)
      BY <2>2, StillTx DEF Quiet
    <2>9. (TxAt(x) => TxAt(y)) /\ y.lo.tx.cur = x.lo.tx.cur
      BY <1>6, <2>8, TxKept DEF TxSame
    <2> QED BY <1>1, <1>4, <2>2, <2>3, <2>4, <2>5, <2>7, <2>9 DEF Retuned, SameSynth, y
  <1>5. CASE validate_rfpll(x, f)
    <2> DEFINE w == RfpllWord(f)
               a == [l EXCEPT !.lo[p].cur = f, !.lo[p].div = w.vdiv]
               yes == TRUE
               no == FALSE
               c == vco_cal_if_skipped(a, p, yes)
               d == tune_both(c, p, w)
               e == vco_cal_if_skipped(d, p, no)
    <2>1. f \in LoFreqs \cap (MinCarrier..MaxCarrier)
      BY <1>5, ValidIs
    <2>2. w \in LoWords /\ w.vdiv \in 0..7
      BY <2>1, WordsOk
    <2>5. y = e
      BY <1>5 DEF rfpll_int_set_rate, fastlock_prepare, int_tune
    <2>0. yes \in BOOLEAN /\ no \in BOOLEAN
      OBVIOUS
    <2> HIDE DEF l, w, yes, no, y, e, d, c
    <2>3. /\ Rest(l, a) /\ Shape(a) /\ a.lo[p].fl = Leave(g) /\ a.lo[p].reg = l.lo[p].reg
          /\ a.lo[p].div = w.vdiv /\ a.lo[p].cur = f
          /\ \A r \in Sides \ {p} : SameSynth(l.lo[r], a.lo[r])
      BY <1>1 DEF Rest, Base, Shape, Fields, SynthFields, SameSynth
    <2>4. SynthsOk(a)
      BY <1>3, <2>1, <2>2, <2>3 DEF SynthsOk, SynthOk, SameSynth
    <2> HIDE DEF a
    <2>6. /\ Rest(a, c) /\ Shape(c) /\ SynthsOk(c)
          /\ c.lo[p].fl = IF a.pd.skipcal THEN [a.lo[p].fl EXCEPT !.vcocal = yes] ELSE a.lo[p].fl
          /\ c.lo[p].reg = a.lo[p].reg /\ c.lo[p].div = a.lo[p].div
          /\ \A r \in Sides \ {p} : SameSynth(a.lo[r], c.lo[r])
          /\ SameTables(a, c)
      BY <2>0, <2>3, <2>4, SkippedIs DEF c
    <2>7. /\ Rest(c, d) /\ Shape(d) /\ SynthsOk(d)
          /\ d.lo[p].fl = Tune(c.lo[p].fl, c.alc)
          /\ \A r \in Sides \ {p} : Retuned(c.lo[r].fl, d.lo[r].fl)
          /\ Agree(d) /\ SameLos(c, d)
          /\ /\ c.lo[p].div = w.vdiv /\ w = RfpllWord(c.lo[p].cur)
             /\ validate_rfpll(c, c.lo[p].cur) /\ (p # "tx" => TxAt(c))
             => TxAt(d)
      BY <2>2, <2>6, BothIs DEF d
    <2>8. /\ Rest(d, e) /\ Shape(e) /\ SynthsOk(e)
          /\ e.lo[p].fl = IF d.pd.skipcal THEN [d.lo[p].fl EXCEPT !.vcocal = no] ELSE d.lo[p].fl
          /\ e.lo[p].reg = d.lo[p].reg /\ e.lo[p].div = d.lo[p].div
          /\ \A r \in Sides \ {p} : SameSynth(d.lo[r], e.lo[r])
          /\ SameTables(d, e)
      BY <2>0, <2>7, SkippedIs DEF e
    <2>9. /\ Rest(x, e) /\ c.alc = x.alc /\ a.pd = x.pd /\ d.pd = x.pd
      <3>1. Rest(x, a) /\ Rest(x, c)
        BY <1>1, <2>3, <2>6, RestTrans
      <3>2. Rest(x, d) /\ Rest(x, e)
        BY <3>1, <2>7, <2>8, RestTrans
      <3> QED BY <3>1, <3>2 DEF Rest, Base
    <2>10. Retuned(g, e.lo[p].fl)
      <3> DEFINE h == Leave(g)
      <3>0. LockShape(h) /\ h = Leave(g)
        BY <1>2, LeaveShape
      <3>1. CASE x.pd.skipcal
        <4>1. e.lo[p].fl = [Tune([h EXCEPT !.vcocal = yes], x.alc) EXCEPT !.vcocal = no]
          BY <2>3, <2>6, <2>7, <2>8, <2>9, <3>1
        <4> HIDE DEF h
        <4>2. [Tune([h EXCEPT !.vcocal = yes], x.alc) EXCEPT !.vcocal = no]
                = [Tune(h, x.alc) EXCEPT !.vcocal = no]
          BY <3>0 DEF Tune, LockShape, LockFields
        <4> QED BY <1>2, <2>0, <3>0, <4>1, <4>2 DEF Retuned
      <3>2. CASE ~x.pd.skipcal
        <4>1. e.lo[p].fl = Tune(h, x.alc)
          BY <2>3, <2>6, <2>7, <2>8, <2>9, <3>2
        <4> HIDE DEF h
        <4>2. Tune(h, x.alc) = [Tune(h, x.alc) EXCEPT !.vcocal = h.vcocal] /\ h.vcocal \in BOOLEAN
          BY <3>0 DEF Tune, LockShape, LockFields
        <4> QED BY <1>2, <3>0, <4>1, <4>2 DEF Retuned
      <3> QED BY <3>1, <3>2
    <2>11. \A r \in Sides \ {p} : Retuned(x.lo[r].fl, e.lo[r].fl)
      <3>1. \A r \in Sides \ {p} : c.lo[r].fl = x.lo[r].fl /\ e.lo[r].fl = d.lo[r].fl
        BY <1>1, <2>3, <2>6, <2>8 DEF SameSynth
      <3> QED BY <2>7, <3>1
    <2>12. Tabled(x, e)
      BY <2>7, <2>8, TabledTrans DEF Rest, Base, Tabled
    <2>13. /\ c.lo[p].div = w.vdiv /\ c.lo[p].cur = f /\ c.pd = x.pd
           /\ SameLos(a, c) /\ SameLos(c, d) /\ SameLos(d, e)
      BY <2>3, <2>6, <2>7, <2>8, <2>9 DEF SameTables, SameLos, Rest, Base
    <2>14. w = RfpllWord(c.lo[p].cur) /\ validate_rfpll(c, c.lo[p].cur)
      <3>1. w = RfpllWord(f)
        BY DEF w
      <3> QED BY <1>5, <2>13, <3>1 DEF validate_rfpll
    <2>15. TxAt(x) => TxAt(e)
      <3>1. p # "tx" => TxSame(x, c)
        BY <1>1, <2>3, <2>6, <2>13 DEF TxSame, SameSynth, Sides
      <3>2. TxAt(x) => TxAt(d)
        BY <2>7, <2>13, <2>14, <3>1, TxKept
      <3>3. TxSame(d, e)
        BY <2>8 DEF TxSame, SameSynth, SameTables, SameLos, Sides, Rest, Base
      <3> QED BY <3>2, <3>3, TxKept
    <2>16. e.lo.tx.cur = IF p = "tx" THEN f ELSE x.lo.tx.cur
      BY <1>1, <2>3, <2>13 DEF SameLos, SameSynth, Sides
    <2> QED BY <1>5, <2>5, <2>8, <2>9, <2>10, <2>11, <2>12, <2>15, <2>16 DEF y
  <1> QED BY <1>4, <1>5

LEMMA LoadGtQuiet ==
  ASSUME NEW x, Shape(x), NEW f PROVE Quiet(x, load_gt(x, f))
  <1> DEFINE band == gt_tableindex(f)
             from == IF x.gain.table = NoTable THEN band ELSE x.gain.table
             kept(i) == find_table_index(band, AbsGain(from, i))
             idx == [ch \in DOMAIN x.gain.idx |-> IF kept(x.gain.idx[ch]) < 0 THEN GainMax
                                                  ELSE kept(x.gain.idx[ch])]
             z == [x EXCEPT !.gain.table = band, !.gain.idx = idx]
  <1>1. load_gt(x, f) \in {Ok(x), Ok([x EXCEPT !.gain.table = band,
                       !.gain.idx = [ch \in DOMAIN @ |-> IF kept(@[ch]) < 0 THEN GainMax
                                                         ELSE kept(@[ch])]])}
    BY DEF load_gt
  <1>2. z = [x EXCEPT !.gain.table = band,
                       !.gain.idx = [ch \in DOMAIN @ |-> IF kept(@[ch]) < 0 THEN GainMax
                                                         ELSE kept(@[ch])]]
    OBVIOUS
  <1> HIDE DEF band, idx
  <1>3. Quiet(x, z)
    BY QuietSelf DEF Quiet, Still, SameSynth, Shape, Fields
  <1> HIDE DEF z
  <1>4. Quiet(x, Ok(z))
    BY <1>3, OkQuiet, QuietShape, QuietTrans
  <1> QED BY <1>1, <1>2, <1>4, OkQuiet

\* The automatic calibration of the transmitter.
LEMMA CalIfFarIs ==
  ASSUME NEW x, Shape(x), NEW f, ~x.pd.ext.tx => f \in Int
  PROVE  LET y == cal_if_far(x, f)
         IN /\ Drifts(x, y) /\ Shape(y) /\ Returns(x, y) /\ (~x.autocal => y = x)
            /\ y.qc.freq = IF /\ x.autocal /\ ~x.pd.ext.tx
                              /\ DiffAbs(x.qc.freq, f) > CalThreshold
                           THEN f ELSE x.qc.freq
  <1> DEFINE c == do_calib_run(x, "TX_QUAD", -1)
             z == [c EXCEPT !.qc.freq = f]
             far == x.autocal /\ ~x.pd.ext.tx /\ DiffAbs(x.qc.freq, f) > CalThreshold
  <1>1. Still(x, c) /\ Shape(c) /\ Returns(x, c)
    BY CalibRun
  <1>2. cal_if_far(x, f) = IF far THEN z ELSE x
    BY DEF cal_if_far
  <1>3. far => x.autocal /\ f \in Int
    OBVIOUS
  <1> HIDE DEF c, far
  <1>4. f \in Int => Drifts(c, z) /\ Shape(z) /\ z.en = c.en /\ z.trk = c.trk /\ z.qc.freq = f
    BY <1>1 DEF Drifts, Base, SameSynth, Shape, Fields
  <1> HIDE DEF z
  <1>5. f \in Int => Drifts(x, z) /\ Returns(x, z)
    <2> SUFFICES ASSUME f \in Int PROVE Drifts(x, z) /\ Returns(x, z)
      OBVIOUS
    <2>1. Drifts(x, c) /\ Returns(c, z)
      BY <1>1, <1>4, StillDrifts, RestReturns DEF Drifts
    <2> QED BY <1>1, <1>4, <2>1, ReturnsTrans DEF Drifts, Base, SameSynth
  <1>6. Drifts(x, x) /\ Returns(x, x)
    BY QuietSelf, QuietReturns, StillDrifts DEF Quiet
  <1> QED BY <1>2, <1>3, <1>4, <1>5, <1>6 DEF far

\* A frequency for an LO: the fastlocks of both synthesizers, at most, are tuned again.
LEMMA RfpllSetIs ==
  ASSUME NEW x, Shape(x), SynthsOk(x), NEW p \in Sides, NEW f,
         f \in MinCarrier..MaxCarrier => f \in LoFreqs, ~x.pd.ext[p] => f \in Int,
         NEW y, y = rfpll_set_rate(x, p, f)
  PROVE  /\ Base(x, y) /\ Shape(y) /\ SynthsOk(y) /\ Returns(x, y)
         /\ \A r \in Sides : Retuned(x.lo[r].fl, y.lo[r].fl)
         /\ ~x.autocal => y.en = x.en /\ y.trk = x.trk /\ y.qc.freq = x.qc.freq
         /\ Tabled(x, y) /\ QuadStep(x, y)
         /\ y.lo.tx.cur # x.lo.tx.cur =>
              p = "tx" /\ y.lo.tx.cur = f /\ f \in MinCarrier..MaxCarrier
  <1> DEFINE d == [x EXCEPT !.lo[p].dummy = f]
             i == rfpll_int_set_rate(x, p, f)
             a == IF x.pd.ext[p] THEN d ELSE i
             b == load_gt(a, f)
             c == cal_if_far(a, f)
  <1>1. y = IF p = "rx" THEN b ELSE Ok(c)
    BY DEF rfpll_set_rate
  <1>2. /\ Rest(x, d) /\ Shape(d) /\ SynthsOk(d)
        /\ \A r \in Sides : Retuned(x.lo[r].fl, d.lo[r].fl)
        /\ SameTables(x, d) /\ TxSame(x, d) /\ d.lo.tx.cur = x.lo.tx.cur
    BY DEF Rest, Base, Shape, Fields, SynthFields, SynthsOk, SynthOk, Retuned, SameTables, SameLos,
           TxSame, Sides
  <1>3. /\ Rest(x, i) /\ Shape(i) /\ SynthsOk(i)
        /\ \A r \in Sides : Retuned(x.lo[r].fl, i.lo[r].fl)
        /\ Tabled(x, i) /\ (TxAt(x) => TxAt(i))
        /\ i.lo.tx.cur = IF p = "tx" /\ validate_rfpll(x, f) THEN f ELSE x.lo.tx.cur
    BY IntSetIs
  <1> HIDE DEF d, i
  <1>4. /\ Rest(x, a) /\ Shape(a) /\ SynthsOk(a)
        /\ \A r \in Sides : Retuned(x.lo[r].fl, a.lo[r].fl)
        /\ Tabled(x, a) /\ (TxAt(x) => TxAt(a))
        /\ a.lo.tx.cur = IF p = "tx" /\ ~x.pd.ext.tx /\ validate_rfpll(x, f)
                         THEN f ELSE x.lo.tx.cur
    BY <1>2, <1>3, TxKept DEF Tabled
  <1>11. ~a.pd.ext[p] => f \in Int
    BY <1>4 DEF Rest, Base
  <1> HIDE DEF a
  <1>5. /\ Drifts(a, b) /\ Shape(b) /\ Returns(a, b) /\ b.en = a.en /\ b.trk = a.trk
        /\ b.qc.freq = a.qc.freq
    BY <1>4, LoadGtQuiet, QuietReturns, QuietShape, StillDrifts
  <1> DEFINE q == IF /\ a.autocal /\ ~a.pd.ext.tx /\ DiffAbs(a.qc.freq, f) > CalThreshold
                  THEN f ELSE a.qc.freq
  <1>6. p # "rx" => /\ Drifts(a, Ok(c)) /\ Shape(Ok(c)) /\ Returns(a, Ok(c))
                    /\ ~a.autocal => Ok(c).en = a.en /\ Ok(c).trk = a.trk
                    /\ Ok(c).qc.freq = q
    <2> SUFFICES ASSUME p # "rx"
                 PROVE  /\ Drifts(a, Ok(c)) /\ Shape(Ok(c)) /\ Returns(a, Ok(c))
                        /\ ~a.autocal => Ok(c).en = a.en /\ Ok(c).trk = a.trk
                        /\ Ok(c).qc.freq = q
      OBVIOUS
    <2>0. ~a.pd.ext.tx => f \in Int
      BY <1>11 DEF Sides
    <2>1. Drifts(a, c) /\ Shape(c) /\ Returns(a, c) /\ (~a.autocal => c = a) /\ c.qc.freq = q
      BY <1>4, <2>0, CalIfFarIs
    <2> HIDE DEF c, q
    <2>2. Quiet(c, Ok(c))
      BY <2>1, OkQuiet
    <2>3. /\ Drifts(c, Ok(c)) /\ Shape(Ok(c)) /\ Returns(c, Ok(c)) /\ Ok(c).en = c.en
          /\ Ok(c).trk = c.trk /\ Ok(c).qc.freq = c.qc.freq
      BY <2>2, QuietReturns, QuietShape, StillDrifts
    <2> QED BY <2>1, <2>3, ReturnsTrans DEF Drifts, Base, SameSynth
  <1> HIDE DEF b, c, q
  <1>7. /\ Drifts(a, y) /\ Shape(y) /\ Returns(a, y)
        /\ ~a.autocal => y.en = a.en /\ y.trk = a.trk
        /\ y.qc.freq = IF p = "rx" THEN a.qc.freq ELSE q
    BY <1>1, <1>5, <1>6
  <1>8. Base(a, y) /\ SynthsOk(y) /\ (\A r \in Sides : y.lo[r].fl = a.lo[r].fl) /\ SameTables(a, y)
    BY <1>4, <1>7, DriftIsBase
  <1>12. TxSame(a, y) /\ y.lo.tx.cur = a.lo.tx.cur
    BY <1>7 DEF Drifts, Base, SameSynth, TxSame, Sides
  <1>13. (TxAt(x) => TxAt(y)) /\ a.pd = x.pd /\ a.autocal = x.autocal /\ a.qc.freq = x.qc.freq
         /\ y.pd = x.pd
    BY <1>4, <1>8, <1>12, TxKept DEF Rest, Base
  <1>14. ASSUME x.autocal, TxAt(x), Near(x) PROVE Near(y)
    <2>1. CASE p = "rx" \/ x.pd.ext.tx
      <3>1. y.qc.freq = x.qc.freq
        BY <1>7, <1>13, <2>1 DEF q
      <3> QED BY <1>4, <1>12, <1>13, <1>14, <2>1, <3>1, NearKept
    <2>2. CASE p # "rx" /\ ~x.pd.ext.tx
      <3>1. p = "tx" /\ f \in Int /\ x.qc.freq \in Int
        BY <1>11, <1>13, <2>2 DEF Sides, Shape
      <3>2. y.qc.freq = IF DiffAbs(x.qc.freq, f) > 100 THEN f ELSE x.qc.freq
        BY <1>7, <1>13, <1>14, <2>2 DEF q, CalThreshold
      <3>3. CASE validate_rfpll(x, f)
        <4>1. y.lo.tx.cur = f
          BY <1>4, <1>12, <2>2, <3>1, <3>3
        <4>2. DiffAbs(y.qc.freq, f) <= 100
          BY <3>1, <3>2 DEF DiffAbs
        <4> QED BY <4>1, <4>2 DEF Near, NearTo, CalThreshold
      <3>4. CASE ~validate_rfpll(x, f)
        <4>1. y.lo.tx.cur = x.lo.tx.cur
          BY <1>4, <1>12, <3>4
        <4>2. CASE y.qc.freq = x.qc.freq
          BY <1>13, <1>14, <4>1, <4>2, NearKept
        <4>3. CASE y.qc.freq = f
          <5>1. ~validate_rfpll(y, y.qc.freq)
            BY <1>13, <3>4, <4>3 DEF validate_rfpll
          <5> QED BY <5>1 DEF Near, NearTo
        <4> QED BY <3>2, <4>2, <4>3
      <3> QED BY <3>3, <3>4
    <2> QED BY <2>1, <2>2
  <1>15. QuadStep(x, y)
    BY <1>13, <1>14 DEF QuadStep
  <1>16. y.lo.tx.cur # x.lo.tx.cur => p = "tx" /\ y.lo.tx.cur = f /\ f \in MinCarrier..MaxCarrier
    BY <1>4, <1>12, ValidIs
  <1>17. ~x.autocal => y.qc.freq = x.qc.freq
    BY <1>7, <1>13 DEF q
  <1>10. Tabled(x, y)
    BY <1>4, <1>8, TabledTrans DEF Rest, Base
  <1>9. Base(x, y) /\ Returns(x, y) /\ (~x.autocal => y.en = x.en /\ y.trk = x.trk)
    <2>1. Returns(x, a)
      BY <1>4, RestReturns DEF Rest
    <2>2. Returns(x, y)
      BY <1>7, <2>1, ReturnsTrans
    <2> QED BY <1>4, <1>7, <1>8, <2>2 DEF Rest, Base
  <1> QED BY <1>4, <1>7, <1>8, <1>9, <1>10, <1>15, <1>16, <1>17

LEMMA SetLoIs ==
  ASSUME NEW x, Shape(x), SynthsOk(x), NEW p \in Sides, NEW f,
         f \in MinCarrier..MaxCarrier => f \in LoFreqs,
         NEW y, y = set_lo(x, p, f)
  PROVE  /\ Base(x, y) /\ Shape(y) /\ SynthsOk(y) /\ Returns(x, y)
         /\ \A r \in Sides : Retuned(x.lo[r].fl, y.lo[r].fl)
         /\ ~x.autocal => y.en = x.en /\ y.trk = x.trk /\ y.qc.freq = x.qc.freq
         /\ Tabled(x, y) /\ QuadStep(x, y)
         /\ y.lo.tx.cur # x.lo.tx.cur =>
              p = "tx" /\ y.lo.tx.cur = f /\ f \in MinCarrier..MaxCarrier
  <1> DEFINE g == IF x.pd.ext[p] THEN f ELSE rfpll_int_round_rate(f)
             a == rfpll_set_rate(x, p, g)
             b == Ok(recalc_all(a))
  <1>1. y \in {Ok(x), b}
    BY DEF set_lo
  <1>2. g \in MinCarrier..MaxCarrier => g \in LoFreqs
    BY SMTT(30) DEF rfpll_int_round_rate, Unreadable, MinCarrier, MaxCarrier
  <1>8. /\ ~x.pd.ext[p] => g \in Int
        /\ g \in MinCarrier..MaxCarrier => g = f
    <2>1. CASE x.pd.ext[p]
      BY <2>1
    <2>2. CASE ~x.pd.ext[p]
      <3>1. g = IF f \in 70..6000 THEN f ELSE 8589
        BY <2>2 DEF rfpll_int_round_rate, Unreadable, MinCarrier, MaxCarrier
      <3> HIDE DEF g
      <3>2. CASE f \in 70..6000
        BY <3>1, <3>2
      <3>3. CASE f \notin 70..6000
        BY <3>1, <3>3 DEF MinCarrier, MaxCarrier
      <3> QED BY <3>2, <3>3
    <2> QED BY <2>1, <2>2
  <1> HIDE DEF g
  <1>3. /\ Base(x, a) /\ Shape(a) /\ SynthsOk(a) /\ Returns(x, a)
        /\ \A r \in Sides : Retuned(x.lo[r].fl, a.lo[r].fl)
        /\ ~x.autocal => a.en = x.en /\ a.trk = x.trk /\ a.qc.freq = x.qc.freq
        /\ Tabled(x, a) /\ QuadStep(x, a)
        /\ a.lo.tx.cur # x.lo.tx.cur => p = "tx" /\ a.lo.tx.cur = f /\ f \in MinCarrier..MaxCarrier
    BY <1>2, <1>8, RfpllSetIs
  <1> HIDE DEF a
  <1>4. Quiet(a, b)
    BY <1>3, RecalcQuiet, OkQuiet, QuietTrans, QuietShape
  <1>5. Quiet(x, Ok(x))
    BY OkQuiet
  <1> HIDE DEF b
  <1>6. CASE y = b
    <2>1. Base(a, b) /\ SynthsOk(b) /\ Returns(a, b) /\ b.en = a.en /\ b.trk = a.trk
          /\ \A r \in Sides : b.lo[r].fl = a.lo[r].fl
          /\ SameTables(a, b)
      BY <1>3, <1>4, StillIsBase, QuietReturns, QuietShape
    <2>2. Base(x, b) /\ Returns(x, b)
      BY <1>3, <2>1, ReturnsTrans DEF Base
    <2>3. Tabled(x, b)
      BY <1>3, <2>1, TabledTrans DEF Base
    <2>4. b.qc.freq = a.qc.freq /\ b.lo.tx.cur = a.lo.tx.cur /\ QuadStep(a, b)
      BY <1>4, StillTx DEF Quiet, Still, TxSame
    <2>5. QuadStep(x, b)
      BY <1>3, <2>4 DEF QuadStep, Base
    <2> QED BY <1>3, <1>6, <2>1, <2>2, <2>3, <2>4, <2>5 DEF Base
  <1>7. CASE y = Ok(x)
    <2>1. Base(x, y) /\ SynthsOk(y) /\ Returns(x, y) /\ y.en = x.en /\ y.trk = x.trk
          /\ \A r \in Sides : y.lo[r].fl = x.lo[r].fl
          /\ SameTables(x, y)
      BY <1>5, <1>7, StillIsBase, QuietReturns, QuietShape
    <2>2. y.qc.freq = x.qc.freq /\ y.lo.tx.cur = x.lo.tx.cur /\ QuadStep(x, y)
      BY <1>5, <1>7, StillTx DEF Quiet, Still, TxSame
    <2> QED BY <2>1, <2>2 DEF Base, Retuned, Tabled
  <1> QED BY <1>1, <1>6, <1>7

-----------------------------------------------------------------------------
(* The external LOs.                                                          *)
LEMMA DividedIs ==
  ASSUME NEW w \in LoWords, NEW d
  PROVE  Divided(w, d).vco = w.vco /\ Divided(w, d).vdiv = d
  <1>1. CASE \E f \in LoFreqs, e \in 0..7 : w = [RfpllWord(f) EXCEPT !.vdiv = e]
    BY <1>1 DEF Divided, RfpllWord
  <1>2. CASE \E e \in 0..7 : w = [vco |-> 0, vdiv |-> e]
    BY <1>2 DEF Divided
  <1> QED BY <1>1, <1>2 DEF LoWords

\* An LO switched to the source it is said to have keeps the word but for the divider.
Muxed(x, y, p, on) ==
  /\ y.qc.freq = x.qc.freq
  /\ p # "tx" => TxSame(x, y)
  /\ p = "tx" /\ on = x.pd.ext.tx /\ TxWord(x) => TxAt(y)

LEMMA ExtLoIs ==
  ASSUME NEW x, Shape(x), SynthsOk(x), NEW p \in Sides, NEW on \in BOOLEAN,
         NEW y, y = trx_ext_lo_control(x, p, on)
  PROVE  /\ Base(x, y) /\ Shape(y) /\ SynthsOk(y) /\ y.trk = x.trk /\ y.rc = 0
         /\ \A f \in EnFields \ {"cfg2"} : y.en[f] = x.en[f]
         /\ y.lo[p].fl = [x.lo[p].fl EXCEPT !.ready = on]
         /\ \A r \in Sides \ {p} : SameSynth(x.lo[r], y.lo[r])
         /\ SameTables(x, y) /\ Muxed(x, y, p, on)
  <1> DEFINE pd == IF on THEN x.lo[p].pd \cup VcoBits ELSE x.lo[p].pd \ VcoBits
             bit == IF p = "rx" THEN "PD_RX" ELSE "PD_TX"
             v == IF on THEN 7 ELSE x.lo[p].div
             bits == (x.en.cfg2 \ {bit}) \cup Bit(on /\ ~x.mcsrf, bit)
             i == [x EXCEPT !.en.cfg2 = bits]
             j == [i EXCEPT !.lo[p].fl.ready = on, !.lo[p].reg.vdiv = v]
             z == [j EXCEPT !.lo[p].pd = pd, !.lo[p].chippd = pd, !.lo[p].ext = on]
  <1>1. y = Ok(z)
    BY DEF trx_ext_lo_control
  <1>2. v \in 0..7
    BY DEF SynthsOk, SynthOk
  <1> HIDE DEF pd, bit, v, bits
  <1>3. /\ Base(x, z) /\ Shape(z) /\ z.trk = x.trk /\ z.en = [x.en EXCEPT !.cfg2 = bits]
        /\ z.qc = x.qc
        /\ z.lo[p].fl = [x.lo[p].fl EXCEPT !.ready = on]
        /\ z.lo[p].reg = Divided(x.lo[p].reg, v)
        /\ z.lo[p].div = x.lo[p].div /\ z.lo[p].cur = x.lo[p].cur /\ z.lo[p].tdd = x.lo[p].tdd
        /\ \A r \in Sides \ {p} : SameSynth(x.lo[r], z.lo[r])
    <2>1. /\ Base(x, i) /\ Shape(i) /\ i.trk = x.trk /\ i.en = [x.en EXCEPT !.cfg2 = bits]
          /\ i.lo = x.lo /\ i.qc = x.qc
      BY DEF Base, Shape, Fields
    <2> HIDE DEF i
    <2>2. /\ Base(i, j) /\ Shape(j) /\ j.trk = i.trk /\ j.en = i.en /\ j.qc = i.qc
          /\ j.lo[p].fl = [i.lo[p].fl EXCEPT !.ready = on]
          /\ j.lo[p].reg = Divided(i.lo[p].reg, v)
          /\ j.lo[p].div = i.lo[p].div /\ j.lo[p].cur = i.lo[p].cur /\ j.lo[p].tdd = i.lo[p].tdd
          /\ \A r \in Sides \ {p} : SameSynth(i.lo[r], j.lo[r])
      <3> DEFINE f == [i.lo[p].fl EXCEPT !.ready = on]
                 w == Divided(i.lo[p].reg, v)
                 k == [i.lo[p] EXCEPT !.fl = f, !.reg = w]
      <3>1. j = [i EXCEPT !.lo[p] = k]
        <4> DEFINE l == [i.lo[p] EXCEPT !.fl = f]
                   m == [i EXCEPT !.lo[p] = l]
        <4>1. j = [m EXCEPT !.lo[p].reg.vdiv = v] /\ m = [i EXCEPT !.lo[p] = l]
          OBVIOUS
        <4> HIDE DEF j, m, f
        <4>2. m.lo[p] = l /\ l.reg = i.lo[p].reg
          BY <2>1, <4>1 DEF Shape, Fields, SynthFields
        <4>3. j = [m EXCEPT !.lo[p] = [l EXCEPT !.reg = w]]
          <5>1. [m.lo[p] EXCEPT !.reg.vdiv = v] = [l EXCEPT !.reg = w]
            BY <4>2 DEF Divided
          <5> HIDE DEF l, w
          <5>2. j = [m EXCEPT !.lo = [m.lo EXCEPT ![p] = [m.lo[p] EXCEPT !.reg.vdiv = v]]]
            BY <4>1
          <5> QED BY <5>1, <5>2
        <4>4. k = [l EXCEPT !.reg = w]
          OBVIOUS
        <4> HIDE DEF l, k, w
        <4> QED BY <2>1, <4>1, <4>3, <4>4, ZenonT(60) DEF Shape, Fields
      <3>2. LockShape(f)
        BY <2>1 DEF Shape, LockShape, LockFields
      <3>3. f = [i.lo[p].fl EXCEPT !.ready = on] /\ w = Divided(i.lo[p].reg, v)
        OBVIOUS
      <3> HIDE DEF f, w, j
      <3>4. /\ DOMAIN k = SynthFields /\ k.fl = f /\ k.reg = w
            /\ k.div = i.lo[p].div /\ k.cur = i.lo[p].cur /\ k.tdd = i.lo[p].tdd
        BY <2>1 DEF Shape, SynthFields
      <3> HIDE DEF k
      <3>5. /\ Base(i, j) /\ Shape(j) /\ j.trk = i.trk /\ j.en = i.en /\ j.lo[p] = k
            /\ j.qc = i.qc
            /\ \A r \in Sides \ {p} : j.lo[r] = i.lo[r]
        BY <2>1, <3>1, <3>2, <3>4 DEF Base, Shape, Fields
      <3> QED BY <3>3, <3>4, <3>5 DEF SameSynth
    <2> HIDE DEF j
    <2>3. /\ Base(j, z) /\ Shape(z) /\ z.trk = j.trk /\ z.en = j.en /\ z.qc = j.qc
          /\ \A r \in Sides : SameSynth(j.lo[r], z.lo[r])
      BY <2>2, SMTT(30) DEF Base, Shape, Fields, SynthFields, SameSynth
    <2> HIDE DEF z
    <2>4. Base(x, z)
      BY <2>1, <2>2, <2>3 DEF Base
    <2> QED BY <2>1, <2>2, <2>3, <2>4 DEF SameSynth
  <1> HIDE DEF z
  <1>4. SynthsOk(z)
    <2>1. z.lo[p].reg \in LoWords
      BY <1>2, <1>3, WordsOk DEF SynthsOk, SynthOk
    <2> QED BY <1>3, <2>1 DEF SynthsOk, SynthOk, SameSynth
  <1>5. \A f \in EnFields \ {"cfg2"} : z.en[f] = x.en[f]
    BY <1>3 DEF Shape
  <1>6. Quiet(z, y) /\ y.rc = 0
    BY <1>1, <1>3, OkQuiet
  <1>7. Base(x, y) /\ SynthsOk(y) /\ SameTables(z, y)
    BY <1>3, <1>4, <1>6, StillIsBase, QuietShape DEF Base
  <1>8. SameTables(x, z)
    BY <1>3 DEF SameTables, SameLos, SameSynth
  <1>9. SameTables(x, y)
    BY <1>3, <1>7, <1>8, TabledTrans DEF Base
  <1>10. y.qc.freq = x.qc.freq /\ TxSame(z, y)
    BY <1>3, <1>6, StillTx DEF Quiet, Still
  <1>11. p # "tx" => TxSame(x, y)
    BY <1>3, <1>10 DEF TxSame, SameSynth, Base, Sides
  <1>12. ASSUME p = "tx", on = x.pd.ext.tx, TxWord(x) PROVE TxAt(y)
    <2>1. x.lo.tx.reg \in LoWords
      BY <1>12 DEF SynthsOk, SynthOk
    <2>2. z.lo.tx.reg.vco = x.lo.tx.reg.vco /\ z.lo.tx.reg.vdiv = v
      BY <1>3, <1>12, <2>1, DividedIs
    <2>3. z.lo.tx.div = x.lo.tx.div /\ z.lo.tx.cur = x.lo.tx.cur /\ z.pd = x.pd
      BY <1>3, <1>12 DEF Base
    <2>4. validate_rfpll(x, x.lo.tx.cur) => validate_rfpll(z, z.lo.tx.cur)
      BY <2>3 DEF validate_rfpll
    <2>5. ~x.pd.ext.tx => z.lo.tx.reg.vdiv = z.lo.tx.div
      BY <1>12, <2>2, <2>3 DEF v
    <2>6. TxAt(z)
      BY <1>12, <2>2, <2>3, <2>4, <2>5 DEF TxAt, TxWord
    <2> QED BY <1>10, <2>6, TxKept
  <1> QED BY <1>3, <1>5, <1>6, <1>7, <1>9, <1>10, <1>11, <1>12 DEF Base, Quiet, Still, SameSynth, Muxed

\* The mux of a synthesizer, in ALERT.
LEMMA MuxIs ==
  ASSUME NEW x, Shape(x), SynthsOk(x), NEW p \in Sides, NEW on \in BOOLEAN,
         NEW y, y = clk_mux_set_parent(x, p, on)
  PROVE  /\ Base(x, y) /\ Shape(y) /\ SynthsOk(y) /\ y.trk = x.trk /\ y.rc = 0 /\ Held(x, y)
         /\ x.en.dev = "ALERT" /\ x.en.clocks => y.en.dev = "ALERT" /\ y.en.clocks
         /\ y.lo[p].fl = [x.lo[p].fl EXCEPT !.ready = on]
         /\ \A r \in Sides \ {p} : SameSynth(x.lo[r], y.lo[r])
         /\ SameTables(x, y) /\ Muxed(x, y, p, on)
  <1> DEFINE a == ensm_force_state(x, "ALERT")
             b == trx_ext_lo_control(a, p, on)
             c == ensm_restore_prev_state(b)
  <1>1. y = c
    BY DEF clk_mux_set_parent
  <1>2. Still(x, a) /\ Shape(a) /\ a.trk = x.trk /\ a.en = Forced(x.en)
    BY ForceIs
  <1>3. Base(x, a) /\ SynthsOk(a) /\ (\A r \in Sides : a.lo[r].fl = x.lo[r].fl) /\ SameTables(x, a)
    BY <1>2, StillIsBase
  <1> HIDE DEF a
  <1>4. /\ Base(a, b) /\ Shape(b) /\ SynthsOk(b) /\ b.trk = a.trk /\ b.rc = 0
        /\ \A f \in EnFields \ {"cfg2"} : b.en[f] = a.en[f]
        /\ b.lo[p].fl = [a.lo[p].fl EXCEPT !.ready = on]
        /\ \A r \in Sides \ {p} : SameSynth(a.lo[r], b.lo[r])
        /\ SameTables(a, b) /\ Muxed(a, b, p, on)
    BY <1>2, <1>3, ExtLoIs
  <1> HIDE DEF b
  <1>5. b.pd.fdd = x.pd.fdd
    BY <1>3, <1>4 DEF Base
  <1>6. Still(b, c) /\ Shape(c) /\ c.trk = b.trk /\ c.rc = b.rc /\ Held(x, c)
    BY <1>2, <1>4, <1>5, Bracket
  <1>7. x.en.dev = "ALERT" /\ x.en.clocks => c.en.dev = "ALERT" /\ c.en.clocks
    <2> SUFFICES ASSUME x.en.dev = "ALERT", x.en.clocks PROVE c.en.dev = "ALERT" /\ c.en.clocks
      OBVIOUS
    <2>1. a.en.prev = "ALERT" /\ a.en.clocks
      BY <1>2 DEF Forced, Shape, EnFields
    <2>2. b.en.prev = "ALERT" /\ b.en.clocks
      BY <1>4, <2>1 DEF EnFields
    <2> QED BY <1>4, <2>2, RestoreIs
  <1> HIDE DEF c
  <1>8. Base(b, c) /\ SynthsOk(c) /\ (\A r \in Sides : c.lo[r].fl = b.lo[r].fl) /\ SameTables(b, c)
    BY <1>4, <1>6, StillIsBase
  <1>9. Base(x, c)
    BY <1>3, <1>4, <1>8 DEF Base
  <1>10. \A r \in Sides \ {p} : SameSynth(x.lo[r], c.lo[r])
    BY <1>2, <1>4, <1>6 DEF Still, SameSynth
  <1>11. SameTables(x, c)
    BY <1>3, <1>4, <1>8 DEF SameTables, SameLos
  <1>12. /\ TxSame(x, a) /\ TxSame(b, c) /\ a.qc.freq = x.qc.freq /\ c.qc.freq = b.qc.freq
         /\ a.pd = x.pd
    BY <1>2, <1>6, StillTx DEF Still
  <1>13. TxWord(x) => TxWord(a)
    BY <1>12 DEF TxWord, TxSame, validate_rfpll
  <1>14. Muxed(x, c, p, on)
    BY <1>4, <1>12, <1>13, TxKept DEF Muxed, TxSame
  <1> QED BY <1>1, <1>2, <1>3, <1>4, <1>6, <1>7, <1>8, <1>9, <1>10, <1>11, <1>14

-----------------------------------------------------------------------------
(* The calls that are about neither the synthesizers nor the state machine.   *)
\* They leave the state machine and, in a radio whose calibrations converge, the
\* tracking as they found them.
Kept(x, y) == Still(x, y) /\ Shape(y) /\ (Converges(x) => Returns(x, y))

LEMMA QuietKept == ASSUME NEW x, NEW y, Quiet(x, y) PROVE Kept(x, y)
  BY QuietReturns DEF Kept

LEMMA KeptTrans ==
  ASSUME NEW x, NEW y, NEW z, Kept(x, y), Kept(y, z) PROVE Kept(x, z)
  <1>1. Converges(x) => Converges(y)
    BY DEF Kept, Still, Converges
  <1> QED BY <1>1, StillTrans, ReturnsTrans DEF Kept

\* The clocks, and the filters for them.
LEMMA ClocksThenBandwidth ==
  ASSUME NEW x, Shape(x), NEW rx, NEW tx, NEW a, NEW b
  PROVE  LET c == set_trx_clock_chain(x, rx, tx)
         IN Kept(x, c) /\ Kept(x, update_rf_bandwidth(x, a, b)) /\ Kept(x, update_rf_bandwidth(c, a, b))
  <1> DEFINE c == set_trx_clock_chain(x, rx, tx)
  <1>1. Quiet(x, c)
    BY ChainQuiet
  <1>2. Kept(x, c) /\ Shape(c)
    BY <1>1, QuietKept, QuietShape
  <1> HIDE DEF c
  <1>3. ASSUME NEW u, Shape(u) PROVE Kept(u, update_rf_bandwidth(u, a, b))
    BY <1>3, BandwidthRun DEF Kept
  <1> QED BY <1>2, <1>3, KeptTrans DEF c

LEMMA SamplingKept ==
  ASSUME NEW x, Shape(x), NEW rate PROVE Kept(x, set_sampling_freq(x, rate))
  <1> DEFINE plan == Plan(x, rate)
  <1>1. set_sampling_freq(x, rate) \in
          {Return(x, plan.rc), update_rf_bandwidth(set_trx_clock_chain(x, plan.rx, plan.tx), x.bw.rx, x.bw.tx)}
    BY DEF set_sampling_freq
  <1> HIDE DEF plan
  <1> QED BY <1>1, ReturnQuiet, QuietKept, ClocksThenBandwidth

LEMMA BandwidthKept ==
  ASSUME NEW x, Shape(x), NEW p, NEW bw PROVE Kept(x, set_rf_bandwidth(x, p, bw))
  <1> DEFINE b == [x.bw EXCEPT ![p] = validate_rf_bw(x, bw)]
  <1>1. set_rf_bandwidth(x, p, bw) \in {Ok(x), update_rf_bandwidth(x, b.rx, b.tx)}
    BY DEF set_rf_bandwidth
  <1> HIDE DEF b
  <1> QED BY <1>1, OkQuiet, QuietKept, ClocksThenBandwidth

LEMMA PathClksKept ==
  ASSUME NEW x, Shape(x), NEW rx, NEW tx PROVE Kept(x, set_trx_path_clks(x, rx, tx))
  <1> DEFINE c == set_trx_clock_chain(x, rx, tx)
  <1>1. set_trx_path_clks(x, rx, tx) \in {c, update_rf_bandwidth(c, c.bw.rx, c.bw.tx)}
    BY DEF set_trx_path_clks, Then
  <1> QED BY <1>1, ClocksThenBandwidth

\* The filters.
LEMMA LoadCoefKept ==
  ASSUME NEW x, Shape(x), NEW p, NEW cfg PROVE Kept(x, load_fir_filter_coef(x, p, cfg))
  <1> DEFINE a == ensm_force_state(x, "ALERT")
             b == [a EXCEPT !.fir.taps[p] = cfg.taps,
                            !.fir.chip[p] = [taps |-> cfg.taps, dest |-> cfg.dest]]
             c == ensm_restore_prev_state(b)
  <1>1. load_fir_filter_coef(x, p, cfg) \in {Return(x, EINVAL), Ok(c)}
    BY DEF load_fir_filter_coef
  <1>2. Still(x, a) /\ Shape(a) /\ a.trk = x.trk /\ a.en = Forced(x.en)
    BY ForceIs
  <1> HIDE DEF a
  <1>3. Quiet(a, b)
    BY <1>2 DEF Quiet, Still, SameSynth, Shape, Fields
  <1> HIDE DEF b
  <1>4. Still(x, b) /\ Shape(b) /\ b.trk = x.trk /\ b.en = Forced(x.en)
    BY <1>2, <1>3, StillTrans, QuietShape
  <1>5. Still(b, c) /\ Shape(c) /\ c.trk = b.trk /\ Held(x, c)
    <2>1. b.pd.fdd = x.pd.fdd
      BY <1>4 DEF Still
    <2> QED BY <1>4, <2>1, Bracket
  <1> HIDE DEF c
  <1>6. Kept(x, c)
    BY <1>4, <1>5, StillTrans DEF Kept, Returns
  <1>7. Kept(x, Ok(c))
    BY <1>5, <1>6, OkQuiet, QuietKept, KeptTrans
  <1> QED BY <1>1, <1>7, ReturnQuiet, QuietKept

LEMMA FirConfigKept ==
  ASSUME NEW x, Shape(x), NEW cfg
  PROVE  Kept(x, set_rx_fir_config(x, cfg)) /\ Kept(x, set_tx_fir_config(x, cfg))
  <1> DEFINE a == [x EXCEPT !.fir.rxdec = cfg.factor]
             b == [x EXCEPT !.fir.txint = cfg.factor]
  <1>1. Quiet(x, a) /\ Quiet(x, b)
    BY DEF Quiet, Still, SameSynth, Shape, Fields
  <1>2. /\ set_rx_fir_config(x, cfg) = load_fir_filter_coef(a, "rx", cfg)
        /\ set_tx_fir_config(x, cfg) = load_fir_filter_coef(b, "tx", cfg)
    BY DEF set_rx_fir_config, set_tx_fir_config
  <1> HIDE DEF a, b
  <1>3. Kept(a, load_fir_filter_coef(a, "rx", cfg)) /\ Kept(b, load_fir_filter_coef(b, "tx", cfg))
    BY <1>1, QuietShape, LoadCoefKept
  <1> QED BY <1>1, <1>2, <1>3, QuietKept, KeptTrans

LEMMA FirEnableKept ==
  ASSUME NEW x, Shape(x), NEW ps, NEW on PROVE Kept(x, set_fir_en_dis(x, ps, on))
  <1>1. ASSUME NEW u, Shape(u), NEW by PROVE Quiet(u, bypass(u, ps, by))
    BY <1>1 DEF bypass, Quiet, Still, SameSynth, Shape, Fields
  <1>2. ASSUME NEW u, Shape(u), NEW c PROVE Kept(u, enable_on(u, c))
    <2> DEFINE k == set_trx_clock_chain(u, c.rx, c.tx)
    <2>1. enable_on(u, c) \in {Return(u, c.rc), Return(u, EINVAL), k,
                               update_rf_bandwidth(k, c.bw.rx, c.bw.tx)}
      BY DEF enable_on, Then
    <2> QED BY <1>2, <2>1, ReturnQuiet, QuietKept, ClocksThenBandwidth
  <1>3. ASSUME NEW u, Shape(u) PROVE Kept(u, validate_enable_fir(u))
    <2>1. validate_enable_fir(u) \in {enable_on(u, FirChain(u)), Return(u, EINVAL)}
      BY DEF validate_enable_fir
    <2> QED BY <1>2, <1>3, <2>1, ReturnQuiet, QuietKept
  <1> DEFINE a == bypass(x, ps, ~on)
             b == validate_enable_fir(a)
             c == bypass(b, ps, TRUE)
  <1>4. set_fir_en_dis(x, ps, on) \in {Ok(x), b, c}
    BY DEF set_fir_en_dis
  <1>5. Quiet(x, a)
    <2> DEFINE by == ~on
    <2>1. a = bypass(x, ps, by)
      OBVIOUS
    <2> HIDE DEF by, a
    <2> QED BY <1>1, <2>1
  <1> HIDE DEF a
  <1>6. Kept(x, b) /\ Shape(b)
    <2>1. Kept(a, b)
      BY <1>3, <1>5, QuietShape
    <2> HIDE DEF b
    <2> QED BY <1>5, <2>1, QuietKept, KeptTrans DEF Kept
  <1> HIDE DEF b
  <1>7. Quiet(b, c)
    <2> DEFINE by == TRUE
    <2>1. c = bypass(b, ps, by)
      OBVIOUS
    <2> HIDE DEF by, c
    <2> QED BY <1>1, <1>6, <2>1
  <1> HIDE DEF c
  <1>8. Kept(x, c)
    BY <1>6, <1>7, QuietKept, KeptTrans
  <1> QED BY <1>4, <1>6, <1>8, OkQuiet, QuietKept

LEMMA LoadEnableKept ==
  ASSUME NEW x, Shape(x), NEW rxcfg, NEW txcfg PROVE Kept(x, trx_load_enable_fir(x, rxcfg, txcfg))
  <1> DEFINE clks(p, cfg) == IF cfg.clks.sampl # 0 THEN cfg.clks ELSE x.fir.clks[p]
             paths == [rx |-> clks("rx", rxcfg), tx |-> clks("tx", txcfg)]
             bws == [rx |-> rxcfg.bw, tx |-> txcfg.bw]
             a == [x EXCEPT !.fir.valid = FALSE, !.fir.bw = bws, !.fir.clks = paths]
             b == set_tx_fir_config(a, txcfg)
             c == set_rx_fir_config(b, rxcfg)
             ok == rxcfg.clks.sampl # 0 /\ txcfg.clks.sampl # 0
             d == [c EXCEPT !.fir.valid = ok]
             e == set_fir_en_dis(d, {"rx", "tx"}, TRUE)
  <1>1. trx_load_enable_fir(x, rxcfg, txcfg) = Ok(e)
    BY DEF trx_load_enable_fir
  <1> HIDE DEF paths, bws, ok
  <1>2. Quiet(x, a)
    BY DEF Quiet, Still, SameSynth, Shape, Fields
  <1> HIDE DEF a
  <1>3. Kept(a, b)
    BY <1>2, FirConfigKept, QuietShape
  <1> HIDE DEF b
  <1>4. Kept(b, c)
    BY <1>3, FirConfigKept DEF Kept
  <1> HIDE DEF c
  <1>5. Quiet(c, d)
    BY <1>4 DEF Kept, Quiet, Still, SameSynth, Shape, Fields
  <1> HIDE DEF d
  <1>6. Kept(d, e)
    <2> DEFINE ps == {"rx", "tx"}
               yes == TRUE
    <2>1. e = set_fir_en_dis(d, ps, yes)
      OBVIOUS
    <2> HIDE DEF ps, yes, e
    <2> QED BY <1>5, <2>1, FirEnableKept, QuietShape
  <1> HIDE DEF e
  <1>7. Kept(e, Ok(e))
    BY <1>6, OkQuiet, QuietKept DEF Kept
  <1>8. Kept(x, c)
    BY <1>2, <1>3, <1>4, QuietKept, KeptTrans
  <1>9. Kept(x, e)
    BY <1>5, <1>6, <1>8, QuietKept, KeptTrans
  <1> QED BY <1>1, <1>7, <1>9, KeptTrans

\* Gain, attenuation, ports.
LEMMA GainsQuiet ==
  ASSUME NEW x, Shape(x), NEW ch, NEW g
  PROVE  Quiet(x, set_rx_rf_gain(x, ch, g)) /\ Quiet(x, set_tx_attenuation(x, ch, g))
  <1>1. ASSUME NEW c, NEW i
        PROVE  Quiet(x, Ok([x EXCEPT !.gain.idx[c] = i]))
    BY DEF Ok, Return, Quiet, Still, SameSynth, Shape, Fields
  <1>2. ASSUME NEW c PROVE Quiet(x, set_rx_gain(x, c, g))
    <2> DEFINE i == find_table_index(gt(x), g)
    <2>1. set_rx_gain(x, c, g) \in {Return(x, EINVAL), Return(x, EOPNOTSUPP), Return(x, i),
                                    Ok([x EXCEPT !.gain.idx[c] = i])}
      BY DEF set_rx_gain, set_full_table_gain
    <2> HIDE DEF i
    <2> QED BY <1>1, <2>1, ReturnQuiet, SMTT(30)
  <1> QED BY <1>2 DEF set_rx_rf_gain, set_tx_attenuation, set_tx_atten, Ok, Return,
                      Quiet, Still, SameSynth, Shape, Fields

LEMMA AttenQuiet ==
  ASSUME NEW x, Shape(x), NEW mdb, NEW chans PROVE Quiet(x, set_tx_atten(x, mdb, chans))
  <1> DEFINE chip == [ch \in {1, 2} |-> IF ch \in chans THEN AttenWord(mdb) ELSE x.att.chip[ch]]
             z == [x EXCEPT !.att.chip = chip]
  <1>1. set_tx_atten(x, mdb, chans) \in {Return(x, EINVAL), Ok(z)}
    BY DEF set_tx_atten
  <1> HIDE DEF chip
  <1>2. Quiet(x, z)
    BY DEF Quiet, Still, SameSynth, Shape, Fields
  <1> HIDE DEF z
  <1> QED BY <1>1, <1>2, ReturnQuiet, OkQuiet, QuietShape, QuietTrans

LEMMA MuteQuiet ==
  ASSUME NEW x, Shape(x), NEW on \in BOOLEAN PROVE Quiet(x, tx_mute(x, on))
  <1> DEFINE att == [ch \in {1, 2} |-> get_tx_atten(x, ch)]
             kept == [x EXCEPT !.att.cached = att]
             first == set_tx_atten(x, x.att.cached[1], {1})
  <1>1. tx_mute(x, on) \in {set_tx_atten(kept, MaxAtten, {1, 2}),
          set_tx_atten(x, x.att.cached[1], {1, 2}), set_tx_atten(first, x.att.cached[2], {2})}
    <2>1. CASE on
      BY <2>1 DEF tx_mute
    <2>2. CASE ~on
      BY <2>2 DEF tx_mute
    <2> QED BY <2>1, <2>2
  <1> HIDE DEF att
  <1>2. Quiet(x, kept) /\ Quiet(x, first)
    <2>1. Quiet(x, kept)
      BY DEF Quiet, Still, SameSynth, Shape, Fields
    <2> QED BY <2>1, AttenQuiet
  <1> HIDE DEF kept, first
  <1> QED BY <1>1, <1>2, AttenQuiet, QuietShape, QuietTrans

LEMMA GainModeQuiet ==
  ASSUME NEW x, Shape(x), NEW ch, NEW mode PROVE Quiet(x, set_rx_gain_control_mode(x, ch, mode))
  <1> DEFINE a == [x EXCEPT !.gain.agc[ch + 1] = mode]
             c == channel_map(x, FALSE, ch + 1)
             b == [a EXCEPT !.gain.mode[c] = mode, !.gain.hybrid = mode = "hybrid",
                            !.gain.rxen = @ \cup {c}]
             g == gc_update(b)
  <1>1. set_rx_gain_control_mode(x, ch, mode) \in {Ok(Return(a, EINVAL)), Ok(g)}
    BY DEF set_rx_gain_control_mode, set_gain_ctrl_mode
  <1>2. Quiet(x, a)
    BY DEF Quiet, Still, SameSynth, Shape, Fields
  <1> HIDE DEF a, c
  <1>3. Quiet(a, b)
    BY <1>2 DEF Quiet, Still, SameSynth, Shape, Fields
  <1> HIDE DEF b
  <1>4. Quiet(b, g)
    BY <1>3 DEF gc_update, Ok, Return, Quiet, Still, SameSynth, Shape, Fields
  <1> HIDE DEF g
  <1>5. Quiet(x, Ok(g))
    BY <1>2, <1>3, <1>4, OkQuiet, QuietShape, QuietTrans
  <1>6. Quiet(x, Ok(Return(a, EINVAL)))
    <2>1. Quiet(x, Return(a, EINVAL))
      BY <1>2, ReturnQuiet, QuietShape, QuietTrans
    <2> QED BY <2>1, OkQuiet, QuietShape, QuietTrans
  <1> QED BY <1>1, <1>5, <1>6

LEMMA PortQuiet ==
  ASSUME NEW u, Shape(u), NEW out \in BOOLEAN, NEW rx, NEW tx
  PROVE  Quiet(u, rf_port_setup(u, out, rx, tx))
  <1> DEFINE set == IF rx > 8 THEN {c \in {1, 2} : (rx \div c) % 2 = 1} ELSE {}
             mon == IF out THEN u ELSE txmon_control(u, set)
             val == (IF rx < 3 THEN 3 * 2^(rx * 2) ELSE 2^(rx - 3)) + (IF tx # 0 THEN 64 ELSE 0)
             z == [mon EXCEPT !.port.select = val]
  <1>1. rf_port_setup(u, out, rx, tx) \in {Return(u, EINVAL), Ok(mon), Ok(z)}
    BY DEF rf_port_setup
  <1> HIDE DEF set, val
  <1>2. Quiet(u, mon)
    BY <1>1, QuietSelf DEF txmon_control, Quiet, Still, SameSynth, Shape, Fields
  <1> HIDE DEF mon
  <1>3. Quiet(mon, z)
    BY <1>2 DEF Quiet, Still, SameSynth, Shape, Fields
  <1> HIDE DEF z
  <1> QED BY <1>1, <1>2, <1>3, ReturnQuiet, OkQuiet, QuietShape, QuietTrans

LEMMA PortsQuiet ==
  ASSUME NEW x, Shape(x), NEW mode
  PROVE  /\ Quiet(x, set_rx_rf_port_input(x, mode)) /\ Quiet(x, set_tx_rf_port_output(x, mode))
  <1> DEFINE a == [x EXCEPT !.port.rx = mode]
             b == [x EXCEPT !.port.tx = mode]
             yes == TRUE
             no == FALSE
  <1>2. Quiet(x, a) /\ Quiet(x, b)
    BY DEF Quiet, Still, SameSynth, Shape, Fields
  <1>3. /\ set_rx_rf_port_input(x, mode) = rf_port_setup(a, no, mode, x.port.tx)
        /\ set_tx_rf_port_output(x, mode) = rf_port_setup(b, yes, x.port.rx, mode)
        /\ yes \in BOOLEAN /\ no \in BOOLEAN
    BY DEF set_rx_rf_port_input, set_tx_rf_port_output
  <1> HIDE DEF a, b, yes, no
  <1>4. Quiet(a, rf_port_setup(a, no, mode, x.port.tx)) /\ Quiet(b, rf_port_setup(b, yes, x.port.rx, mode))
    BY <1>2, <1>3, QuietShape, PortQuiet
  <1> QED BY <1>2, <1>3, <1>4, QuietTrans

LEMMA DcxoQuiet ==
  ASSUME NEW x, Shape(x), NEW coarse PROVE Quiet(x, Ok([x EXCEPT !.dcxo[1] = coarse]))
  BY DEF Ok, Return, Quiet, Still, SameSynth, Shape, Fields

\* What is tracked, and the measurement of the gain steps.
LEMMA TrackKept ==
  ASSUME NEW x, Shape(x), NEW which, NEW on PROVE Kept(x, set_track_en_dis(x, which, on))
  <1> DEFINE want == IF on THEN x.trk.want \cup {which} ELSE x.trk.want \ {which}
             z == [x EXCEPT !.trk.want = want]
             y == tracking_control(z, want)
  <1>1. set_track_en_dis(x, which, on) \in {Ok(x), y}
    BY DEF set_track_en_dis
  <1> HIDE DEF want
  <1>2. Still(x, y) /\ Shape(y) /\ y.trk.chip = y.trk.want /\ y.en = x.en
    BY DEF tracking_control, Ok, Return, Still, SameSynth, Shape, Fields
  <1> HIDE DEF y
  <1>3. Kept(x, y)
    BY <1>2 DEF Kept, Returns, Held, Sane, Awake, Still
  <1> QED BY <1>1, <1>3, OkQuiet, QuietKept

LEMMA GainStepKept ==
  ASSUME NEW x, Shape(x)
  PROVE  Kept(x, Ok(ensm_restore_prev_state(ensm_force_state(x, "ALERT"))))
  <1> DEFINE a == ensm_force_state(x, "ALERT")
             b == ensm_restore_prev_state(a)
  <1>1. Still(x, a) /\ Shape(a) /\ a.trk = x.trk /\ a.en = Forced(x.en)
    BY ForceIs
  <1> HIDE DEF a
  <1>2. Still(a, b) /\ Shape(b) /\ b.trk = a.trk /\ Held(x, b)
    <2>1. a.pd.fdd = x.pd.fdd
      BY <1>1 DEF Still
    <2> QED BY <1>1, <2>1, Bracket
  <1> HIDE DEF b
  <1>3. Kept(x, b)
    BY <1>1, <1>2, StillTrans DEF Kept, Returns
  <1> QED BY <1>2, <1>3, OkQuiet, QuietKept, KeptTrans DEF a, b

-----------------------------------------------------------------------------
(* The calls, of both kinds: what they do to the two fastlocks is a step of   *)
(* Fastlock, or none.                                                         *)
Fresh(f) == \E a \in AlcWords, r, v \in BOOLEAN :
              f = [NoFastlock EXCEPT !.alc = a, !.ready = r, !.vcocal = v]

FlStep(f, g) ==
  \/ Retuned(f, g) \/ Fresh(g)
  \/ \E k \in Profiles, freq \in LoWords, w \in Words : g = Load(f, k, freq, w)
  \/ \E k \in Profiles, freq \in LoWords : g = Store(f, k, freq)
  \/ \E k \in Profiles : f.entry[k].init /\ g = Recall(f, k)
  \/ \E v \in BOOLEAN : g = [f EXCEPT !.vcocal = v] \/ g = [f EXCEPT !.ready = v]

\* Of the platform data no call changes these.
SamePd(x, y) == /\ y.pd.managed = x.pd.managed /\ y.pd.fdd = x.pd.fdd
                /\ y.pd.synth = x.pd.synth /\ y.pd.dev = x.pd.dev

Moved(x, y) == /\ Shape(y) /\ SynthsOk(y) /\ SamePd(x, y)
               /\ \A p \in Sides : FlStep(x.lo[p].fl, y.lo[p].fl)
               /\ Tables(x, y) /\ QuadStep(x, y)
Fine(x, y) == Moved(x, y) /\ (Converges(x) => Returns(x, y)) /\ y.autocal = x.autocal

LEMMA KeptFine ==
  ASSUME NEW x, Shape(x), SynthsOk(x), NEW y, Kept(x, y) PROVE Fine(x, y)
  <1>1. /\ Base(x, y) /\ SynthsOk(y) /\ \A p \in Sides : y.lo[p].fl = x.lo[p].fl
        /\ SameTables(x, y)
    BY StillIsBase DEF Kept
  <1>2. \A p \in Sides : FlStep(x.lo[p].fl, y.lo[p].fl)
    BY <1>1 DEF FlStep, Retuned
  <1>3. QuadStep(x, y)
    BY StillTx DEF Kept
  <1> QED BY <1>1, <1>2, <1>3 DEF Kept, Fine, Moved, SamePd, Base, SameTables, Tables

LEMMA SetLoFine ==
  ASSUME NEW x, Shape(x), SynthsOk(x), NEW p \in Sides, NEW f \in LoFreqs
  PROVE  Fine(x, set_lo(x, p, f))
  <1> DEFINE y == set_lo(x, p, f)
  <1>1. /\ Base(x, y) /\ Shape(y) /\ SynthsOk(y) /\ Returns(x, y)
        /\ \A r \in Sides : Retuned(x.lo[r].fl, y.lo[r].fl)
        /\ Tabled(x, y) /\ QuadStep(x, y)
    BY SetLoIs
  <1> HIDE DEF y
  <1>2. \A r \in Sides : FlStep(x.lo[r].fl, y.lo[r].fl)
    BY <1>1 DEF FlStep
  <1>3. Fine(x, y)
    BY <1>1, <1>2, TabledTrans DEF Fine, Moved, SamePd, Base
  <1> QED BY <1>3 DEF y

\* The platform data for an external LO.
LEMMA IntExtFine ==
  ASSUME NEW x, Shape(x), SynthsOk(x), NEW p \in Sides, NEW ext \in BOOLEAN
  PROVE  Fine(x, set_lo_int_ext(x, p, ext))
  <1> DEFINE a == [x EXCEPT !.pd.ext[p] = ext]
             y == clk_mux_set_parent(a, p, ext)
  <1>1. set_lo_int_ext(x, p, ext) \in {Return(x, -1), y}
    BY DEF set_lo_int_ext
  <1>2. /\ Shape(a) /\ SynthsOk(a) /\ SamePd(x, a) /\ a.en = x.en /\ a.trk = x.trk
        /\ a.lo = x.lo /\ a.qc = x.qc /\ a.autocal = x.autocal
        /\ a.pd.ext[p] = ext /\ \A r \in Sides \ {p} : a.pd.ext[r] = x.pd.ext[r]
    BY DEF Shape, Fields, SynthsOk, SynthOk, SamePd, default_init_param
  <1> HIDE DEF a
  <1>3. /\ Base(a, y) /\ Shape(y) /\ SynthsOk(y) /\ y.trk = a.trk /\ Held(a, y)
        /\ y.lo[p].fl = [a.lo[p].fl EXCEPT !.ready = ext]
        /\ \A r \in Sides \ {p} : SameSynth(a.lo[r], y.lo[r])
        /\ SameTables(a, y) /\ Muxed(a, y, p, ext)
    BY <1>2, MuxIs
  <1> HIDE DEF y
  <1>4. Returns(x, y) /\ SamePd(x, y)
    BY <1>2, <1>3 DEF Returns, Held, Sane, Awake, SamePd, Base
  <1>5. \A r \in Sides : FlStep(x.lo[r].fl, y.lo[r].fl)
    BY <1>2, <1>3 DEF FlStep, Retuned, SameSynth
  <1>8. TxAt(x) => TxAt(y)
    <2>1. CASE p = "tx"
      <3>1. TxWord(x) => TxWord(a)
        BY <1>2 DEF TxWord, SamePd, validate_rfpll
      <3> QED BY <1>2, <1>3, <2>1, <3>1 DEF Muxed, TxAt
    <2>2. CASE p # "tx"
      <3>1. TxSame(x, a)
        BY <1>2, <2>2 DEF TxSame, SamePd, Sides
      <3> QED BY <1>3, <2>2, <3>1, TxKept DEF Muxed
    <2> QED BY <2>1, <2>2
  <1>9. QuadStep(x, y)
    <2>1. y.lo.tx.cur = x.lo.tx.cur /\ y.qc.freq = x.qc.freq /\ y.pd.dev = x.pd.dev
      BY <1>2, <1>3, <1>4 DEF Muxed, SameTables, SameLos, SamePd, Sides
    <2> QED BY <1>8, <2>1, NearKept DEF QuadStep
  <1>6. Fine(x, y)
    BY <1>2, <1>3, <1>4, <1>5, <1>9 DEF Fine, Moved, SameTables, SameLos, Tables, Base
  <1>7. Fine(x, Return(x, -1))
    BY ReturnQuiet, QuietKept, KeptFine
  <1> QED BY <1>1, <1>6, <1>7

\* The fastlock of one synthesizer is replaced by a step of its own.
LEMMA LockFine ==
  ASSUME NEW x, Shape(x), SynthsOk(x), NEW p \in Sides, NEW g, LockShape(g),
         FlStep(x.lo[p].fl, g)
  PROVE  Fine(x, Ok(WithLock(x, p, g)))
  <1> DEFINE z == WithLock(x, p, g)
             y == Ok(z)
  <1>0. z = WithLock(x, p, g)
    OBVIOUS
  <1> HIDE DEF z
  <1>1. /\ Rest(x, z) /\ Shape(z) /\ z.lo[p].fl = g /\ z.lo[p].reg = x.lo[p].reg
        /\ z.lo[p].div = x.lo[p].div /\ z.lo[p].cur = x.lo[p].cur
        /\ \A q \in Sides \ {p} : SameSynth(x.lo[q], z.lo[q])
        /\ SameTables(x, z)
    BY <1>0, LockFieldIs
  <1>2. SynthsOk(z) /\ Returns(x, z)
    BY <1>1, RestReturns DEF SynthsOk, SynthOk, SameSynth, Rest
  <1>3. Quiet(z, y)
    BY <1>1, OkQuiet
  <1> HIDE DEF y
  <1>4. /\ Base(z, y) /\ Shape(y) /\ SynthsOk(y) /\ \A q \in Sides : y.lo[q].fl = z.lo[q].fl
        /\ SameTables(z, y)
    BY <1>2, <1>3, StillIsBase, QuietShape
  <1>5. Returns(x, y)
    BY <1>2, <1>3, QuietReturns, ReturnsTrans
  <1>6. \A q \in Sides : FlStep(x.lo[q].fl, y.lo[q].fl)
    BY <1>1, <1>4, SMTT(30) DEF FlStep, Retuned, SameSynth
  <1>7. SamePd(x, y)
    BY <1>1, <1>4 DEF Rest, Base, SamePd
  <1>8. Tables(x, y)
    BY <1>1, <1>4 DEF SameTables, SameLos, Tables
  <1>9. QuadStep(x, y)
    <2>1. TxSame(x, z) /\ z.qc.freq = x.qc.freq
      BY <1>1 DEF Rest, Base, TxSame, SameSynth, Sides
    <2>2. TxSame(z, y) /\ y.qc.freq = z.qc.freq
      BY <1>3, StillTx DEF Quiet, Still
    <2>3. TxSame(x, y)
      BY <2>1, <2>2 DEF TxSame
    <2> QED BY <2>1, <2>2, <2>3, TxKept
  <1> QED BY <1>0, <1>1, <1>4, <1>5, <1>6, <1>7, <1>8, <1>9 DEF Fine, Moved, Rest, Base, y

\* The calls on the profiles; what is loaded was saved.
LEMMA FastlockFine ==
  ASSUME NEW x, Shape(x), SynthsOk(x), NEW p \in Sides, NEW k \in Profiles, NEW j \in Profiles,
         x.lo[p].fl.mem[j].freq \in LoWords, x.lo[p].fl.mem[j].word \in Words
  PROVE  /\ Fine(x, fastlock_store(x, p, k)) /\ Fine(x, fastlock_recall(x, p, k))
         /\ Fine(x, fastlock_load(x, p, k, fastlock_save(x, p, j)))
  <1> DEFINE f == x.lo[p].fl
             reg == x.lo[p].reg
             a == Store(f, k, reg)
             b == Recall(f, k)
             c == Load(f, k, f.mem[j].freq, f.mem[j].word)
  <1>1. LockShape(f) /\ reg \in LoWords
    BY DEF Shape, SynthsOk, SynthOk
  <1>2. fastlock_store(x, p, k) = Ok(WithLock(x, p, a))
    BY DEF fastlock_store, WithLock
  <1>3. fastlock_recall(x, p, k) \in {Return(x, EINVAL), Ok(WithLock(x, p, b))}
    BY DEF fastlock_recall, WithLock
  <1>4. fastlock_load(x, p, k, fastlock_save(x, p, j)) = Ok(WithLock(x, p, c))
    BY DEF fastlock_load, fastlock_save, WithLock
  <1>5. LockShape(a) /\ LockShape(c)
    BY <1>1 DEF Store, Load, LockShape, LockFields
  <1>6. LockShape(b)
    BY <1>1 DEF Recall, Enter, WriteWord, LockShape, LockFields
  <1>7. FlStep(f, a) /\ FlStep(f, c)
    BY <1>1 DEF FlStep
  <1>8. f.entry[k].init => FlStep(f, b)
    BY DEF FlStep
  <1> HIDE DEF f, a, b, c
  <1>9. Fine(x, Ok(WithLock(x, p, a))) /\ Fine(x, Ok(WithLock(x, p, c)))
    BY <1>5, <1>7, LockFine DEF f
  <1>10. Fine(x, fastlock_recall(x, p, k))
    <2>1. CASE f.entry[k].init
      <3>1. Fine(x, Ok(WithLock(x, p, b)))
        BY <1>6, <1>8, <2>1, LockFine DEF f
      <3> QED BY <1>3, <3>1, ReturnQuiet, QuietKept, KeptFine
    <2>2. CASE ~f.entry[k].init
      <3>1. fastlock_recall(x, p, k) = Return(x, EINVAL)
        BY <2>2 DEF fastlock_recall, f
      <3> QED BY <3>1, ReturnQuiet, QuietKept, KeptFine
    <2> QED BY <2>1, <2>2
  <1> QED BY <1>2, <1>4, <1>9, <1>10

\* The calls that change a field the theorems do not speak of.
LEMMA FieldFine ==
  ASSUME NEW x, Shape(x), SynthsOk(x), NEW on, NEW gov
  PROVE  /\ LET y == Ok([x EXCEPT !.autocal = on])
            IN Moved(x, y) /\ Returns(x, y) /\ y.autocal = on
         /\ Fine(x, Ok([x EXCEPT !.pd.gov = gov]))
  <1>1. ASSUME NEW y, Shape(y), y.lo = x.lo, y.en = x.en, y.trk = x.trk, SamePd(x, y),
               y.qc = x.qc, y.pd.ext = x.pd.ext
        PROVE  Moved(x, y) /\ Returns(x, y)
    <2>1. TxSame(x, y)
      BY <1>1 DEF TxSame, SamePd
    <2>2. QuadStep(x, y)
      BY <1>1, <2>1, TxKept
    <2> QED BY <1>1, <2>2 DEF Moved, SynthsOk, SynthOk, FlStep, Retuned, Returns, Held, Sane,
                              Awake, SamePd, Tables, SameLos
  <1> DEFINE a == Ok([x EXCEPT !.autocal = on])
             b == Ok([x EXCEPT !.pd.gov = gov])
  <1>2. /\ Shape(a) /\ a.lo = x.lo /\ a.en = x.en /\ a.trk = x.trk /\ SamePd(x, a)
        /\ a.qc = x.qc /\ a.pd.ext = x.pd.ext /\ a.autocal = on
    BY DEF Ok, Return, Shape, Fields, SamePd
  <1>3. /\ Shape(b) /\ b.lo = x.lo /\ b.en = x.en /\ b.trk = x.trk /\ SamePd(x, b)
        /\ b.qc = x.qc /\ b.pd.ext = x.pd.ext /\ b.autocal = x.autocal
    BY DEF Ok, Return, Shape, Fields, SamePd, default_init_param
  <1> HIDE DEF a, b
  <1>4. Moved(x, a) /\ Returns(x, a) /\ Moved(x, b) /\ Returns(x, b)
    BY <1>1, <1>2, <1>3
  <1> QED BY <1>2, <1>3, <1>4 DEF a, b, Fine

LEMMA CalibFine ==
  ASSUME NEW x, Shape(x), SynthsOk(x), NEW cal, NEW arg PROVE Fine(x, do_calib_run(x, cal, arg))
  BY CalibRun, KeptFine DEF Kept

LEMMA PowerFine ==
  ASSUME NEW x, Shape(x), SynthsOk(x), NEW rx, NEW tx PROVE Fine(x, synth_lo_powerdown(x, rx, tx))
  BY PowerdownQuiet, QuietKept, KeptFine

-----------------------------------------------------------------------------
(* The calls that are about the state machine.                                *)
VcoOnly(f, g) == g = f \/ \E v \in BOOLEAN : g = [f EXCEPT !.vcocal = v]

\* They change the state machine and the VCO calibrations, and end in a state of the
\* duplex mode.
Turned(x, y) == /\ Shape(y) /\ SamePd(x, y) /\ y.trk = x.trk /\ y.autocal = x.autocal
                /\ y.pd.ext = x.pd.ext /\ y.qc.freq = x.qc.freq
                /\ \A p \in Sides : /\ VcoOnly(x.lo[p].fl, y.lo[p].fl)
                                    /\ y.lo[p].reg = x.lo[p].reg /\ y.lo[p].div = x.lo[p].div
                                    /\ y.lo[p].cur = x.lo[p].cur /\ y.lo[p].tdd = x.lo[p].tdd

LEMMA TurnedTrans ==
  ASSUME NEW x, Shape(x), NEW y, NEW z, Turned(x, y), Turned(y, z)
  PROVE  Turned(x, z)
  <1>1. ASSUME NEW f, NEW g, NEW h, VcoOnly(f, g), VcoOnly(g, h), LockShape(f)
        PROVE  VcoOnly(f, h)
    <2>1. CASE g = f \/ h = g
      BY <1>1, <2>1 DEF VcoOnly
    <2>2. CASE g # f /\ h # g
      <3>1. PICK v \in BOOLEAN : g = [f EXCEPT !.vcocal = v]
        BY <1>1, <2>2 DEF VcoOnly
      <3>2. PICK w \in BOOLEAN : h = [g EXCEPT !.vcocal = w]
        BY <1>1, <2>2 DEF VcoOnly
      <3>3. h = [f EXCEPT !.vcocal = w]
        BY <1>1, <3>1, <3>2 DEF LockShape, LockFields
      <3> QED BY <3>3 DEF VcoOnly
    <2> QED BY <2>1, <2>2
  <1> QED BY <1>1 DEF Turned, SamePd, Shape

LEMMA TurnedMoved ==
  ASSUME NEW x, SynthsOk(x), NEW y, Turned(x, y) PROVE Moved(x, y)
  <1>1. TxSame(x, y) /\ y.qc.freq = x.qc.freq
    BY DEF Turned, TxSame, SamePd, Sides
  <1>2. QuadStep(x, y)
    BY <1>1, TxKept
  <1> QED BY <1>2 DEF Turned, Moved, SynthsOk, SynthOk, FlStep, Retuned, VcoOnly, Tables, SameLos

LEMMA QuietTurned ==
  ASSUME NEW x, NEW y, Still(x, y), y.trk = x.trk PROVE Turned(x, y)
  BY DEF Still, SameSynth, Turned, SamePd, VcoOnly

\* The VCO calibrations of both.
LEMMA VcoBothIs ==
  ASSUME NEW x, Shape(x), NEW v \in BOOLEAN,
         NEW y, y = trx_vco_cal_control(trx_vco_cal_control(x, "rx", v), "tx", v)
  PROVE  Turned(x, y) /\ y.en = x.en /\ y.rc = x.rc /\ y.pd = x.pd
  <1> DEFINE rx == "rx"
             tx == "tx"
             a == trx_vco_cal_control(x, rx, v)
  <1>0. rx \in Sides /\ tx \in Sides /\ rx # tx /\ Sides = {rx, tx}
    BY DEF Sides
  <1>1. a = trx_vco_cal_control(x, rx, v) /\ y = trx_vco_cal_control(a, tx, v)
    OBVIOUS
  <1> HIDE DEF rx, tx, a
  <1>2. /\ Rest(x, a) /\ Shape(a) /\ a.rc = x.rc
        /\ a.lo[rx].fl = [x.lo[rx].fl EXCEPT !.vcocal = v] /\ a.lo[rx].reg = x.lo[rx].reg
        /\ a.lo[rx].div = x.lo[rx].div /\ a.lo[rx].cur = x.lo[rx].cur
        /\ \A q \in Sides \ {rx} : SameSynth(x.lo[q], a.lo[q])
        /\ SameTables(x, a)
    BY <1>0, <1>1, VcoCalIs
  <1>3. /\ Rest(a, y) /\ Shape(y) /\ y.rc = a.rc
        /\ y.lo[tx].fl = [a.lo[tx].fl EXCEPT !.vcocal = v] /\ y.lo[tx].reg = a.lo[tx].reg
        /\ y.lo[tx].div = a.lo[tx].div /\ y.lo[tx].cur = a.lo[tx].cur
        /\ \A q \in Sides \ {tx} : SameSynth(a.lo[q], y.lo[q])
        /\ SameTables(a, y)
    BY <1>0, <1>1, <1>2, VcoCalIs
  <1>4. \A p \in Sides : /\ VcoOnly(x.lo[p].fl, y.lo[p].fl) /\ y.lo[p].reg = x.lo[p].reg
                         /\ y.lo[p].div = x.lo[p].div /\ y.lo[p].cur = x.lo[p].cur
                         /\ y.lo[p].tdd = x.lo[p].tdd
    BY <1>0, <1>2, <1>3 DEF SameSynth, VcoOnly, SameTables
  <1> QED BY <1>2, <1>3, <1>4 DEF Rest, Base, Turned, SamePd

\* Out of SLEEP into ALERT; a radio whose clocks are on stays where it is.
LEMMA WakeIs ==
  ASSUME NEW x, Shape(x), NEW y, y = Wake(x)
  PROVE  /\ Turned(x, y) /\ y.pd = x.pd
         /\ y.en.fdd = x.en.fdd /\ y.en.curr = x.en.curr
         /\ x.en.curr # "SLEEP" => y = x
         /\ x.en.curr = "SLEEP" => y.en.clocks /\ y.en.dev = "ALERT"
  <1>1. CASE x.en.curr # "SLEEP"
    <2>1. y = x
      BY <1>1 DEF Wake
    <2> QED BY <1>1, <2>1, QuietSelf, QuietTurned DEF Quiet
  <1>2. CASE x.en.curr = "SLEEP"
    <2> DEFINE on == [x EXCEPT !.en.clocks = TRUE]
               a == Config1(on, "ALERT", FALSE)
               yes == TRUE
    <2>1. yes \in BOOLEAN /\ y = trx_vco_cal_control(trx_vco_cal_control(a, "rx", yes), "tx", yes)
      BY <1>2 DEF Wake
    <2>2. /\ Still(x, on) /\ Shape(on) /\ on.trk = x.trk
          /\ on.en.clocks /\ on.en.fdd = x.en.fdd /\ on.en.curr = x.en.curr
      BY DEF Still, SameSynth, Shape, Fields, EnFields
    <2>3. a = Config1(on, "ALERT", FALSE)
      OBVIOUS
    <2> HIDE DEF on, a, yes
    <2>4. /\ Still(on, a) /\ Shape(a) /\ a.trk = on.trk
          /\ a.en = Unpinned(on.en, To(on, "ALERT"))
      BY <2>2, <2>3, Config1Off
    <2>5. a.en.clocks /\ a.en.fdd = x.en.fdd /\ a.en.curr = x.en.curr /\ a.en.dev = "ALERT"
      BY <2>2, <2>4 DEF Unpinned, To, Shape, EnFields
    <2>6. Turned(a, y) /\ y.en = a.en /\ y.pd = a.pd
      BY <2>1, <2>4, VcoBothIs
    <2>7. Turned(x, a)
      BY <2>2, <2>4, StillTrans, QuietTurned
    <2> QED BY <1>2, <2>2, <2>4, <2>5, <2>6, <2>7, TurnedTrans DEF Still
  <1> QED BY <1>1, <1>2

LEMMA SleepIs ==
  ASSUME NEW x, Shape(x), NEW y, y = Sleep(x)
  PROVE  /\ Turned(x, y) /\ y.rc = 0 /\ y.pd = x.pd
         /\ y.en.fdd = x.en.fdd /\ ~y.en.clocks /\ y.en.dev = "WAIT" /\ ~y.en.pin
         /\ y.en.curr = "SLEEP"
  <1> DEFINE no == FALSE
             a == trx_vco_cal_control(trx_vco_cal_control(x, "rx", no), "tx", no)
             b == [a EXCEPT !.en.pin = FALSE, !.en.dev = "WAIT",
                            !.en.clocks = FALSE, !.en.curr = "SLEEP"]
  <1>1. y = Ok(b) /\ no \in BOOLEAN
    BY DEF Sleep
  <1>2. Turned(x, a) /\ a.en = x.en /\ a.pd = x.pd
    <2>1. a = trx_vco_cal_control(trx_vco_cal_control(x, "rx", no), "tx", no) /\ no \in BOOLEAN
      OBVIOUS
    <2> HIDE DEF a, no
    <2> QED BY <2>1, VcoBothIs
  <1> HIDE DEF a
  <1>3. /\ Still(a, b) /\ Shape(b) /\ b.trk = a.trk
        /\ b.en = [a.en EXCEPT !.pin = FALSE, !.dev = "WAIT", !.clocks = FALSE, !.curr = "SLEEP"]
    BY <1>2 DEF Turned, Still, SameSynth, Shape, Fields, EnFields
  <1> HIDE DEF b
  <1>4. /\ b.en.fdd = x.en.fdd /\ ~b.en.clocks /\ b.en.dev = "WAIT" /\ ~b.en.pin
        /\ b.en.curr = "SLEEP"
    BY <1>2, <1>3 DEF Shape, EnFields
  <1>5. Quiet(b, y) /\ y.rc = 0 /\ y.en = b.en
    BY <1>1, <1>3, OkQuiet, QuietShape
  <1>6. Turned(a, b) /\ Turned(b, y)
    BY <1>3, <1>5, QuietTurned DEF Quiet
  <1>7. Turned(x, y)
    <2>1. Turned(x, b)
      BY <1>2, <1>6, TurnedTrans
    <2> QED BY <1>6, <2>1, TurnedTrans
  <1>8. y.pd = x.pd
    BY <1>2, <1>3, <1>5 DEF Still, Quiet
  <1> QED BY <1>4, <1>5, <1>7, <1>8

\* The duplex mode goes to the state machine.
LEMMA ModeIs ==
  ASSUME NEW x, Shape(x), NEW fdd, NEW pinctrl, NEW y, y = set_ensm_mode(x, fdd, pinctrl)
  PROVE  /\ Still(x, y) /\ Turned(x, y) /\ y.rc = 0
         /\ y.en.fdd = fdd /\ y.en.clocks = x.en.clocks /\ y.en.dev = x.en.dev
         /\ y.en.pin = x.en.pin /\ y.en.curr = x.en.curr
  <1> DEFINE bits == (x.en.cfg2 \cap SynthBits) \cup
                        (IF fdd THEN {"DUAL"} \cup Bit(x.pd.indep, "FDD_EXT")
                         ELSE IF x.pd.dual THEN {"DUAL"} ELSE Bit(pinctrl, "SYNTH_PIN"))
             a == [x EXCEPT !.en.fdd = fdd, !.en.cfg2 = bits]
  <1>1. y = Ok(a)
    BY DEF set_ensm_mode, Shape, EnFields
  <1> HIDE DEF bits
  <1>2. /\ Still(x, a) /\ Shape(a) /\ a.trk = x.trk
        /\ a.en.fdd = fdd /\ a.en.clocks = x.en.clocks /\ a.en.dev = x.en.dev
        /\ a.en.pin = x.en.pin /\ a.en.curr = x.en.curr
    BY DEF Still, SameSynth, Shape, Fields, EnFields
  <1> HIDE DEF a
  <1>3. Quiet(a, y) /\ y.rc = 0 /\ y.en = a.en /\ y.trk = a.trk
    BY <1>1, <1>2, OkQuiet, QuietShape
  <1>4. Still(x, y)
    BY <1>2, <1>3, StillTrans DEF Quiet
  <1> QED BY <1>2, <1>3, <1>4, QuietTurned

\* A state is asked for: from any state of the duplex mode, or asleep, the radio ends in
\* one of the duplex mode, or asleep.
LEMMA SetStateIs ==
  ASSUME NEW x, Shape(x), NEW st, NEW pinctrl, NEW y, y = ensm_set_state(x, st, pinctrl)
  PROVE  /\ Turned(x, y) /\ y.pd = x.pd
         /\ x.en.fdd = x.pd.fdd /\ (x.en.curr # "SLEEP" => x.en.clocks /\ Awake(x)) => Sane(y)
  <1> DEFINE w == Wake(x)
             force == CASE st \in {"TX", "FDD"} -> "TX" [] st = "RX" -> "RX"
                        [] st = "ALERT" -> "ALERT" [] OTHER -> "none"
             alert == Config1(w, "ALERT", pinctrl)
             via == IF Legal(w, st) THEN w ELSE alert
             bits == (via.en.cfg2 \ {"TXNRX"}) \cup Bit(st = "TX", "TXNRX")
             t == IF ~x.pd.fdd /\ ~pinctrl /\ ~x.pd.dual /\ st \in {"TX", "RX"}
                  THEN [via EXCEPT !.en.cfg2 = bits] ELSE via
             z == Config1(t, force, pinctrl)
             r == [z EXCEPT !.en.curr = st]
             From == x.en.fdd = x.pd.fdd /\ (x.en.curr # "SLEEP" => x.en.clocks /\ Awake(x))
  <1>1. y \in {Sleep(w), Return(w, EINVAL), Ok(r)}
    <2>1. t = IF ~x.pd.fdd /\ ~pinctrl /\ ~x.pd.dual /\ st \in {"TX", "RX"}
              THEN [via EXCEPT !.en.cfg2 = (@ \ {"TXNRX"}) \cup Bit(st = "TX", "TXNRX")] ELSE via
      OBVIOUS
    <2> QED BY <2>1 DEF ensm_set_state
  <1>2. w = Wake(x)
    OBVIOUS
  <1> HIDE DEF w, force
  <1>3. /\ Turned(x, w) /\ Shape(w) /\ w.pd.fdd = x.pd.fdd /\ w.pd = x.pd
        /\ From => w.en.fdd = x.pd.fdd /\ w.en.clocks /\ Awake(w)
    <2>1. /\ Turned(x, w) /\ w.pd = x.pd
          /\ w.en.fdd = x.en.fdd /\ w.en.curr = x.en.curr
          /\ x.en.curr # "SLEEP" => w = x
          /\ x.en.curr = "SLEEP" => w.en.clocks /\ w.en.dev = "ALERT"
      BY <1>2, WakeIs
    <2> QED BY <2>1 DEF Turned, SamePd, Awake
  <1>4. /\ Turned(w, via) /\ Shape(via) /\ via.en.fdd = w.en.fdd /\ via.en.clocks = w.en.clocks
        /\ via.pd.fdd = w.pd.fdd /\ via.pd = w.pd
    <2>1. alert = Config1(w, "ALERT", pinctrl)
      OBVIOUS
    <2> HIDE DEF alert
    <2>2. /\ Still(w, alert) /\ Shape(alert) /\ alert.trk = w.trk
          /\ alert.en = Pinned(w.en, pinctrl, To(w, "ALERT"))
      BY <1>3, <2>1, Config1Is
    <2>3. alert.en.fdd = w.en.fdd /\ alert.en.clocks = w.en.clocks /\ Turned(w, alert)
      BY <1>3, <2>2, QuietTurned DEF Pinned, Shape, EnFields
    <2>4. Turned(w, w)
      BY <1>3, QuietSelf, QuietTurned DEF Quiet
    <2> QED BY <1>3, <2>2, <2>3, <2>4 DEF Still
  <1> HIDE DEF via, bits
  <1>5. /\ Turned(via, t) /\ Shape(t) /\ t.en.fdd = via.en.fdd /\ t.en.clocks = via.en.clocks
        /\ t.pd.fdd = via.pd.fdd /\ t.pd = via.pd
    <2> DEFINE u == [via EXCEPT !.en.cfg2 = bits]
    <2>1. /\ Still(via, u) /\ Shape(u) /\ u.trk = via.trk /\ u.en = [via.en EXCEPT !.cfg2 = bits]
      BY <1>4 DEF Still, SameSynth, Shape, Fields, EnFields
    <2>2. t \in {u, via}
      OBVIOUS
    <2> HIDE DEF u, t
    <2>3. u.en.fdd = via.en.fdd /\ u.en.clocks = via.en.clocks /\ Turned(via, u)
      BY <1>4, <2>1, QuietTurned DEF Shape, EnFields
    <2>4. Turned(via, via)
      BY <1>4, QuietSelf, QuietTurned DEF Quiet
    <2> QED BY <1>4, <2>1, <2>2, <2>3, <2>4 DEF Still
  <1> HIDE DEF t
  <1>6. /\ Turned(t, r) /\ Shape(r) /\ r.en.fdd = t.en.fdd /\ r.en.clocks = t.en.clocks
        /\ r.pd.fdd = t.pd.fdd /\ r.pd = t.pd /\ r.en.dev = To(t, force)
    <2>1. z = Config1(t, force, pinctrl)
      OBVIOUS
    <2> HIDE DEF z
    <2>2. /\ Still(t, z) /\ Shape(z) /\ z.trk = t.trk /\ z.en = Pinned(t.en, pinctrl, To(t, force))
      BY <1>5, <2>1, Config1Is
    <2>3. /\ Still(z, r) /\ Shape(r) /\ r.trk = z.trk /\ r.en = [z.en EXCEPT !.curr = st]
      BY <2>2 DEF Still, SameSynth, Shape, Fields, EnFields
    <2> HIDE DEF r
    <2>4. r.en.fdd = t.en.fdd /\ r.en.clocks = t.en.clocks /\ r.en.dev = To(t, force)
      BY <1>5, <2>2, <2>3 DEF Pinned, Shape, EnFields
    <2>5. Still(t, r) /\ Turned(t, r)
      BY <2>2, <2>3, StillTrans, QuietTurned
    <2> QED BY <2>3, <2>4, <2>5 DEF Still
  <1> HIDE DEF r
  <1>7. Turned(x, r)
    <2>1. Turned(x, via)
      BY <1>3, <1>4, TurnedTrans
    <2>2. Turned(x, t)
      BY <1>5, <2>1, TurnedTrans
    <2> QED BY <1>6, <2>2, TurnedTrans
  <1>8. From => Sane(r)
    <2> SUFFICES ASSUME From PROVE Sane(r)
      OBVIOUS
    <2>1. t.en.clocks /\ t.en.fdd = x.pd.fdd /\ r.pd.fdd = x.pd.fdd
      BY <1>3, <1>4, <1>5, <1>6
    <2>2. force \in {"TX", "RX", "ALERT", "none"}
      BY DEF force
    <2>3. r.en.dev = To(t, force) /\ r.en.clocks /\ r.en.fdd = x.pd.fdd
      BY <1>6, <2>1
    <2> QED BY <2>1, <2>2, <2>3 DEF Sane, Awake, To
  <1> HIDE DEF From
  <1>9. CASE y = Ok(r)
    <2>1. Quiet(r, y)
      BY <1>6, <1>9, OkQuiet
    <2>2. Turned(r, y) /\ (Sane(r) => Sane(y))
      BY <2>1, QuietTurned, QuietReturns DEF Quiet, Returns, Held
    <2>3. y.pd = x.pd
      BY <1>3, <1>4, <1>5, <1>6, <2>1 DEF Quiet, Still
    <2> QED BY <1>7, <1>8, <2>2, <2>3, TurnedTrans DEF From
  <1>10. CASE y = Return(w, EINVAL)
    <2>1. Quiet(w, y)
      BY <1>3, <1>10, ReturnQuiet
    <2>2. Turned(w, y) /\ y.en = w.en /\ y.pd = w.pd
      BY <2>1, QuietTurned DEF Quiet, Still
    <2>3. From => Sane(y)
      BY <1>3, <2>2 DEF Sane, Awake
    <2> QED BY <1>3, <2>2, <2>3, TurnedTrans DEF From
  <1>11. CASE y = Sleep(w)
    <2>1. /\ Turned(w, y) /\ y.pd = w.pd /\ y.en.fdd = w.en.fdd /\ ~y.en.clocks /\ y.en.dev = "WAIT" /\ ~y.en.pin
          /\ y.en.curr = "SLEEP"
      BY <1>3, <1>11, SleepIs
    <2>2. From => Sane(y)
      BY <1>3, <2>1 DEF Sane, Turned, SamePd
    <2> QED BY <1>3, <2>1, <2>2, TurnedTrans DEF From
  <1> QED BY <1>1, <1>9, <1>10, <1>11

\* The calls themselves.
LEMMA EnModeIs ==
  ASSUME NEW x, Shape(x), NEW mode, NEW y, y = set_en_state_machine_mode(x, mode)
  PROVE  Turned(x, y) /\ (Sane(x) => Sane(y))
  <1> DEFINE pinctrl == mode = "PINCTRL"
             st == CASE mode \in {"WAIT", "PINCTRL"} -> "WAIT"
                     [] mode = "FDD_INDEP" -> "FDD"
                     [] OTHER -> mode
             indep == mode = "FDD_INDEP"
             m == [x EXCEPT !.pd.indep = indep]
             a == set_ensm_mode(m, x.pd.fdd, pinctrl)
             b == ensm_set_state(a, st, pinctrl)
  <1>1. y \in {Return(m, EINVAL), b}
    BY DEF set_en_state_machine_mode
  <1>0. a = set_ensm_mode(m, x.pd.fdd, pinctrl) /\ b = ensm_set_state(a, st, pinctrl)
    OBVIOUS
  <1> HIDE DEF pinctrl, st, indep, a, b
  <1>2. /\ Shape(m) /\ m.lo = x.lo /\ m.en = x.en /\ m.trk = x.trk /\ SamePd(x, m)
        /\ m.autocal = x.autocal /\ m.pd.ext = x.pd.ext /\ m.qc = x.qc
    BY DEF Shape, Fields, SamePd, default_init_param
  <1> HIDE DEF m
  <1>3. Turned(x, m)
    BY <1>2 DEF Turned, VcoOnly
  <1>4. /\ Still(m, a) /\ Turned(m, a) /\ Shape(a)
        /\ a.en.fdd = x.pd.fdd /\ a.en.clocks = m.en.clocks /\ a.en.dev = m.en.dev
        /\ a.en.curr = m.en.curr
    BY <1>0, <1>2, ModeIs DEF Turned
  <1>5. /\ Turned(a, b)
        /\ a.en.fdd = a.pd.fdd /\ (a.en.curr # "SLEEP" => a.en.clocks /\ Awake(a)) => Sane(b)
    BY <1>0, <1>4, SetStateIs
  <1>6. Turned(x, b)
    BY <1>3, <1>4, <1>5, TurnedTrans
  <1>7. Sane(x) => Sane(b)
    BY <1>2, <1>4, <1>5 DEF Sane, Awake, SamePd, Still
  <1>8. CASE y = Return(m, EINVAL)
    <2>1. Quiet(m, y)
      BY <1>2, <1>8, ReturnQuiet
    <2>2. Turned(m, y) /\ y.en = x.en
      BY <1>2, <2>1, QuietTurned DEF Quiet
    <2>3. Turned(x, y)
      BY <1>3, <2>2, TurnedTrans
    <2> QED BY <2>2, <2>3 DEF Sane, Awake, Turned, SamePd
  <1> QED BY <1>1, <1>6, <1>7, <1>8

LEMMA McsIs ==
  ASSUME NEW x, Shape(x), NEW mode, NEW y, y = do_mcs(x, mode)
  PROVE  Turned(x, y) /\ (Sane(x) => Sane(y))
  <1> DEFINE a == set_en_state_machine_mode(x, "ALERT")
             bits == a.en.cfg2 \ SynthBits
             b == [a EXCEPT !.en.cfg2 = bits, !.mcsrf = TRUE]
             c == set_en_state_machine_mode(b, mode)
  <1>1. y \in {Return(x, -1), Ok(c)}
    BY DEF do_mcs, mcs
  <1>0. a = set_en_state_machine_mode(x, "ALERT") /\ c = set_en_state_machine_mode(b, mode)
    OBVIOUS
  <1> HIDE DEF a, bits, c
  <1>2. Turned(x, a) /\ (Sane(x) => Sane(a)) /\ Shape(a)
    BY <1>0, EnModeIs DEF Turned
  <1>3. /\ Still(a, b) /\ Shape(b) /\ b.trk = a.trk /\ b.en = [a.en EXCEPT !.cfg2 = bits]
    BY <1>2 DEF Still, SameSynth, Shape, Fields, EnFields
  <1>4. Turned(a, b) /\ (Sane(a) => Sane(b))
    <2>1. /\ b.en.fdd = a.en.fdd /\ b.en.clocks = a.en.clocks /\ b.en.dev = a.en.dev
          /\ b.en.pin = a.en.pin /\ b.en.curr = a.en.curr /\ b.pd = a.pd
      BY <1>2, <1>3 DEF Shape, EnFields, Still
    <2> QED BY <1>3, <2>1, QuietTurned DEF Sane, Awake
  <1> HIDE DEF b
  <1>5. Turned(b, c) /\ (Sane(b) => Sane(c)) /\ Shape(c)
    BY <1>0, <1>3, EnModeIs DEF Turned
  <1>6. Turned(x, c) /\ (Sane(x) => Sane(c))
    <2>1. Turned(x, b)
      BY <1>2, <1>4, TurnedTrans
    <2> QED BY <1>2, <1>4, <1>5, <2>1, TurnedTrans
  <1>7. ASSUME NEW u, Quiet(u, y), Turned(x, u), Sane(x) => Sane(u)
        PROVE  Turned(x, y) /\ (Sane(x) => Sane(y))
    <2>1. Turned(u, y) /\ (Sane(u) => Sane(y))
      BY <1>7, QuietTurned, QuietReturns DEF Quiet, Returns, Held
    <2> QED BY <1>7, <2>1, TurnedTrans
  <1>8. Turned(x, x)
    BY QuietSelf, QuietTurned DEF Quiet
  <1> QED BY <1>1, <1>5, <1>6, <1>7, <1>8, ReturnQuiet, OkQuiet

-----------------------------------------------------------------------------
(* Bringing the radio up.  On its way a setup meets no fastlock and does not  *)
(* calibrate the transmitter by itself.                                       *)
Set(x, y) == /\ Shape(y) /\ SynthsOk(y) /\ ~y.autocal /\ SamePd(x, y)
             /\ \A p \in Sides : Fresh(y.lo[p].fl) /\ y.pd.synth[p] \in LoFreqs
             /\ Placed(y) /\ TxAt(y) /\ Near(y)

LEMMA FreshKept ==
  ASSUME NEW f, Fresh(f)
  PROVE  /\ \A g : Retuned(f, g) => Fresh(g)
         /\ \A r \in BOOLEAN : Fresh([f EXCEPT !.ready = r])
  <1>1. PICK a \in AlcWords, r \in BOOLEAN, v \in BOOLEAN :
             f = [NoFastlock EXCEPT !.alc = a, !.ready = r, !.vcocal = v]
    BY DEF Fresh
  <1> DEFINE N(b, q, w) == [NoFastlock EXCEPT !.alc = b, !.ready = q, !.vcocal = w]
  <1>2. /\ Leave(f) = f
        /\ \A b \in AlcWords : Tune(f, b) = N(b, r, v)
        /\ \A b \in AlcWords, w \in BOOLEAN : [Tune(f, b) EXCEPT !.vcocal = w] = N(b, r, w)
        /\ \A q \in BOOLEAN : [f EXCEPT !.ready = q] = N(a, q, v)
    BY <1>1 DEF Leave, Tune, NoFastlock
  <1>3. \A b \in AlcWords, q, w \in BOOLEAN : Fresh(N(b, q, w))
    BY DEF Fresh
  <1> HIDE DEF N
  <1> QED BY <1>2, <1>3 DEF Retuned

LEMMA SetStill ==
  ASSUME NEW x, NEW y, NEW z, Set(x, y), Still(y, z) PROVE Set(x, z) /\ SameLos(y, z)
  <1>1. TxSame(y, z)
    BY StillTx
  <1>2. TxAt(z) /\ Near(z)
    BY <1>1, TxKept DEF Set, Still
  <1> QED BY <1>2 DEF Set, Still, SameSynth, SynthsOk, SynthOk, SamePd, Placed, Agree, DuplexLos,
                      SameLo, SameLos, Sides

\* What leaves the synthesizers alone and only replaces other platform data.
LEMMA SetParts ==
  ASSUME NEW x, NEW y, NEW z, Set(x, y), Shape(z), z.lo = y.lo, SamePd(y, z), z.autocal = y.autocal,
         z.pd.indep = y.pd.indep, TxAt(z), Near(z)
  PROVE  Set(x, z)
  BY DEF Set, SynthsOk, SynthOk, SamePd, Placed, Agree, DuplexLos, SameLo

LEMMA SetSame ==
  ASSUME NEW x, NEW y, NEW z, Set(x, y), Shape(z), z.lo = y.lo, SamePd(y, z), z.autocal = y.autocal,
         z.pd.indep = y.pd.indep, z.pd.ext = y.pd.ext, z.qc = y.qc
  PROVE  Set(x, z) /\ SameLos(y, z)
  <1>1. TxSame(y, z)
    BY DEF TxSame, SamePd
  <1>2. TxAt(z) /\ Near(z)
    BY <1>1, TxKept DEF Set
  <1>3. Set(x, z)
    BY <1>2, SetParts
  <1> QED BY <1>3 DEF SameLos

\* What may move the synthesizers.
LEMMA SetBase ==
  ASSUME NEW x, NEW y, NEW z, Set(x, y), Base(y, z), SynthsOk(z),
         \A p \in Sides : Fresh(z.lo[p].fl), Tabled(y, z), TxAt(z), Near(z)
  PROVE  Set(x, z)
  BY TabledTrans DEF Set, Base, SamePd

\* The clocks.
LEMMA ClocksUp ==
  ASSUME NEW x, Set(x, x), NEW y, y = SetupClocks(x)
  PROVE  Set(x, y) /\ (~(y.rc < 0) => y.en.clocks) /\ SameLos(x, y)
  <1> DEFINE bw == [rx |-> validate_rf_bw(x, x.pd.bw.rx), tx |-> validate_rf_bw(x, x.pd.bw.tx)]
             skip == x.pd.skipcal /\ ~x.pd.fdd
             pin == x.pd.pinctrl /\ ~(x.pd.fdd /\ x.pd.indep)
             pd == [x.pd EXCEPT !.bw = bw, !.skipcal = skip, !.pinctrl = pin]
             ref == ref_div_sel(x.pd.ref, Mega(70))
             a == [x EXCEPT !.pd = pd, !.dcxo = pd.dcxo, !.en.clocks = TRUE, !.clk.ref = ref]
             b == [a EXCEPT !.clk.ref = x.clk.ref, !.en.clocks = x.en.clocks]
             c == set_trx_clock_chain(a, pd.clks.rx, pd.clks.tx)
  <1>1. y \in {Return(b, EINVAL), c}
    <2>1. DOMAIN x.pd = DOMAIN default_init_param
      BY DEF Set, Shape
    <2>2. pd = [x.pd EXCEPT !.bw = [rx |-> validate_rf_bw(x, @.rx), tx |-> validate_rf_bw(x, @.tx)],
                            !.skipcal = @ /\ ~x.pd.fdd,
                            !.pinctrl = @ /\ ~(x.pd.fdd /\ x.pd.indep)]
      BY <2>1 DEF default_init_param
    <2> QED BY <2>2 DEF SetupClocks
  <1> HIDE DEF bw, skip, pin, ref
  <1>2. /\ DOMAIN pd = DOMAIN default_init_param /\ pd.ext = x.pd.ext /\ pd.managed = x.pd.managed
        /\ pd.fdd = x.pd.fdd /\ pd.synth = x.pd.synth /\ pd.indep = x.pd.indep
        /\ pd.dev = x.pd.dev
    BY DEF Set, Shape, default_init_param
  <1> HIDE DEF pd
  <1>3. /\ Shape(a) /\ a.lo = x.lo /\ SamePd(x, a) /\ a.autocal = x.autocal /\ a.en.clocks
        /\ a.pd.indep = x.pd.indep /\ a.pd.ext = x.pd.ext /\ a.qc = x.qc
    BY <1>2 DEF Set, Shape, Fields, EnFields, SamePd
  <1>4. /\ Shape(b) /\ b.lo = x.lo /\ SamePd(x, b) /\ b.autocal = x.autocal
        /\ b.pd.indep = x.pd.indep /\ b.pd.ext = x.pd.ext /\ b.qc = x.qc
    BY <1>2, <1>3 DEF Set, Shape, Fields, EnFields, SamePd
  <1> HIDE DEF a, b
  <1>5. Set(x, a) /\ Set(x, b) /\ SameLos(x, a) /\ SameLos(x, b)
    BY <1>3, <1>4, SetSame
  <1>6. Quiet(a, c)
    BY <1>3, ChainQuiet
  <1> HIDE DEF c
  <1>7. Quiet(b, Return(b, EINVAL)) /\ Return(b, EINVAL).rc = EINVAL /\ EINVAL < 0
    BY <1>4, ReturnQuiet DEF EINVAL
  <1>8. /\ Set(x, c) /\ SameLos(a, c) /\ c.en = a.en
        /\ Set(x, Return(b, EINVAL)) /\ SameLos(b, Return(b, EINVAL))
    BY <1>5, <1>6, <1>7, SetStill, QuietShape
  <1> QED BY <1>1, <1>3, <1>5, <1>7, <1>8 DEF SameLos

\* The channels and the ports.
LEMMA ChannelsUp ==
  ASSUME NEW x, NEW y, Set(x, y), NEW z, z = SetupChannels(y)
  PROVE  Set(x, z) /\ z.en = y.en /\ SameLos(y, z)
  <1> DEFINE rx == IF y.pd.rx2tx2 THEN {1, 2} ELSE {Clamp(y.pd.rxnum, 1, 2)}
             tx == IF y.pd.rx2tx2 THEN {1, 2} ELSE {Clamp(y.pd.txnum, 1, 2)}
             rxen == en_dis(y.gain.rxen, {1, 2}, rx)
             txen == en_dis(y.gain.txen, {1, 2}, tx)
             a == [y EXCEPT !.gain.rxen = rxen, !.gain.txen = txen]
             rxnum == Clamp(y.pd.rxnum, 1, 2)
             txnum == Clamp(y.pd.txnum, 1, 2)
             pd == [y.pd EXCEPT !.rxnum = rxnum, !.txnum = txnum]
             b == [a EXCEPT !.pd = pd]
             k == IF y.pd.rx2tx2 THEN a ELSE b
             yes == TRUE
             c == rf_port_setup(k, yes, y.port.rx, y.port.tx)
             d == auxadc_setup(c)
  <1>1. z \in {c, d}
    <2>0. Shape(y)
      BY DEF Set
    <2>1. a = [y EXCEPT !.gain.rxen = en_dis(@, {1, 2}, rx), !.gain.txen = en_dis(@, {1, 2}, tx)]
      BY <2>0 DEF Shape, Fields
    <2>2. a.pd = y.pd
      BY <2>0 DEF Shape, Fields
    <2> HIDE DEF rx, tx, rxen, txen, a
    <2> DEFINE e == [a EXCEPT !.pd.rxnum = rxnum]
    <2>3. b = [a EXCEPT !.pd.rxnum = Clamp(@, 1, 2), !.pd.txnum = Clamp(@, 1, 2)]
      <3>1. e.pd.txnum = y.pd.txnum /\ e = [a EXCEPT !.pd.rxnum = Clamp(@, 1, 2)]
        BY <2>0, <2>1, <2>2 DEF Shape, Fields, default_init_param, a
      <3>2. [e EXCEPT !.pd.txnum = Clamp(@, 1, 2)] = [e EXCEPT !.pd.txnum = txnum]
        BY <3>1
      <3>3. [a EXCEPT !.pd.rxnum = Clamp(@, 1, 2), !.pd.txnum = Clamp(@, 1, 2)]
              = [e EXCEPT !.pd.txnum = Clamp(@, 1, 2)]
        BY <3>1
      <3>4. b = [e EXCEPT !.pd.txnum = txnum]
        <4> HIDE DEF rxnum, txnum
        <4>1. DOMAIN a = Fields /\ a.pd = y.pd /\ DOMAIN y.pd = DOMAIN default_init_param
          BY <2>0, <2>1, <2>2 DEF Shape, Fields, a
        <4> QED BY <4>1, ZenonT(60) DEF Fields, default_init_param
      <3> HIDE DEF e, b
      <3> QED BY <3>2, <3>3, <3>4
    <2> QED BY <2>1, <2>3, ZenonT(60) DEF SetupChannels, Then, rx, tx, rxen, txen, a
  <1>2. yes \in BOOLEAN
    OBVIOUS
  <1> HIDE DEF rx, tx, rxen, txen, rxnum, txnum, yes
  <1>3. /\ Shape(a) /\ a.lo = y.lo /\ a.pd = y.pd /\ a.autocal = y.autocal /\ a.en = y.en
        /\ a.qc = y.qc
    BY DEF Set, Shape, Fields
  <1> HIDE DEF a
  <1>4. /\ Shape(b) /\ b.lo = y.lo /\ SamePd(y, b) /\ b.autocal = y.autocal /\ b.en = y.en
        /\ b.pd.indep = y.pd.indep /\ b.pd.ext = y.pd.ext /\ b.qc = y.qc
    <2>1. /\ DOMAIN pd = DOMAIN y.pd /\ pd.ext = y.pd.ext /\ pd.managed = y.pd.managed
          /\ pd.fdd = y.pd.fdd /\ pd.synth = y.pd.synth /\ pd.indep = y.pd.indep
          /\ pd.dev = y.pd.dev
      BY DEF Set, Shape, default_init_param
    <2> HIDE DEF pd
    <2> QED BY <1>3, <2>1 DEF Shape, Fields, SamePd
  <1>5. /\ Shape(k) /\ k.lo = y.lo /\ SamePd(y, k) /\ k.autocal = y.autocal /\ k.en = y.en
        /\ k.pd.indep = y.pd.indep /\ k.pd.ext = y.pd.ext /\ k.qc = y.qc
    BY <1>3, <1>4 DEF SamePd
  <1> HIDE DEF k, b
  <1>6. Quiet(k, c)
    BY <1>2, <1>5, PortQuiet
  <1> HIDE DEF c
  <1>7. Quiet(c, d)
    BY <1>6 DEF auxadc_setup, Ok, Return, Quiet, Still, SameSynth, Shape, Fields
  <1> HIDE DEF d
  <1>8. Set(x, k) /\ SameLos(y, k)
    BY <1>5, SetSame
  <1>10. Set(x, c) /\ SameLos(k, c) /\ c.en = y.en
    BY <1>5, <1>6, <1>8, SetStill, QuietShape
  <1>11. Set(x, d) /\ SameLos(c, d) /\ d.en = y.en
    BY <1>7, <1>10, SetStill, QuietShape
  <1>9. SameLos(y, c) /\ SameLos(y, d)
    BY <1>8, <1>10, <1>11 DEF SameLos
  <1> QED BY <1>1, <1>9, <1>10, <1>11

\* The fastlock of one synthesizer in a setup.
LEMMA LockSet ==
  ASSUME NEW x, NEW y, Set(x, y), NEW p \in Sides, NEW g, LockShape(g), Fresh(g),
         NEW z, z = WithLock(y, p, g)
  PROVE  /\ Set(x, z) /\ z.en = y.en /\ \A q \in Sides \ {p} : z.lo[q].fl = y.lo[q].fl
         /\ SameLos(y, z)
  <1>1. /\ Rest(y, z) /\ Shape(z) /\ z.rc = y.rc
        /\ z.lo[p].fl = g /\ z.lo[p].reg = y.lo[p].reg
        /\ z.lo[p].div = y.lo[p].div /\ z.lo[p].cur = y.lo[p].cur
        /\ \A q \in Sides \ {p} : SameSynth(y.lo[q], z.lo[q])
        /\ SameTables(y, z)
    BY LockFieldIs DEF Set
  <1>2. SynthsOk(z)
    BY <1>1 DEF Set, SynthsOk, SynthOk, SameSynth
  <1>3. \A q \in Sides : Fresh(z.lo[q].fl)
    BY <1>1 DEF Set, SameSynth
  <1>4. Tabled(y, z)
    BY <1>1 DEF Tabled
  <1>5. TxSame(y, z) /\ z.qc.freq = y.qc.freq
    BY <1>1 DEF Rest, Base, TxSame, SameSynth, Sides
  <1>6. TxAt(z) /\ Near(z)
    BY <1>5, TxKept DEF Set
  <1> QED BY <1>1, <1>2, <1>3, <1>4, <1>6, SetBase DEF Rest, SameSynth, SameTables

\* The charge pump of one synthesizer.
LEMMA ChargePump ==
  ASSUME NEW x, NEW y, Set(x, y), y.en.clocks, NEW p, NEW z, z = txrx_synth_cp_calib(y, p)
  PROVE  Set(x, z) /\ z.en.clocks /\ z.en.dev = "ALERT" /\ SameLos(y, z)
  <1> DEFINE i == [y EXCEPT !.en.cfg2 = {"DUAL"}]
             rx == "rx"
             tx == "tx"
             no == FALSE
             g == [y.lo[rx].fl EXCEPT !.ready = no]
             h == [y.lo[tx].fl EXCEPT !.ready = no]
             j == WithLock(i, rx, g)
             m == WithLock(j, tx, h)
             c == Config1(m, "ALERT", FALSE)
             d == [c EXCEPT !.en.fdd = TRUE]
             e == check_cal_done(d, "cp_" \o p)
  <1>0. rx \in Sides /\ tx \in Sides /\ rx # tx /\ no \in BOOLEAN
    BY DEF Sides
  <1>1. z = e
    <2>1. m = [y EXCEPT !.en.cfg2 = {"DUAL"}, !.lo.rx.fl.ready = FALSE, !.lo.tx.fl.ready = FALSE]
      BY DEF WithLock, Set, Shape, Fields, Sides, SynthFields, LockShape, LockFields
    <2> QED BY <2>1 DEF txrx_synth_cp_calib
  <1>2. LockShape(g) /\ LockShape(h) /\ Fresh(g) /\ Fresh(h)
    BY <1>0, FreshKept DEF Set, Shape, LockShape, LockFields
  <1>3. j = WithLock(i, rx, g) /\ m = WithLock(j, tx, h) /\ c = Config1(m, "ALERT", FALSE)
    OBVIOUS
  <1> HIDE DEF rx, tx, no, g, h, j, m, c
  <1>4. Shape(i) /\ Set(x, i) /\ i.en.clocks /\ SameLos(y, i)
    <2>1. /\ Shape(i) /\ i.lo = y.lo /\ SamePd(y, i) /\ i.autocal = y.autocal /\ i.en.clocks
          /\ i.pd.indep = y.pd.indep /\ i.pd.ext = y.pd.ext /\ i.qc = y.qc
      BY DEF Set, Shape, Fields, EnFields, SamePd
    <2> HIDE DEF i
    <2> QED BY <2>1, SetSame
  <1> HIDE DEF i
  <1>5. Set(x, j) /\ j.en = i.en /\ SameLos(i, j)
    BY <1>0, <1>2, <1>3, <1>4, LockSet
  <1>6. Set(x, m) /\ m.en = i.en /\ SameLos(j, m)
    BY <1>0, <1>2, <1>3, <1>5, LockSet
  <1>7. Still(m, c) /\ Shape(c) /\ c.en = Unpinned(m.en, To(m, "ALERT"))
    BY <1>3, <1>6, Config1Off DEF Set
  <1>8. c.en.clocks /\ c.en.dev = "ALERT"
    BY <1>4, <1>6, <1>7 DEF Set, Shape, EnFields, Unpinned, To
  <1>9. Still(c, d) /\ Shape(d) /\ d.en.clocks /\ d.en.dev = "ALERT"
    BY <1>7, <1>8 DEF Still, SameSynth, Shape, Fields, EnFields
  <1> HIDE DEF d
  <1>10. Quiet(d, e)
    BY <1>9, CalDoneQuiet
  <1> HIDE DEF e
  <1>11. Set(x, c) /\ SameLos(m, c)
    BY <1>6, <1>7, SetStill
  <1>12. Set(x, d) /\ SameLos(c, d)
    BY <1>9, <1>11, SetStill
  <1>13. Set(x, e) /\ SameLos(d, e) /\ e.en = d.en
    BY <1>10, <1>12, SetStill, QuietShape
  <1>14. SameLos(y, e)
    BY <1>4, <1>5, <1>6, <1>11, <1>12, <1>13 DEF SameLos
  <1> QED BY <1>1, <1>9, <1>13, <1>14

\* One LO.
LEMMA LoUp ==
  ASSUME NEW x, NEW y, Set(x, y), y.qc.freq = y.pd.synth.tx, NEW p \in Sides,
         NEW z, z = set_lo(y, p, y.pd.synth[p])
  PROVE  Set(x, z) /\ z.en = y.en /\ z.pd = y.pd /\ z.qc.freq = y.qc.freq
  <1> DEFINE f == y.pd.synth[p]
  <1>1. f \in LoFreqs /\ z = set_lo(y, p, f)
    BY DEF Set
  <1>4. p = "tx" => f = y.qc.freq
    OBVIOUS
  <1> HIDE DEF f
  <1>2. /\ Base(y, z) /\ Shape(z) /\ SynthsOk(z)
        /\ \A r \in Sides : Retuned(y.lo[r].fl, z.lo[r].fl)
        /\ ~y.autocal => z.en = y.en /\ z.trk = y.trk /\ z.qc.freq = y.qc.freq
        /\ Tabled(y, z) /\ QuadStep(y, z)
        /\ z.lo.tx.cur # y.lo.tx.cur => p = "tx" /\ z.lo.tx.cur = f /\ f \in MinCarrier..MaxCarrier
    BY <1>1, SetLoIs DEF Set
  <1>3. \A r \in Sides : Fresh(z.lo[r].fl)
    BY <1>2, FreshKept DEF Set
  <1>5. TxAt(z)
    BY <1>2 DEF Set, QuadStep
  <1>6. Near(z)
    <2>1. CASE z.lo.tx.cur = y.lo.tx.cur
      BY <1>2, <2>1, NearKept DEF Set, Base
    <2>2. CASE z.lo.tx.cur # y.lo.tx.cur
      <3>1. z.lo.tx.cur = f /\ z.qc.freq = f /\ f \in 70..6000
        BY <1>2, <1>4, <2>2, SMTT(30) DEF Set, MinCarrier, MaxCarrier
      <3>2. DiffAbs(f, f) <= 100
        BY <3>1 DEF DiffAbs
      <3> QED BY <3>1, <3>2 DEF Near, NearTo, CalThreshold
    <2> QED BY <2>1, <2>2
  <1> QED BY <1>2, <1>3, <1>5, <1>6, SetBase DEF Set, Base

\* The mux of one synthesizer.
LEMMA MuxUp ==
  ASSUME NEW x, NEW y, Set(x, y), y.en.dev = "ALERT", y.en.clocks, NEW p \in Sides,
         NEW on \in BOOLEAN, on = y.pd.ext[p], NEW z, z = clk_mux_set_parent(y, p, on)
  PROVE  Set(x, z) /\ z.en.dev = "ALERT" /\ z.en.clocks /\ z.pd = y.pd
  <1>1. /\ Base(y, z) /\ Shape(z) /\ SynthsOk(z)
        /\ z.en.dev = "ALERT" /\ z.en.clocks
        /\ z.lo[p].fl = [y.lo[p].fl EXCEPT !.ready = on]
        /\ \A r \in Sides \ {p} : SameSynth(y.lo[r], z.lo[r])
        /\ SameTables(y, z) /\ Muxed(y, z, p, on)
    BY MuxIs DEF Set
  <1>2. \A r \in Sides : Fresh(z.lo[r].fl)
    BY <1>1, FreshKept, SMTT(30) DEF Set, SameSynth
  <1>3. TxAt(z)
    BY <1>1, TxKept DEF Set, Muxed, TxAt
  <1>4. Near(z)
    BY <1>1, NearKept DEF Set, Base, Muxed, SameTables, SameLos, Sides
  <1> QED BY <1>1, <1>2, <1>3, <1>4, SetBase DEF Tabled, Base

\* The platform data's external LOs switched off and on again around the tuning.
WithExt(t, ext) == [t EXCEPT !.pd.ext = ext]
Switches(ext) == DOMAIN ext = Sides /\ \A p \in Sides : ext[p] \in BOOLEAN
OffOrInside(t) == t.lo.tx.cur = 0 \/ t.pd.ext.tx = FALSE
LEMMA ExtUp ==
  ASSUME NEW x, NEW t, Set(x, t), NEW ext, Switches(ext), OffOrInside(t), NEW w, w = WithExt(t, ext)
  PROVE  Set(x, w) /\ w.en = t.en /\ w.lo = t.lo /\ w.pd.ext = ext
  <1>1. /\ Shape(w) /\ w.lo = t.lo /\ SamePd(t, w) /\ w.autocal = t.autocal /\ w.en = t.en
        /\ w.pd.indep = t.pd.indep /\ w.pd.ext = ext /\ w.qc = t.qc
    BY DEF Set, Shape, Fields, SamePd, default_init_param, WithExt, Switches
  <1>2. TxAt(t) /\ Near(t)
    BY DEF Set
  <1>3. validate_rfpll(t, t.lo.tx.cur) => validate_rfpll(w, w.lo.tx.cur)
    <2>1. w.lo.tx.cur = t.lo.tx.cur /\ w.pd.dev = t.pd.dev
      BY <1>1 DEF SamePd
    <2> QED BY <2>1, DevKept
  <1>4. TxWord(w)
    BY <1>1, <1>2, <1>3 DEF TxAt, TxWord
  <1>5. t.lo.tx.cur # 0 => t.lo.tx.reg.vdiv = t.lo.tx.div
    BY <1>2 DEF TxAt, OffOrInside
  <1>6. TxAt(w)
    BY <1>1, <1>4, <1>5 DEF TxAt
  <1>7. Near(w)
    BY <1>1, <1>2, NearKept DEF SamePd
  <1> QED BY <1>1, <1>6, <1>7, SetParts

\* The synthesizers.
LEMMA SynthsUp ==
  ASSUME NEW x, NEW y, Set(x, y), y.en.clocks, y.lo.tx.cur = 0, NEW z, z = SetupSynths(y)
  PROVE  Set(x, z) /\ z.en.clocks /\ z.en.dev = "ALERT"
  <1> DEFINE rx == "rx"
             tx == "tx"
             a == txrx_synth_cp_calib(y, rx)
             b == txrx_synth_cp_calib(a, tx)
             cp == IF a.rc < 0 THEN a ELSE b
             none == [rx |-> FALSE, tx |-> FALSE]
             i == [cp EXCEPT !.pd.ext = none]
             j == [i EXCEPT !.qc.freq = i.pd.synth.tx]
             k == set_lo(j, rx, j.pd.synth[rx])
             l == set_lo(k, tx, k.pd.synth[tx])
             e == y.pd.ext
             m == [l EXCEPT !.pd.ext = e]
             u == e[rx]
             v == e[tx]
             n == clk_mux_set_parent(m, rx, u)
             o == clk_mux_set_parent(n, tx, v)
             q == Ok(o)
  <1>0. rx \in Sides /\ tx \in Sides /\ rx # tx
    BY DEF Sides
  <1>1. z = IF cp.rc < 0 THEN cp ELSE q
    BY DEF SetupSynths, Then
  <1>2. /\ a = txrx_synth_cp_calib(y, rx) /\ b = txrx_synth_cp_calib(a, tx)
        /\ k = set_lo(j, rx, j.pd.synth[rx]) /\ l = set_lo(k, tx, k.pd.synth[tx])
        /\ n = clk_mux_set_parent(m, rx, u) /\ o = clk_mux_set_parent(n, tx, v)
    OBVIOUS
  <1>3. DOMAIN e = Sides /\ u \in BOOLEAN /\ v \in BOOLEAN /\ \A p \in Sides : e[p] \in BOOLEAN
    BY <1>0 DEF Set, Shape
  <1>4. DOMAIN none = Sides /\ (\A p \in Sides : none[p] \in BOOLEAN) /\ none.tx = FALSE
    BY DEF Sides
  <1>20. e.rx = u /\ e.tx = v /\ e[rx] = u /\ e[tx] = v
    OBVIOUS
  <1> HIDE DEF rx, tx, a, b, k, l, n, o, e, u, v, none
  <1>5. Set(x, a) /\ a.en.clocks /\ a.en.dev = "ALERT" /\ SameLos(y, a)
    BY <1>2, ChargePump
  <1>6. Set(x, b) /\ b.en.clocks /\ b.en.dev = "ALERT" /\ SameLos(a, b)
    BY <1>2, <1>5, ChargePump
  <1>7. Set(x, cp) /\ cp.en.clocks /\ cp.en.dev = "ALERT" /\ cp.lo.tx.cur = 0
    BY <1>5, <1>6 DEF SameLos, Sides
  <1> HIDE DEF cp
  <1>9. Set(x, i) /\ i.en = cp.en /\ i.lo.tx.cur = 0 /\ i.pd.ext = none
    <2>1. i = WithExt(cp, none)
      BY DEF WithExt
    <2> HIDE DEF i
    <2>3. Switches(none) /\ OffOrInside(cp)
      BY <1>4, <1>7 DEF Switches, OffOrInside
    <2>2. Set(x, i) /\ i.en = cp.en /\ i.lo = cp.lo /\ i.pd.ext = none
      BY <1>7, <2>1, <2>3, ExtUp
    <2> QED BY <1>7, <2>2
  <1> HIDE DEF i
  <1>10. Set(x, j) /\ j.en = i.en /\ j.pd.ext = none /\ j.qc.freq = j.pd.synth.tx
    <2>1. /\ Shape(j) /\ j.lo = i.lo /\ j.pd = i.pd /\ j.autocal = i.autocal /\ j.en = i.en
          /\ j.qc.freq = i.pd.synth.tx
      BY <1>9 DEF Set, Shape, Fields
    <2> HIDE DEF j
    <2>2. TxAt(j) /\ Near(j)
      BY <1>9, <2>1 DEF TxAt, TxWord, Near
    <2> QED BY <1>9, <2>1, <2>2, SetParts DEF SamePd
  <1> HIDE DEF j
  <1>11. Set(x, k) /\ k.en = j.en /\ k.pd = j.pd /\ k.qc.freq = k.pd.synth.tx
    BY <1>0, <1>2, <1>10, LoUp, ZenonT(60)
  <1>12. Set(x, l) /\ l.en = k.en /\ l.pd = k.pd
    BY <1>0, <1>2, <1>11, LoUp
  <1>13. Set(x, m) /\ m.en = l.en /\ m.pd.ext = e
    <2>1. l.pd.ext.tx = FALSE
      BY <1>4, <1>10, <1>11, <1>12
    <2>2. m = WithExt(l, e)
      BY DEF WithExt
    <2> HIDE DEF m
    <2>3. Switches(e) /\ OffOrInside(l)
      BY <1>3, <2>1 DEF Switches, OffOrInside
    <2> QED BY <1>12, <2>2, <2>3, ExtUp
  <1> HIDE DEF m
  <1>14. Set(x, n) /\ n.en.clocks /\ n.en.dev = "ALERT" /\ n.pd = m.pd
    BY <1>0, <1>2, <1>3, <1>7, <1>9, <1>10, <1>11, <1>12, <1>13, <1>20, MuxUp
  <1>15. Set(x, o) /\ o.en.clocks /\ o.en.dev = "ALERT"
    BY <1>0, <1>2, <1>3, <1>13, <1>14, <1>20, MuxUp
  <1>16. Quiet(o, q)
    BY <1>15, OkQuiet DEF Set
  <1> HIDE DEF q
  <1>17. Set(x, q) /\ q.en = o.en
    BY <1>15, <1>16, SetStill, QuietShape
  <1> QED BY <1>1, <1>7, <1>15, <1>17

\* The gain control, the filters, the calibrations: at their end the radio tracks what
\* is wanted.
LEMMA CalibrationsUp ==
  ASSUME NEW x, NEW y, Set(x, y), NEW z, z = SetupCalibrations(y)
  PROVE  Set(x, z) /\ z.en = y.en /\ (~(z.rc < 0) => z.trk.chip = z.trk.want)
  <1> DEFINE half == [rx |-> y.pd.bw.rx \div 2, tx |-> y.pd.bw.tx \div 2]
             g == gc_setup(y)
             f == update_filters(g, y.pd.bw.rx, y.pd.bw.tx)
             b == Then(f, bb_dc_offset_calib)
             r == rf_dc_offset_calib(b, rfpll_recalc_rate(b, "rx"))
             d == Then(b, LAMBDA k : rf_dc_offset_calib(k, rfpll_recalc_rate(k, "rx")))
             now(k) == [k EXCEPT !.bw = k.pd.bw, !.qc.phase = 32]
             n == now(d)
             q == tx_quad_calib(n, half.rx, half.tx, -1)
             e == Then(d, LAMBDA k : tx_quad_calib(now(k), half.rx, half.tx, -1))
             t == tracking_control(e, e.trk.want)
             last == Then(e, LAMBDA k : tracking_control(k, k.trk.want))
             Bred(u) == Set(x, u) /\ u.en = y.en
  <1>1. z = last
    BY DEF SetupCalibrations
  <1> HIDE DEF half
  <1>2. ASSUME NEW u, Bred(u), NEW w, Still(u, w), w.en = u.en PROVE Bred(w)
    BY <1>2, SetStill
  <1>3. ASSUME NEW u, Bred(u), NEW w, Quiet(u, w) PROVE Bred(w)
    BY <1>3, SetStill, QuietShape
  <1>4. Shape(y) /\ Bred(y) /\ \A u : Bred(u) => Shape(u)
    BY DEF Set
  <1> HIDE DEF Bred
  <1>5. Bred(g)
    <2>1. Quiet(y, g)
      <3> DEFINE hybrid == \E ch \in {1, 2} : y.pd.agc[ch] = "hybrid"
                 idx == [ch \in {1, 2} |-> GainMax]
                 u == [y EXCEPT !.gain.agc = y.pd.agc, !.gain.mode = y.pd.agc,
                                !.gain.hybrid = hybrid, !.gain.idx = idx]
      <3>1. g = gc_update(u)
        BY DEF gc_setup
      <3> HIDE DEF hybrid, idx, g
      <3>2. Quiet(y, u)
        BY <1>4 DEF Quiet, Still, SameSynth, Shape, Fields
      <3> HIDE DEF u
      <3>3. Quiet(u, gc_update(u))
        BY <3>2 DEF gc_update, Ok, Return, Quiet, Still, SameSynth, Shape, Fields
      <3> QED BY <3>1, <3>2, <3>3, QuietTrans
    <2> HIDE DEF g
    <2> QED BY <1>3, <1>4, <2>1
  <1> HIDE DEF g
  <1>6. Bred(f)
    <2>1. Quiet(g, f)
      BY <1>4, <1>5, FiltersQuiet
    <2> HIDE DEF f
    <2> QED BY <1>3, <1>5, <2>1
  <1> HIDE DEF f
  <1>7. Bred(b)
    <2> DEFINE k == run_calibration(f, "bbdc")
    <2>1. b \in {f, k}
      BY DEF Then, bb_dc_offset_calib
    <2>2. Quiet(f, k)
      BY <1>4, <1>6, CalDoneQuiet
    <2> HIDE DEF k, b
    <2> QED BY <1>3, <1>6, <2>1, <2>2
  <1> HIDE DEF b
  <1>8. Bred(d)
    <2>1. Still(b, r) /\ r.en = b.en
      BY <1>4, <1>7, RfDcStill
    <2>2. d \in {b, r}
      BY DEF Then
    <2> HIDE DEF r, d
    <2> QED BY <1>2, <1>7, <2>1, <2>2
  <1> HIDE DEF d
  <1>9. Bred(n)
    <2>1. Quiet(d, n)
      BY <1>4, <1>8 DEF Quiet, Still, SameSynth, Shape, Fields
    <2> HIDE DEF n
    <2> QED BY <1>3, <1>8, <2>1
  <1> HIDE DEF n
  <1>10. Bred(e)
    <2>1. Quiet(n, q)
      BY <1>4, <1>9, TxQuadQuiet
    <2>2. e \in {d, q}
      BY DEF Then, n
    <2> HIDE DEF q, e
    <2> QED BY <1>3, <1>8, <1>9, <2>1, <2>2
  <1> HIDE DEF e
  <1>11. Bred(t) /\ t.trk.chip = t.trk.want
    <2>1. Still(e, t) /\ t.en = e.en /\ t.trk.chip = t.trk.want
      BY <1>4, <1>10 DEF tracking_control, Ok, Return, Still, SameSynth, Shape, Fields
    <2> HIDE DEF t
    <2> QED BY <1>2, <1>10, <2>1
  <1>12. last = IF e.rc < 0 THEN e ELSE t
    BY DEF Then
  <1> HIDE DEF t, last
  <1> QED BY <1>1, <1>10, <1>11, <1>12 DEF Bred

\* The state machine: from ALERT the radio ends in a state of its duplex mode.
LEMMA EnsmUp ==
  ASSUME NEW x, NEW y, Set(x, y), y.en.clocks, y.en.dev = "ALERT", NEW z, z = SetupEnsm(y)
  PROVE  /\ Shape(z) /\ SynthsOk(z) /\ SamePd(x, z) /\ \A p \in Sides : Fresh(z.lo[p].fl)
         /\ z.trk = y.trk /\ Placed(z) /\ TxAt(z) /\ Near(z)
         /\ z.autocal \/ ~(z.rc < 0) => Sane(z)
         /\ ~(z.rc < 0) => z.autocal
  <1> DEFINE on == IF y.pd.rx2tx2 THEN {1, 2} ELSE {y.pd.txnum}
             off == {1, 2} \ on
             a == set_ensm_mode(y, y.pd.fdd, y.pd.pinctrl)
             b == set_tx_atten(a, y.pd.atten, on)
             c == Then(b, LAMBDA k : set_tx_atten(k, MaxAtten, off))
             d == Then(c, rssi_setup)
             e == [d EXCEPT !.en.curr = d.en.dev]
             state(k) == ensm_set_state([k EXCEPT !.en.curr = k.en.dev],
                                        IF k.pd.fdd THEN "FDD" ELSE "RX", k.pd.pinctrl)
             f == state(d)
             g == [f EXCEPT !.autocal = TRUE]
             h == Ok(g)
             last == Then(d, LAMBDA k : Ok([state(k) EXCEPT !.autocal = TRUE]))
  <1>1. z = last
    BY DEF SetupEnsm
  <1>2. a = set_ensm_mode(y, y.pd.fdd, y.pd.pinctrl)
    OBVIOUS
  <1> HIDE DEF on, off, a
  <1>3. /\ Still(y, a) /\ Shape(a) /\ a.trk = y.trk
        /\ a.en.fdd = y.pd.fdd /\ a.en.clocks /\ a.en.dev = "ALERT"
    <2>1. Shape(y)
      BY DEF Set
    <2> DEFINE fdd == y.pd.fdd
               pin == y.pd.pinctrl
    <2>2. a = set_ensm_mode(y, fdd, pin)
      BY <1>2
    <2> HIDE DEF fdd, pin
    <2>3. /\ Still(y, a) /\ Turned(y, a)
          /\ a.en.fdd = fdd /\ a.en.dev = y.en.dev
      BY <2>1, <2>2, ModeIs
    <2>4. a.en.clocks
      BY <2>1, <2>2, ModeIs
    <2> QED BY <2>3, <2>4 DEF Turned, fdd
  <1>4. Quiet(a, b)
    BY <1>3, AttenQuiet
  <1> HIDE DEF b
  <1>5. Quiet(a, c)
    <2>1. Quiet(b, set_tx_atten(b, MaxAtten, off))
      BY <1>4, AttenQuiet, QuietShape
    <2>2. c \in {b, set_tx_atten(b, MaxAtten, off)}
      BY DEF Then
    <2> HIDE DEF c
    <2> QED BY <1>4, <2>1, <2>2, QuietTrans
  <1> HIDE DEF c
  <1>6. Quiet(a, d)
    <2>1. Quiet(c, rssi_setup(c))
      BY <1>5 DEF rssi_setup, Ok, Return, Quiet, Still, SameSynth, Shape, Fields
    <2>2. d \in {c, rssi_setup(c)}
      BY DEF Then
    <2> HIDE DEF d
    <2> QED BY <1>5, <2>1, <2>2, QuietTrans
  <1>16. last = IF d.rc < 0 THEN d ELSE h
    BY DEF Then
  <1> HIDE DEF d, last
  <1>7. /\ Set(x, d) /\ Shape(d) /\ d.trk = y.trk /\ d.en = a.en /\ d.pd.fdd = y.pd.fdd
    <2>1. Still(y, d)
      BY <1>3, <1>6, StillTrans, QuietShape
    <2> QED BY <1>3, <1>6, <2>1, SetStill DEF Quiet, Still
  <1>8. /\ Still(d, e) /\ Shape(e) /\ e.trk = d.trk
        /\ e.en.fdd = y.pd.fdd /\ e.en.clocks /\ e.en.dev = "ALERT" /\ e.en.curr = "ALERT"
    <2>1. Still(d, e) /\ Shape(e) /\ e.trk = d.trk /\ e.en = [d.en EXCEPT !.curr = d.en.dev]
      BY <1>7 DEF Still, SameSynth, Shape, Fields, EnFields
    <2> HIDE DEF e
    <2> QED BY <1>3, <1>7, <2>1 DEF Shape, EnFields
  <1>17. f = ensm_set_state(e, IF e.pd.fdd THEN "FDD" ELSE "RX", e.pd.pinctrl)
    <2>1. e.pd = d.pd
      BY <1>8 DEF Still
    <2>2. f = ensm_set_state(e, IF d.pd.fdd THEN "FDD" ELSE "RX", d.pd.pinctrl)
      OBVIOUS
    <2> QED BY <2>1, <2>2
  <1> HIDE DEF e, f
  <1>9. Turned(e, f) /\ Sane(f) /\ f.pd = e.pd
    <2>1. e.pd.fdd = y.pd.fdd
      BY <1>7, <1>8 DEF Still
    <2>2. Awake(e)
      BY <1>8 DEF Awake
    <2> QED BY <1>8, <1>17, <2>1, <2>2, SetStateIs
  <1>10. /\ Shape(g) /\ g.lo = f.lo /\ g.en = f.en /\ g.trk = f.trk /\ g.pd = f.pd
         /\ g.qc = f.qc /\ g.autocal
    BY <1>9 DEF Turned, Shape, Fields
  <1> HIDE DEF g
  <1>11. Quiet(g, h) /\ h.rc = 0
    BY <1>10, OkQuiet
  <1> HIDE DEF h
  <1>12. /\ Shape(h) /\ h.en = f.en /\ h.trk = y.trk /\ h.pd = f.pd
         /\ \A p \in Sides : SameSynth(f.lo[p], h.lo[p])
         /\ h.autocal /\ h.qc.freq = f.qc.freq
    BY <1>7, <1>8, <1>9, <1>10, <1>11 DEF Quiet, Still, Turned, SameSynth
  <1>13. Sane(h)
    BY <1>9, <1>12 DEF Sane, Awake
  <1>14. SamePd(x, h)
    BY <1>7, <1>8, <1>9, <1>12 DEF Set, Still, Turned, SamePd
  <1>15. SynthsOk(h)
    BY <1>7, <1>8, <1>9, <1>12 DEF Set, Still, Turned, SameSynth, SynthsOk, SynthOk
  <1>18. \A p \in Sides : Fresh(h.lo[p].fl)
    <2>1. \A u, w : Fresh(u) /\ VcoOnly(u, w) => Fresh(w)
      <3> SUFFICES ASSUME NEW u, NEW w, Fresh(u), VcoOnly(u, w) PROVE Fresh(w)
        OBVIOUS
      <3>1. PICK k \in AlcWords, r \in BOOLEAN, v \in BOOLEAN :
               u = [NoFastlock EXCEPT !.alc = k, !.ready = r, !.vcocal = v]
        BY DEF Fresh
      <3>2. \A v1 \in BOOLEAN : [u EXCEPT !.vcocal = v1]
                = [NoFastlock EXCEPT !.alc = k, !.ready = r, !.vcocal = v1]
        BY <3>1 DEF NoFastlock
      <3> QED BY <3>2, ZenonT(60) DEF VcoOnly, Fresh
    <2>2. \A p \in Sides : Fresh(e.lo[p].fl) /\ VcoOnly(e.lo[p].fl, h.lo[p].fl)
      BY <1>7, <1>8, <1>9, <1>12 DEF Set, Still, Turned, SameSynth
    <2> QED BY <2>1, <2>2
  <1>19. Placed(h)
    <2>1. h.pd = d.pd /\ SameTables(d, h)
      BY <1>8, <1>9, <1>12 DEF Still, Turned, SameSynth, SameTables, SameLos
    <2>2. Placed(d)
      BY <1>7 DEF Set
    <2> QED BY <2>1, <2>2, TabledTrans
  <1>20. TxAt(h) /\ Near(h)
    <2>1. TxSame(d, h) /\ h.qc.freq = d.qc.freq
      BY <1>8, <1>9, <1>12 DEF Still, Turned, SameSynth, TxSame, SamePd, Sides
    <2> QED BY <1>7, <2>1, TxKept DEF Set
  <1>21. d.rc < 0 => ~d.autocal
    BY <1>7 DEF Set
  <1> QED BY <1>1, <1>7, <1>11, <1>12, <1>13, <1>14, <1>15, <1>16, <1>18, <1>19, <1>20, <1>21 DEF Set

\* The whole setup: an early return is seen in its return code, and leaves the automatic
\* calibration off.
Ready(y) == Sane(y) /\ y.trk.chip = y.trk.want
Brought(x, y) == /\ Shape(y) /\ SynthsOk(y) /\ SamePd(x, y)
                 /\ (\A p \in Sides : Fresh(y.lo[p].fl)) /\ Placed(y)
                 /\ TxAt(y) /\ Near(y)
                 /\ y.autocal \/ ~(y.rc < 0) => Ready(y)
                 /\ ~(y.rc < 0) => y.autocal

LEMMA SetupIs ==
  ASSUME NEW x, Set(x, x), x.lo.tx.cur = 0, NEW y, y = ad9361_setup(x) PROVE Brought(x, y)
  <1> DEFINE a == SetupClocks(x)
             b == Then(a, SetupChannels)
             c == Then(b, SetupSynths)
             d == Then(c, SetupCalibrations)
             e == Then(d, SetupEnsm)
  <1>1. y = e
    BY DEF ad9361_setup
  <1> HIDE DEF e
  <1>2. e = IF d.rc < 0 THEN d ELSE SetupEnsm(d)
    BY DEF Then, e
  <1> HIDE DEF d
  <1>3. d = IF c.rc < 0 THEN c ELSE SetupCalibrations(c)
    BY DEF Then, d
  <1> HIDE DEF c
  <1>4. c = IF b.rc < 0 THEN b ELSE SetupSynths(b)
    BY DEF Then, c
  <1> HIDE DEF b
  <1>5. b = IF a.rc < 0 THEN a ELSE SetupChannels(a)
    BY DEF Then, b
  <1>6. Set(x, a) /\ (~(a.rc < 0) => a.en.clocks) /\ SameLos(x, a)
    BY ClocksUp
  <1> HIDE DEF a
  <1>7. Set(x, b) /\ (~(b.rc < 0) => b.en.clocks) /\ b.lo.tx.cur = 0
    BY <1>5, <1>6, ChannelsUp DEF SameLos, Sides
  <1>8. Set(x, c) /\ (~(c.rc < 0) => c.en.clocks /\ c.en.dev = "ALERT")
    BY <1>4, <1>7, SynthsUp
  <1>9. /\ Set(x, d)
        /\ ~(d.rc < 0) => d.en.clocks /\ d.en.dev = "ALERT" /\ d.trk.chip = d.trk.want
    BY <1>3, <1>8, CalibrationsUp
  <1>10. CASE d.rc < 0
    BY <1>1, <1>2, <1>9, <1>10 DEF Set, Brought
  <1>11. CASE ~(d.rc < 0)
    <2>1. y = SetupEnsm(d)
      BY <1>1, <1>2, <1>11
    <2>2. /\ Shape(y) /\ SynthsOk(y) /\ SamePd(x, y) /\ \A p \in Sides : Fresh(y.lo[p].fl)
          /\ y.trk = d.trk /\ Placed(y) /\ TxAt(y) /\ Near(y)
          /\ y.autocal \/ ~(y.rc < 0) => Sane(y)
          /\ ~(y.rc < 0) => y.autocal
      BY <1>9, <1>11, <2>1, EnsmUp
    <2> QED BY <1>9, <1>11, <2>2 DEF Brought, Ready
  <1> QED BY <1>10, <1>11

\* A reset, and the driver's state after it.
Reset(f) == [f EXCEPT !.mem = NoFastlock.mem, !.setup = 0, !.ready = FALSE, !.vcocal = TRUE,
                      !.alc = 0]
Cleared(f) == [f EXCEPT !.profile = 0, !.entry = NoFastlock.entry]

LEMMA ResetLockShape ==
  ASSUME NEW f, LockShape(f)
  PROVE  /\ LockShape(Reset(f)) /\ LockShape(Cleared(f))
         /\ Cleared(Reset(f)) = NoFastlock
         /\ Cleared(Reset(f)).alc = 0
  <1> DEFINE g == Reset(f)
  <1>1. /\ DOMAIN g = LockFields /\ g.mem = NoFastlock.mem /\ g.setup = 0 /\ g.ready = FALSE
        /\ g.vcocal = TRUE /\ g.alc = 0 /\ LockShape(g)
    BY DEF Reset, LockShape, LockFields
  <1>2. LockShape(Cleared(f))
    BY DEF Cleared, LockShape, LockFields
  <1>3. Cleared(g) = NoFastlock
    <2> DEFINE e == NoFastlock.entry
               m == NoFastlock.mem
               h == Cleared(g)
    <2>1. NoFastlock = [entry |-> e, profile |-> 0, mem |-> m, setup |-> 0, ready |-> FALSE,
                        vcocal |-> TRUE, alc |-> 0]
      BY DEF NoFastlock
    <2> HIDE DEF e, m
    <2>2. h = [f EXCEPT !.mem = m, !.setup = 0, !.ready = FALSE, !.vcocal = TRUE, !.alc = 0,
                        !.profile = 0, !.entry = e]
      BY DEF Cleared, Reset, e, m
    <2> HIDE DEF g
    <2>3. /\ DOMAIN h = LockFields /\ h.entry = e /\ h.profile = 0 /\ h.mem = m /\ h.setup = 0
          /\ h.ready = FALSE /\ h.vcocal = TRUE /\ h.alc = 0 /\ h = [v \in LockFields |-> h[v]]
      <3> HIDE DEF h
      <3> QED BY <2>2 DEF LockShape, LockFields
    <2> HIDE DEF h
    <2> QED BY <2>1, <2>3 DEF LockFields, h
  <1> QED BY <1>1, <1>2, <1>3 DEF NoFastlock

LEMMA ResetIs ==
  ASSUME NEW x, Shape(x), SynthsOk(x), NEW y, y = ad9361_reset(x)
  PROVE  /\ Shape(y) /\ SynthsOk(y) /\ y.pd = x.pd /\ y.autocal = x.autocal
         /\ \A p \in Sides : y.lo[p].fl = Reset(x.lo[p].fl) /\ y.lo[p].cur = x.lo[p].cur
  <1> DEFINE word == [int |-> 16, fract |-> 0]
             div == [c \in Factors |->
               CASE c = "ADC" -> 8 [] c \in {"RX_SAMPL", "TX_SAMPL"} -> 4
                 [] c = "DAC" -> 1 [] OTHER -> 2]
             chip == [rx |-> NoFilter, tx |-> NoFilter]
             times == [gc |-> <<0, 0>>, rssi |-> 0, auxadc |-> 0]
             mode == <<"manual", "manual">>
             idx == <<GainMax, GainMax>>
             a == [x EXCEPT !.clk.word = word, !.clk.div = div, !.fir.chip = chip, !.times = times,
                            !.gain.mode = mode, !.gain.hybrid = FALSE,
                            !.gain.rxen = {}, !.gain.txen = {}, !.gain.idx = idx]
             att == <<AttenWord(0), AttenWord(0)>>
             en == [x.en EXCEPT !.dev = "WAIT", !.pin = FALSE, !.clocks = FALSE, !.fdd = FALSE,
                                !.cfg2 = {}]
             port == [x.port EXCEPT !.select = 0, !.mon = {}]
             tune == [rx |-> <<0, 0>>, tx |-> 0, tia |-> <<0, <<0, 0>>>>, second |-> 0,
                      adc |-> <<0, 0, 0, <<0, 0>>>>]
             b == [a EXCEPT !.att.chip = att, !.en = en, !.trk.chip = {}, !.mcsrf = FALSE,
                            !.dcband = FALSE, !.port = port, !.tune = tune]
             fl(f) == [f EXCEPT !.mem = NoFastlock.mem, !.setup = 0, !.ready = FALSE,
                                !.vcocal = TRUE, !.alc = 0]
             synth(l) == [l EXCEPT !.reg = NoFreq, !.row = 0, !.chippd = {}, !.ext = FALSE,
                                   !.fl = fl(l.fl)]
             lo == [p \in DOMAIN x.lo |-> synth(x.lo[p])]
             c == [b EXCEPT !.lo = lo]
  <1>1. y = c
    BY DEF ad9361_reset, ResetRegisters
  <1> HIDE DEF word, div, chip, times, mode, idx, att, tune, port
  <1>2. DOMAIN en = EnFields
    BY DEF Shape
  <1> HIDE DEF en
  <1>3. Shape(a) /\ a.lo = x.lo /\ a.pd = x.pd /\ a.autocal = x.autocal
    BY ZenonT(60) DEF Shape, Fields
  <1> HIDE DEF a
  <1>4. Shape(b) /\ b.lo = x.lo /\ b.pd = x.pd /\ b.autocal = x.autocal
    BY <1>2, <1>3 DEF Shape, Fields
  <1> HIDE DEF b
  <1>5. DOMAIN x.lo = Sides /\ \A p \in Sides : DOMAIN x.lo[p] = SynthFields /\ LockShape(x.lo[p].fl)
    BY DEF Shape
  <1>6. \A f : fl(f) = Reset(f)
    BY DEF Reset
  <1> HIDE DEF fl
  <1>7. /\ DOMAIN lo = Sides
        /\ \A p \in Sides : /\ DOMAIN lo[p] = SynthFields /\ LockShape(lo[p].fl)
                            /\ lo[p].fl = Reset(x.lo[p].fl) /\ lo[p].reg = NoFreq
                            /\ lo[p].div = x.lo[p].div /\ lo[p].cur = x.lo[p].cur
    BY <1>5, <1>6, ResetLockShape DEF SynthFields
  <1>8. NoFreq \in LoWords
    BY DEF NoFreq, LoWords
  <1> HIDE DEF lo
  <1>9. Shape(c) /\ c.lo = lo /\ c.pd = x.pd /\ c.autocal = x.autocal
    BY <1>4, <1>7 DEF Shape, Fields
  <1> HIDE DEF c
  <1>10. SynthsOk(c)
    BY <1>7, <1>8, <1>9 DEF SynthsOk, SynthOk
  <1> QED BY <1>1, <1>7, <1>9, <1>10

LEMMA ClearIs ==
  ASSUME NEW x, Shape(x), SynthsOk(x), NEW y, y = clear_state(x)
  PROVE  /\ Shape(y) /\ SynthsOk(y) /\ SamePd(x, y) /\ ~y.autocal
         /\ \A p \in Sides : y.lo[p].fl = Cleared(x.lo[p].fl) /\ y.lo[p].cur = 0
  <1> DEFINE fir == [x.fir EXCEPT !.rxby = TRUE, !.txby = TRUE, !.rxdec = 0, !.txint = 0,
                                  !.taps = [rx |-> 0, tx |-> 0]]
             en == [x.en EXCEPT !.prev = "WAIT", !.curr = "WAIT", !.pinctl = FALSE]
             fl(f) == [f EXCEPT !.profile = 0, !.entry = NoFastlock.entry]
             synth(l) == [l EXCEPT !.cur = 0, !.tdd = FALSE, !.pd = {}, !.fl = fl(l.fl)]
             bw == [rx |-> 0, tx |-> 0]
             d == [x EXCEPT !.gain.table = NoTable, !.pd.gov = 1]
             a == [d EXCEPT !.autocal = FALSE, !.fir = fir, !.trk.want = Trackings, !.bw = bw,
                            !.bbfdiv = 0, !.en = en, !.qc.freq = 0]
             lo == [p \in DOMAIN x.lo |-> synth(x.lo[p])]
             b == [a EXCEPT !.lo = lo]
  <1>1. y = b
    BY DEF clear_state
  <1> HIDE DEF fir, bw
  <1>2. DOMAIN en = EnFields
    BY DEF Shape
  <1> HIDE DEF en
  <1>9. Shape(d) /\ d.lo = x.lo /\ d.pd = [x.pd EXCEPT !.gov = 1]
    BY DEF Shape, Fields, default_init_param
  <1> HIDE DEF d
  <1>10. SamePd(x, d)
    BY <1>9 DEF SamePd
  <1>3. /\ Shape(a) /\ a.lo = x.lo /\ a.autocal = FALSE /\ a.pd = d.pd
    <2> DEFINE q == [d.qc EXCEPT !.freq = 0]
               t == [d.trk EXCEPT !.want = Trackings]
               no == FALSE
               zero == 0
               c == [d EXCEPT !.fir = fir, !.trk = t, !.bw = bw, !.bbfdiv = zero, !.en = en]
    <2>1. a = [d EXCEPT !.autocal = FALSE, !.fir = fir, !.trk = t, !.bw = bw, !.bbfdiv = 0,
                        !.en = en, !.qc = q]
      BY <1>9 DEF Shape, Fields
    <2> HIDE DEF a
    <2>2. DOMAIN q = {"phase", "freq"} /\ q.freq = 0 /\ DOMAIN t = {"want", "chip"}
      BY <1>9 DEF Shape
    <2> HIDE DEF q, t
    <2>5. a = [d EXCEPT !.autocal = no, !.fir = fir, !.trk = t, !.bw = bw, !.bbfdiv = zero,
                        !.en = en, !.qc = q] /\ no = FALSE
      BY <2>1
    <2> HIDE DEF no, zero
    <2>6. DOMAIN d = Fields
      BY <1>9 DEF Shape
    <2>3. a = [c EXCEPT !.autocal = no, !.qc = q] /\ no = FALSE
      BY ONLY <2>5, <2>6 DEF Fields
    <2>4. Shape(c) /\ c.lo = x.lo /\ c.pd = d.pd
      BY <1>2, <1>9, <2>2 DEF Shape, Fields
    <2> HIDE DEF c
    <2> QED BY <2>2, <2>3, <2>4 DEF Shape, Fields
  <1>11. SamePd(x, a)
    BY <1>3, <1>10 DEF SamePd
  <1> HIDE DEF a
  <1>4. DOMAIN x.lo = Sides /\ \A p \in Sides : DOMAIN x.lo[p] = SynthFields /\ LockShape(x.lo[p].fl)
    BY DEF Shape
  <1>5. \A f : fl(f) = Cleared(f)
    BY DEF Cleared
  <1> HIDE DEF fl
  <1>6. /\ DOMAIN lo = Sides
        /\ \A p \in Sides : /\ DOMAIN lo[p] = SynthFields /\ LockShape(lo[p].fl)
                            /\ lo[p].fl = Cleared(x.lo[p].fl) /\ lo[p].reg = x.lo[p].reg
                            /\ lo[p].div = x.lo[p].div /\ lo[p].cur = 0
    BY <1>4, <1>5, ResetLockShape DEF SynthFields
  <1> HIDE DEF lo
  <1>7. Shape(b) /\ b.lo = lo /\ b.pd = a.pd /\ b.autocal = FALSE
    BY <1>3, <1>6 DEF Shape, Fields
  <1> HIDE DEF b
  <1>8. SynthsOk(b)
    BY <1>6, <1>7 DEF SynthsOk, SynthOk
  <1> QED BY <1>1, <1>6, <1>7, <1>8, <1>11 DEF SamePd

LEMMA FreshNew == Fresh(NoFastlock) /\ Reset(NoFastlock) = NoFastlock
  <1> DEFINE r == NoFastlock.ready
             v == NoFastlock.vcocal
             f == NoFastlock
  <1>1. DOMAIN f = LockFields /\ f.alc = 0 /\ r \in BOOLEAN /\ v \in BOOLEAN
        /\ f.setup = 0 /\ f.ready = FALSE /\ f.vcocal = TRUE /\ f.ready = r /\ f.vcocal = v
        /\ f = [w \in LockFields |-> f[w]]
    BY DEF NoFastlock, LockFields
  <1>2. f.mem = NoFastlock.mem
    OBVIOUS
  <1> DEFINE m == NoFastlock.mem
  <1> HIDE DEF f, r, v, m
  <1>3. f = [f EXCEPT !.alc = 0, !.ready = r, !.vcocal = v]
    BY <1>1 DEF LockFields
  <1>4. f = [f EXCEPT !.mem = m, !.setup = 0, !.ready = FALSE, !.vcocal = TRUE, !.alc = 0]
    BY <1>1, <1>2 DEF LockFields, m
  <1>5. 0 \in AlcWords
    BY FastlockAssumption DEF AlcWords
  <1> QED BY <1>1, <1>3, <1>4, <1>5 DEF Fresh, Reset, f, m

\* The rates the clocks have are written into the driver.
LEMMA RegisterIs ==
  ASSUME NEW x, Shape(x), NEW y, y = register_clocks(x)
  PROVE  Quiet(x, y)
  <1> DEFINE d(p) == x.pd.synth[p]
             synth(p) == [x.lo[p] EXCEPT !.dummy = d(p)]
             lo == [p \in DOMAIN x.lo |-> synth(p)]
             z == [x EXCEPT !.lo = lo]
  <1>1. y = recalc_all(z)
    BY DEF register_clocks
  <1> HIDE DEF d
  <1>2. DOMAIN x.lo = Sides /\ \A p \in Sides : DOMAIN x.lo[p] = SynthFields /\ LockShape(x.lo[p].fl)
    BY DEF Shape
  <1>3. /\ DOMAIN lo = Sides
        /\ \A p \in Sides : DOMAIN lo[p] = SynthFields /\ LockShape(lo[p].fl)
                            /\ SameSynth(x.lo[p], lo[p])
    BY <1>2 DEF SynthFields, SameSynth
  <1> HIDE DEF lo
  <1>4. Quiet(x, z)
    BY <1>3 DEF Quiet, Still, Shape, Fields
  <1> HIDE DEF z
  <1>5. Quiet(z, y)
    BY <1>1, <1>4, QuietShape, RecalcQuiet
  <1> QED BY <1>4, <1>5, QuietTrans

LEMMA SetSelf ==
  ASSUME NEW x, Shape(x), SynthsOk(x), ~x.autocal,
         \A p \in Sides : Fresh(x.lo[p].fl) /\ x.pd.synth[p] \in LoFreqs /\ x.lo[p].cur = 0
  PROVE  Set(x, x) /\ x.lo.tx.cur = 0
  BY DEF Set, SamePd, Placed, Sides, TxAt, TxWord, Near

\* The initialisation: a radio it says is up is up.
LEMMA InitIs ==
  ASSUME NEW x, Shape(x), SynthsOk(x), ~x.autocal,
         \A p \in Sides : x.lo[p].fl = NoFastlock /\ x.pd.synth[p] \in LoFreqs /\ x.lo[p].cur = 0,
         NEW y, y = ad9361_init(x)
  PROVE  /\ Shape(y) /\ SynthsOk(y) /\ SamePd(x, y) /\ Placed(y)
         /\ \A p \in Sides : Fresh(y.lo[p].fl)
         /\ TxAt(y) /\ Near(y)
         /\ ~(y.rc < 0) => Ready(y) /\ y.autocal
         /\ y.rc \in {ENODEV, 0}
  <1> DEFINE a == ad9361_reset(x)
             b == register_clocks(a)
             c == ad9361_setup(b)
  <1>1. y = IF c.rc < 0 THEN Return(c, ENODEV) ELSE Ok(c)
    BY DEF ad9361_init
  <1>2. /\ Shape(a) /\ SynthsOk(a) /\ a.pd = x.pd /\ a.autocal = x.autocal
        /\ \A p \in Sides : a.lo[p].fl = NoFastlock /\ a.lo[p].cur = 0
    BY ResetIs, FreshNew
  <1> HIDE DEF a
  <1>3. Quiet(a, b)
    BY <1>2, RegisterIs
  <1> HIDE DEF b
  <1>4. Set(b, b) /\ b.pd = x.pd /\ b.lo.tx.cur = 0
    <2>1. Shape(b) /\ b.pd = a.pd /\ b.autocal = a.autocal
          /\ \A p \in Sides : SameSynth(a.lo[p], b.lo[p])
      BY <1>3 DEF Quiet, Still
    <2>2. SynthsOk(b) /\ \A p \in Sides : Fresh(b.lo[p].fl) /\ b.lo[p].cur = 0
      BY <1>2, <2>1, FreshNew DEF SynthsOk, SynthOk, SameSynth
    <2> QED BY <1>2, <2>1, <2>2, SetSelf
  <1>5. Brought(b, c)
    BY <1>4, SetupIs
  <1> HIDE DEF c
  <1>6. Shape(c) /\ (~(c.rc < 0) => Ready(c) /\ c.autocal) /\ TxAt(c) /\ Near(c)
    BY <1>5 DEF Brought
  <1>7. Quiet(c, y) /\ y.rc \in {ENODEV, 0} /\ (c.rc < 0 => y.rc = ENODEV)
    <2>1. CASE c.rc < 0
      BY <1>1, <1>6, <2>1, ReturnQuiet
    <2>2. CASE ~(c.rc < 0)
      BY <1>1, <1>6, <2>2, OkQuiet
    <2> QED BY <2>1, <2>2
  <1>8. Shape(y) /\ y.pd = c.pd /\ y.en = c.en /\ y.trk = c.trk /\ y.autocal = c.autocal
        /\ \A p \in Sides : SameSynth(c.lo[p], y.lo[p])
    BY <1>7 DEF Quiet, Still
  <1>9. ~(y.rc < 0) => Ready(y) /\ y.autocal
    <2>1. ~(y.rc < 0) => Ready(c) /\ c.autocal
      BY <1>6, <1>7 DEF ENODEV
    <2>2. Ready(c) => Ready(y)
      BY <1>8 DEF Ready, Sane, Awake
    <2>3. c.autocal => y.autocal
      BY <1>8, Zenon
    <2> HIDE DEF Ready
    <2> QED BY <2>1, <2>2, <2>3, Zenon
  <1>11. TxAt(y) /\ Near(y)
    BY <1>6, <1>7, StillTx, TxKept DEF Quiet, Still
  <1>10. Placed(y)
    BY <1>5, <1>8 DEF Brought, SameSynth, Placed, Agree, DuplexLos, SameLo, Sides
  <1> QED BY <1>4, <1>5, <1>7, <1>8, <1>9, <1>10, <1>11 DEF Brought, SynthsOk, SynthOk, SameSynth, SamePd

\* Another number of channels: a setup that went to its end leaves the radio up.
LEMMA NoChIs ==
  ASSUME NEW x, Shape(x), SynthsOk(x), \A p \in Sides : x.pd.synth[p] \in LoFreqs,
         NEW n, NEW y, y = set_no_ch_mode(x, n)
  PROVE  /\ Shape(y) /\ SynthsOk(y) /\ SamePd(x, y) /\ Placed(y)
         /\ \A p \in Sides : Fresh(y.lo[p].fl)
         /\ TxAt(y) /\ Near(y)
         /\ y.autocal => Ready(y)
  <1> DEFINE v == n = 2
             a == [x EXCEPT !.pd.rx2tx2 = v]
             b == ad9361_reset(a)
             c == clear_state(b)
             d == recalc_all(c)
             e == Ok(d)
             f == ad9361_setup(e)
  <1>1. y = Ok(f)
    BY DEF set_no_ch_mode
  <1> HIDE DEF v
  <1>2. Shape(a) /\ a.lo = x.lo /\ a.pd = [x.pd EXCEPT !.rx2tx2 = v]
    BY DEF Shape, Fields, default_init_param
  <1> HIDE DEF a
  <1>3. SynthsOk(a) /\ SamePd(x, a)
    BY <1>2 DEF SynthsOk, SamePd
  <1>4. Shape(b) /\ SynthsOk(b) /\ b.pd = a.pd
        /\ \A p \in Sides : b.lo[p].fl = Reset(a.lo[p].fl)
    BY <1>2, <1>3, ResetIs
  <1> HIDE DEF b
  <1>5. /\ Shape(c) /\ SynthsOk(c) /\ SamePd(b, c) /\ ~c.autocal
        /\ \A p \in Sides : c.lo[p].fl = Cleared(b.lo[p].fl) /\ c.lo[p].cur = 0
    BY <1>4, ClearIs
  <1>6. \A p \in Sides : c.lo[p].fl = NoFastlock
    BY <1>2, <1>4, <1>5, ResetLockShape DEF Shape
  <1> HIDE DEF c
  <1>7. Quiet(c, d)
    BY <1>5, RecalcQuiet
  <1> HIDE DEF d
  <1>8. Quiet(c, e)
    BY <1>7, QuietShape, OkQuiet, QuietTrans
  <1> HIDE DEF e
  <1>9. Set(e, e) /\ SamePd(x, e) /\ e.lo.tx.cur = 0
    <2>1. Shape(e) /\ e.pd = c.pd /\ e.autocal = c.autocal
          /\ \A p \in Sides : SameSynth(c.lo[p], e.lo[p])
      BY <1>8 DEF Quiet, Still
    <2>2. SynthsOk(e) /\ \A p \in Sides : Fresh(e.lo[p].fl) /\ e.lo[p].cur = 0
      BY <1>5, <1>6, <2>1, FreshNew DEF SynthsOk, SynthOk, SameSynth
    <2>3. SamePd(x, e)
      BY <1>3, <1>4, <1>5, <2>1 DEF SamePd
    <2> QED BY <1>5, <2>1, <2>2, <2>3, SetSelf DEF SamePd
  <1>10. Brought(e, f)
    BY <1>9, SetupIs
  <1> HIDE DEF f
  <1>11. Quiet(f, y)
    BY <1>1, <1>10, OkQuiet DEF Brought
  <1>12. Shape(y) /\ y.pd = f.pd /\ y.en = f.en /\ y.trk = f.trk /\ y.autocal = f.autocal
         /\ \A p \in Sides : SameSynth(f.lo[p], y.lo[p])
    BY <1>11 DEF Quiet, Still
  <1>13. y.autocal => Ready(y)
    BY <1>10, <1>12 DEF Brought, Ready, Sane, Awake
  <1>14. Placed(y)
    BY <1>10, <1>12 DEF Brought, SameSynth, Placed, Agree, DuplexLos, SameLo, Sides
  <1>15. TxAt(y) /\ Near(y)
    BY <1>10, <1>11, StillTx, TxKept DEF Brought, Quiet, Still
  <1> QED BY <1>9, <1>10, <1>12, <1>13, <1>14, <1>15 DEF Brought, SynthsOk, SynthOk, SameSynth, SamePd

\* main's calls after the initialisation.
LEMMA MainFine ==
  ASSUME NEW x, Shape(x), SynthsOk(x), NEW step \in 2..15, NEW y, y = main(x, step)
  PROVE  Fine(x, y)
  <1> DEFINE yes == TRUE
             dir == IF step = 4 THEN "tx" ELSE "rx"
             ps == {dir}
             lop == IF step = 8 THEN "tx" ELSE "rx"
             lof == IF step = 8 THEN tx_lo_freq ELSE rx_lo_freq
             bwp == IF step = 10 THEN "tx" ELSE "rx"
             up == ad9361_init(x)
             txfir == set_tx_fir_config(x, tx_fir_config)
             rxfir == set_rx_fir_config(x, rx_fir_config)
             enable == set_fir_en_dis(x, ps, yes)
             rate == set_sampling_freq(x, sample_rate)
             lo == set_lo(x, lop, lof)
             bw == set_rf_bandwidth(x, bwp, bandwidth)
             rxgain == set_rx_rf_gain(x, step - 12, gain)
             atten == set_tx_attenuation(x, step - 14, txatt)
  <1>5. y = CASE step = 1 -> up
              [] step = 2 -> txfir
              [] step = 3 -> rxfir
              [] step \in {4, 5} -> enable
              [] step \in {6, 7} -> rate
              [] step \in {8, 9} -> lo
              [] step \in {10, 11} -> bw
              [] step \in {12, 13} -> rxgain
              [] step \in {14, 15} -> atten
    BY DEF main
  <1>1. y \in {txfir, rxfir, enable, rate, lo, bw, rxgain, atten}
    <2> HIDE DEF up, txfir, rxfir, enable, rate, lo, bw, rxgain, atten
    <2> QED BY <1>5
  <1>2. lop \in Sides /\ lof \in LoFreqs
    BY DEF Sides, LoFreqs
  <1> HIDE DEF yes, ps, lop, lof, bwp
  <1>3. CASE y = lo
    BY <1>2, <1>3, SetLoFine
  <1>4. CASE y # lo
    <2>1. Kept(x, y)
      BY <1>1, <1>4, FirConfigKept, FirEnableKept, SamplingKept, BandwidthKept, GainsQuiet, QuietKept
    <2> QED BY <2>1, KeptFine
  <1> QED BY <1>3, <1>4

\* Of a state the parts the steps carry along.
Alike(x, y) == /\ Shape(y) /\ y.lo = x.lo /\ y.en = x.en /\ y.trk = x.trk /\ y.pd = x.pd
              /\ y.autocal = x.autocal /\ y.qc.freq = x.qc.freq

LEMMA AlikeTx ==
  ASSUME NEW x, NEW y, Alike(x, y)
  PROVE  (TxAt(x) <=> TxAt(y)) /\ (Near(x) <=> Near(y))
  <1>1. TxSame(x, y) /\ TxSame(y, x) /\ y.qc.freq = x.qc.freq
    BY DEF Alike, TxSame
  <1> QED BY <1>1, TxKept

\* A call in which nothing, or one thing, goes wrong starts from the state as it is.
LEMMA DuringIs ==
  ASSUME NEW x, Shape(x), NEW o \in {Nominal} \cup Faults, NEW a \in Alcs,
         NEW y, y = During(Ok(x), o, a)
  PROVE  /\ Alike(x, y)
         /\ o = Nominal /\ y.pd.managed => Converges(y)
  <1> DEFINE l == o.late
             q == o.quad
             z == Ok(x)
  <1>1. a \in AlcWords /\ q.first \in QuadAnswers
    BY ParamsAssumption DEF Nominal, QuadAnswers
  <1>2. o = Nominal => l = {} /\ q = Nominal.quad
    BY DEF Nominal
  <1>3. Quiet(x, z)
    BY OkQuiet
  <1> HIDE DEF z
  <1>4. y = [z EXCEPT !.late = l, !.quad = q, !.alc = a]
    BY DEF During, z
  <1> HIDE DEF l, q
  <1>5. /\ Shape(y) /\ y.lo = z.lo /\ y.en = z.en /\ y.trk = z.trk /\ y.pd = z.pd
        /\ y.autocal = z.autocal /\ y.late = l /\ y.quad = q /\ y.qc.freq = z.qc.freq
    BY <1>1, <1>3, <1>4 DEF Quiet, Still, Shape, Fields
  <1>6. z.lo = x.lo
    BY DEF z, Ok, Return, Shape
  <1> QED BY <1>2, <1>3, <1>5, <1>6 DEF Alike, Converges, Quiet, Still

LEMMA SettledIs ==
  ASSUME NEW x, Shape(x) PROVE Alike(x, Settled(x))
  <1> DEFINE q == Nominal.quad
             y == [x EXCEPT !.late = {}, !.quad = q, !.alc = 0, !.rc = 0]
  <1>1. Settled(x) = y
    BY DEF Settled, During, Nominal
  <1>2. 0 \in AlcWords /\ q.first \in QuadAnswers
    BY FastlockAssumption DEF AlcWords, Nominal, QuadAnswers
  <1> HIDE DEF q
  <1> QED BY <1>1, <1>2 DEF Alike, Shape, Fields

\* What the calls do: those of Fine, and those about the state machine.
Good(x, y) == Moved(x, y) /\ (Converges(x) /\ Ready(x) => Ready(y))

LEMMA FineGood ==
  ASSUME NEW x, NEW y, Fine(x, y) PROVE Good(x, y)
  BY DEF Fine, Good, Ready, Returns, Held

LEMMA ReturnsGood ==
  ASSUME NEW x, NEW y, Moved(x, y), Returns(x, y) PROVE Good(x, y)
  BY DEF Good, Ready, Returns, Held

LEMMA TurnedGood ==
  ASSUME NEW x, SynthsOk(x), NEW y, Turned(x, y), Sane(x) => Sane(y) PROVE Good(x, y)
  BY TurnedMoved DEF Good, Ready, Turned

\* The state a call starts from.
Start(o, a) == During(Ok(s), o, a)
Outcomes == {Nominal} \cup Faults

\* The driver is the one of a radio whose power-down of an LO it manages itself.
Managed == \A pd \in Params : pd.managed

\* A radio in use tracks what is wanted and is in a state of its duplex mode.
Sound == /\ Shape(s) /\ SynthsOk(s) /\ phy \in BOOLEAN
         /\ \A p \in Sides : s.pd.synth[p] \in LoFreqs
         /\ Managed => s.pd.managed
         /\ Managed /\ InUse => Ready(s)
         /\ TxAt(s)
         /\ InUse /\ "manual" \notin past => s.autocal /\ Near(s)

LEMMA SameMoves ==
  ASSUME NEW x, NEW y, NEW t, NEW u, Alike(x, y), Alike(t, u), SynthsOk(x)
  PROVE  /\ Shape(y) /\ SynthsOk(y) /\ (Ready(x) => Ready(y))
         /\ Moved(y, t) => Moved(x, u)
         /\ Ready(t) => Ready(u)
         /\ Held(y, t) => Held(x, u)
  <1>1. QuadStep(y, t) => QuadStep(x, u)
    BY AlikeTx DEF QuadStep, Alike
  <1>2. /\ Shape(y) /\ SynthsOk(y) /\ (Ready(x) => Ready(y))
        /\ Ready(t) => Ready(u)
        /\ Held(y, t) => Held(x, u)
    BY DEF Alike, SynthsOk, Ready, Sane, Awake, Held
  <1>3. SameLos(y, t) => SameLos(x, u)
    BY DEF Alike, SameLos
  <1>4. Placed(t) => Placed(u)
    BY DEF Alike, Placed, Agree, DuplexLos, SameLo
  <1>5. ASSUME Moved(y, t) PROVE Moved(x, u)
    <2>1. Shape(u) /\ SynthsOk(u) /\ SamePd(x, u)
      BY <1>5 DEF Alike, Moved, SynthsOk, SamePd
    <2>2. \A p \in Sides : FlStep(x.lo[p].fl, u.lo[p].fl)
      BY <1>5 DEF Alike, Moved
    <2> QED BY <1>1, <1>3, <1>4, <1>5, <2>1, <2>2 DEF Moved, Tables
  <1> QED BY <1>2, <1>5

\* The states a call starts from.
LEMMA Starts ==
  ASSUME Sound, NEW o \in Outcomes, NEW a \in Alcs
  PROVE  LET x == Start(o, a)
         IN /\ Alike(s, x) /\ (o = Nominal /\ x.pd.managed => Converges(x))
            /\ Shape(x) /\ SynthsOk(x) /\ x.lo = s.lo /\ x.autocal = s.autocal
            /\ \A p \in Sides : x.pd.synth[p] \in LoFreqs
  <1> DEFINE x == Start(o, a)
  <1>1. Alike(s, x) /\ (o = Nominal /\ x.pd.managed => Converges(x))
    BY DuringIs DEF Sound, Start, Outcomes
  <1> HIDE DEF x
  <1>2. /\ Shape(x) /\ SynthsOk(x) /\ x.lo = s.lo /\ x.autocal = s.autocal
        /\ \A p \in Sides : x.pd.synth[p] \in LoFreqs
    BY <1>1 DEF Alike, SynthsOk, Sound
  <1> QED BY <1>1, <1>2 DEF x

\* What any call guarantees, and one that is not about the state machine.
Stepped == /\ Moved(s, s') /\ (Managed /\ InUse' => Ready(s'))
           /\ InUse' /\ "manual" \notin past' => s'.autocal /\ Near(s')
Steady == Stepped /\ (Managed /\ InUse' => Sane(s) /\ Held(s, s'))

LEMMA EndsGood ==
  ASSUME Sound, phy' = phy, NEW o \in Outcomes, NEW a \in Alcs, NEW t, NEW plain,
         Good(Start(o, a), t), Good(Start(Nominal, a), plain),
         NEW name, name # "set_no_ch_mode", NEW arg, Ends(name, arg, t, plain),
         Start(o, a).autocal => t.autocal \/ "manual" \in past'
  PROVE  /\ Stepped
         /\ (Converges(Start(Nominal, a)) => Returns(Start(Nominal, a), plain)) => Steady
  <1> DEFINE x == Start(o, a)
             x0 == Start(Nominal, a)
  <1>1. Shape(s) /\ SynthsOk(s)
    BY DEF Sound
  <1>2. Alike(s, x) /\ Alike(s, x0) /\ (x0.pd.managed => Converges(x0))
    BY Starts DEF Outcomes
  <1> HIDE DEF x, x0
  <1>3. Good(x, t) /\ Good(x0, plain)
    BY DEF x, x0
  <1>4. Shape(t) /\ Shape(plain)
    BY <1>3 DEF Good, Moved
  <1>5. Alike(t, Settled(t)) /\ Alike(plain, Settled(plain))
    BY <1>4, SettledIs
  <1>6. s' = Settled(t)
    BY DEF Ends
  <1>7. Moved(s, s')
    BY <1>1, <1>2, <1>3, <1>5, <1>6, SameMoves DEF Good
  <1>8. ASSUME Managed, InUse'
        PROVE  /\ Ready(s') /\ Sane(s)
               /\ (Converges(x0) => Returns(x0, plain)) => Held(s, s')
    <2>1. past \subseteq past' /\ (Settled(t) # Settled(plain) => "fault" \in past')
      BY DEF Ends, Bit
    <2>2. InUse /\ s' = Settled(plain)
      BY <1>6, <1>8, <2>1 DEF InUse
    <2>3. Ready(s) /\ s.pd.managed
      BY <1>8, <2>2 DEF Sound
    <2>4. Ready(x0) /\ Converges(x0)
      BY <1>1, <1>2, <1>5, <2>3, SameMoves DEF Alike
    <2>5. Ready(plain) /\ ((Converges(x0) => Returns(x0, plain)) => Held(x0, plain))
      BY <1>3, <2>4 DEF Good, Returns
    <2> QED BY <1>1, <1>2, <1>5, <2>2, <2>3, <2>5, SameMoves DEF Ready
  <1>9. ASSUME InUse', "manual" \notin past'
        PROVE  s'.autocal /\ Near(s')
    <2>1. past \subseteq past' /\ (Settled(t) # Settled(plain) => "fault" \in past')
      BY DEF Ends, Bit
    <2>2. InUse /\ "manual" \notin past
      BY <1>6, <1>9, <2>1 DEF InUse
    <2>3. s.autocal /\ Near(s) /\ TxAt(s)
      BY <2>2 DEF Sound
    <2>4. t.autocal
      <3>1. x.autocal => t.autocal
        BY <1>9 DEF x
      <3> QED BY <1>2, <2>3, <3>1 DEF Alike
    <2>5. s'.autocal
      BY <1>5, <1>6, <2>4 DEF Alike
    <2> QED BY <1>7, <2>3, <2>5 DEF Moved, QuadStep
  <1> QED BY <1>7, <1>8, <1>9 DEF Stepped, Steady, x0

LEMMA EndsFine ==
  ASSUME Sound, phy' = phy, NEW o \in Outcomes, NEW a \in Alcs, NEW t, NEW plain,
         Fine(Start(o, a), t), Fine(Start(Nominal, a), plain),
         NEW name, name # "set_no_ch_mode", NEW arg, Ends(name, arg, t, plain)
  PROVE  Steady
  <1>1. t.autocal = Start(o, a).autocal
    BY DEF Fine
  <1>2. Converges(Start(Nominal, a)) => Returns(Start(Nominal, a), plain)
    BY DEF Fine
  <1> QED BY <1>1, <1>2, EndsGood, FineGood

LEMMA EndsKept ==
  ASSUME Sound, phy' = phy, NEW o \in Outcomes, NEW a \in Alcs, NEW t, NEW plain,
         Kept(Start(o, a), t), Kept(Start(Nominal, a), plain),
         NEW name, name # "set_no_ch_mode", NEW arg, Ends(name, arg, t, plain)
  PROVE  Steady
  <1>1. \A q \in {o, Nominal} : q \in Outcomes
    BY DEF Outcomes
  <1> QED BY <1>1, Starts, KeptFine, EndsFine

-----------------------------------------------------------------------------
(* The calls, one by one.                                                     *)

LEMMA SamplingSteady ==
  ASSUME Sound, Sampling PROVE Steady
  <1>1. PICK rate \in Rates, o \in Outcomes, a \in Alcs :
          /\ Ends("set_sampling_freq", rate, set_sampling_freq(Start(o, a), rate),
                  set_sampling_freq(Start(Nominal, a), rate))
          /\ phy' = phy
    BY DEF Sampling, API, Perform, Start, Outcomes
  <1>2. \A q \in Outcomes : Kept(Start(q, a), set_sampling_freq(Start(q, a), rate))
    BY Starts, SamplingKept
  <1> QED BY <1>1, <1>2, EndsKept DEF Outcomes

LEMMA BandwidthSteady ==
  ASSUME Sound, Bandwidth PROVE Steady
  <1>1. PICK p \in Sides, bw \in Bws, o \in Outcomes, a \in Alcs :
          /\ Ends(For(p, "set_rx_rf_bandwidth", "set_tx_rf_bandwidth"), bw,
                  set_rf_bandwidth(Start(o, a), p, bw), set_rf_bandwidth(Start(Nominal, a), p, bw))
          /\ phy' = phy
    BY DEF Bandwidth, API, Perform, Start, Outcomes, Sides
  <1>2. \A q \in Outcomes : Kept(Start(q, a), set_rf_bandwidth(Start(q, a), p, bw))
    BY Starts, BandwidthKept
  <1>3. For(p, "set_rx_rf_bandwidth", "set_tx_rf_bandwidth") # "set_no_ch_mode"
    BY DEF For
  <1> QED BY <1>1, <1>2, <1>3, EndsKept DEF Outcomes

LEMMA SetLoSteady ==
  ASSUME Sound, SetLo PROVE Steady
  <1>1. PICK p \in Sides, f \in Los, o \in Outcomes, a \in Alcs :
          /\ Ends(For(p, "set_rx_lo_freq", "set_tx_lo_freq"), f,
                  set_lo(Start(o, a), p, f), set_lo(Start(Nominal, a), p, f))
          /\ phy' = phy
    BY DEF SetLo, API, Perform, Start, Outcomes, Sides
  <1>2. f \in LoFreqs
    BY DEF LoFreqs
  <1>3. \A q \in Outcomes : Fine(Start(q, a), set_lo(Start(q, a), p, f))
    BY <1>2, Starts, SetLoFine
  <1>4. For(p, "set_rx_lo_freq", "set_tx_lo_freq") # "set_no_ch_mode"
    BY DEF For
  <1> QED BY <1>1, <1>3, <1>4, EndsFine DEF Outcomes

LEMMA IntExtSteady ==
  ASSUME Sound, IntExt PROVE Steady
  <1>1. PICK p \in Sides, ext \in BOOLEAN, o \in Outcomes, a \in Alcs :
          /\ Ends(For(p, "set_rx_lo_int_ext", "set_tx_lo_int_ext"), ext,
                  set_lo_int_ext(Start(o, a), p, ext), set_lo_int_ext(Start(Nominal, a), p, ext))
          /\ phy' = phy
    BY DEF IntExt, API, Perform, Start, Outcomes, Sides
  <1>2. \A q \in Outcomes : Fine(Start(q, a), set_lo_int_ext(Start(q, a), p, ext))
    BY Starts, IntExtFine
  <1>3. For(p, "set_rx_lo_int_ext", "set_tx_lo_int_ext") # "set_no_ch_mode"
    BY DEF For
  <1> QED BY <1>1, <1>2, <1>3, EndsFine DEF Outcomes

LEMMA LoPowerSteady ==
  ASSUME Sound, LoPower PROVE Steady
  <1>1. PICK off \in BOOLEAN : \E o \in Outcomes, a \in Alcs :
          LET option == IF off THEN "off" ELSE "on"
              rx(q) == synth_lo_powerdown(Start(q, a), option, "dontcare")
              tx(q) == synth_lo_powerdown(Start(q, a), "dontcare", option)
          IN /\ \/ Ends("rx_lo_powerdown", off, rx(o), rx(Nominal))
                \/ Ends("tx_lo_powerdown", off, tx(o), tx(Nominal))
             /\ phy' = phy
    BY DEF LoPower, API, Perform, Start, Outcomes
  <1> DEFINE option == IF off THEN "off" ELSE "on"
  <1> HIDE DEF option
  <1>2. PICK o \in Outcomes, a \in Alcs :
          /\ \/ Ends("rx_lo_powerdown", off, synth_lo_powerdown(Start(o, a), option, "dontcare"),
                     synth_lo_powerdown(Start(Nominal, a), option, "dontcare"))
             \/ Ends("tx_lo_powerdown", off, synth_lo_powerdown(Start(o, a), "dontcare", option),
                     synth_lo_powerdown(Start(Nominal, a), "dontcare", option))
          /\ phy' = phy
    BY <1>1 DEF option
  <1>3. \A q \in Outcomes :
          /\ Fine(Start(q, a), synth_lo_powerdown(Start(q, a), option, "dontcare"))
          /\ Fine(Start(q, a), synth_lo_powerdown(Start(q, a), "dontcare", option))
    BY <1>2, Starts, PowerFine
  <1> QED BY <1>2, <1>3, EndsFine DEF Outcomes

\* The profiles hold frequencies of the radio and words.
Saved == \A p \in Sides, j \in Profiles : /\ s.lo[p].fl.mem[j].freq \in LoWords
                                          /\ s.lo[p].fl.mem[j].word \in Words

LEMMA FastlockingSteady ==
  ASSUME Sound, Saved, Fastlocking PROVE Steady
  <1>1. PICK p \in Sides, k \in Profiles : \E o \in Outcomes, a \in Alcs :
          /\ \/ Ends("fastlock_store", <<p, k>>, fastlock_store(Start(o, a), p, k),
                     fastlock_store(Start(Nominal, a), p, k))
             \/ Ends("fastlock_recall", <<p, k>>, fastlock_recall(Start(o, a), p, k),
                     fastlock_recall(Start(Nominal, a), p, k))
             \/ \E j \in Profiles :
                  Ends("fastlock_load", <<p, k>>,
                       fastlock_load(Start(o, a), p, k, fastlock_save(Start(o, a), p, j)),
                       fastlock_load(Start(Nominal, a), p, k, fastlock_save(Start(Nominal, a), p, j)))
          /\ phy' = phy
    BY DEF Fastlocking, API, Perform, Start, Outcomes, Sides
  <1>2. PICK o \in Outcomes, a \in Alcs :
          /\ \/ Ends("fastlock_store", <<p, k>>, fastlock_store(Start(o, a), p, k),
                     fastlock_store(Start(Nominal, a), p, k))
             \/ Ends("fastlock_recall", <<p, k>>, fastlock_recall(Start(o, a), p, k),
                     fastlock_recall(Start(Nominal, a), p, k))
             \/ \E j \in Profiles :
                  Ends("fastlock_load", <<p, k>>,
                       fastlock_load(Start(o, a), p, k, fastlock_save(Start(o, a), p, j)),
                       fastlock_load(Start(Nominal, a), p, k, fastlock_save(Start(Nominal, a), p, j)))
          /\ phy' = phy
    BY <1>1
  <1>3. \A q \in Outcomes, j \in Profiles :
          /\ Fine(Start(q, a), fastlock_store(Start(q, a), p, k))
          /\ Fine(Start(q, a), fastlock_recall(Start(q, a), p, k))
          /\ Fine(Start(q, a), fastlock_load(Start(q, a), p, k, fastlock_save(Start(q, a), p, j)))
    <2> SUFFICES ASSUME NEW q \in Outcomes, NEW j \in Profiles
                 PROVE  /\ Fine(Start(q, a), fastlock_store(Start(q, a), p, k))
                        /\ Fine(Start(q, a), fastlock_recall(Start(q, a), p, k))
                        /\ Fine(Start(q, a),
                                fastlock_load(Start(q, a), p, k, fastlock_save(Start(q, a), p, j)))
      OBVIOUS
    <2>1. /\ Shape(Start(q, a)) /\ SynthsOk(Start(q, a))
          /\ Start(q, a).lo[p].fl.mem[j].freq \in LoWords
          /\ Start(q, a).lo[p].fl.mem[j].word \in Words
      BY Starts DEF Saved
    <2> QED BY <2>1, FastlockFine
  <1>4. k \in Profiles
    OBVIOUS
  <1> QED BY <1>2, <1>3, <1>4, EndsFine DEF Outcomes

LEMMA EnsmStepped ==
  ASSUME Sound, Ensm PROVE Stepped
  <1>1. PICK mode \in EnsmModes, o \in Outcomes, a \in Alcs :
          /\ Ends("set_en_state_machine_mode", mode, set_en_state_machine_mode(Start(o, a), mode),
                  set_en_state_machine_mode(Start(Nominal, a), mode))
          /\ phy' = phy
    BY DEF Ensm, API, Perform, Start, Outcomes
  <1>2. \A q \in Outcomes :
          /\ Good(Start(q, a), set_en_state_machine_mode(Start(q, a), mode))
          /\ set_en_state_machine_mode(Start(q, a), mode).autocal = Start(q, a).autocal
    BY Starts, EnModeIs, TurnedGood DEF Turned
  <1> QED BY <1>1, <1>2, EndsGood DEF Outcomes

LEMMA EndsName ==
  ASSUME NEW name, NEW arg, NEW t, NEW plain, Ends(name, arg, t, plain)
  PROVE  call'.name = name
  BY DEF Ends

LEMMA McsStepped ==
  ASSUME Sound, Mcs PROVE Stepped /\ call'.name = "do_mcs"
  <1>1. PICK o \in Outcomes, a \in Alcs :
          /\ \/ Ends("do_mcs", "master",
                     do_mcs(Start(o, a), get_en_state_machine_mode(Start(o, a))),
                     do_mcs(Start(Nominal, a), get_en_state_machine_mode(Start(Nominal, a))))
             \/ \E mode \in {"FDD", "ALERT", "RX"} :
                  Ends("do_mcs", "slave", do_mcs(Start(o, a), mode), do_mcs(Start(Nominal, a), mode))
          /\ phy' = phy
    BY DEF Mcs, API, Perform, Start, Outcomes
  <1>2. \A mode : \A q \in Outcomes : /\ Good(Start(q, a), do_mcs(Start(q, a), mode))
                                      /\ do_mcs(Start(q, a), mode).autocal = Start(q, a).autocal
    BY Starts, McsIs, TurnedGood DEF Turned
  <1>3. call'.name = "do_mcs"
    BY <1>1, EndsName
  <1> QED BY <1>1, <1>2, <1>3, EndsGood DEF Outcomes

LEMMA TrackingSteady ==
  ASSUME Sound, Tracking PROVE Steady
  <1>1. PICK which \in Trackings, on \in BOOLEAN, o \in Outcomes, a \in Alcs :
          /\ Ends("set_track_en_dis", <<which, on>>, set_track_en_dis(Start(o, a), which, on),
                  set_track_en_dis(Start(Nominal, a), which, on))
          /\ phy' = phy
    BY DEF Tracking, API, Perform, Start, Outcomes
  <1>2. \A q \in Outcomes : Kept(Start(q, a), set_track_en_dis(Start(q, a), which, on))
    BY Starts, TrackKept
  <1> QED BY <1>1, <1>2, EndsKept DEF Outcomes

LEMMA CalibrateSteady ==
  ASSUME Sound, Calibrate PROVE Steady
  <1>1. PICK cal \in {"TX_QUAD", "RFDC", "other"}, arg \in {-2, -1}, o \in Outcomes, a \in Alcs :
          /\ Ends("do_calib", <<cal, arg>>, do_calib_run(Start(o, a), cal, arg),
                  do_calib_run(Start(Nominal, a), cal, arg))
          /\ phy' = phy
    BY DEF Calibrate, API, Perform, Start, Outcomes
  <1>2. \A q \in Outcomes : Fine(Start(q, a), do_calib_run(Start(q, a), cal, arg))
    BY Starts, CalibFine
  <1> QED BY <1>1, <1>2, EndsFine DEF Outcomes

LEMMA FirEnableSteady ==
  ASSUME Sound, FirEnable PROVE Steady
  <1>1. PICK on \in BOOLEAN, o \in Outcomes, a \in Alcs :
          /\ \/ Ends("set_rx_fir_en_dis", on, set_fir_en_dis(Start(o, a), {"rx"}, on),
                     set_fir_en_dis(Start(Nominal, a), {"rx"}, on))
             \/ Ends("set_tx_fir_en_dis", on, set_fir_en_dis(Start(o, a), {"tx"}, on),
                     set_fir_en_dis(Start(Nominal, a), {"tx"}, on))
             \/ Ends("set_trx_fir_en_dis", on, set_fir_en_dis(Start(o, a), {"rx", "tx"}, on),
                     set_fir_en_dis(Start(Nominal, a), {"rx", "tx"}, on))
          /\ phy' = phy
    BY DEF FirEnable, API, Perform, Start, Outcomes
  <1>2. \A ps : \A q \in Outcomes : Kept(Start(q, a), set_fir_en_dis(Start(q, a), ps, on))
    BY Starts, FirEnableKept
  <1> QED BY <1>1, <1>2, EndsKept DEF Outcomes

LEMMA FirConfigSteady ==
  ASSUME Sound, FirConfig PROVE Steady
  <1>1. PICK cfg \in Fir, o \in Outcomes, a \in Alcs :
          /\ \/ Ends("set_rx_fir_config", cfg, set_rx_fir_config(Start(o, a), cfg.rx),
                     set_rx_fir_config(Start(Nominal, a), cfg.rx))
             \/ Ends("set_tx_fir_config", cfg, set_tx_fir_config(Start(o, a), cfg.tx),
                     set_tx_fir_config(Start(Nominal, a), cfg.tx))
             \/ Ends("trx_load_enable_fir", cfg, trx_load_enable_fir(Start(o, a), cfg.rx, cfg.tx),
                     trx_load_enable_fir(Start(Nominal, a), cfg.rx, cfg.tx))
          /\ phy' = phy
    BY DEF FirConfig, API, Perform, Start, Outcomes
  <1>2. \A q \in Outcomes :
          /\ Kept(Start(q, a), set_rx_fir_config(Start(q, a), cfg.rx))
          /\ Kept(Start(q, a), set_tx_fir_config(Start(q, a), cfg.tx))
          /\ Kept(Start(q, a), trx_load_enable_fir(Start(q, a), cfg.rx, cfg.tx))
    BY Starts, FirConfigKept, LoadEnableKept
  <1> QED BY <1>1, <1>2, EndsKept DEF Outcomes

LEMMA PathClksSteady ==
  ASSUME Sound, PathClks PROVE Steady
  <1>1. PICK rate \in Rates : \E o \in Outcomes, a \in Alcs :
          LET plan == calculate_rf_clock_chain(rate, 0, 1, 1, FALSE)
          IN /\ Ends("set_trx_path_clks", rate, set_trx_path_clks(Start(o, a), plan.rx, plan.tx),
                     set_trx_path_clks(Start(Nominal, a), plan.rx, plan.tx))
             /\ phy' = phy
    BY DEF PathClks, API, Perform, Start, Outcomes
  <1> DEFINE plan == calculate_rf_clock_chain(rate, 0, 1, 1, FALSE)
             rx == plan.rx
             tx == plan.tx
  <1>2. PICK o \in Outcomes, a \in Alcs :
          /\ Ends("set_trx_path_clks", rate, set_trx_path_clks(Start(o, a), rx, tx),
                  set_trx_path_clks(Start(Nominal, a), rx, tx))
          /\ phy' = phy
    BY <1>1
  <1> HIDE DEF rx, tx
  <1>3. \A q \in Outcomes : Kept(Start(q, a), set_trx_path_clks(Start(q, a), rx, tx))
    BY Starts, PathClksKept
  <1> QED BY <1>2, <1>3, EndsKept DEF Outcomes

LEMMA GainModeSteady ==
  ASSUME Sound, GainMode PROVE Steady
  <1>1. PICK ch \in {0, 1}, mode \in AgcModes, o \in Outcomes, a \in Alcs :
          /\ Ends("set_rx_gain_control_mode", <<ch, mode>>,
                  set_rx_gain_control_mode(Start(o, a), ch, mode),
                  set_rx_gain_control_mode(Start(Nominal, a), ch, mode))
          /\ phy' = phy
    BY DEF GainMode, API, Perform, Start, Outcomes
  <1>2. \A q \in Outcomes : Kept(Start(q, a), set_rx_gain_control_mode(Start(q, a), ch, mode))
    BY Starts, GainModeQuiet, QuietKept
  <1> QED BY <1>1, <1>2, EndsKept DEF Outcomes

LEMMA GainsSteady ==
  ASSUME Sound, Gains PROVE Steady
  <1>1. PICK ch \in {0, 1} :
          \/ \E g \in {10, 60} :
               API("set_rx_rf_gain", <<ch, g>>, LAMBDA t : set_rx_rf_gain(t, ch, g))
          \/ \E g \in {0, MaxAtten + 250} :
               API("set_tx_attenuation", <<ch, g>>, LAMBDA t : set_tx_attenuation(t, ch, g))
    BY DEF Gains
  <1>2. \A g, a : \A q \in Outcomes : a \in Alcs =>
          /\ Kept(Start(q, a), set_rx_rf_gain(Start(q, a), ch, g))
          /\ Kept(Start(q, a), set_tx_attenuation(Start(q, a), ch, g))
    BY Starts, GainsQuiet, QuietKept
  <1>3. CASE \E g \in {10, 60} :
               API("set_rx_rf_gain", <<ch, g>>, LAMBDA t : set_rx_rf_gain(t, ch, g))
    <2>1. PICK g \in {10, 60}, o \in Outcomes, a \in Alcs :
            /\ Ends("set_rx_rf_gain", <<ch, g>>, set_rx_rf_gain(Start(o, a), ch, g),
                    set_rx_rf_gain(Start(Nominal, a), ch, g))
            /\ phy' = phy
      BY <1>3 DEF API, Perform, Start, Outcomes
    <2> QED BY <1>2, <2>1, EndsKept DEF Outcomes
  <1>4. CASE \E g \in {0, MaxAtten + 250} :
               API("set_tx_attenuation", <<ch, g>>, LAMBDA t : set_tx_attenuation(t, ch, g))
    <2>1. PICK g \in {0, MaxAtten + 250}, o \in Outcomes, a \in Alcs :
            /\ Ends("set_tx_attenuation", <<ch, g>>, set_tx_attenuation(Start(o, a), ch, g),
                    set_tx_attenuation(Start(Nominal, a), ch, g))
            /\ phy' = phy
      BY <1>4 DEF API, Perform, Start, Outcomes
    <2> QED BY <1>2, <2>1, EndsKept DEF Outcomes
  <1> QED BY <1>1, <1>3, <1>4

LEMMA MuteSteady ==
  ASSUME Sound, Mute PROVE Steady
  <1>1. PICK on \in BOOLEAN, o \in Outcomes, a \in Alcs :
          /\ Ends("tx_mute", on, tx_mute(Start(o, a), on), tx_mute(Start(Nominal, a), on))
          /\ phy' = phy
    BY DEF Mute, API, Perform, Start, Outcomes
  <1>2. \A q \in Outcomes : Kept(Start(q, a), tx_mute(Start(q, a), on))
    BY Starts, MuteQuiet, QuietKept
  <1> QED BY <1>1, <1>2, EndsKept DEF Outcomes

LEMMA PortsSteady ==
  ASSUME Sound, Ports PROVE Steady
  <1>1. PICK o \in Outcomes, a \in Alcs :
          /\ \/ \E m \in {1, 11, 12} :
                  Ends("set_rx_rf_port_input", m, set_rx_rf_port_input(Start(o, a), m),
                       set_rx_rf_port_input(Start(Nominal, a), m))
             \/ \E m \in {0, 1} :
                  Ends("set_tx_rf_port_output", m, set_tx_rf_port_output(Start(o, a), m),
                       set_tx_rf_port_output(Start(Nominal, a), m))
          /\ phy' = phy
    BY DEF Ports, API, Perform, Start, Outcomes
  <1>2. \A m : \A q \in Outcomes :
          /\ Kept(Start(q, a), set_rx_rf_port_input(Start(q, a), m))
          /\ Kept(Start(q, a), set_tx_rf_port_output(Start(q, a), m))
    BY Starts, PortsQuiet, QuietKept
  <1> QED BY <1>1, <1>2, EndsKept DEF Outcomes

LEMMA GainStepSteady ==
  ASSUME Sound, GainStepCalib PROVE Steady
  <1>1. PICK o \in Outcomes, a \in Alcs :
          /\ Ends("rssi_gain_step_calib", 0,
                  Ok(ensm_restore_prev_state(ensm_force_state(Start(o, a), "ALERT"))),
                  Ok(ensm_restore_prev_state(ensm_force_state(Start(Nominal, a), "ALERT"))))
          /\ phy' = phy
    BY DEF GainStepCalib, API, Perform, Start, Outcomes
  <1>2. \A q \in Outcomes :
          Kept(Start(q, a), Ok(ensm_restore_prev_state(ensm_force_state(Start(q, a), "ALERT"))))
    BY Starts, GainStepKept
  <1> QED BY <1>1, <1>2, EndsKept DEF Outcomes

LEMMA DcxoSteady ==
  ASSUME Sound, Dcxo PROVE Steady
  <1> DEFINE Tuned1(x, coarse) == Ok([x EXCEPT !.dcxo[1] = coarse])
  <1>1. PICK coarse \in {8, 9}, o \in Outcomes, a \in Alcs :
          /\ Ends("do_dcxo_tune_coarse", coarse, Tuned1(Start(o, a), coarse),
                  Tuned1(Start(Nominal, a), coarse))
          /\ phy' = phy
    BY DEF Dcxo, API, Perform, Start, Outcomes
  <1>2. \A q \in Outcomes : Kept(Start(q, a), Tuned1(Start(q, a), coarse))
    BY Starts, DcxoQuiet, QuietKept
  <1> HIDE DEF Tuned1
  <1> QED BY <1>1, <1>2, EndsKept DEF Outcomes

LEMMA AutoCalSteady ==
  ASSUME Sound, AutoCal PROVE Steady
  <1> DEFINE With(x, on) == Ok([x EXCEPT !.autocal = on])
  <1>1. PICK on \in BOOLEAN, o \in Outcomes, a \in Alcs :
          /\ Ends("set_tx_auto_cal_en_dis", on, With(Start(o, a), on), With(Start(Nominal, a), on))
          /\ phy' = phy
    BY DEF AutoCal, API, Perform, Start, Outcomes
  <1>2. \A q \in Outcomes : /\ Moved(Start(q, a), With(Start(q, a), on))
                            /\ Returns(Start(q, a), With(Start(q, a), on))
                            /\ With(Start(q, a), on).autocal = on
    BY Starts, FieldFine
  <1> HIDE DEF With
  <1>3. \A q \in Outcomes : Good(Start(q, a), With(Start(q, a), on))
    BY <1>2, ReturnsGood
  <1>4. on \/ "manual" \in past'
    BY <1>1 DEF Ends, Bit
  <1> QED BY <1>1, <1>2, <1>3, <1>4, EndsGood DEF Outcomes

LEMMA RateGovSteady ==
  ASSUME Sound, RateGov PROVE Steady
  <1> DEFINE With(x, gov) == Ok([x EXCEPT !.pd.gov = gov])
  <1>1. PICK gov \in {0, 1}, o \in Outcomes, a \in Alcs :
          /\ Ends("set_trx_rate_gov", gov, With(Start(o, a), gov), With(Start(Nominal, a), gov))
          /\ phy' = phy
    BY DEF RateGov, API, Perform, Start, Outcomes
  <1>2. \A q \in Outcomes : Fine(Start(q, a), With(Start(q, a), gov))
    BY Starts, FieldFine
  <1> HIDE DEF With
  <1> QED BY <1>1, <1>2, EndsFine DEF Outcomes

\* A new setup: past does not say "halfway" only if it went to its end.
LEMMA NoChModeStepped ==
  ASSUME Sound, NoChMode PROVE Stepped
  <1>1. PICK n \in {1, 2}, o \in Outcomes, a \in Alcs :
          /\ Ends("set_no_ch_mode", n, set_no_ch_mode(Start(o, a), n),
                  set_no_ch_mode(Start(Nominal, a), n))
          /\ phy' = phy
    BY DEF NoChMode, API, Perform, Start, Outcomes
  <1> DEFINE x == Start(o, a)
             t == set_no_ch_mode(x, n)
  <1>2. Shape(s) /\ SynthsOk(s)
    BY DEF Sound
  <1>3. /\ Alike(s, x) /\ Shape(x) /\ SynthsOk(x)
        /\ \A p \in Sides : x.pd.synth[p] \in LoFreqs
    BY Starts
  <1>4. s' = Settled(t) /\ (~t.autocal => "halfway" \in past')
    BY <1>1 DEF Ends, Bit
  <1> HIDE DEF x
  <1>5. Moved(x, t) /\ (t.autocal => Ready(t))
    BY <1>3, NoChIs DEF Moved, FlStep, Tables, QuadStep
  <1>10. Near(t)
    BY <1>3, NoChIs
  <1> HIDE DEF t
  <1>6. Alike(t, s')
    BY <1>4, <1>5, SettledIs DEF Moved
  <1>7. Moved(s, s') /\ (Ready(t) => Ready(s'))
    BY <1>2, <1>3, <1>5, <1>6, SameMoves
  <1>8. InUse' => t.autocal
    BY <1>4 DEF InUse
  <1>9. s'.autocal = t.autocal /\ Near(s')
    BY <1>3, <1>6, <1>10, AlikeTx DEF Alike
  <1> QED BY <1>5, <1>7, <1>8, <1>9 DEF Stepped

\* Before the initialisation the driver's state is new.
Begun == pc = 1 => /\ ~phy /\ ~s.autocal
                   /\ \A p \in Sides : s.lo[p].fl = NoFastlock /\ s.lo[p].cur = 0

LEMMA MainStepped ==
  ASSUME Sound, Begun, pc \in 0..15, MainStep
  PROVE  Stepped /\ pc' \in 0..15 /\ pc' # 1
  <1>1. /\ pc \in 1..15 /\ (phy \/ pc = 1) /\ phy' = (phy \/ call'.rc >= 0)
        /\ pc' = IF pc = 15 THEN MainEnd ELSE pc + 1
    BY DEF MainStep, MainEnd
  <1>2. pc' \in 0..15 /\ pc' # 1
    BY <1>1 DEF MainEnd
  <1>3. PICK o \in Outcomes, a \in Alcs :
          Ends("main", pc, main(Start(o, a), pc), main(Start(Nominal, a), pc))
    BY DEF MainStep, Perform, Start, Outcomes
  <1>4. CASE pc # 1
    <2>1. pc \in 2..15
      BY <1>1, <1>4
    <2>4. phy' = phy
      BY <1>1, <1>4, Zenon DEF Sound
    <2>2. \A q \in Outcomes : Fine(Start(q, a), main(Start(q, a), pc))
      BY <2>1, Starts, MainFine
    <2>3. Steady
      BY <1>3, <2>2, <2>4, EndsFine DEF Outcomes
    <2> QED BY <1>2, <2>3 DEF Steady
  <1>5. CASE pc = 1
    <2> DEFINE x == Start(o, a)
               t == ad9361_init(x)
    <2>1. s' = Settled(t) /\ call'.rc = t.rc
      <3>1. main(x, pc) = t
        BY <1>5 DEF main
      <3> QED BY <1>3, <3>1 DEF Ends
    <2>2. /\ Alike(s, x) /\ Shape(x) /\ SynthsOk(x) /\ x.lo = s.lo /\ ~x.autocal
          /\ \A p \in Sides : /\ x.pd.synth[p] \in LoFreqs /\ x.lo[p].fl = NoFastlock
                              /\ x.lo[p].cur = 0
      BY <1>5, Starts DEF Begun
    <2> HIDE DEF x
    <2>3. Moved(x, t) /\ (~(t.rc < 0) => Ready(t))
      BY <2>2, InitIs DEF Moved, FlStep, Tables, QuadStep
    <2>8. Near(t) /\ (~(t.rc < 0) => t.autocal)
      BY <2>2, InitIs
    <2>4. t.rc >= 0 => ~(t.rc < 0)
      BY <2>2, InitIs DEF ENODEV
    <2> HIDE DEF t
    <2>5. Alike(t, s')
      BY <2>1, <2>3, SettledIs DEF Moved
    <2>6. Moved(s, s') /\ (Ready(t) => Ready(s'))
      BY <2>2, <2>3, <2>5, SameMoves DEF Sound
    <2>7. InUse' => t.rc >= 0
      BY <1>1, <1>5, <2>1 DEF InUse, Begun
    <2>9. Near(s') /\ s'.autocal = t.autocal
      BY <2>5, <2>8, AlikeTx DEF Alike
    <2> QED BY <1>2, <2>3, <2>4, <2>6, <2>7, <2>8, <2>9 DEF Stepped
  <1> QED BY <1>4, <1>5

\* The pins move it within its duplex mode.
LEMMA PinsStepped ==
  ASSUME Sound, PinsMove PROVE Stepped /\ UNCHANGED <<phy, pc, call>>
  <1>1. PICK d \in (IF s.en.fdd THEN {"ALERT", "FDD"} ELSE {"ALERT", "TX", "RX"}) \ {s.en.dev} :
          s' = [s EXCEPT !.en.dev = d]
    BY DEF PinsMove
  <1> DEFINE en == [s.en EXCEPT !.dev = d]
             z == [s EXCEPT !.en = en]
  <1>2. s' = z /\ Shape(s) /\ SynthsOk(s)
    BY <1>1 DEF Sound
  <1>3. /\ DOMAIN en = EnFields /\ en.dev = d /\ en.fdd = s.en.fdd /\ en.clocks = s.en.clocks
    BY <1>2 DEF Shape, EnFields
  <1> HIDE DEF en
  <1>4. /\ Shape(z) /\ z.lo = s.lo /\ z.pd = s.pd /\ z.trk = s.trk /\ z.en = en
        /\ z.qc = s.qc /\ z.autocal = s.autocal
    BY <1>2, <1>3 DEF Shape, Fields
  <1> HIDE DEF z
  <1>5. Moved(s, z)
    <2>1. TxSame(s, z) /\ z.qc.freq = s.qc.freq
      BY <1>4 DEF TxSame
    <2>2. QuadStep(s, z)
      BY <2>1, TxKept
    <2> QED
      BY <1>2, <1>4, <2>2 DEF Moved, SynthsOk, SamePd, FlStep, Retuned, Tables, SameLos
  <1>6. UNCHANGED <<phy, pc, call>> /\ past' = past /\ s.en.clocks
    BY DEF PinsMove
  <1>7. Ready(s) => Ready(z)
    BY <1>1, <1>3, <1>4, <1>6 DEF Ready, Sane, Awake
  <1>8. InUse' => InUse
    BY <1>6 DEF InUse
  <1>9. s.autocal /\ Near(s) => z.autocal /\ Near(z)
    BY <1>4, NearKept
  <1> QED BY <1>2, <1>5, <1>6, <1>7, <1>8, <1>9 DEF Stepped, Sound

-----------------------------------------------------------------------------
(* The fastlocks, and the invariant.                                          *)
FPrx == INSTANCE Fastlock_proofs WITH fl <- s.lo.rx.fl, Freqs <- LoWords
FPtx == INSTANCE Fastlock_proofs WITH fl <- s.lo.tx.fl, Freqs <- LoWords

IInv == Sound /\ Begun /\ pc \in 0..15 /\ FPrx!IInv /\ FPtx!IInv

\* The operators of the instance are those the driver is built from.
LEMMA RxOperators ==
  /\ FPrx!Words = Words /\ FPrx!AlcWords = AlcWords /\ FPrx!NoFastlock = NoFastlock
  /\ \A f, k, freq, w : FPrx!Load(f, k, freq, w) = Load(f, k, freq, w)
  /\ \A f, k, freq : FPrx!Store(f, k, freq) = Store(f, k, freq)
  /\ \A f, k : FPrx!Recall(f, k) = Recall(f, k)
  /\ \A f : FPrx!Leave(f) = Leave(f)
  /\ \A f, a : FPrx!Tune(f, a) = Tune(f, a)
  <1>1. /\ FPrx!AlcWords = AlcWords /\ FPrx!Words = Words /\ FPrx!Blank = Blank
        /\ FPrx!NoFreq = NoFreq
    BY DEF FPrx!AlcWords, AlcWords, FPrx!Words, Words, FPrx!Blank, Blank, FPrx!NoFreq, NoFreq
  <1>2. FPrx!NoFastlock = NoFastlock
    BY <1>1 DEF FPrx!NoFastlock, NoFastlock
  <1>3. \A f, k, freq, w : FPrx!Load(f, k, freq, w) = Load(f, k, freq, w)
    BY DEF FPrx!Load, Load
  <1>4. \A f, k, freq : FPrx!Store(f, k, freq) = Store(f, k, freq)
    BY <1>3 DEF FPrx!Store, Store
  <1>5. \A f, k : FPrx!Recall(f, k) = Recall(f, k)
    <2>1. \A f, k : /\ FPrx!Enter(f, k) = Enter(f, k) /\ FPrx!Current(f) = Current(f)
                    /\ \A w : FPrx!WriteWord(f, k, w) = WriteWord(f, k, w)
      BY DEF FPrx!Enter, Enter, FPrx!Current, Current, FPrx!WriteWord, WriteWord
    <2>2. \A f, k : FPrx!NextWord(f, k) = NextWord(f, k)
      BY DEF FPrx!NextWord, NextWord, FPrx!Bump, Bump
    <2>3. \A f, k : FPrx!Same(f, k) <=> Same(f, k)
      BY <2>1 DEF FPrx!Same, Same
    <2> QED BY <2>1, <2>2, <2>3 DEF FPrx!Recall, Recall
  <1>6. \A f, a : FPrx!Leave(f) = Leave(f) /\ FPrx!Tune(f, a) = Tune(f, a)
    BY DEF FPrx!Leave, Leave, FPrx!Tune, Tune
  <1> QED BY <1>1, <1>2, <1>3, <1>4, <1>5, <1>6

LEMMA TxOperators ==
  /\ FPtx!Words = Words /\ FPtx!AlcWords = AlcWords /\ FPtx!NoFastlock = NoFastlock
  /\ \A f, k, freq, w : FPtx!Load(f, k, freq, w) = Load(f, k, freq, w)
  /\ \A f, k, freq : FPtx!Store(f, k, freq) = Store(f, k, freq)
  /\ \A f, k : FPtx!Recall(f, k) = Recall(f, k)
  /\ \A f : FPtx!Leave(f) = Leave(f)
  /\ \A f, a : FPtx!Tune(f, a) = Tune(f, a)
  <1>1. /\ FPtx!AlcWords = AlcWords /\ FPtx!Words = Words /\ FPtx!Blank = Blank
        /\ FPtx!NoFreq = NoFreq
    BY DEF FPtx!AlcWords, AlcWords, FPtx!Words, Words, FPtx!Blank, Blank, FPtx!NoFreq, NoFreq
  <1>2. FPtx!NoFastlock = NoFastlock
    BY <1>1 DEF FPtx!NoFastlock, NoFastlock
  <1>3. \A f, k, freq, w : FPtx!Load(f, k, freq, w) = Load(f, k, freq, w)
    BY DEF FPtx!Load, Load
  <1>4. \A f, k, freq : FPtx!Store(f, k, freq) = Store(f, k, freq)
    BY <1>3 DEF FPtx!Store, Store
  <1>5. \A f, k : FPtx!Recall(f, k) = Recall(f, k)
    <2>1. \A f, k : /\ FPtx!Enter(f, k) = Enter(f, k) /\ FPtx!Current(f) = Current(f)
                    /\ \A w : FPtx!WriteWord(f, k, w) = WriteWord(f, k, w)
      BY DEF FPtx!Enter, Enter, FPtx!Current, Current, FPtx!WriteWord, WriteWord
    <2>2. \A f, k : FPtx!NextWord(f, k) = NextWord(f, k)
      BY DEF FPtx!NextWord, NextWord, FPtx!Bump, Bump
    <2>3. \A f, k : FPtx!Same(f, k) <=> Same(f, k)
      BY <2>1 DEF FPtx!Same, Same
    <2> QED BY <2>1, <2>2, <2>3 DEF FPtx!Recall, Recall
  <1>6. \A f, a : FPtx!Leave(f) = Leave(f) /\ FPtx!Tune(f, a) = Tune(f, a)
    BY DEF FPtx!Leave, Leave, FPtx!Tune, Tune
  <1> QED BY <1>1, <1>2, <1>3, <1>4, <1>5, <1>6

\* What a step does to the fastlock of a synthesizer is a step of Fastlock, or none.
LEMMA LockSteps ==
  /\ FlStep(s.lo.rx.fl, s'.lo.rx.fl) => [FPrx!Next]_(s.lo.rx.fl)
  /\ FlStep(s.lo.tx.fl, s'.lo.tx.fl) => [FPtx!Next]_(s.lo.tx.fl)
  <1>1. ASSUME FlStep(s.lo.rx.fl, s'.lo.rx.fl) PROVE [FPrx!Next]_(s.lo.rx.fl)
    BY <1>1, RxOperators DEF FlStep, Retuned, Fresh, FPrx!Next, FPrx!LoadProfile,
         FPrx!StoreProfile, FPrx!RecallProfile, FPrx!Retune, FPrx!RetuneOther, FPrx!LeaveOnly,
         FPrx!VcoCal, FPrx!Ready, FPrx!Restart
  <1>2. ASSUME FlStep(s.lo.tx.fl, s'.lo.tx.fl) PROVE [FPtx!Next]_(s.lo.tx.fl)
    BY <1>2, TxOperators DEF FlStep, Retuned, Fresh, FPtx!Next, FPtx!LoadProfile,
         FPtx!StoreProfile, FPtx!RecallProfile, FPtx!Retune, FPtx!RetuneOther, FPtx!LeaveOnly,
         FPtx!VcoCal, FPtx!Ready, FPtx!Restart
  <1> QED BY <1>1, <1>2

\* The profiles of the radio hold what a profile can be loaded with.
LEMMA IInvSaved == IInv => Saved
  <1> SUFFICES ASSUME IInv PROVE Saved
    OBVIOUS
  <1>1. NoFreq \in LoWords /\ FPrx!NoFreq = NoFreq /\ FPtx!NoFreq = NoFreq
    BY DEF NoFreq, LoWords, FPrx!NoFreq, FPtx!NoFreq
  <1>2. \A j \in Profiles : s.lo.rx.fl.mem[j].freq \in LoWords /\ s.lo.rx.fl.mem[j].word \in Words
    <2>1. s.lo.rx.fl.mem \in [Profiles -> [freq : LoWords \cup {FPrx!NoFreq}, word : FPrx!Words]]
      BY DEF IInv, FPrx!IInv, FPrx!TypeOK, FPrx!Fastlocks
    <2> QED BY <1>1, <2>1, RxOperators
  <1>3. \A j \in Profiles : s.lo.tx.fl.mem[j].freq \in LoWords /\ s.lo.tx.fl.mem[j].word \in Words
    <2>1. s.lo.tx.fl.mem \in [Profiles -> [freq : LoWords \cup {FPtx!NoFreq}, word : FPtx!Words]]
      BY DEF IInv, FPtx!IInv, FPtx!TypeOK, FPtx!Fastlocks
    <2> QED BY <1>1, <2>1, TxOperators
  <1>4. \A p \in Sides : s.lo[p] = s.lo.rx \/ s.lo[p] = s.lo.tx
    BY DEF Sides
  <1> QED BY <1>2, <1>3, <1>4 DEF Saved

\* A new driver: nothing is in use yet.
LEMMA InitIInv == Init => IInv
  <1> SUFFICES ASSUME NEW pd \in Params, s = ZeroPhy(pd), phy = FALSE, pc = 1 PROVE IInv
    BY DEF Init
  <1>1. /\ DOMAIN s = Fields /\ DOMAIN s.lo = Sides /\ s.pd = pd /\ ~s.autocal
        /\ DOMAIN s.en = EnFields /\ DOMAIN s.trk = {"want", "chip"}
        /\ s.alc = 0 /\ s.quad.first = "conv"
        /\ DOMAIN s.qc = {"phase", "freq"} /\ s.qc.freq = 0
    BY DEF ZeroPhy, Fields, Sides, EnFields
  <1>2. \A p \in Sides : /\ DOMAIN s.lo[p] = SynthFields /\ s.lo[p].fl = NoFastlock
                         /\ s.lo[p].reg = NoFreq /\ s.lo[p].div = 0 /\ s.lo[p].cur = 0
    BY DEF ZeroPhy, SynthFields, Sides
  <1>3. LockShape(NoFastlock) /\ NoFreq \in LoWords /\ 0 \in AlcWords /\ "conv" \in QuadAnswers
    BY FastlockAssumption
       DEF NoFastlock, LockShape, LockFields, NoFreq, LoWords, AlcWords, QuadAnswers
  <1>4. /\ DOMAIN pd = DOMAIN default_init_param /\ pd.ext \in [{"rx", "tx"} -> BOOLEAN]
        /\ (\A p \in Sides : pd.synth[p] \in LoFreqs) /\ pd.synth.tx \in Int
    BY ParamsAssumption DEF LoFreqs, Sides
  <1>5. Shape(s) /\ SynthsOk(s)
    <2> HIDE DEF Sides
    <2>1. DOMAIN pd.ext = Sides /\ \A p \in Sides : pd.ext[p] \in BOOLEAN
      BY <1>4 DEF Sides
    <2> QED BY <1>1, <1>2, <1>3, <1>4, <2>1 DEF Shape, SynthsOk, SynthOk
  <1>6. Sound /\ Begun /\ pc \in 0..15
    <2>1. phy \in BOOLEAN /\ ~InUse
      BY DEF InUse
    <2>2. Managed => s.pd.managed
      BY <1>1 DEF Managed
    <2>4. s.lo.tx.cur = 0
      BY <1>2 DEF Sides
    <2>5. TxAt(s)
      BY <2>4 DEF TxAt, TxWord
    <2>3. Sound
      BY <1>1, <1>4, <1>5, <2>1, <2>2, <2>5 DEF Sound
    <2> QED BY <1>1, <1>2, <2>3 DEF Begun
  <1>7. s.lo.rx.fl = FPrx!NoFastlock /\ s.lo.tx.fl = FPtx!NoFastlock
    BY <1>2, RxOperators, TxOperators DEF Sides
  <1>8. FPrx!IInv /\ FPtx!IInv
    BY <1>7, FPrx!InitIInv, FPtx!InitIInv, FastlockAssumption
       DEF FPrx!Init, FPtx!Init, FPrx!FastlockAssumption, FPtx!FastlockAssumption
  <1> QED BY <1>6, <1>8 DEF IInv

\* Any step: what it does to the driver, and what it may not lose.
LEMMA NextSteps ==
  ASSUME IInv, Next
  PROVE  /\ Stepped /\ phy' \in BOOLEAN /\ pc' \in 0..15 /\ pc' # 1
         /\ Managed /\ AboutOther => Sane(s) /\ Held(s, s')
  <1>1. Sound /\ Begun /\ pc \in 0..15 /\ Saved /\ phy \in BOOLEAN
    BY IInvSaved DEF IInv, Sound
  <1>2. CASE MainStep
    <2>1. Stepped /\ pc' \in 0..15 /\ pc' # 1
      BY <1>1, <1>2, MainStepped
    <2>2. phy' \in BOOLEAN
      BY <1>2, Zenon DEF MainStep
    <2>3. call'.name = "main"
      BY <1>2 DEF MainStep, Perform, Ends
    <2> QED BY <2>1, <2>2, <2>3 DEF AboutOther, EnsmCalls
  <1>3. CASE PinsMove
    <2>1. Stepped /\ UNCHANGED <<phy, pc, call>>
      BY <1>1, <1>3, PinsStepped
    <2>2. pc = 0
      BY <1>3 DEF PinsMove, MainEnd
    <2> QED BY <1>1, <2>1, <2>2 DEF AboutOther
  <1>4. CASE Ensm \/ NoChMode \/ Mcs
    <2>1. Stepped
      BY <1>1, <1>4, EnsmStepped, NoChModeStepped, McsStepped
    <2>2. phy' = phy /\ pc' = pc /\ pc = 0
      BY <1>4 DEF Ensm, NoChMode, Mcs, API, MainEnd
    <2>3. call'.name \in EnsmCalls
      <3>1. CASE Ensm
        BY <3>1 DEF Ensm, API, Perform, Ends, EnsmCalls
      <3>2. CASE NoChMode
        BY <3>2 DEF NoChMode, API, Perform, Ends, EnsmCalls
      <3>3. CASE Mcs
        BY <1>1, <3>3, McsStepped DEF EnsmCalls
      <3> QED BY <1>4, <3>1, <3>2, <3>3
    <2> QED BY <1>1, <2>1, <2>2, <2>3 DEF AboutOther
  <1>5. CASE \/ Sampling \/ Bandwidth \/ SetLo \/ IntExt \/ LoPower \/ Fastlocking \/ Tracking
             \/ AutoCal \/ Calibrate \/ FirEnable \/ FirConfig \/ RateGov \/ PathClks \/ GainMode
             \/ Gains \/ Mute \/ Ports \/ GainStepCalib \/ Dcxo
    <2>1. Steady
      BY <1>1, <1>5, SamplingSteady, BandwidthSteady, SetLoSteady, IntExtSteady, LoPowerSteady,
         FastlockingSteady, TrackingSteady, AutoCalSteady, CalibrateSteady, FirEnableSteady,
         FirConfigSteady, RateGovSteady, PathClksSteady, GainModeSteady, GainsSteady,
         MuteSteady, PortsSteady, GainStepSteady, DcxoSteady
    <2>2. phy' = phy /\ pc' = pc /\ pc = 0
      BY <1>5 DEF Sampling, Bandwidth, SetLo, IntExt, LoPower, Fastlocking, Tracking, AutoCal,
           Calibrate, FirEnable, FirConfig, RateGov, PathClks, GainMode, Gains, Mute, Ports,
           GainStepCalib, Dcxo, API, MainEnd
    <2> QED BY <1>1, <2>1, <2>2 DEF Steady, AboutOther
  <1> QED BY <1>2, <1>3, <1>4, <1>5 DEF Next

LEMMA NextIInv == IInv /\ [Next]_vars => IInv'
  <1> SUFFICES ASSUME IInv, [Next]_vars PROVE IInv'
    OBVIOUS
  <1>1. CASE Next
    <2>1. Stepped /\ phy' \in BOOLEAN /\ pc' \in 0..15 /\ pc' # 1
      BY <1>1, NextSteps
    <2>2. Moved(s, s') /\ Sound
      BY <2>1 DEF Stepped, IInv
    <2>3. Sound'
      <3>1. Shape(s') /\ SynthsOk(s') /\ \A p \in Sides : s'.pd.synth[p] \in LoFreqs
        BY <2>2 DEF Moved, SamePd, Sound
      <3>2. Managed => s'.pd.managed
        BY <2>2 DEF Moved, SamePd, Sound
      <3>3. TxAt(s')
        BY <2>2 DEF Moved, QuadStep, Sound
      <3> QED BY <2>1, <3>1, <3>2, <3>3 DEF Sound, Stepped
    <2>4. [FPrx!Next]_(s.lo.rx.fl) /\ [FPtx!Next]_(s.lo.tx.fl)
      BY <2>2, LockSteps DEF Moved, Sides
    <2>5. FPrx!IInv' /\ FPtx!IInv'
      BY <2>4, FPrx!NextIInv, FPtx!NextIInv, FastlockAssumption
         DEF IInv, FPrx!FastlockAssumption, FPtx!FastlockAssumption
    <2> QED BY <2>1, <2>3, <2>5 DEF IInv, Begun
  <1>2. CASE UNCHANGED vars
    BY <1>2 DEF vars, IInv, Sound, Begun, InUse, FPrx!IInv, FPtx!IInv, FPrx!TypeOK, FPtx!TypeOK,
         FPrx!CacheIsMemory, FPtx!CacheIsMemory, FPrx!InUse, FPtx!InUse
  <1> QED BY <1>1, <1>2

-----------------------------------------------------------------------------
\* Whatever was called, in any order and for any parameters, with any calibration that
\* failed in a radio no longer counted as in use: the radio tracks what the caller wants
\* (ad9361_tracking_control, and the early returns of ad9361_update_rf_bandwidth), for an
\* LO whose power-down the driver manages.
THEOREM TracksWhatIsWanted == ASSUME Managed PROVE Spec => []TrackingOn
  <1>1. IInv => TrackingOn
    BY DEF IInv, Sound, Ready, TrackingOn
  <1> QED BY <1>1, InitIInv, NextIInv, PTL DEF Spec

\* A call that is not about the state machine leaves the radio in its state and does not
\* lose the caller's pin control, however often it forces ALERT and restores on its way
\* (ad9361_ensm_force_state, ad9361_ensm_restore_state).
THEOREM StateIsKept == ASSUME Managed PROVE Spec => EnsmKept
  <1> DEFINE Keeps == AboutOther => s'.en.dev = s.en.dev /\ (s.en.pin => s'.en.pin)
  <1>1. IInv /\ [Next]_vars => [Keeps]_vars
    <2> SUFFICES ASSUME IInv, Next, AboutOther
                 PROVE  s'.en.dev = s.en.dev /\ (s.en.pin => s'.en.pin)
      OBVIOUS
    <2> QED BY NextSteps DEF Held
  <1> QED BY <1>1, InitIInv, NextIInv, PTL DEF Spec, EnsmKept

\* The word of a frequency in the range stands for that frequency: the divider halves the
\* VCO as often as the frequency was doubled.
LEMMA WordIsFrequency ==
  ASSUME NEW f \in MinCarrier..MaxCarrier
  PROVE  /\ RfpllWord(f).vco \div 2^(RfpllWord(f).vdiv + 1) = f
         /\ RfpllWord(f).vco \in Nat /\ RfpllWord(f).vco > 6000
  <1> DEFINE Ok1(n) == f * 2^n > 6000 /\ (n = 1 \/ f * 2^(n - 1) <= 6000)
             m == CHOOSE n \in 1..7 : Ok1(n)
  <1>1. f \in 70..6000 /\ f \in Nat
    BY DEF MinCarrier, MaxCarrier
  <1>2. \E n \in 1..7 : Ok1(n)
    <2>1. /\ 2^0 = 1 /\ 2^1 = 2 /\ 2^2 = 4 /\ 2^3 = 8 /\ 2^4 = 16 /\ 2^5 = 32 /\ 2^6 = 64
          /\ 2^7 = 128
      OBVIOUS
    <2>2. CASE f * 2 > 6000
      BY <2>1, <2>2 DEF Ok1
    <2>3. CASE f * 2 <= 6000 /\ f * 4 > 6000
      <3>1. Ok1(2)
        BY <2>1, <2>3
      <3> QED BY <3>1
    <2>4. CASE f * 4 <= 6000 /\ f * 8 > 6000
      <3>1. Ok1(3)
        BY <2>1, <2>4
      <3> QED BY <3>1
    <2>5. CASE f * 8 <= 6000 /\ f * 16 > 6000
      <3>1. Ok1(4)
        BY <2>1, <2>5
      <3> QED BY <3>1
    <2>6. CASE f * 16 <= 6000 /\ f * 32 > 6000
      <3>1. Ok1(5)
        BY <2>1, <2>6
      <3> QED BY <3>1
    <2>7. CASE f * 32 <= 6000 /\ f * 64 > 6000
      <3>1. Ok1(6)
        BY <2>1, <2>7
      <3> QED BY <3>1
    <2>8. CASE f * 64 <= 6000
      <3>1. f * 128 > 6000
        BY <1>1
      <3>2. Ok1(7)
        BY <2>1, <2>8, <3>1
      <3> QED BY <3>2
    <2> QED BY <1>1, <2>2, <2>3, <2>4, <2>5, <2>6, <2>7, <2>8
  <1>3. m \in 1..7
    <2> HIDE DEF Ok1
    <2> QED BY <1>2
  <1>4. RfpllWord(f).vco = f * 2^m /\ RfpllWord(f).vdiv + 1 = m
    <2>1. RfpllWord(f) = [vco |-> f * 2^m, vdiv |-> m - 1]
      BY DEF RfpllWord
    <2> HIDE DEF m
    <2> QED BY <1>3, <2>1
  <1>6. f * 2^m > 6000
    <2>1. Ok1(m)
      <3> HIDE DEF Ok1
      <3> QED BY <1>2
    <2> QED BY <2>1
  <1> HIDE DEF m
  <1>5. (f * 2^m) \div 2^m = f
    <2>1. m = 1 \/ m = 2 \/ m = 3 \/ m = 4 \/ m = 5 \/ m = 6 \/ m = 7
      BY <1>3
    <2>2. /\ 2^1 = 2 /\ 2^2 = 4 /\ 2^3 = 8 /\ 2^4 = 16 /\ 2^5 = 32 /\ 2^6 = 64 /\ 2^7 = 128
      OBVIOUS
    <2>3. /\ (f * 2) \div 2 = f /\ (f * 4) \div 4 = f /\ (f * 8) \div 8 = f
          /\ (f * 16) \div 16 = f /\ (f * 32) \div 32 = f /\ (f * 64) \div 64 = f
          /\ (f * 128) \div 128 = f
      BY <1>1
    <2>4. CASE m = 1
      BY <2>2, <2>3, <2>4
    <2>5. CASE m = 2
      BY <2>2, <2>3, <2>5
    <2>6. CASE m = 3
      BY <2>2, <2>3, <2>6
    <2>7. CASE m = 4
      BY <2>2, <2>3, <2>7
    <2>8. CASE m = 5
      BY <2>2, <2>3, <2>8
    <2>9. CASE m = 6
      BY <2>2, <2>3, <2>9
    <2>10. CASE m = 7
      BY <2>2, <2>3, <2>10
    <2> QED BY <2>1, <2>4, <2>5, <2>6, <2>7, <2>8, <2>9, <2>10
  <1>7. f * 2^m \in Nat
    <2>1. /\ 2^1 \in Nat /\ 2^2 \in Nat /\ 2^3 \in Nat /\ 2^4 \in Nat /\ 2^5 \in Nat
          /\ 2^6 \in Nat /\ 2^7 \in Nat
      OBVIOUS
    <2>2. m = 1 \/ m = 2 \/ m = 3 \/ m = 4 \/ m = 5 \/ m = 6 \/ m = 7
      BY <1>3
    <2>3. 2^m \in Nat
      BY ONLY <2>1, <2>2, Zenon
    <2> QED BY <1>1, <2>3
  <1> QED BY <1>4, <1>5, <1>6, <1>7

\* The transmitter stays calibrated near where its LO is, whatever moved it: while the
\* automatic calibration is on and nothing went wrong in the radio, its LO is either
\* within the threshold of the frequency it was last calibrated for, or the caller had
\* asked for one the radio does not have (ad9361_rfpll_set_rate, ad9361_setup; the
\* registers are read back as ad9361_rfpll_recalc_rate does).
THEOREM AlwaysQuadNear == Spec => []QuadNear
  <1>1. IInv => QuadNear
    <2> SUFFICES ASSUME IInv, InUse, "manual" \notin past, ~s.pd.ext.tx,
                        s.lo.tx.fl.profile = 0, s.lo.tx.cur # 0
                 PROVE  \/ DiffAbs(s.qc.freq, SynthRate(s.lo.tx)) <= CalThreshold
                        \/ ~validate_rfpll(s, s.qc.freq)
      BY DEF QuadNear
    <2> DEFINE f == s.lo.tx.cur
    <2>1. TxAt(s) /\ Near(s)
      BY DEF IInv, Sound
    <2>2. /\ validate_rfpll(s, f) /\ s.lo.tx.reg.vco = RfpllWord(f).vco
          /\ s.lo.tx.reg.vdiv = RfpllWord(f).vdiv
      BY <2>1 DEF TxAt, TxWord
    <2> HIDE DEF f
    <2>3. SynthRate(s.lo.tx) = f
      BY <2>2, ValidIs, WordIsFrequency DEF SynthRate
    <2>4. NearTo(s, f)
      BY <2>1 DEF Near, f
    <2> QED BY <2>3, <2>4 DEF NearTo
  <1> QED BY <1>1, InitIInv, NextIInv, PTL DEF Spec

\* In FDD mode the two synthesizers use the tables of TDD exactly while their LOs are one
\* frequency: any call that moves one tunes the other again when it has to, whatever the
\* tables were, and with any lock that was not reached on the way
\* (ad9361_rfpll_int_set_rate, "fix VCO").
THEOREM TablesFollowTheLos == Spec => TablesAgree
  <1> DEFINE lo == s'.lo
             moved == \E p \in {"rx", "tx"} : lo[p].cur # s.lo[p].cur
             Follow == (moved /\ phy /\ "fault" \notin past' /\ DuplexLos(s')
                          /\ 0 \notin {lo.rx.cur, lo.tx.cur})
                         => \A p \in {"rx", "tx"} : lo[p].tdd <=> lo.rx.cur = lo.tx.cur
  <1>1. IInv /\ [Next]_vars => [Follow]_vars
    <2> SUFFICES ASSUME IInv, Next PROVE Follow
      OBVIOUS
    <2>1. Tables(s, s')
      BY NextSteps DEF Stepped, Moved
    <2>2. Placed(s') => Follow
      BY DEF Placed, Agree, SameLo, Sides
    <2>3. SameLos(s, s') => Follow
      BY DEF SameLos, Sides
    <2> QED BY <2>1, <2>2, <2>3 DEF Tables
  <1> QED BY <1>1, InitIInv, NextIInv, PTL DEF Spec, TablesAgree

\* The driver implements the fastlock of each synthesizer: whatever the calls do besides
\* is a step of Fastlock, or none.
THEOREM DriverFastlocks == Spec => Fastlocks
  <1>1. Init => FLrx!Init /\ FLtx!Init
    <2> SUFFICES ASSUME NEW pd \in Params, s = ZeroPhy(pd) PROVE FLrx!Init /\ FLtx!Init
      BY DEF Init
    <2>1. s.lo.rx.fl = NoFastlock /\ s.lo.tx.fl = NoFastlock
      BY DEF ZeroPhy
    <2> QED BY <2>1, RxOperators, TxOperators
         DEF FLrx!Init, FLtx!Init, FLrx!NoFastlock, FLtx!NoFastlock, FLrx!Blank, FLtx!Blank,
             FLrx!NoFreq, FLtx!NoFreq, NoFastlock, Blank, NoFreq
  <1>2. IInv /\ [Next]_vars => [FLrx!Next]_(s.lo.rx.fl) /\ [FLtx!Next]_(s.lo.tx.fl)
    <2> SUFFICES ASSUME IInv, [Next]_vars
                 PROVE  [FLrx!Next]_(s.lo.rx.fl) /\ [FLtx!Next]_(s.lo.tx.fl)
      OBVIOUS
    <2>1. CASE Next
      <3>1. [FPrx!Next]_(s.lo.rx.fl) /\ [FPtx!Next]_(s.lo.tx.fl)
        BY <2>1, NextSteps, LockSteps DEF Stepped, Moved, Sides
      <3>2. FPrx!Next => FLrx!Next
        BY Zenon DEF FPrx!Next, FPrx!LoadProfile, FPrx!StoreProfile, FPrx!RecallProfile,
             FPrx!Retune, FPrx!RetuneOther, FPrx!LeaveOnly, FPrx!VcoCal, FPrx!Ready,
             FPrx!Restart, FPrx!Load, FPrx!Store, FPrx!Recall, FPrx!Leave, FPrx!Tune,
             FPrx!Enter, FPrx!Current, FPrx!WriteWord, FPrx!NextWord, FPrx!Bump,
             FPrx!Same, FPrx!Words, FPrx!AlcWords, FPrx!NoFastlock, FPrx!Blank,
             FPrx!NoFreq, FLrx!Next, FLrx!LoadProfile, FLrx!StoreProfile,
             FLrx!RecallProfile, FLrx!Retune, FLrx!RetuneOther, FLrx!LeaveOnly,
             FLrx!VcoCal, FLrx!Ready, FLrx!Restart, FLrx!Load, FLrx!Store, FLrx!Recall,
             FLrx!Leave, FLrx!Tune, FLrx!Enter, FLrx!Current, FLrx!WriteWord,
             FLrx!NextWord, FLrx!Bump, FLrx!Same, FLrx!Words, FLrx!AlcWords,
             FLrx!NoFastlock, FLrx!Blank, FLrx!NoFreq
      <3>3. FPtx!Next => FLtx!Next
        BY Zenon DEF FPtx!Next, FPtx!LoadProfile, FPtx!StoreProfile, FPtx!RecallProfile,
             FPtx!Retune, FPtx!RetuneOther, FPtx!LeaveOnly, FPtx!VcoCal, FPtx!Ready,
             FPtx!Restart, FPtx!Load, FPtx!Store, FPtx!Recall, FPtx!Leave, FPtx!Tune,
             FPtx!Enter, FPtx!Current, FPtx!WriteWord, FPtx!NextWord, FPtx!Bump,
             FPtx!Same, FPtx!Words, FPtx!AlcWords, FPtx!NoFastlock, FPtx!Blank,
             FPtx!NoFreq, FLtx!Next, FLtx!LoadProfile, FLtx!StoreProfile,
             FLtx!RecallProfile, FLtx!Retune, FLtx!RetuneOther, FLtx!LeaveOnly,
             FLtx!VcoCal, FLtx!Ready, FLtx!Restart, FLtx!Load, FLtx!Store, FLtx!Recall,
             FLtx!Leave, FLtx!Tune, FLtx!Enter, FLtx!Current, FLtx!WriteWord,
             FLtx!NextWord, FLtx!Bump, FLtx!Same, FLtx!Words, FLtx!AlcWords,
             FLtx!NoFastlock, FLtx!Blank, FLtx!NoFreq
      <3> QED BY <3>1, <3>2, <3>3
    <2>2. CASE UNCHANGED vars
      BY <2>2 DEF vars
    <2> QED BY <2>1, <2>2
  <1> QED BY <1>1, <1>2, InitIInv, NextIInv, PTL DEF Spec, Fastlocks, FLrx!Spec, FLtx!Spec

\* What the driver remembers of each profile's word 15 is what is in the radio, for both
\* synthesizers and whatever the driver did (ad9361_fastlock_load, _store, _recall).
THEOREM BothCopiesTrue == Spec => [](FPrx!CacheIsMemory /\ FPtx!CacheIsMemory)
  <1>1. IInv => FPrx!CacheIsMemory /\ FPtx!CacheIsMemory
    BY DEF IInv, FPrx!IInv, FPtx!IInv
  <1> QED BY <1>1, InitIInv, NextIInv, PTL DEF Spec

-----------------------------------------------------------------------------
(* The ranges of the record: every operator of the driver keeps them.         *)
Config2 == {"DUAL", "FDD_EXT", "SYNTH_PIN", "TXNRX"} \cup SynthBits
RowsIn(lo) == DOMAIN lo = Sides /\ \A p \in Sides : /\ DOMAIN lo[p] = SynthFields
                                                    /\ lo[p].row \in 0..Len(VcoMHz)
DivsIn(clk) == /\ DOMAIN clk = {"ref", "word", "div", "rate", "init"} /\ DOMAIN clk.div = Factors
               /\ \A c \in Factors : clk.div[c] \in 0..64
GainsIn(g) == /\ DOMAIN g = {"agc", "mode", "hybrid", "rxen", "txen", "table", "idx"}
              /\ g.table \in {NoTable, 0, 1, 2} /\ g.idx \in [{1, 2} -> 0..GainMax]
EnIn(en) == /\ DOMAIN en = EnFields /\ en.dev \in EnsmStates /\ en.prev \in EnsmStates
            /\ en.curr \in EnsmModes /\ en.cfg2 \subseteq Config2
TrkIn(trk) == /\ DOMAIN trk = {"want", "chip"}
              /\ trk.want \subseteq Trackings /\ trk.chip \subseteq Trackings

Ranged(x) == /\ DOMAIN x = Fields /\ RowsIn(x.lo) /\ DivsIn(x.clk) /\ GainsIn(x.gain)
             /\ EnIn(x.en) /\ TrkIn(x.trk) /\ x.quad.first \in QuadAnswers

LEMMA ReturnRanged ==
  ASSUME NEW x, Ranged(x), NEW r
  PROVE  Ranged(Return(x, r)) /\ Ranged(Ok(x))
  BY DEF Ranged, Return, Ok, Fields

LEMMA CalDoneRanged ==
  ASSUME NEW x, Ranged(x), NEW cal
  PROVE  Ranged(check_cal_done(x, cal)) /\ Ranged(run_calibration(x, cal))
  BY ReturnRanged DEF check_cal_done, run_calibration

\* One part written.
LEMMA PartRanged ==
  ASSUME NEW x, Ranged(x), NEW v
  PROVE  /\ RowsIn(v) => Ranged([x EXCEPT !.lo = v])
         /\ DivsIn(v) => Ranged([x EXCEPT !.clk = v])
         /\ GainsIn(v) => Ranged([x EXCEPT !.gain = v])
         /\ EnIn(v) => Ranged([x EXCEPT !.en = v])
         /\ TrkIn(v) => Ranged([x EXCEPT !.trk = v])
  BY DEF Ranged, Fields

LEMMA SynthRanged ==
  ASSUME NEW lo, RowsIn(lo), NEW p \in Sides, NEW v, DOMAIN v = SynthFields,
         v.row \in 0..Len(VcoMHz)
  PROVE  RowsIn([lo EXCEPT ![p] = v])
  BY DEF RowsIn, Sides

-----------------------------------------------------------------------------
(* The clocks.                                                                *)
LEMMA RecalcRanged ==
  ASSUME NEW x, Ranged(x), NEW c
  PROVE  Ranged(recalc_all(x)) /\ Ranged(recalc_clk(x, c))
  <1>1. Ranged(recalc_clk(x, c))
    <2> DEFINE clk == [x.clk EXCEPT !.rate = [@ EXCEPT ![c] = clk_get_rate(x, c)]]
    <2>1. recalc_clk(x, c) = [x EXCEPT !.clk = clk]
      BY DEF recalc_clk
    <2>2. DivsIn(clk)
      BY DEF Ranged, DivsIn
    <2> HIDE DEF clk
    <2>3. Ranged([x EXCEPT !.clk = clk])
      BY <2>2, PartRanged
    <2> QED BY <2>1, <2>3
  <1>2. Ranged(recalc_all(x))
    <2> DEFINE lo == [p \in DOMAIN x.lo |-> [x.lo[p] EXCEPT !.rate = rfpll_recalc_rate(x, p)]]
               clk == [x.clk EXCEPT !.rate = TreeRates(x)]
               y == [x EXCEPT !.clk = clk]
    <2>1. recalc_all(x) = [y EXCEPT !.lo = lo]
      BY DEF recalc_all
    <2>2. RowsIn(lo)
      BY DEF Ranged, RowsIn, SynthFields
    <2>3. DivsIn(clk)
      BY DEF Ranged, DivsIn
    <2> HIDE DEF clk, lo
    <2>4. Ranged(y)
      BY <2>3, PartRanged
    <2> HIDE DEF y
    <2> QED BY <2>1, <2>2, <2>4, PartRanged, ZenonT(60)
  <1> QED BY <1>1, <1>2

LEMMA ScalerRanged ==
  ASSUME NEW c, NEW d, ScalerTakes(c, d), NEW by
  PROVE  ScalerWord(c, d, by) \in 0..64
  <1> DEFINE i == ilog2(d % 256)
  <1>1. i \in 1..6 => 2^i \in 0..64
    <2> HIDE DEF i
    <2>1. i \in 1..6 => i = 1 \/ i = 2 \/ i = 3 \/ i = 4 \/ i = 5 \/ i = 6
      OBVIOUS
    <2>2. 2^1 = 2 /\ 2^2 = 4 /\ 2^3 = 8 /\ 2^4 = 16 /\ 2^5 = 32 /\ 2^6 = 64
      OBVIOUS
    <2>3. CASE i = 1
      BY <2>2, <2>3
    <2>4. CASE i = 2
      BY <2>2, <2>4
    <2>5. CASE i = 3
      BY <2>2, <2>5
    <2>6. CASE i = 4
      BY <2>2, <2>6
    <2>7. CASE i = 5
      BY <2>2, <2>7
    <2>8. CASE i = 6
      BY <2>2, <2>8
    <2> QED BY <2>1, <2>3, <2>4, <2>5, <2>6, <2>7, <2>8
  <1>2. /\ c = "ADC" => i \in 1..6 /\ ScalerWord(c, d, by) = 2^i
        /\ c # "ADC" => d \in 1..4 /\ ScalerWord(c, d, by) \in {0, d}
    BY DEF ScalerTakes, ScalerWord
  <1> HIDE DEF i
  <1> QED BY <1>1, <1>2

LEMMA FactorRanged ==
  ASSUME NEW x, Ranged(x), NEW c \in Factors, NEW rate
  PROVE  Ranged(clk_factor_set_rate(x, c, rate))
  <1> DEFINE d == FactorDiv(c, rate, x.clk.rate[Parent[c]])
             word == ScalerWord(c, d, Bypassed(x, c))
             clk == [x.clk EXCEPT !.div = [@ EXCEPT ![c] = word]]
             y == [x EXCEPT !.clk = clk]
  <1>1. clk_factor_set_rate(x, c, rate) = IF d = 0 THEN Return(x, EINVAL) ELSE Ok(y)
    BY DEF clk_factor_set_rate
  <1>2. d # 0 => ScalerTakes(c, d)
    BY DEF FactorDiv
  <1> HIDE DEF d
  <1>3. d # 0 => word \in 0..64
    BY <1>2, ScalerRanged
  <1> HIDE DEF word
  <1>4. d # 0 => DivsIn(clk)
    BY <1>3 DEF Ranged, DivsIn
  <1> HIDE DEF clk
  <1>5. d # 0 => Ranged(y)
    BY <1>4, PartRanged
  <1> HIDE DEF y
  <1> QED BY <1>1, <1>5, ReturnRanged

LEMMA BbpllRanged ==
  ASSUME NEW x, Ranged(x), NEW rate
  PROVE  Ranged(bbpll_set_rate(x, rate))
  <1> DEFINE word == BbpllWord(bbpll_round_rate(rate, x.clk.ref), x.clk.ref)
             clk == [x.clk EXCEPT !.word = word, !.init = TRUE]
             y == [x EXCEPT !.clk = clk]
  <1>1. bbpll_set_rate(x, rate) = check_cal_done(y, "bbpll")
    BY DEF bbpll_set_rate
  <1>2. DivsIn(clk)
    BY DEF Ranged, DivsIn
  <1> HIDE DEF clk
  <1>3. Ranged(y)
    BY <1>2, PartRanged
  <1> HIDE DEF y
  <1> QED BY <1>1, <1>3, CalDoneRanged

LEMMA SetRateRanged ==
  ASSUME NEW x, Ranged(x), NEW c \in Factors \cup {"BBPLL"}, NEW rate
  PROVE  Ranged(clk_set_rate(x, c, rate))
  <1> DEFINE b == IF c = "BBPLL" THEN bbpll_set_rate(x, rate) ELSE clk_factor_set_rate(x, c, rate)
             d == bbpll_set_rate(x, rate)
  <1>1. clk_set_rate(x, c, rate) =
          IF x.clk.rate[c] # rate THEN Ok(recalc_all(b))
          ELSE IF c = "BBPLL" /\ ~x.clk.init THEN Ok(recalc_clk(d, c)) ELSE Ok(x)
    BY DEF clk_set_rate
  <1>2. Ranged(b) /\ Ranged(d)
    BY FactorRanged, BbpllRanged
  <1> HIDE DEF b, d
  <1>3. Ranged(recalc_all(b)) /\ Ranged(recalc_clk(d, c))
    BY <1>2, RecalcRanged
  <1> QED BY <1>1, <1>3, ReturnRanged

LEMMA TimesRanged ==
  ASSUME NEW x, Ranged(x)
  PROVE  /\ Ranged(gc_update(x)) /\ Ranged(rssi_setup(x)) /\ Ranged(auxadc_setup(x))
         /\ Ranged(bb_clk_change_handler(x))
  <1>1. ASSUME NEW u, Ranged(u)
        PROVE  Ranged(gc_update(u)) /\ Ranged(rssi_setup(u)) /\ Ranged(auxadc_setup(u))
    BY <1>1 DEF gc_update, rssi_setup, auxadc_setup, Ok, Return, Ranged, Fields
  <1> QED BY <1>1 DEF bb_clk_change_handler

LEMMA ChainRanged ==
  ASSUME NEW x, Ranged(x), NEW rx, NEW tx
  PROVE  Ranged(set_trx_clock_chain(x, rx, tx))
  <1> DEFINE set(t, c) == set_clock(t, rx, tx, c)
             both(t, c, d) == set(set(t, c), d)
  <1>1. ASSUME NEW t, Ranged(t), NEW c \in Factors \cup {"BBPLL"} PROVE Ranged(set(t, c))
    BY <1>1, SetRateRanged DEF set_clock
  <1>2. Ranged(set_clocks(x, rx, tx))
    <2>1. set_clocks(x, rx, tx) =
            both(both(both(both(both(set(x, "BBPLL"), "ADC", "DAC"), "R2", "T2"), "R1", "T1"),
               "CLKRF", "CLKTF"), "RX_SAMPL", "TX_SAMPL")
      BY DEF set_clocks
    <2>2. ASSUME NEW t, Ranged(t), NEW c \in Factors, NEW d \in Factors PROVE Ranged(both(t, c, d))
      <3> HIDE DEF set
      <3> QED BY <1>1, <2>2
    <2>3. Factors = {"ADC", "R2", "R1", "CLKRF", "RX_SAMPL", "DAC", "T2", "T1", "CLKTF", "TX_SAMPL"}
      BY DEF Factors, Parent
    <2> HIDE DEF set, both
    <2> QED BY <1>1, <2>1, <2>2, <2>3
  <1>3. ASSUME NEW t, Ranged(t), NEW c \in Factors, NEW factor, NEW by
        PROVE  Ranged(switch_fir(t, c, factor, by))
    <2> DEFINE clk == [t.clk EXCEPT !.div = [@ EXCEPT ![c] = IF by THEN 0 ELSE 1]]
    <2>1. switch_fir(t, c, factor, by) \in {t, [t EXCEPT !.clk = clk]}
      BY DEF switch_fir
    <2>2. DivsIn(clk)
      BY <1>3 DEF Ranged, DivsIn
    <2> HIDE DEF clk
    <2>3. Ranged([t EXCEPT !.clk = clk])
      BY <1>3, <2>2, PartRanged
    <2> QED BY <1>3, <2>1, <2>3
  <1>4. "RX_SAMPL" \in Factors /\ "TX_SAMPL" \in Factors
    BY DEF Factors, Parent
  <1>5. \/ set_trx_clock_chain(x, rx, tx) = Return(x, EINVAL)
        \/ set_trx_clock_chain(x, rx, tx) =
             bb_clk_change_handler(switch_fir(switch_fir(set_clocks(x, rx, tx), "RX_SAMPL",
               x.fir.rxdec, x.fir.rxby), "TX_SAMPL", x.fir.txint, x.fir.txby))
    BY DEF set_trx_clock_chain
  <1> QED BY <1>2, <1>3, <1>4, <1>5, ReturnRanged, TimesRanged

-----------------------------------------------------------------------------
(* The state machine.                                                         *)
LEMMA EnRanged ==
  ASSUME NEW x, Ranged(x)
  PROVE  /\ \A d \in EnsmStates : \A b : Ranged([x EXCEPT !.en = [@ EXCEPT !.pin = b, !.dev = d]])
         /\ \A d \in EnsmStates : Ranged([x EXCEPT !.en = [@ EXCEPT !.prev = d]])
         /\ \A b : /\ Ranged([x EXCEPT !.en = [@ EXCEPT !.pinctl = b]])
                   /\ Ranged([x EXCEPT !.en = [@ EXCEPT !.clocks = b]])
                   /\ Ranged([x EXCEPT !.en = [@ EXCEPT !.fdd = b]])
         /\ \A c \in EnsmModes : Ranged([x EXCEPT !.en = [@ EXCEPT !.curr = c]])
         /\ \A cfg \in SUBSET Config2 :
              /\ Ranged([x EXCEPT !.en = [@ EXCEPT !.cfg2 = cfg]])
              /\ \A b : Ranged([x EXCEPT !.en = [@ EXCEPT !.fdd = b, !.cfg2 = cfg]])
  BY ZenonT(60) DEF Ranged, Fields, EnIn, EnFields

LEMMA Config1Ranged ==
  ASSUME NEW x, Ranged(x), NEW force, NEW pin
  PROVE  Ranged(Config1(x, force, pin))
  <1> DEFINE to == CASE force \in {"TX", "RX"} -> (IF x.en.fdd THEN "FDD" ELSE force)
                     [] OTHER -> "ALERT"
             d == IF x.en.clocks THEN to ELSE x.en.dev
  <1>1. Config1(x, force, pin) = [x EXCEPT !.en = [@ EXCEPT !.pin = pin, !.dev = d]]
    BY DEF Config1
  <1>2. d \in EnsmStates
    BY DEF EnsmStates, Ranged, EnIn
  <1> HIDE DEF d
  <1>3. Ranged([x EXCEPT !.en = [@ EXCEPT !.pin = pin, !.dev = d]])
    BY <1>2, EnRanged
  <1> QED BY <1>1, <1>3

LEMMA ForceRanged ==
  ASSUME NEW x, Ranged(x), NEW st
  PROVE  Ranged(ensm_force_state(x, st))
  <1> DEFINE kept == [x EXCEPT !.en = [@ EXCEPT !.prev = x.en.dev]]
             noted == [kept EXCEPT !.en = [@ EXCEPT !.pinctl = x.en.pin]]
  <1>1. \/ ensm_force_state(x, st) \in {kept, noted}
        \/ \E force : ensm_force_state(x, st) = Config1(noted, force, FALSE)
    BY DEF ensm_force_state
  <1>2. x.en.dev \in EnsmStates
    BY DEF Ranged, EnIn
  <1>3. Ranged(kept)
    BY <1>2, EnRanged
  <1> HIDE DEF kept
  <1>4. Ranged(noted)
    BY <1>3, EnRanged
  <1> HIDE DEF noted
  <1> QED BY <1>1, <1>3, <1>4, Config1Ranged

LEMMA RestoreRanged ==
  ASSUME NEW x, Ranged(x), NEW st
  PROVE  Ranged(ensm_restore_state(x, st)) /\ Ranged(ensm_restore_prev_state(x))
  <1>1. ASSUME NEW to PROVE Ranged(ensm_restore_state(x, to))
    <2> DEFINE on(force) == Config1(Config1(x, "ALERT", FALSE), force, x.en.pin)
               back(t) == IF x.en.pinctl THEN [t EXCEPT !.en.pin = TRUE] ELSE t
    <2>1. ensm_restore_state(x, to) = x \/ \E force : ensm_restore_state(x, to) = back(on(force))
      BY DEF ensm_restore_state
    <2>2. \A force : Ranged(on(force))
      BY Config1Ranged
    <2> HIDE DEF on
    <2>3. ASSUME NEW t, Ranged(t) PROVE Ranged(back(t))
      BY <2>3 DEF Ranged, Fields, EnIn, EnFields
    <2> HIDE DEF back
    <2> QED BY <2>1, <2>2, <2>3
  <1> QED BY <1>1 DEF ensm_restore_prev_state

\* A synthesizer of which anything but the row is written.
LEMMA VcoCalRanged ==
  ASSUME NEW x, Ranged(x), NEW p \in Sides, NEW on
  PROVE  Ranged(trx_vco_cal_control(x, p, on)) /\ Ranged(vco_cal_if_skipped(x, p, on))
  <1> DEFINE l == [x.lo[p] EXCEPT !.fl = [@ EXCEPT !.vcocal = on]]
             lo == [x.lo EXCEPT ![p] = l]
  <1>1. trx_vco_cal_control(x, p, on) = [x EXCEPT !.lo = lo]
    BY DEF trx_vco_cal_control
  <1>2. DOMAIN l = SynthFields /\ l.row \in 0..Len(VcoMHz)
    BY DEF Ranged, RowsIn, SynthFields
  <1> HIDE DEF l
  <1>3. RowsIn(lo)
    BY <1>2, SynthRanged DEF Ranged
  <1> HIDE DEF lo
  <1>4. Ranged([x EXCEPT !.lo = lo])
    BY <1>3, PartRanged
  <1> QED BY <1>1, <1>4 DEF vco_cal_if_skipped

LEMMA ModeRanged ==
  ASSUME NEW x, Ranged(x), NEW fdd, NEW pinctrl
  PROVE  Ranged(set_ensm_mode(x, fdd, pinctrl))
  <1> DEFINE cfg == (x.en.cfg2 \cap SynthBits) \cup
                      (IF fdd THEN {"DUAL"} \cup Bit(x.pd.indep, "FDD_EXT")
                       ELSE IF x.pd.dual THEN {"DUAL"} ELSE Bit(pinctrl, "SYNTH_PIN"))
             y == [x EXCEPT !.en = [@ EXCEPT !.fdd = fdd, !.cfg2 = cfg]]
  <1>1. set_ensm_mode(x, fdd, pinctrl) = Ok(y)
    BY DEF set_ensm_mode
  <1>2. cfg \in SUBSET Config2
    BY DEF Config2, SynthBits, Bit
  <1> HIDE DEF cfg
  <1>3. Ranged(y)
    BY <1>2, EnRanged
  <1> HIDE DEF y
  <1> QED BY <1>1, <1>3, ReturnRanged

LEMMA WakeRanged == ASSUME NEW x, Ranged(x) PROVE Ranged(Wake(x))
  <1> DEFINE a == [x EXCEPT !.en = [@ EXCEPT !.clocks = TRUE]]
             b == Config1(a, "ALERT", FALSE)
             c == trx_vco_cal_control(b, "rx", TRUE)
  <1>1. Wake(x) \in {x, trx_vco_cal_control(c, "tx", TRUE)}
    BY DEF Wake
  <1>2. Ranged(a)
    BY EnRanged DEF EnsmStates, EnsmModes
  <1> HIDE DEF a
  <1>3. Ranged(b)
    BY <1>2, Config1Ranged
  <1> HIDE DEF b
  <1>4. Ranged(c)
    BY <1>3, VcoCalRanged DEF Sides
  <1> HIDE DEF c
  <1> QED BY <1>1, <1>4, VcoCalRanged DEF Sides

LEMMA SleepRanged == ASSUME NEW x, Ranged(x) PROVE Ranged(Sleep(x))
  <1> DEFINE a == trx_vco_cal_control(x, "rx", FALSE)
             b == trx_vco_cal_control(a, "tx", FALSE)
             y == [b EXCEPT !.en.pin = FALSE, !.en.dev = "WAIT",
                            !.en.clocks = FALSE, !.en.curr = "SLEEP"]
  <1>1. Sleep(x) = Ok(y)
    BY DEF Sleep
  <1>2. Ranged(a)
    BY VcoCalRanged DEF Sides
  <1> HIDE DEF a
  <1>3. Ranged(b)
    BY <1>2, VcoCalRanged DEF Sides
  <1> HIDE DEF b
  <1>4. Ranged(y)
    BY <1>3 DEF Ranged, Fields, EnIn, EnFields, EnsmStates, EnsmModes
  <1> HIDE DEF y
  <1> QED BY <1>1, <1>4, ReturnRanged

LEMMA SetStateRanged ==
  ASSUME NEW x, Ranged(x), NEW st \in EnsmModes, NEW pinctrl
  PROVE  Ranged(ensm_set_state(x, st, pinctrl))
  <1> DEFINE w == Wake(x)
             via == IF Legal(w, st) THEN w ELSE Config1(w, "ALERT", pinctrl)
             cfg == (via.en.cfg2 \ {"TXNRX"}) \cup Bit(st = "TX", "TXNRX")
             txnrx == IF ~x.pd.fdd /\ ~pinctrl /\ ~x.pd.dual /\ st \in {"TX", "RX"}
                      THEN [via EXCEPT !.en = [@ EXCEPT !.cfg2 = cfg]] ELSE via
             moved(force) == Config1(txnrx, force, pinctrl)
             there(t) == [t EXCEPT !.en = [@ EXCEPT !.curr = st]]
  <1>1. \/ ensm_set_state(x, st, pinctrl) \in {Sleep(w), Return(w, EINVAL)}
        \/ \E force : ensm_set_state(x, st, pinctrl) = Ok(there(moved(force)))
    BY DEF ensm_set_state
  <1>2. Ranged(w)
    BY WakeRanged
  <1> HIDE DEF w
  <1>3. Ranged(via)
    BY <1>2, Config1Ranged
  <1> HIDE DEF via
  <1>4. cfg \in SUBSET Config2
    BY <1>3 DEF Ranged, EnIn, Config2, Bit
  <1> HIDE DEF cfg
  <1>5. Ranged(txnrx)
    <2>1. Ranged([via EXCEPT !.en = [@ EXCEPT !.cfg2 = cfg]])
      BY <1>3, <1>4, EnRanged DEF EnsmStates
    <2> QED BY <1>3, <2>1
  <1> HIDE DEF txnrx
  <1>6. \A force : Ranged(moved(force))
    BY <1>5, Config1Ranged
  <1> HIDE DEF moved
  <1>7. \A force : Ranged(there(moved(force)))
    BY <1>6, EnRanged DEF EnsmStates
  <1> HIDE DEF there
  <1> QED BY <1>1, <1>2, <1>7, SleepRanged, ReturnRanged

LEMMA EnModeRanged ==
  ASSUME NEW x, Ranged(x), NEW mode
  PROVE  Ranged(set_en_state_machine_mode(x, mode))
  <1> DEFINE pinctrl == mode = "PINCTRL"
             st == CASE mode \in {"WAIT", "PINCTRL"} -> "WAIT"
                     [] mode = "FDD_INDEP" -> "FDD"
                     [] OTHER -> mode
             m == [x EXCEPT !.pd.indep = mode = "FDD_INDEP"]
             n == set_ensm_mode(m, x.pd.fdd, pinctrl)
  <1>1. set_en_state_machine_mode(x, mode) =
          IF mode \notin EnsmModes THEN Return(m, EINVAL) ELSE ensm_set_state(n, st, pinctrl)
    BY DEF set_en_state_machine_mode
  <1>2. Ranged(m)
    BY DEF Ranged, Fields
  <1> HIDE DEF m
  <1>3. Ranged(n)
    BY <1>2, ModeRanged
  <1> HIDE DEF n
  <1>4. mode \in EnsmModes => st \in EnsmModes
    BY DEF EnsmModes
  <1> HIDE DEF st, pinctrl
  <1> QED BY <1>1, <1>2, <1>3, <1>4, ReturnRanged, SetStateRanged

-----------------------------------------------------------------------------
(* The calibrations.                                                          *)
LEMMA FiltersRanged ==
  ASSUME NEW x, Ranged(x), NEW rx, NEW tx
  PROVE  Ranged(update_filters(x, rx, tx))
  <1> DEFINE bb == clk_get_rate(x, "BBPLL")
             a == rx_bb_analog_filter_calib(x, rx \div 2, bb)
             b == Then(a, LAMBDA t : tx_bb_analog_filter_calib(t, tx \div 2, bb))
             c == Then(b, LAMBDA t : rx_tia_calib(t, rx \div 2))
             d == Then(c, LAMBDA t : tx_bb_second_filter_calib(t, tx \div 2))
             e == Then(d, LAMBDA t : rx_adc_setup(t, bb, clk_get_rate(t, "ADC")))
  <1>1. ASSUME NEW t, Ranged(t), NEW tune, NEW div
        PROVE  LET u == [t EXCEPT !.tune = tune]
                   v == [t EXCEPT !.bbfdiv = div, !.tune = tune]
               IN /\ Ranged(Ok(u)) /\ Ranged(run_calibration(u, "txbb"))
                  /\ Ranged(run_calibration(v, "rxbb"))
    <2> DEFINE u == [t EXCEPT !.tune = tune]
               v == [t EXCEPT !.bbfdiv = div, !.tune = tune]
    <2>1. Ranged(u) /\ Ranged(v)
      BY <1>1 DEF Ranged, Fields
    <2> HIDE DEF u, v
    <2>2. Ranged(Ok(u)) /\ Ranged(run_calibration(u, "txbb")) /\ Ranged(run_calibration(v, "rxbb"))
      BY <2>1, CalDoneRanged, ReturnRanged
    <2> QED BY <2>2 DEF u, v
  <1>2. ASSUME NEW t, Ranged(t), NEW k, NEW m
        PROVE  /\ Ranged(rx_bb_analog_filter_calib(t, k, m)) /\ Ranged(tx_bb_analog_filter_calib(t, k, m))
               /\ Ranged(rx_tia_calib(t, k)) /\ Ranged(tx_bb_second_filter_calib(t, k))
               /\ Ranged(rx_adc_setup(t, k, m))
    <2>1. Ranged(rx_bb_analog_filter_calib(t, k, m))
      <3> DEFINE w == Clamp(k, 5, 700)
                 div == TuneDiv(m, w, 126906)
                 tune == [t.tune EXCEPT !.rx = <<w, div>>]
      <3>1. rx_bb_analog_filter_calib(t, k, m) =
              run_calibration([t EXCEPT !.bbfdiv = div, !.tune = tune], "rxbb")
        BY DEF rx_bb_analog_filter_calib
      <3> HIDE DEF w, div, tune
      <3> QED BY <1>1, <1>2, <3>1
    <2>2. Ranged(tx_bb_analog_filter_calib(t, k, m))
      <3> DEFINE w == Clamp(k, 16, 500)
                 tune == [t.tune EXCEPT !.tx = TuneDiv(m, w, 145036)]
      <3>1. tx_bb_analog_filter_calib(t, k, m) = run_calibration([t EXCEPT !.tune = tune], "txbb")
        BY DEF tx_bb_analog_filter_calib
      <3> HIDE DEF w, tune
      <3> QED BY <1>1, <1>2, <3>1
    <2>3. Ranged(rx_tia_calib(t, k)) /\ Ranged(tx_bb_second_filter_calib(t, k))
      BY <1>1, <1>2, ZenonT(60) DEF rx_tia_calib, tx_bb_second_filter_calib
    <2>4. Ranged(rx_adc_setup(t, k, m))
      BY <1>1, <1>2 DEF rx_adc_setup
    <2> QED BY <2>1, <2>2, <2>3, <2>4
  <1>3. Ranged(a)
    BY <1>2
  <1> HIDE DEF bb, a
  <1>4. Ranged(b)
    BY <1>2, <1>3 DEF Then
  <1> HIDE DEF b
  <1>5. Ranged(c)
    BY <1>2, <1>4 DEF Then
  <1> HIDE DEF c
  <1>6. Ranged(d)
    BY <1>2, <1>5 DEF Then
  <1> HIDE DEF d
  <1>7. Ranged(e)
    BY <1>2, <1>6 DEF Then
  <1>8. update_filters(x, rx, tx) = e
    BY DEF update_filters, a, b, c, d, bb
  <1> QED BY <1>7, <1>8

LEMMA TrackRanged ==
  ASSUME NEW x, Ranged(x), NEW on \in SUBSET Trackings, NEW freq
  PROVE  /\ Ranged(tracking_control(x, on)) /\ Ranged(bb_dc_offset_calib(x))
         /\ Ranged(rf_dc_offset_calib(x, freq))
  <1> DEFINE y(set) == [x EXCEPT !.trk = [@ EXCEPT !.chip = set]]
             z == [x EXCEPT !.trk = [x.trk EXCEPT !.chip = x.trk.chip \ {"bbdc", "rfdc"}],
                            !.dcband = freq > 4000]
  <1>1. \A set \in SUBSET Trackings : Ranged(y(set))
    BY DEF Ranged, Fields, TrkIn
  <1>2. Ranged(z)
    BY DEF Ranged, Fields, TrkIn
  <1>3. /\ tracking_control(x, on) = Ok(y(on))
        /\ rf_dc_offset_calib(x, freq) = run_calibration(z, "rfdc")
    BY DEF tracking_control, rf_dc_offset_calib
  <1> HIDE DEF y, z
  <1> QED BY <1>1, <1>2, <1>3, ReturnRanged, CalDoneRanged DEF bb_dc_offset_calib

LEMMA QuadRunsRanged ==
  ASSUME NEW x, Ranged(x), NEW phase, NEW forced \in BOOLEAN
  PROVE  Ranged(quad_runs(x, phase, forced))
  <1> DEFINE y == [x EXCEPT !.qc.phase = phase]
  <1>1. Ranged(tx_quad_phase_search(x))
    BY DEF tx_quad_phase_search, Ranged, Fields
  <1>2. Ranged(y)
    BY DEF Ranged, Fields
  <1>3. quad_runs(x, phase, forced) \in {tx_quad_phase_search(x), Ok(y), Return(y, ETIMEDOUT), Ok(x)}
    BY DEF quad_runs, Ranged, QuadAnswers
  <1> HIDE DEF y
  <1> QED BY <1>1, <1>2, <1>3, ReturnRanged

\* Every synthesizer written, but not its row.
LEMMA SynthsRanged ==
  ASSUME NEW x, Ranged(x), NEW lo, DOMAIN lo = Sides,
         \A p \in Sides : DOMAIN lo[p] = SynthFields /\ lo[p].row = x.lo[p].row
  PROVE  Ranged([x EXCEPT !.lo = lo])
  <1>1. RowsIn(lo)
    BY DEF Ranged, RowsIn
  <1> QED BY <1>1, PartRanged

LEMMA PowerdownRanged ==
  ASSUME NEW x, Ranged(x), NEW rx, NEW tx
  PROVE  Ranged(synth_lo_powerdown(x, rx, tx))
  <1> DEFINE pd(p, ctrl) == CASE ctrl = "off" -> x.lo[p].pd \cup {"LO"}
                              [] ctrl = "on" -> x.lo[p].pd \ {"LO"}
                              [] ctrl = "dontcare" -> x.lo[p].pd
             want == [rx |-> pd("rx", rx), tx |-> pd("tx", tx)]
             lo == [p \in DOMAIN x.lo |-> [x.lo[p] EXCEPT !.pd = want[p], !.chippd = want[p]]]
             y == [x EXCEPT !.lo = lo]
  <1>1. synth_lo_powerdown(x, rx, tx) = Ok(y)
    BY DEF synth_lo_powerdown
  <1> HIDE DEF want
  <1>2. DOMAIN lo = Sides /\ \A p \in Sides : DOMAIN lo[p] = SynthFields /\ lo[p].row = x.lo[p].row
    BY DEF Ranged, RowsIn, SynthFields
  <1> HIDE DEF lo
  <1>3. Ranged(y)
    BY <1>2, SynthsRanged
  <1> HIDE DEF y
  <1> QED BY <1>1, <1>3, ReturnRanged

LEMMA TxQuadRanged ==
  ASSUME NEW x, Ranged(x), NEW bwrx, NEW bwtx, NEW arg
  PROVE  Ranged(tx_quad_calib(x, bwrx, bwtx, arg))
  <1>1. ASSUME NEW t, Ranged(t), NEW nco, NEW phase, NEW forced \in BOOLEAN
        PROVE  Ranged(quad_wide(t, bwrx, bwtx, nco, phase, forced))
    <2> DEFINE a == update_filters(t, nco * 8, nco * 8)
               b == quad_runs(a, phase, forced)
               c == Return(update_filters(b, b.bw.rx, b.bw.tx), b.rc)
    <2>1. quad_wide(t, bwrx, bwtx, nco, phase, forced) \in {quad_runs(t, phase, forced), a, c}
      BY DEF quad_wide, Then, Always
    <2>2. Ranged(a)
      BY <1>1, FiltersRanged
    <2> HIDE DEF a
    <2>3. Ranged(b)
      BY <2>2, QuadRunsRanged
    <2> HIDE DEF b
    <2>4. Ranged(c)
      BY <2>3, FiltersRanged, ReturnRanged
    <2> HIDE DEF c
    <2> QED BY <1>1, <2>1, <2>2, <2>4, QuadRunsRanged
  <1> DEFINE off == "LO" \in x.lo.tx.pd
             l == [x.lo.tx EXCEPT !.chippd = @ \ {"LO"}]
             lo == [x.lo EXCEPT !.tx = l]
             up == IF off THEN [x EXCEPT !.lo = lo] ELSE x
             rf == clk_get_rate(x, "CLKRF")
             tf == clk_get_rate(x, "CLKTF")
             a == quad_at(up, bwrx, bwtx, arg, rf, tf)
             b == Return(synth_lo_powerdown(a, "dontcare", "dontcare"), a.rc)
  <1>2. tx_quad_calib(x, bwrx, bwtx, arg) \in {Return(x, EFAULT), a, b}
    BY DEF tx_quad_calib, Always
  <1>3. DOMAIN l = SynthFields /\ l.row \in 0..Len(VcoMHz)
    BY DEF Ranged, RowsIn, SynthFields, Sides
  <1> HIDE DEF l
  <1>4. RowsIn(lo)
    BY <1>3, SynthRanged DEF Ranged, Sides
  <1> HIDE DEF lo
  <1>5. Ranged([x EXCEPT !.lo = lo])
    BY <1>4, PartRanged
  <1>6. Ranged(up)
    BY <1>5
  <1> HIDE DEF up
  <1>7. Ranged(a)
    <2> DEFINE nco == (tf * (TxNcoWord(bwtx, rf, tf) + 1)) \div 32
               phase == IF arg >= 0 THEN arg ELSE RxPhase(up, bwtx, rf, tf)
               forced == arg = -2
    <2>1. a = quad_wide(up, bwrx, bwtx, nco, phase, forced) /\ forced \in BOOLEAN
      BY DEF quad_at
    <2> HIDE DEF rf, tf, nco, phase, a, forced
    <2> QED BY <1>1, <1>6, <2>1
  <1> HIDE DEF a
  <1>8. Ranged(b)
    BY <1>7, PowerdownRanged, ReturnRanged
  <1> HIDE DEF b
  <1> QED BY <1>2, <1>7, <1>8, ReturnRanged

LEMMA SuspendRanged ==
  ASSUME NEW x, Ranged(x)
  PROVE  Ranged(Suspend(x)) /\ Ranged(Resume(x))
  <1>1. {} \in SUBSET Trackings /\ x.trk.want \in SUBSET Trackings
    BY DEF Ranged, TrkIn
  <1>2. Ranged(tracking_control(x, {})) /\ Ranged(tracking_control(x, x.trk.want))
    BY <1>1, TrackRanged
  <1> QED BY <1>2, ForceRanged, RestoreRanged DEF Suspend, Resume

LEMMA CalibRanged ==
  ASSUME NEW x, Ranged(x), NEW cal, NEW arg
  PROVE  Ranged(do_calib_run(x, cal, arg))
  <1> DEFINE a == Suspend(x)
             b == calib(a, cal, arg)
  <1>1. Ranged(a)
    BY SuspendRanged
  <1> HIDE DEF a
  <1>2. b \in {tx_quad_calib(a, a.bw.rx \div 2, a.bw.tx \div 2, arg),
               rf_dc_offset_calib(a, rfpll_recalc_rate(a, "rx")), a}
    BY DEF calib
  <1>3. \A freq : Ranged(rf_dc_offset_calib(a, freq))
    BY <1>1, TrackRanged
  <1> HIDE DEF b
  <1>4. Ranged(b)
    BY <1>1, <1>2, <1>3, TxQuadRanged
  <1> QED BY <1>4, SuspendRanged DEF do_calib_run, a, b

LEMMA BandwidthRanged ==
  ASSUME NEW x, Ranged(x), NEW rx, NEW tx
  PROVE  Ranged(update_rf_bandwidth(x, rx, tx))
  <1> DEFINE z == Suspend(x)
             a == update_filters(z, rx, tx)
             w == [a EXCEPT !.bw = [rx |-> rx, tx |-> tx]]
             b == tx_quad_calib(w, rx \div 2, tx \div 2, -1)
             c == Resume(b)
  <1>1. update_rf_bandwidth(x, rx, tx) = IF a.rc < 0 THEN a ELSE IF b.rc < 0 THEN b ELSE c
    BY DEF update_rf_bandwidth, Then
  <1>2. Ranged(a)
    BY SuspendRanged, FiltersRanged
  <1> HIDE DEF a
  <1>3. Ranged(w)
    BY <1>2 DEF Ranged, Fields
  <1> HIDE DEF w
  <1>4. Ranged(b)
    BY <1>3, TxQuadRanged
  <1> HIDE DEF b
  <1>5. Ranged(c)
    BY <1>4, SuspendRanged
  <1> HIDE DEF c
  <1> QED BY <1>1, <1>2, <1>4, <1>5

-----------------------------------------------------------------------------
(* The synthesizers.                                                          *)
LEMMA LeastExists ==
  ASSUME NEW S, S \subseteq Nat, S # {}
  PROVE  \E i \in S : \A j \in S : i <= j
  <1> DEFINE R == OpToRel(<, Nat)
  <1>1. \E x \in S : \A y \in S : ~(<<y, x>> \in R)
    BY NatLessThanWellFounded, WFMin
  <1>2. \A x \in Nat, y \in Nat : <<y, x>> \in R <=> y < x
    BY DEF OpToRel
  <1> HIDE DEF R
  <1>3. PICK i \in S : \A y \in S : ~(<<y, i>> \in R)
    BY <1>1
  <1>4. i \in Nat /\ \A y \in S : y \in Nat /\ ~(y < i)
    BY <1>2, <1>3
  <1> QED BY <1>4

\* Every VCO frequency a word can ask for has a row of the tables.
LEMMA RowExists ==
  ASSUME NEW vco \in Nat
  PROVE  vco > 6000 => VcoRow(vco) \in 0..Len(VcoMHz)
  <1> DEFINE D == DOMAIN VcoMHz
             T == {i \in D : VcoMHz[i] <= vco}
             Fits(i) == VcoMHz[i] <= vco /\ (i = 1 \/ VcoMHz[i - 1] > vco)
  <1>1. D = 1..53 /\ Len(VcoMHz) = 53 /\ VcoMHz[53] = 5997 /\ \A i \in D : VcoMHz[i] \in Nat
    BY DEF VcoMHz
  <1>2. T # {} => \E i \in T : \A j \in T : i <= j
    <2>1. T \subseteq Nat
      BY <1>1
    <2> HIDE DEF T
    <2> QED BY <2>1, LeastExists
  <1> HAVE vco > 6000
  <1>3. PICK i \in T : \A j \in T : i <= j
    <2>1. 53 \in T
      BY <1>1
    <2> QED BY <1>2, <2>1
  <1>4. i \in D /\ Fits(i)
    <2>1. i = 1 \/ (i - 1 \in D /\ i - 1 \notin T)
      BY <1>1, <1>3
    <2> QED BY <1>1, <1>3, <2>1
  <1>5. VcoRow(vco) = CHOOSE k \in D : Fits(k)
    BY DEF VcoRow
  <1> HIDE DEF D, Fits
  <1>6. (CHOOSE k \in D : Fits(k)) \in D
    BY <1>4
  <1> QED BY <1>1, <1>5, <1>6

\* One field of a synthesizer written, but not the row.
LEMMA LoFieldRanged ==
  ASSUME NEW x, Ranged(x), NEW p \in Sides, NEW v
  PROVE  /\ Ranged([x EXCEPT !.lo[p].fl = v]) /\ Ranged([x EXCEPT !.lo[p].dummy = v])
         /\ Ranged([x EXCEPT !.lo[p].reg = v]) /\ Ranged([x EXCEPT !.lo[p].pd = v])
         /\ Ranged([x EXCEPT !.lo[p].chippd = v]) /\ Ranged([x EXCEPT !.lo[p].ext = v])
         /\ \A w : /\ Ranged([x EXCEPT !.lo[p].cur = v, !.lo[p].div = w])
                   /\ Ranged([x EXCEPT !.lo[p].reg = v, !.lo[p].fl = w])
  BY DEF Ranged, RowsIn, Fields, SynthFields

\* A word the VCO can reach.
Reached(w) == w.vco \in Nat /\ w.vco > 6000

LEMMA TuneRanged ==
  ASSUME NEW x, Ranged(x), NEW p \in Sides, NEW w, Reached(w)
  PROVE  Ranged(tune_synth(x, p, w))
  <1> DEFINE tdd == ~(DuplexLos(x) /\ ~SameLo(x))
             row == VcoRow(w.vco)
             l == [x.lo[p] EXCEPT !.tdd = tdd, !.row = row]
             lo == [x.lo EXCEPT ![p] = l]
             t == [x EXCEPT !.lo = lo]
             z == [t EXCEPT !.lo[p].reg = w, !.lo[p].fl = Tune(@, x.alc)]
             y == [t EXCEPT !.lo[p].reg = w, !.lo[p].fl = Tune(t.lo[p].fl, x.alc)]
  <1>1. tune_synth(x, p, w) = check_cal_done(z, "lock_" \o p)
    <2>1. rfpll_vco_init(x, p, w.vco) = t
      BY DEF rfpll_vco_init, Ranged, RowsIn, Fields
    <2> HIDE DEF t
    <2> QED BY <2>1 DEF tune_synth
  <1>2. row \in 0..Len(VcoMHz)
    BY RowExists DEF Reached
  <1> HIDE DEF row, tdd
  <1>3. DOMAIN l = SynthFields /\ l.row \in 0..Len(VcoMHz)
    BY <1>2 DEF Ranged, RowsIn, SynthFields
  <1> HIDE DEF l
  <1>4. RowsIn(lo)
    BY <1>3, SynthRanged DEF Ranged
  <1> HIDE DEF lo
  <1>5. Ranged(t)
    BY <1>4, PartRanged
  <1> HIDE DEF t
  <1>6. z = y
    BY <1>5 DEF Ranged, RowsIn, Fields, SynthFields
  <1>7. Ranged(y)
    BY <1>5, LoFieldRanged
  <1> HIDE DEF z, y
  <1> QED BY <1>1, <1>6, <1>7, CalDoneRanged

LEMMA FixRanged ==
  ASSUME NEW x, Ranged(x), NEW q \in Sides, NEW w, Reached(w)
  PROVE  Ranged(fix_other(x, q, w))
  <1> DEFINE z == [x EXCEPT !.lo[q].fl = Leave(@)]
             u == IF validate_rfpll(x, x.lo[q].cur) THEN RfpllWord(x.lo[q].cur) ELSE w
  <1>1. fix_other(x, q, w) \in {tune_synth(x, q, w), tune_synth(z, q, u)}
    BY DEF fix_other, fastlock_prepare
  <1>2. Reached(u)
    BY ValidIs, WordIsFrequency DEF Reached
  <1>3. Ranged(z)
    BY LoFieldRanged
  <1> HIDE DEF z, u
  <1> QED BY <1>1, <1>2, <1>3, TuneRanged

LEMMA IntSetRanged ==
  ASSUME NEW x, Ranged(x), NEW p \in Sides, NEW f
  PROVE  Ranged(rfpll_int_set_rate(x, p, f))
  <1> DEFINE a == [x EXCEPT !.lo[p].fl = Leave(@)]
             w == RfpllWord(f)
             b == [a EXCEPT !.lo[p].cur = f, !.lo[p].div = w.vdiv]
             c == vco_cal_if_skipped(b, p, TRUE)
             d == tune_synth(c, p, w)
             e == fix_other(d, Other(p), w)
             g == IF fixup_other(d) THEN e ELSE d
             y == vco_cal_if_skipped(g, p, FALSE)
  <1>1. rfpll_int_set_rate(x, p, f) = IF validate_rfpll(x, f) THEN y ELSE Return(a, EINVAL)
    BY DEF rfpll_int_set_rate, fastlock_prepare, int_tune, tune_both
  <1>2. Ranged(a)
    BY LoFieldRanged
  <1> HIDE DEF a
  <1> SUFFICES ASSUME validate_rfpll(x, f) PROVE Ranged(y)
    BY <1>1, <1>2, ReturnRanged
  <1>3. Reached(w)
    BY ValidIs, WordIsFrequency DEF Reached
  <1> HIDE DEF w
  <1>4. Ranged(b)
    BY <1>2, LoFieldRanged
  <1> HIDE DEF b
  <1>5. Ranged(c)
    BY <1>4, VcoCalRanged
  <1> HIDE DEF c
  <1>6. Ranged(d)
    BY <1>3, <1>5, TuneRanged
  <1> HIDE DEF d
  <1>7. Other(p) \in Sides
    BY DEF Other, Sides
  <1>8. Ranged(e)
    BY <1>3, <1>6, <1>7, FixRanged
  <1> HIDE DEF e
  <1>9. Ranged(g)
    BY <1>6, <1>8
  <1> HIDE DEF g
  <1> QED BY <1>9, VcoCalRanged

\* The index of a gain is one of the table's, or an error.
LEMMA IndexIs ==
  ASSUME NEW table, NEW db
  PROVE  find_table_index(table, db) \in (0..GainMax) \cup {EINVAL}
  <1> DEFINE enough == {i \in 0..GainMax : AbsGain(table, i) >= db}
             least == CHOOSE i \in enough : \A j \in enough : i <= j
             far(j) == DiffAbs(AbsGain(table, j), db)
  <1>1. find_table_index(table, db) =
          IF enough = {} THEN EINVAL
          ELSE IF least > 0 /\ far(least - 1) < far(least) THEN least - 1 ELSE least
    BY DEF find_table_index
  <1> HIDE DEF far
  <1>2. enough \subseteq Nat /\ enough \subseteq 0..GainMax
    BY DEF GainMax
  <1> HIDE DEF enough
  <1>3. enough # {} => least \in 0..GainMax
    BY <1>2, LeastExists
  <1> HIDE DEF least
  <1> QED BY <1>1, <1>3 DEF GainMax

LEMMA LoadGtRanged ==
  ASSUME NEW x, Ranged(x), NEW f
  PROVE  Ranged(load_gt(x, f))
  <1> DEFINE band == gt_tableindex(f)
             from == IF x.gain.table = NoTable THEN band ELSE x.gain.table
             kept(i) == find_table_index(band, AbsGain(from, i))
             idx == [ch \in DOMAIN x.gain.idx |-> IF kept(x.gain.idx[ch]) < 0 THEN GainMax
                                                  ELSE kept(x.gain.idx[ch])]
             g == [x.gain EXCEPT !.table = band, !.idx = idx]
             y == [x EXCEPT !.gain = g]
  <1>1. load_gt(x, f) \in {Ok(x), Ok(y)}
    BY DEF load_gt
  <1>2. band \in {NoTable, 0, 1, 2}
    BY DEF gt_tableindex
  <1>3. \A i : kept(i) \in (0..GainMax) \cup {EINVAL}
    BY IndexIs
  <1> HIDE DEF band, from, kept
  <1>4. idx \in [{1, 2} -> 0..GainMax]
    <2>1. DOMAIN x.gain.idx = {1, 2}
      BY DEF Ranged, GainsIn
    <2>2. \A ch \in {1, 2} : (IF kept(x.gain.idx[ch]) < 0 THEN GainMax ELSE kept(x.gain.idx[ch])) \in 0..GainMax
      BY <1>3 DEF EINVAL, GainMax
    <2> QED BY <2>1, <2>2
  <1> HIDE DEF idx
  <1>5. GainsIn(g)
    BY <1>2, <1>4 DEF Ranged, GainsIn
  <1> HIDE DEF g
  <1>6. Ranged(y)
    BY <1>5, PartRanged
  <1> HIDE DEF y
  <1> QED BY <1>1, <1>6, ReturnRanged

LEMMA SetLoRanged ==
  ASSUME NEW x, Ranged(x), NEW p \in Sides, NEW f
  PROVE  Ranged(set_lo(x, p, f))
  <1>1. ASSUME NEW t, Ranged(t), NEW g PROVE Ranged(cal_if_far(t, g))
    <2> DEFINE c == do_calib_run(t, "TX_QUAD", -1)
               d == [c EXCEPT !.qc.freq = g]
    <2>1. cal_if_far(t, g) \in {t, d}
      BY DEF cal_if_far
    <2>2. Ranged(c)
      BY <1>1, CalibRanged
    <2> HIDE DEF c
    <2>3. Ranged(d)
      BY <2>2 DEF Ranged, Fields
    <2> HIDE DEF d
    <2> QED BY <1>1, <2>1, <2>3
  <1> DEFINE g == IF x.pd.ext[p] THEN f ELSE rfpll_int_round_rate(f)
             a == IF x.pd.ext[p] THEN [x EXCEPT !.lo[p].dummy = g] ELSE rfpll_int_set_rate(x, p, g)
             b == IF p = "rx" THEN load_gt(a, g) ELSE Ok(cal_if_far(a, g))
  <1>2. set_lo(x, p, f) \in {Ok(x), Ok(recalc_all(b))}
    BY DEF set_lo, rfpll_set_rate
  <1> HIDE DEF g
  <1>3. Ranged(a)
    BY LoFieldRanged, IntSetRanged
  <1> HIDE DEF a
  <1>4. Ranged(b)
    BY <1>1, <1>3, LoadGtRanged, ReturnRanged
  <1> HIDE DEF b
  <1>5. Ranged(recalc_all(b))
    BY <1>4, RecalcRanged
  <1> QED BY <1>2, <1>5, ReturnRanged

LEMMA MuxRanged ==
  ASSUME NEW x, Ranged(x), NEW p \in Sides, NEW ext
  PROVE  Ranged(clk_mux_set_parent(x, p, ext))
  <1>1. ASSUME NEW t, Ranged(t) PROVE Ranged(trx_ext_lo_control(t, p, ext))
    <2> DEFINE pd == IF ext THEN t.lo[p].pd \cup VcoBits ELSE t.lo[p].pd \ VcoBits
               bit == IF p = "rx" THEN "PD_RX" ELSE "PD_TX"
               cfg == (t.en.cfg2 \ {bit}) \cup Bit(ext /\ ~t.mcsrf, bit)
               vdiv == IF ext THEN 7 ELSE t.lo[p].div
               u == [t EXCEPT !.en = [@ EXCEPT !.cfg2 = cfg]]
               y == [u EXCEPT !.lo[p].fl.ready = ext, !.lo[p].reg.vdiv = vdiv,
                              !.lo[p].pd = pd, !.lo[p].chippd = pd, !.lo[p].ext = ext]
    <2>1. trx_ext_lo_control(t, p, ext) = Ok(y)
      BY DEF trx_ext_lo_control
    <2>2. cfg \in SUBSET Config2
      BY <1>1 DEF Ranged, EnIn, Config2, SynthBits, Bit
    <2> HIDE DEF cfg
    <2>3. Ranged(u)
      BY <1>1, <2>2, EnRanged
    <2> HIDE DEF u, pd, vdiv
    <2> DEFINE a == [u EXCEPT !.lo[p].fl.ready = ext]
               b == [a EXCEPT !.lo[p].reg.vdiv = vdiv]
               c == [b EXCEPT !.lo[p].pd = pd]
               d == [c EXCEPT !.lo[p].chippd = pd]
               e == [d EXCEPT !.lo[p].ext = ext]
    <2>4. y = e
      OBVIOUS
    <2> HIDE DEF y
    <2>5. Ranged(a)
      BY <2>3, LoFieldRanged
    <2> HIDE DEF a
    <2>6. Ranged(b)
      BY <2>5, LoFieldRanged
    <2> HIDE DEF b
    <2>7. Ranged(c)
      BY <2>6, LoFieldRanged
    <2> HIDE DEF c
    <2>8. Ranged(d)
      BY <2>7, LoFieldRanged
    <2> HIDE DEF d
    <2>9. Ranged(e)
      BY <2>8, LoFieldRanged
    <2> QED BY <2>1, <2>4, <2>9, ReturnRanged
  <1> QED BY <1>1, ForceRanged, RestoreRanged DEF clk_mux_set_parent

LEMMA FastlockRanged ==
  ASSUME NEW x, Ranged(x), NEW p \in Sides, NEW k, NEW values
  PROVE  /\ Ranged(fastlock_load(x, p, k, values)) /\ Ranged(fastlock_store(x, p, k))
         /\ Ranged(fastlock_recall(x, p, k))
  <1>1. \A v : Ranged(Ok([x EXCEPT !.lo[p].fl = v]))
    BY LoFieldRanged, ReturnRanged
  <1> QED BY <1>1, ReturnRanged DEF fastlock_load, fastlock_store, fastlock_recall

-----------------------------------------------------------------------------
(* The filters, the gains, the attenuation and the ports.                     *)
LEMMA BypassRanged ==
  ASSUME NEW x, Ranged(x), NEW v
  PROVE  /\ Ranged([x EXCEPT !.fir = v]) /\ Ranged([x EXCEPT !.bw = v])
         /\ Ranged([x EXCEPT !.pd = v]) /\ Ranged([x EXCEPT !.att = v])
         /\ Ranged([x EXCEPT !.port = v]) /\ Ranged([x EXCEPT !.autocal = v])
         /\ Ranged([x EXCEPT !.mcsrf = v]) /\ Ranged([x EXCEPT !.dcxo = v])
         /\ Ranged([x EXCEPT !.qc = v]) /\ Ranged([x EXCEPT !.rc = v])
  BY DEF Ranged, Fields

LEMMA CoefRanged ==
  ASSUME NEW x, Ranged(x), NEW p, NEW cfg
  PROVE  /\ Ranged(load_fir_filter_coef(x, p, cfg))
         /\ Ranged(set_rx_fir_config(x, cfg)) /\ Ranged(set_tx_fir_config(x, cfg))
  <1>1. ASSUME NEW t, Ranged(t), NEW q PROVE Ranged(load_fir_filter_coef(t, q, cfg))
    <2> DEFINE a == ensm_force_state(t, "ALERT")
               fir == [a.fir EXCEPT !.taps = [a.fir.taps EXCEPT ![q] = cfg.taps]]
               c == [a EXCEPT !.fir = fir]
               b == [c EXCEPT !.fir = [c.fir EXCEPT !.chip =
                      [c.fir.chip EXCEPT ![q] = [taps |-> cfg.taps, dest |-> cfg.dest]]]]
    <2>1. load_fir_filter_coef(t, q, cfg) \in {Return(t, EINVAL), Ok(ensm_restore_prev_state(b))}
      BY DEF load_fir_filter_coef
    <2>2. Ranged(a)
      BY <1>1, ForceRanged
    <2> HIDE DEF a, fir
    <2>3. Ranged(c)
      BY <2>2, BypassRanged
    <2> HIDE DEF c
    <2>4. Ranged(b)
      BY <2>3, BypassRanged
    <2> HIDE DEF b
    <2>5. Ranged(ensm_restore_prev_state(b))
      BY <2>4, RestoreRanged
    <2> QED BY <1>1, <2>1, <2>5, ReturnRanged
  <1>2. /\ Ranged([x EXCEPT !.fir = [@ EXCEPT !.rxdec = cfg.factor]])
        /\ Ranged([x EXCEPT !.fir = [@ EXCEPT !.txint = cfg.factor]])
    BY BypassRanged
  <1> QED BY <1>1, <1>2 DEF set_rx_fir_config, set_tx_fir_config

\* A chain, and the bandwidth after it.
LEMMA ThenBandwidthRanged ==
  ASSUME NEW x, Ranged(x), NEW rx, NEW tx, NEW bwrx, NEW bwtx
  PROVE  LET c == set_trx_clock_chain(x, rx, tx)
         IN Ranged(c) /\ Ranged(update_rf_bandwidth(c, bwrx, bwtx)) /\ Ranged(set_trx_path_clks(x, rx, tx))
  <1> DEFINE c == set_trx_clock_chain(x, rx, tx)
  <1>1. Ranged(c)
    BY ChainRanged
  <1>2. set_trx_path_clks(x, rx, tx) \in {c, update_rf_bandwidth(c, c.bw.rx, c.bw.tx)}
    BY DEF Then, set_trx_path_clks
  <1> HIDE DEF c
  <1>3. Ranged(c) /\ Ranged(update_rf_bandwidth(c, bwrx, bwtx)) /\ Ranged(set_trx_path_clks(x, rx, tx))
    BY <1>1, <1>2, BandwidthRanged
  <1> USE DEF c
  <1> QED BY <1>3

LEMMA FirRanged ==
  ASSUME NEW x, Ranged(x), NEW ps, NEW on
  PROVE  Ranged(set_fir_en_dis(x, ps, on))
  <1>1. ASSUME NEW t, Ranged(t), NEW by PROVE Ranged(bypass(t, ps, by))
    BY <1>1 DEF bypass, Ranged, Fields
  <1>2. ASSUME NEW u, Ranged(u), NEW c PROVE Ranged(enable_on(u, c))
    <2> DEFINE k == set_trx_clock_chain(u, c.rx, c.tx)
    <2>1. enable_on(u, c) \in {Return(u, c.rc), Return(u, EINVAL), k,
                               update_rf_bandwidth(k, c.bw.rx, c.bw.tx)}
      BY DEF enable_on, Then
    <2> QED BY <1>2, <2>1, ReturnRanged, ThenBandwidthRanged
  <1>3. ASSUME NEW t, Ranged(t) PROVE Ranged(validate_enable_fir(t))
    <2>1. validate_enable_fir(t) \in {enable_on(t, FirChain(t)), Return(t, EINVAL)}
      BY DEF validate_enable_fir
    <2> QED BY <1>2, <1>3, <2>1, ReturnRanged
  <1> DEFINE a == bypass(x, ps, ~on)
             v == validate_enable_fir(a)
             w == bypass(v, ps, TRUE)
  <1>4. set_fir_en_dis(x, ps, on) \in {Ok(x), v, w}
    BY DEF set_fir_en_dis
  <1>5. Ranged(a)
    <2> DEFINE by == ~on
    <2>1. a = bypass(x, ps, by)
      OBVIOUS
    <2> HIDE DEF by, a
    <2> QED BY <1>1, <2>1
  <1> HIDE DEF a
  <1>6. Ranged(v)
    BY <1>3, <1>5
  <1> HIDE DEF v
  <1>7. Ranged(w)
    <2> DEFINE by == TRUE
    <2>1. w = bypass(v, ps, by)
      OBVIOUS
    <2> HIDE DEF by, w
    <2> QED BY <1>1, <1>6, <2>1
  <1> HIDE DEF w
  <1> QED BY <1>4, <1>6, <1>7, ReturnRanged

LEMMA LoadEnableRanged ==
  ASSUME NEW x, Ranged(x), NEW rxcfg, NEW txcfg
  PROVE  Ranged(trx_load_enable_fir(x, rxcfg, txcfg))
  <1> DEFINE clks(p, cfg) == IF cfg.clks.sampl # 0 THEN cfg.clks ELSE x.fir.clks[p]
             a == [x EXCEPT !.fir.valid = FALSE,
                            !.fir.bw = [rx |-> rxcfg.bw, tx |-> txcfg.bw],
                            !.fir.clks = [rx |-> clks("rx", rxcfg), tx |-> clks("tx", txcfg)]]
             b == set_rx_fir_config(set_tx_fir_config(a, txcfg), rxcfg)
             c == [b EXCEPT !.fir.valid = rxcfg.clks.sampl # 0 /\ txcfg.clks.sampl # 0]
             d == set_fir_en_dis(c, {"rx", "tx"}, TRUE)
  <1>1. trx_load_enable_fir(x, rxcfg, txcfg) = Ok(d)
    BY DEF trx_load_enable_fir
  <1> HIDE DEF clks
  <1>2. Ranged(a)
    BY DEF Ranged, Fields
  <1> HIDE DEF a
  <1>3. Ranged(b)
    BY <1>2, CoefRanged
  <1> HIDE DEF b
  <1>4. Ranged(c)
    BY <1>3 DEF Ranged, Fields
  <1> HIDE DEF c
  <1> QED BY <1>1, <1>4, FirRanged, ReturnRanged

LEMMA GainRanged ==
  ASSUME NEW x, Ranged(x), NEW ch, NEW db
  PROVE  Ranged(set_rx_rf_gain(x, ch, db))
  <1>1. ASSUME NEW c \in {1, 2} PROVE Ranged(set_full_table_gain(x, c, db))
    <2> DEFINE i == find_table_index(gt(x), db)
               g == [x.gain EXCEPT !.idx = [x.gain.idx EXCEPT ![c] = i]]
    <2>1. set_full_table_gain(x, c, db) = IF i < 0 THEN Return(x, i) ELSE Ok([x EXCEPT !.gain = g])
      BY DEF set_full_table_gain
    <2>2. i \in (0..GainMax) \cup {EINVAL}
      BY IndexIs
    <2> HIDE DEF i
    <2>3. i >= 0 => GainsIn(g)
      BY <1>1, <2>2 DEF Ranged, GainsIn, EINVAL, GainMax
    <2> HIDE DEF g
    <2>4. i >= 0 => Ranged([x EXCEPT !.gain = g])
      BY <2>3, PartRanged
    <2> QED BY <2>1, <2>2, <2>4, ReturnRanged DEF EINVAL, GainMax
  <1> DEFINE c == channel_map(x, FALSE, ch + 1)
  <1>2. set_rx_rf_gain(x, ch, db) =
          CASE c \notin {1, 2} -> Return(x, EINVAL)
            [] c \in {1, 2} /\ x.gain.mode[c] # "manual" -> Return(x, EOPNOTSUPP)
            [] OTHER -> set_full_table_gain(x, c, db)
    BY DEF set_rx_rf_gain, set_rx_gain
  <1> HIDE DEF c
  <1>3. \/ \E r : set_rx_rf_gain(x, ch, db) = Return(x, r)
        \/ c \in {1, 2} /\ set_rx_rf_gain(x, ch, db) = set_full_table_gain(x, c, db)
    BY <1>2
  <1> QED BY <1>1, <1>3, ReturnRanged

\* The other fields of the gain control.
LEMMA GainFieldRanged ==
  ASSUME NEW x, Ranged(x), NEW v
  PROVE  /\ Ranged([x EXCEPT !.gain = [@ EXCEPT !.agc = v]])
         /\ Ranged([x EXCEPT !.gain = [@ EXCEPT !.mode = v]])
         /\ Ranged([x EXCEPT !.gain = [@ EXCEPT !.hybrid = v]])
         /\ Ranged([x EXCEPT !.gain = [@ EXCEPT !.rxen = v]])
         /\ Ranged([x EXCEPT !.gain = [@ EXCEPT !.txen = v]])
  BY DEF Ranged, Fields, GainsIn

LEMMA GainModeRanged ==
  ASSUME NEW x, Ranged(x), NEW ch, NEW mode
  PROVE  Ranged(set_rx_gain_control_mode(x, ch, mode))
  <1>1. ASSUME NEW t, Ranged(t), NEW c PROVE Ranged(set_gain_ctrl_mode(t, c, mode))
    <2> DEFINE modes == [t.gain.mode EXCEPT ![c] = mode]
               hybrid == mode = "hybrid"
               rxen == t.gain.rxen \cup {c}
               a == [t EXCEPT !.gain = [@ EXCEPT !.mode = modes]]
               b == [a EXCEPT !.gain = [@ EXCEPT !.hybrid = hybrid]]
               d == [b EXCEPT !.gain = [@ EXCEPT !.rxen = rxen]]
    <2>1. set_gain_ctrl_mode(t, c, mode) \in {Return(t, EINVAL), gc_update(d)}
      BY DEF set_gain_ctrl_mode
    <2> HIDE DEF modes, hybrid, rxen
    <2>2. Ranged(a)
      BY <1>1, GainFieldRanged
    <2> HIDE DEF a
    <2>3. Ranged(b)
      BY <2>2, GainFieldRanged
    <2> HIDE DEF b
    <2>4. Ranged(d)
      BY <2>3, GainFieldRanged
    <2> HIDE DEF d
    <2> QED BY <1>1, <2>1, <2>4, ReturnRanged, TimesRanged
  <1> DEFINE agc == [x.gain.agc EXCEPT ![ch + 1] = mode]
             y == [x EXCEPT !.gain = [@ EXCEPT !.agc = agc]]
             c == channel_map(x, FALSE, ch + 1)
  <1>2. set_rx_gain_control_mode(x, ch, mode) = Ok(set_gain_ctrl_mode(y, c, mode))
    BY DEF set_rx_gain_control_mode
  <1> HIDE DEF agc, c
  <1>3. Ranged(y)
    BY GainFieldRanged
  <1> HIDE DEF y
  <1> QED BY <1>1, <1>2, <1>3, ReturnRanged

LEMMA GcSetupRanged ==
  ASSUME NEW x, Ranged(x)
  PROVE  Ranged(gc_setup(x))
  <1> DEFINE agc == x.pd.agc
             hybrid == \E ch \in {1, 2} : x.pd.agc[ch] = "hybrid"
             idx == [ch \in {1, 2} |-> GainMax]
             g == [x.gain EXCEPT !.agc = agc, !.mode = agc, !.hybrid = hybrid, !.idx = idx]
             y == [x EXCEPT !.gain = g]
  <1>1. gc_setup(x) = gc_update(y)
    BY DEF gc_setup
  <1> HIDE DEF hybrid, agc
  <1>2. GainsIn(g)
    BY DEF Ranged, GainsIn, GainMax
  <1> HIDE DEF g
  <1>3. Ranged(y)
    BY <1>2, PartRanged
  <1> HIDE DEF y
  <1> QED BY <1>1, <1>3, TimesRanged

\* The attenuation.
LEMMA AttenRanged ==
  ASSUME NEW x, Ranged(x), NEW mdb, NEW chans
  PROVE  Ranged(set_tx_atten(x, mdb, chans))
  <1> DEFINE chip == [ch \in {1, 2} |-> IF ch \in chans THEN AttenWord(mdb) ELSE x.att.chip[ch]]
             att == [x.att EXCEPT !.chip = chip]
  <1>1. set_tx_atten(x, mdb, chans) \in {Return(x, EINVAL), Ok([x EXCEPT !.att = att])}
    BY DEF set_tx_atten
  <1> HIDE DEF att
  <1>2. Ranged([x EXCEPT !.att = att])
    BY BypassRanged
  <1> QED BY <1>1, <1>2, ReturnRanged

LEMMA MuteRanged ==
  ASSUME NEW x, Ranged(x), NEW on, NEW ch, NEW mdb
  PROVE  Ranged(tx_mute(x, on)) /\ Ranged(set_tx_attenuation(x, ch, mdb))
  <1> DEFINE cached == [c \in {1, 2} |-> get_tx_atten(x, c)]
             att == [x.att EXCEPT !.cached = cached]
             kept == [x EXCEPT !.att = att]
             first == set_tx_atten(x, x.att.cached[1], {1})
  <1>1. tx_mute(x, on) \in {set_tx_atten(kept, MaxAtten, {1, 2}),
                            set_tx_atten(x, x.att.cached[1], {1, 2}),
                            set_tx_atten(first, x.att.cached[2], {2})}
    BY DEF tx_mute
  <1> HIDE DEF att
  <1>2. Ranged(kept)
    BY BypassRanged
  <1> HIDE DEF kept
  <1>3. Ranged(first)
    BY AttenRanged
  <1> HIDE DEF first
  <1> QED BY <1>1, <1>2, <1>3, AttenRanged DEF set_tx_attenuation

\* The ports.
LEMMA PortRanged ==
  ASSUME NEW x, Ranged(x), NEW isout, NEW rx, NEW tx
  PROVE  /\ Ranged(rf_port_setup(x, isout, rx, tx))
         /\ Ranged(set_rx_rf_port_input(x, rx)) /\ Ranged(set_tx_rf_port_output(x, tx))
  <1>1. ASSUME NEW t, Ranged(t), NEW out, NEW r, NEW w PROVE Ranged(rf_port_setup(t, out, r, w))
    <2> DEFINE mon == IF out THEN t
                      ELSE txmon_control(t, IF r > 8 THEN {c \in {1, 2} : (r \div c) % 2 = 1} ELSE {})
               val == (IF r < 3 THEN 3 * 2^(r * 2) ELSE 2^(r - 3)) + (IF w # 0 THEN 64 ELSE 0)
               port == [mon.port EXCEPT !.select = val]
    <2>1. rf_port_setup(t, out, r, w) \in {Return(t, EINVAL), Ok(mon), Ok([mon EXCEPT !.port = port])}
      BY DEF rf_port_setup
    <2>2. Ranged(mon)
      <3>1. ASSUME NEW chans PROVE Ranged(txmon_control(t, chans))
        <4> DEFINE po == [t.port EXCEPT !.mon = chans]
        <4>1. txmon_control(t, chans) = [t EXCEPT !.port = po]
          BY DEF txmon_control
        <4> HIDE DEF po
        <4>2. Ranged([t EXCEPT !.port = po])
          BY <1>1, BypassRanged
        <4> QED BY <4>1, <4>2
      <3> QED BY <1>1, <3>1
    <2> HIDE DEF mon, port
    <2>3. Ranged([mon EXCEPT !.port = port])
      BY <2>2, BypassRanged
    <2> QED BY <1>1, <2>1, <2>2, <2>3, ReturnRanged
  <1>2. \A port : Ranged([x EXCEPT !.port = port])
    BY BypassRanged
  <1>3. Ranged([x EXCEPT !.port.rx = rx]) /\ Ranged([x EXCEPT !.port.tx = tx])
    BY <1>2
  <1> QED BY <1>1, <1>3 DEF set_rx_rf_port_input, set_tx_rf_port_output

-----------------------------------------------------------------------------
(* The setup.                                                                 *)
LEMMA ResetRanged ==
  ASSUME NEW x, Ranged(x)
  PROVE  Ranged(ad9361_reset(x))
  <1> DEFINE word == [int |-> 16, fract |-> 0]
             div == [c \in Factors |->
               CASE c = "ADC" -> 8 [] c \in {"RX_SAMPL", "TX_SAMPL"} -> 4
                 [] c = "DAC" -> 1 [] OTHER -> 2]
             chip == [rx |-> NoFilter, tx |-> NoFilter]
             times == [gc |-> <<0, 0>>, rssi |-> 0, auxadc |-> 0]
             mode == <<"manual", "manual">>
             idx == <<GainMax, GainMax>>
             a1 == [x EXCEPT !.clk.word = word]
             a2 == [a1 EXCEPT !.clk.div = div]
             a3 == [a2 EXCEPT !.fir.chip = chip, !.times = times]
             a4 == [a3 EXCEPT !.gain.mode = mode]
             a5 == [a4 EXCEPT !.gain.hybrid = FALSE]
             a6 == [a5 EXCEPT !.gain.rxen = {}]
             a7 == [a6 EXCEPT !.gain.txen = {}]
             a == [a7 EXCEPT !.gain.idx = idx]
             att == <<AttenWord(0), AttenWord(0)>>
             en == [x.en EXCEPT !.dev = "WAIT", !.pin = FALSE, !.clocks = FALSE, !.fdd = FALSE,
                                !.cfg2 = {}]
             port == [x.port EXCEPT !.select = 0, !.mon = {}]
             tune == [rx |-> <<0, 0>>, tx |-> 0, tia |-> <<0, <<0, 0>>>>, second |-> 0,
                      adc |-> <<0, 0, 0, <<0, 0>>>>]
             b1 == [a EXCEPT !.att.chip = att]
             b2 == [b1 EXCEPT !.en = en]
             b3 == [b2 EXCEPT !.trk.chip = {}]
             b == [b3 EXCEPT !.mcsrf = FALSE, !.dcband = FALSE, !.port = port, !.tune = tune]
             fl(f) == [f EXCEPT !.mem = NoFastlock.mem, !.setup = 0, !.ready = FALSE,
                                !.vcocal = TRUE, !.alc = 0]
             synth(l) == [l EXCEPT !.reg = NoFreq, !.row = 0, !.chippd = {}, !.ext = FALSE,
                                   !.fl = fl(l.fl)]
             lo == [p \in DOMAIN x.lo |-> synth(x.lo[p])]
             c == [b EXCEPT !.lo = lo]
  <1>1. ad9361_reset(x) = c
    BY DEF ad9361_reset, ResetRegisters
  <1>2. DOMAIN div = Factors /\ \A f \in Factors : div[f] \in 0..64
    OBVIOUS
  <1>3. idx \in [{1, 2} -> 0..GainMax]
    BY DEF GainMax
  <1>4. EnIn(en)
    BY DEF Ranged, EnIn, EnFields, EnsmStates
  <1> HIDE DEF fl
  <1>5. RowsIn(lo)
    <2>1. Len(VcoMHz) = 53
      BY DEF VcoMHz
    <2>2. 0 \in 0..Len(VcoMHz)
      BY <2>1
    <2> QED BY <2>2 DEF Ranged, RowsIn, SynthFields
  <1> HIDE DEF word, div, chip, times, mode, idx, att, en, port, tune, lo
  <1>6. Ranged(a1)
    <2> DEFINE k == [x.clk EXCEPT !.word = word]
    <2>1. DivsIn(k)
      BY DEF Ranged, DivsIn
    <2> HIDE DEF k
    <2>2. Ranged([x EXCEPT !.clk = k])
      BY <2>1, PartRanged
    <2> QED BY <2>2 DEF k
  <1> HIDE DEF a1
  <1>7. Ranged(a2)
    <2> DEFINE k == [a1.clk EXCEPT !.div = div]
    <2>1. DivsIn(k)
      BY <1>2, <1>6 DEF Ranged, DivsIn
    <2> HIDE DEF k
    <2>2. Ranged([a1 EXCEPT !.clk = k])
      BY <1>6, <2>1, PartRanged
    <2> QED BY <2>2 DEF k
  <1> HIDE DEF a2
  <1>8. Ranged(a3)
    BY <1>7 DEF Ranged, Fields
  <1> HIDE DEF a3
  <1>9. Ranged(a4)
    BY <1>8, GainFieldRanged
  <1> HIDE DEF a4
  <1>10. Ranged(a5)
    BY <1>9, GainFieldRanged
  <1> HIDE DEF a5
  <1>11. Ranged(a6)
    BY <1>10, GainFieldRanged
  <1> HIDE DEF a6
  <1>12. Ranged(a7)
    BY <1>11, GainFieldRanged
  <1> HIDE DEF a7
  <1>13. Ranged(a)
    <2> DEFINE g == [a7.gain EXCEPT !.idx = idx]
    <2>1. GainsIn(g)
      BY <1>3, <1>12 DEF Ranged, GainsIn
    <2> HIDE DEF g
    <2>2. Ranged([a7 EXCEPT !.gain = g])
      BY <1>12, <2>1, PartRanged
    <2> QED BY <2>2 DEF g
  <1> HIDE DEF a
  <1>14. Ranged(b1)
    BY <1>13 DEF Ranged, Fields
  <1> HIDE DEF b1
  <1>15. Ranged(b2)
    BY <1>4, <1>14, PartRanged
  <1> HIDE DEF b2
  <1>16. Ranged(b3)
    <2> DEFINE trk == [b2.trk EXCEPT !.chip = {}]
    <2>1. TrkIn(trk)
      BY <1>15 DEF Ranged, TrkIn
    <2> HIDE DEF trk
    <2>2. Ranged([b2 EXCEPT !.trk = trk])
      BY <1>15, <2>1, PartRanged
    <2> QED BY <2>2 DEF trk
  <1> HIDE DEF b3
  <1>17. Ranged(b)
    BY <1>16 DEF Ranged, Fields
  <1> HIDE DEF b
  <1>18. Ranged(c)
    BY <1>5, <1>17, PartRanged
  <1> QED BY <1>1, <1>18

LEMMA ClearRanged ==
  ASSUME NEW x, Ranged(x)
  PROVE  Ranged(clear_state(x))
  <1> DEFINE fir == [x.fir EXCEPT !.rxby = TRUE, !.txby = TRUE, !.rxdec = 0, !.txint = 0,
                                  !.taps = [rx |-> 0, tx |-> 0]]
             en == [x.en EXCEPT !.prev = "WAIT", !.curr = "WAIT", !.pinctl = FALSE]
             fl(f) == [f EXCEPT !.profile = 0, !.entry = NoFastlock.entry]
             synth(l) == [l EXCEPT !.cur = 0, !.tdd = FALSE, !.pd = {}, !.fl = fl(l.fl)]
             bw == [rx |-> 0, tx |-> 0]
             a == [x EXCEPT !.gain.table = NoTable]
             b == [a EXCEPT !.pd.gov = 1, !.autocal = FALSE, !.fir = fir]
             c == [b EXCEPT !.trk.want = Trackings]
             d == [c EXCEPT !.bw = bw, !.bbfdiv = 0]
             e == [d EXCEPT !.en = en]
             f == [e EXCEPT !.qc.freq = 0]
             lo == [p \in DOMAIN x.lo |-> synth(x.lo[p])]
             g == [f EXCEPT !.lo = lo]
  <1>1. clear_state(x) = g
    BY DEF clear_state
  <1>2. EnIn(en)
    BY DEF Ranged, EnIn, EnFields, EnsmStates, EnsmModes
  <1> HIDE DEF fl
  <1>3. RowsIn(lo)
    BY DEF Ranged, RowsIn, SynthFields
  <1> HIDE DEF fir, en, bw, lo
  <1>4. Ranged(a)
    <2> DEFINE k == [x.gain EXCEPT !.table = NoTable]
    <2>1. GainsIn(k)
      BY DEF Ranged, GainsIn
    <2> HIDE DEF k
    <2>2. Ranged([x EXCEPT !.gain = k])
      BY <2>1, PartRanged
    <2> QED BY <2>2 DEF k
  <1> HIDE DEF a
  <1>5. Ranged(b)
    BY <1>4 DEF Ranged, Fields
  <1> HIDE DEF b
  <1>6. Ranged(c)
    <2> DEFINE trk == [b.trk EXCEPT !.want = Trackings]
    <2>1. TrkIn(trk)
      BY <1>5 DEF Ranged, TrkIn
    <2> HIDE DEF trk
    <2>2. Ranged([b EXCEPT !.trk = trk])
      BY <1>5, <2>1, PartRanged
    <2> QED BY <2>2 DEF trk
  <1> HIDE DEF c
  <1>7. Ranged(d)
    BY <1>6 DEF Ranged, Fields
  <1> HIDE DEF d
  <1>8. Ranged(e)
    BY <1>2, <1>7, PartRanged
  <1> HIDE DEF e
  <1>9. Ranged(f)
    BY <1>8 DEF Ranged, Fields
  <1> HIDE DEF f
  <1>10. Ranged(g)
    BY <1>3, <1>9, PartRanged
  <1> QED BY <1>1, <1>10

LEMMA RegisterRanged ==
  ASSUME NEW x, Ranged(x)
  PROVE  Ranged(register_clocks(x))
  <1> DEFINE lo == [p \in DOMAIN x.lo |-> [x.lo[p] EXCEPT !.dummy = x.pd.synth[p]]]
  <1>1. register_clocks(x) = recalc_all([x EXCEPT !.lo = lo])
    BY DEF register_clocks
  <1>2. RowsIn(lo)
    BY DEF Ranged, RowsIn, SynthFields
  <1> HIDE DEF lo
  <1>3. Ranged([x EXCEPT !.lo = lo])
    BY <1>2, PartRanged
  <1> QED BY <1>1, <1>3, RecalcRanged

LEMMA ClocksUpRanged ==
  ASSUME NEW x, Ranged(x)
  PROVE  Ranged(SetupClocks(x))
  <1> DEFINE bw == [rx |-> validate_rf_bw(x, x.pd.bw.rx), tx |-> validate_rf_bw(x, x.pd.bw.tx)]
             pd == [x.pd EXCEPT !.bw = [rx |-> validate_rf_bw(x, @.rx), tx |-> validate_rf_bw(x, @.tx)],
                                !.skipcal = @ /\ ~x.pd.fdd,
                                !.pinctrl = @ /\ ~(x.pd.fdd /\ x.pd.indep)]
             ref == ref_div_sel(x.pd.ref, Mega(70))
             dcxo == pd.dcxo
             t == [x EXCEPT !.pd = pd, !.dcxo = dcxo]
             u == [t EXCEPT !.en.clocks = TRUE]
             a == [u EXCEPT !.clk.ref = ref]
             w == [a EXCEPT !.clk.ref = x.clk.ref]
             b == [w EXCEPT !.en.clocks = x.en.clocks]
             c == set_trx_clock_chain(a, pd.clks.rx, pd.clks.tx)
  <1>1. SetupClocks(x) \in {Return(b, EINVAL), c}
    BY DEF SetupClocks
  <1> HIDE DEF ref, dcxo, pd
  <1>2. ASSUME NEW y, Ranged(y), NEW v PROVE Ranged([y EXCEPT !.clk.ref = v])
    <2> DEFINE k == [y.clk EXCEPT !.ref = v]
    <2>1. DivsIn(k)
      BY <1>2 DEF Ranged, DivsIn
    <2> HIDE DEF k
    <2>2. Ranged([y EXCEPT !.clk = k])
      BY <1>2, <2>1, PartRanged
    <2> QED BY <2>2 DEF k
  <1>3. Ranged(t)
    BY DEF Ranged, Fields
  <1> HIDE DEF t
  <1>4. Ranged(u)
    BY <1>3, EnRanged
  <1> HIDE DEF u
  <1>5. Ranged(a)
    BY <1>2, <1>4
  <1> HIDE DEF a
  <1>6. Ranged(w)
    BY <1>2, <1>5
  <1> HIDE DEF w
  <1>7. Ranged(b)
    BY <1>6, EnRanged
  <1> HIDE DEF b
  <1>8. Ranged(c)
    BY <1>5, ChainRanged
  <1> HIDE DEF c
  <1> QED BY <1>1, <1>7, <1>8, ReturnRanged

LEMMA ChannelsUpRanged ==
  ASSUME NEW x, Ranged(x)
  PROVE  Ranged(SetupChannels(x))
  <1> DEFINE rx == IF x.pd.rx2tx2 THEN {1, 2} ELSE {Clamp(x.pd.rxnum, 1, 2)}
             tx == IF x.pd.rx2tx2 THEN {1, 2} ELSE {Clamp(x.pd.txnum, 1, 2)}
             a == [x EXCEPT !.gain.rxen = en_dis(@, {1, 2}, rx), !.gain.txen = en_dis(@, {1, 2}, tx)]
             b == [a EXCEPT !.pd.rxnum = Clamp(@, 1, 2), !.pd.txnum = Clamp(@, 1, 2)]
             k == IF x.pd.rx2tx2 THEN a ELSE b
             c == rf_port_setup(k, TRUE, x.port.rx, x.port.tx)
             d == auxadc_setup(c)
  <1>1. SetupChannels(x) \in {c, d}
    BY DEF SetupChannels, Then
  <1> HIDE DEF rx, tx
  <1>2. Ranged(a)
    BY DEF Ranged, Fields, GainsIn
  <1> HIDE DEF a
  <1>3. Ranged(b)
    BY <1>2 DEF Ranged, Fields
  <1> HIDE DEF b
  <1>4. Ranged(c)
    BY <1>2, <1>3, PortRanged
  <1> HIDE DEF c
  <1> QED BY <1>1, <1>4, TimesRanged

LEMMA PumpRanged ==
  ASSUME NEW x, Ranged(x), NEW p
  PROVE  Ranged(txrx_synth_cp_calib(x, p))
  <1> DEFINE rx == "rx"
             tx == "tx"
             cfg == {"DUAL"}
             i == [x EXCEPT !.en.cfg2 = cfg]
             j == [i EXCEPT !.lo[rx].fl.ready = FALSE]
             m == [j EXCEPT !.lo[tx].fl.ready = FALSE]
             c == Config1(m, "ALERT", FALSE)
             d == [c EXCEPT !.en.fdd = TRUE]
  <1>0. rx \in Sides /\ tx \in Sides
    BY DEF Sides
  <1>1. txrx_synth_cp_calib(x, p) = check_cal_done(d, "cp_" \o p)
    BY DEF txrx_synth_cp_calib
  <1>2. cfg \in SUBSET Config2
    BY DEF Config2
  <1> HIDE DEF rx, tx, cfg
  <1>3. Ranged(i)
    BY <1>2, EnRanged
  <1> HIDE DEF i
  <1>4. Ranged(j)
    BY <1>0, <1>3, LoFieldRanged
  <1> HIDE DEF j
  <1>5. Ranged(m)
    BY <1>0, <1>4, LoFieldRanged
  <1> HIDE DEF m
  <1>6. Ranged(c)
    BY <1>5, Config1Ranged
  <1> HIDE DEF c
  <1>7. Ranged(d)
    BY <1>6, EnRanged
  <1> HIDE DEF d
  <1> QED BY <1>1, <1>7, CalDoneRanged

LEMMA SynthsUpRanged ==
  ASSUME NEW x, Ranged(x)
  PROVE  Ranged(SetupSynths(x))
  <1> DEFINE rx == "rx"
             tx == "tx"
             a == txrx_synth_cp_calib(x, rx)
             b == txrx_synth_cp_calib(a, tx)
             cp == IF a.rc < 0 THEN a ELSE b
             i == [cp EXCEPT !.pd.ext = [rx |-> FALSE, tx |-> FALSE]]
             j == [i EXCEPT !.qc.freq = i.pd.synth.tx]
             k == set_lo(j, rx, j.pd.synth[rx])
             l == set_lo(k, tx, k.pd.synth[tx])
             m == [l EXCEPT !.pd.ext = x.pd.ext]
             n == clk_mux_set_parent(m, rx, x.pd.ext[rx])
             o == clk_mux_set_parent(n, tx, x.pd.ext[tx])
             q == Ok(o)
  <1>0. rx \in Sides /\ tx \in Sides
    BY DEF Sides
  <1>1. SetupSynths(x) = IF cp.rc < 0 THEN cp ELSE q
    BY DEF SetupSynths, Then
  <1> HIDE DEF rx, tx
  <1>2. Ranged(a)
    BY PumpRanged
  <1> HIDE DEF a
  <1>3. Ranged(b)
    BY <1>2, PumpRanged
  <1> HIDE DEF b
  <1>4. Ranged(cp)
    BY <1>2, <1>3
  <1> HIDE DEF cp
  <1>5. Ranged(i)
    BY <1>4 DEF Ranged, Fields
  <1> HIDE DEF i
  <1>6. Ranged(j)
    BY <1>5 DEF Ranged, Fields
  <1> HIDE DEF j
  <1>7. Ranged(k)
    BY <1>0, <1>6, SetLoRanged
  <1> HIDE DEF k
  <1>8. Ranged(l)
    BY <1>0, <1>7, SetLoRanged
  <1> HIDE DEF l
  <1>9. Ranged(m)
    BY <1>8 DEF Ranged, Fields
  <1> HIDE DEF m
  <1>10. Ranged(n)
    BY <1>0, <1>9, MuxRanged
  <1> HIDE DEF n
  <1>11. Ranged(o)
    BY <1>0, <1>10, MuxRanged
  <1> HIDE DEF o
  <1> QED BY <1>1, <1>4, <1>11, ReturnRanged

LEMMA CalibrationsUpRanged ==
  ASSUME NEW x, Ranged(x)
  PROVE  Ranged(SetupCalibrations(x))
  <1> DEFINE half == [rx |-> x.pd.bw.rx \div 2, tx |-> x.pd.bw.tx \div 2]
             g == gc_setup(x)
             f == update_filters(g, x.pd.bw.rx, x.pd.bw.tx)
             h == bb_dc_offset_calib(f)
             b == IF f.rc < 0 THEN f ELSE h
             r == rf_dc_offset_calib(b, rfpll_recalc_rate(b, "rx"))
             d == IF b.rc < 0 THEN b ELSE r
             n == [d EXCEPT !.bw = d.pd.bw, !.qc.phase = 32]
             q == tx_quad_calib(n, half.rx, half.tx, -1)
             e == IF d.rc < 0 THEN d ELSE q
             t == tracking_control(e, e.trk.want)
             last == IF e.rc < 0 THEN e ELSE t
  <1>1. SetupCalibrations(x) = last
    BY DEF SetupCalibrations, Then
  <1> HIDE DEF half
  <1>2. Ranged(g)
    BY GcSetupRanged
  <1> HIDE DEF g
  <1>3. Ranged(f)
    BY <1>2, FiltersRanged
  <1> HIDE DEF f
  <1>4. Ranged(h)
    BY <1>3, CalDoneRanged DEF bb_dc_offset_calib
  <1> HIDE DEF h
  <1>5. Ranged(b)
    BY <1>3, <1>4
  <1> HIDE DEF b
  <1>6. Ranged(r)
    <2>1. {} \in SUBSET Trackings
      OBVIOUS
    <2> QED BY <1>5, <2>1, TrackRanged
  <1> HIDE DEF r
  <1>7. Ranged(d)
    BY <1>5, <1>6
  <1> HIDE DEF d
  <1>8. Ranged(n)
    BY <1>7 DEF Ranged, Fields
  <1> HIDE DEF n
  <1>9. Ranged(q)
    BY <1>8, TxQuadRanged
  <1> HIDE DEF q
  <1>10. Ranged(e)
    BY <1>7, <1>9
  <1> HIDE DEF e
  <1>11. Ranged(t)
    <2>1. e.trk.want \in SUBSET Trackings
      BY <1>10 DEF Ranged, TrkIn
    <2> QED BY <1>10, <2>1, TrackRanged
  <1> HIDE DEF t
  <1> QED BY <1>1, <1>10, <1>11

LEMMA EnsmUpRanged ==
  ASSUME NEW x, Ranged(x)
  PROVE  Ranged(SetupEnsm(x))
  <1> DEFINE on == IF x.pd.rx2tx2 THEN {1, 2} ELSE {x.pd.txnum}
             off == {1, 2} \ on
             a == set_ensm_mode(x, x.pd.fdd, x.pd.pinctrl)
             b == set_tx_atten(a, x.pd.atten, on)
             u == set_tx_atten(b, MaxAtten, off)
             c == IF b.rc < 0 THEN b ELSE u
             v == rssi_setup(c)
             d == IF c.rc < 0 THEN c ELSE v
             e == [d EXCEPT !.en.curr = d.en.dev]
             st == IF d.pd.fdd THEN "FDD" ELSE "RX"
             f == ensm_set_state(e, st, d.pd.pinctrl)
             g == [f EXCEPT !.autocal = TRUE]
             h == Ok(g)
  <1>1. SetupEnsm(x) = IF d.rc < 0 THEN d ELSE h
    BY DEF SetupEnsm, Then
  <1>2. st \in EnsmModes
    BY DEF EnsmModes
  <1> HIDE DEF on, off, st
  <1>3. Ranged(a)
    BY ModeRanged
  <1> HIDE DEF a
  <1>4. Ranged(b)
    BY <1>3, AttenRanged
  <1> HIDE DEF b
  <1>5. Ranged(u)
    BY <1>4, AttenRanged
  <1> HIDE DEF u
  <1>6. Ranged(c)
    BY <1>4, <1>5
  <1> HIDE DEF c
  <1>7. Ranged(v)
    BY <1>6, TimesRanged
  <1> HIDE DEF v
  <1>8. Ranged(d)
    BY <1>6, <1>7
  <1> HIDE DEF d
  <1>9. Ranged(e)
    <2>1. d.en.dev \in EnsmModes
      BY <1>8 DEF Ranged, EnIn, EnsmStates, EnsmModes
    <2> QED BY <1>8, <2>1, EnRanged
  <1> HIDE DEF e
  <1>10. Ranged(f)
    BY <1>2, <1>9, SetStateRanged
  <1> HIDE DEF f
  <1>11. Ranged(g)
    BY <1>10, BypassRanged
  <1> HIDE DEF g
  <1> QED BY <1>1, <1>8, <1>11, ReturnRanged

LEMMA SetupRanged ==
  ASSUME NEW x, Ranged(x)
  PROVE  Ranged(ad9361_setup(x))
  <1> DEFINE a == SetupClocks(x)
             b == Then(a, SetupChannels)
             c == Then(b, SetupSynths)
             d == Then(c, SetupCalibrations)
             e == Then(d, SetupEnsm)
  <1>1. ad9361_setup(x) = e
    BY DEF ad9361_setup
  <1> HIDE DEF e
  <1>2. e = IF d.rc < 0 THEN d ELSE SetupEnsm(d)
    BY DEF Then, e
  <1> HIDE DEF d
  <1>3. d = IF c.rc < 0 THEN c ELSE SetupCalibrations(c)
    BY DEF Then, d
  <1> HIDE DEF c
  <1>4. c = IF b.rc < 0 THEN b ELSE SetupSynths(b)
    BY DEF Then, c
  <1> HIDE DEF b
  <1>5. b = IF a.rc < 0 THEN a ELSE SetupChannels(a)
    BY DEF Then, b
  <1>6. Ranged(a)
    BY ClocksUpRanged
  <1> HIDE DEF a
  <1>7. Ranged(b)
    BY <1>5, <1>6, ChannelsUpRanged
  <1>8. Ranged(c)
    BY <1>4, <1>7, SynthsUpRanged
  <1>9. Ranged(d)
    BY <1>3, <1>8, CalibrationsUpRanged
  <1> QED BY <1>1, <1>2, <1>9, EnsmUpRanged

LEMMA InitRanged ==
  ASSUME NEW x, Ranged(x), NEW n
  PROVE  Ranged(ad9361_init(x)) /\ Ranged(set_no_ch_mode(x, n))
  <1> DEFINE v == n = 2
             a == [x EXCEPT !.pd.rx2tx2 = v]
             b == ad9361_reset(a)
             c == clear_state(b)
             d == recalc_all(c)
             e == ad9361_setup(Ok(d))
             t == ad9361_reset(x)
             u == register_clocks(t)
             w == ad9361_setup(u)
  <1>1. set_no_ch_mode(x, n) = Ok(e) /\ ad9361_init(x) \in {Return(w, ENODEV), Ok(w)}
    BY DEF set_no_ch_mode, ad9361_init
  <1>2. Ranged(w)
    <2>1. Ranged(t)
      BY ResetRanged
    <2> HIDE DEF t
    <2>2. Ranged(u)
      BY <2>1, RegisterRanged
    <2> HIDE DEF u
    <2> QED BY <2>2, SetupRanged
  <1> HIDE DEF w, v
  <1>3. Ranged(a)
    BY DEF Ranged, Fields
  <1> HIDE DEF a
  <1>4. Ranged(b)
    BY <1>3, ResetRanged
  <1> HIDE DEF b
  <1>5. Ranged(c)
    BY <1>4, ClearRanged
  <1> HIDE DEF c
  <1>6. Ranged(d)
    BY <1>5, RecalcRanged
  <1> HIDE DEF d
  <1>7. Ranged(e)
    BY <1>6, ReturnRanged, SetupRanged
  <1> HIDE DEF e
  <1> QED BY <1>1, <1>2, <1>7, ReturnRanged

-----------------------------------------------------------------------------
(* The calls.                                                                 *)
LEMMA SamplingRanged ==
  ASSUME NEW x, Ranged(x), NEW rate
  PROVE  Ranged(set_sampling_freq(x, rate))
  <1> DEFINE plan == Plan(x, rate)
             c == set_trx_clock_chain(x, plan.rx, plan.tx)
  <1>1. set_sampling_freq(x, rate) \in {Return(x, plan.rc), update_rf_bandwidth(c, x.bw.rx, x.bw.tx)}
    BY DEF set_sampling_freq
  <1> HIDE DEF plan
  <1>2. Ranged(c)
    BY ChainRanged
  <1> HIDE DEF c
  <1> QED BY <1>1, <1>2, BandwidthRanged, ReturnRanged

LEMMA RfBandwidthRanged ==
  ASSUME NEW x, Ranged(x), NEW p, NEW w
  PROVE  Ranged(set_rf_bandwidth(x, p, w))
  <1> DEFINE b == [x.bw EXCEPT ![p] = validate_rf_bw(x, w)]
  <1>1. set_rf_bandwidth(x, p, w) \in {Ok(x), update_rf_bandwidth(x, b.rx, b.tx)}
    BY DEF set_rf_bandwidth
  <1> HIDE DEF b
  <1> QED BY <1>1, BandwidthRanged, ReturnRanged

LEMMA IntExtRanged ==
  ASSUME NEW x, Ranged(x), NEW p \in Sides, NEW ext
  PROVE  Ranged(set_lo_int_ext(x, p, ext))
  <1> DEFINE y == [x EXCEPT !.pd.ext[p] = ext]
  <1>1. set_lo_int_ext(x, p, ext) \in {Return(x, -1), clk_mux_set_parent(y, p, ext)}
    BY DEF set_lo_int_ext
  <1>2. Ranged(y)
    BY DEF Ranged, Fields
  <1> HIDE DEF y
  <1> QED BY <1>1, <1>2, MuxRanged, ReturnRanged

LEMMA TrackEnRanged ==
  ASSUME NEW x, Ranged(x), NEW which \in Trackings, NEW on
  PROVE  Ranged(set_track_en_dis(x, which, on))
  <1> DEFINE want == IF on THEN x.trk.want \cup {which} ELSE x.trk.want \ {which}
             trk == [x.trk EXCEPT !.want = want]
             y == [x EXCEPT !.trk = trk]
  <1>1. set_track_en_dis(x, which, on) \in {Ok(x), tracking_control(y, want)}
    BY DEF set_track_en_dis
  <1>2. want \in SUBSET Trackings
    BY DEF Ranged, TrkIn
  <1> HIDE DEF want
  <1>3. TrkIn(trk)
    BY <1>2 DEF Ranged, TrkIn
  <1> HIDE DEF trk
  <1>4. Ranged(y)
    BY <1>3, PartRanged
  <1> HIDE DEF y
  <1> QED BY <1>1, <1>2, <1>4, TrackRanged, ReturnRanged

LEMMA McsRanged ==
  ASSUME NEW x, Ranged(x), NEW mode
  PROVE  Ranged(do_mcs(x, mode))
  <1> DEFINE a == set_en_state_machine_mode(x, "ALERT")
             cfg == a.en.cfg2 \ SynthBits
             b == [a EXCEPT !.en.cfg2 = cfg]
             c == [b EXCEPT !.mcsrf = TRUE]
             d == set_en_state_machine_mode(c, mode)
  <1>1. mcs(a) = c
    BY DEF mcs
  <1>2. do_mcs(x, mode) \in {Return(x, -1), Ok(d)}
    BY <1>1 DEF do_mcs
  <1>3. Ranged(a)
    BY EnModeRanged
  <1>4. cfg \in SUBSET Config2
    BY <1>3 DEF Ranged, EnIn
  <1> HIDE DEF a, cfg
  <1>5. Ranged(b)
    BY <1>3, <1>4, EnRanged
  <1> HIDE DEF b
  <1>6. Ranged(c)
    BY <1>5, BypassRanged
  <1> HIDE DEF c
  <1>7. Ranged(d)
    BY <1>6, EnModeRanged
  <1> HIDE DEF d
  <1> QED BY <1>2, <1>7, ReturnRanged

LEMMA MainRanged ==
  ASSUME NEW x, Ranged(x), NEW step \in 1..15
  PROVE  Ranged(main(x, step))
  <1> DEFINE dir == IF step = 4 THEN "tx" ELSE "rx"
             ps == {dir}
             lop == IF step = 8 THEN "tx" ELSE "rx"
             lof == IF step = 8 THEN tx_lo_freq ELSE rx_lo_freq
             bwp == IF step = 10 THEN "tx" ELSE "rx"
             up == ad9361_init(x)
             txfir == set_tx_fir_config(x, tx_fir_config)
             rxfir == set_rx_fir_config(x, rx_fir_config)
             enable == set_fir_en_dis(x, ps, TRUE)
             rate == set_sampling_freq(x, sample_rate)
             lo == set_lo(x, lop, lof)
             bw == set_rf_bandwidth(x, bwp, bandwidth)
             rxgain == set_rx_rf_gain(x, step - 12, gain)
             atten == set_tx_attenuation(x, step - 14, txatt)
  <1>1. main(x, step) = CASE step = 1 -> up
                          [] step = 2 -> txfir
                          [] step = 3 -> rxfir
                          [] step \in {4, 5} -> enable
                          [] step \in {6, 7} -> rate
                          [] step \in {8, 9} -> lo
                          [] step \in {10, 11} -> bw
                          [] step \in {12, 13} -> rxgain
                          [] step \in {14, 15} -> atten
    BY DEF main
  <1>2. main(x, step) \in {up, txfir, rxfir, enable, rate, lo, bw, rxgain, atten}
    <2> HIDE DEF up, txfir, rxfir, enable, rate, lo, bw, rxgain, atten
    <2> QED BY <1>1
  <1>3. lop \in Sides
    BY DEF Sides
  <1> HIDE DEF ps, lop, lof, bwp
  <1>4. Ranged(up) /\ Ranged(txfir) /\ Ranged(rxfir) /\ Ranged(enable)
    BY InitRanged, CoefRanged, FirRanged
  <1>5. Ranged(rate) /\ Ranged(lo) /\ Ranged(bw)
    BY <1>3, SamplingRanged, SetLoRanged, RfBandwidthRanged
  <1>6. Ranged(rxgain) /\ Ranged(atten)
    BY GainRanged, MuteRanged
  <1> HIDE DEF up, txfir, rxfir, enable, rate, lo, bw, rxgain, atten
  <1> QED BY <1>2, <1>4, <1>5, <1>6

-----------------------------------------------------------------------------
(* The steps.                                                                 *)
Bounded == Ranged(s) /\ left \in 0..MaxCalls

\* A call that ends with t.
Lands(t) == (pc = 0 => left > 0) /\ \E name, arg, plain : Ends(name, arg, t, plain)

LEMMA StartRanged ==
  ASSUME Ranged(s), NEW o \in Outcomes, NEW a PROVE Ranged(Start(o, a))
  <1> DEFINE late == o.late
             quad == o.quad
             t == Ok(s)
             y == [t EXCEPT !.late = late, !.quad = quad, !.alc = a]
  <1>1. Start(o, a) = y
    BY DEF Start, During
  <1>2. quad.first \in QuadAnswers
    BY ParamsAssumption DEF Outcomes, Nominal, QuadAnswers
  <1>3. Ranged(t)
    BY ReturnRanged
  <1> HIDE DEF t, late, quad
  <1>4. Ranged(y)
    BY <1>2, <1>3 DEF Ranged, Fields
  <1> QED BY <1>1, <1>4

LEMMA LandsBounded ==
  ASSUME Bounded, NEW t, Ranged(t), Lands(t) PROVE Bounded'
  <1> DEFINE quad == Nominal.quad
             y == [t EXCEPT !.late = {}, !.quad = quad, !.alc = 0, !.rc = 0]
  <1>1. s' = y /\ left' \in {0, left - 1, left} /\ (left' = left - 1 => left > 0)
    <2>1. PICK name, arg, plain : Ends(name, arg, t, plain)
      BY DEF Lands
    <2>2. s' = Settled(t)
      BY <2>1 DEF Ends
    <2>3. Settled(t) = y
      BY DEF Settled, During, Nominal
    <2>4. left' = 0 \/ (pc = 0 /\ left' = left - 1) \/ left' = left
      BY <2>1 DEF Ends
    <2>5. left \in Int
      BY DEF Bounded
    <2> QED BY <2>2, <2>3, <2>4, <2>5 DEF Lands
  <1>2. quad.first \in QuadAnswers
    BY DEF Nominal, QuadAnswers
  <1> HIDE DEF quad
  <1>3. Ranged(y)
    BY <1>2 DEF Ranged, Fields
  <1> HIDE DEF y
  <1>4. left' \in 0..MaxCalls
    BY <1>1, ParamsAssumption DEF Bounded
  <1> QED BY <1>1, <1>3, <1>4 DEF Bounded

LEMMA SamplingBounded ==
  ASSUME Bounded, Sampling PROVE Bounded'
  <1>1. PICK rate \in Rates, o \in Outcomes, a \in Alcs : Lands(set_sampling_freq(Start(o, a), rate))
    BY DEF Sampling, API, Perform, Start, Outcomes, Lands
  <1> QED BY <1>1, StartRanged, SamplingRanged, LandsBounded DEF Bounded

LEMMA BandwidthBounded ==
  ASSUME Bounded, Bandwidth PROVE Bounded'
  <1>1. PICK p \in Sides, bw \in Bws, o \in Outcomes, a \in Alcs :
          Lands(set_rf_bandwidth(Start(o, a), p, bw))
    BY DEF Bandwidth, API, Perform, Start, Outcomes, Lands, Sides
  <1> QED BY <1>1, StartRanged, RfBandwidthRanged, LandsBounded DEF Bounded

LEMMA SetLoBounded ==
  ASSUME Bounded, SetLo PROVE Bounded'
  <1>1. PICK p \in Sides, f \in Los, o \in Outcomes, a \in Alcs : Lands(set_lo(Start(o, a), p, f))
    BY DEF SetLo, API, Perform, Start, Outcomes, Lands, Sides
  <1> QED BY <1>1, StartRanged, SetLoRanged, LandsBounded DEF Bounded

LEMMA IntExtBounded ==
  ASSUME Bounded, IntExt PROVE Bounded'
  <1>1. PICK p \in Sides, ext \in BOOLEAN, o \in Outcomes, a \in Alcs :
          Lands(set_lo_int_ext(Start(o, a), p, ext))
    BY DEF IntExt, API, Perform, Start, Outcomes, Lands, Sides
  <1> QED BY <1>1, StartRanged, IntExtRanged, LandsBounded DEF Bounded

LEMMA LoPowerBounded ==
  ASSUME Bounded, LoPower PROVE Bounded'
  <1>1. \E rx, tx : \E o \in Outcomes, a \in Alcs : Lands(synth_lo_powerdown(Start(o, a), rx, tx))
    <2>1. PICK off \in BOOLEAN : \E o \in Outcomes, a \in Alcs :
            LET option == IF off THEN "off" ELSE "on"
            IN \/ Lands(synth_lo_powerdown(Start(o, a), option, "dontcare"))
               \/ Lands(synth_lo_powerdown(Start(o, a), "dontcare", option))
      BY DEF LoPower, API, Perform, Start, Outcomes, Lands
    <2> QED BY <2>1
  <1> QED BY <1>1, StartRanged, PowerdownRanged, LandsBounded DEF Bounded

LEMMA FastlockingBounded ==
  ASSUME Bounded, Fastlocking PROVE Bounded'
  <1>1. PICK p \in Sides, k \in Profiles : \E o \in Outcomes, a \in Alcs :
          \/ Lands(fastlock_store(Start(o, a), p, k))
          \/ Lands(fastlock_recall(Start(o, a), p, k))
          \/ \E j \in Profiles :
               Lands(fastlock_load(Start(o, a), p, k, fastlock_save(Start(o, a), p, j)))
    BY DEF Fastlocking, API, Perform, Start, Outcomes, Lands, Sides
  <1> QED BY <1>1, StartRanged, FastlockRanged, LandsBounded DEF Bounded

LEMMA EnsmBounded ==
  ASSUME Bounded, Ensm PROVE Bounded'
  <1>1. PICK mode \in EnsmModes, o \in Outcomes, a \in Alcs :
          Lands(set_en_state_machine_mode(Start(o, a), mode))
    BY DEF Ensm, API, Perform, Start, Outcomes, Lands
  <1> QED BY <1>1, StartRanged, EnModeRanged, LandsBounded DEF Bounded

LEMMA TrackingBounded ==
  ASSUME Bounded, Tracking PROVE Bounded'
  <1>1. PICK which \in Trackings, on \in BOOLEAN, o \in Outcomes, a \in Alcs :
          Lands(set_track_en_dis(Start(o, a), which, on))
    BY DEF Tracking, API, Perform, Start, Outcomes, Lands
  <1> QED BY <1>1, StartRanged, TrackEnRanged, LandsBounded DEF Bounded

LEMMA CalibrateBounded ==
  ASSUME Bounded, Calibrate PROVE Bounded'
  <1>1. PICK cal \in {"TX_QUAD", "RFDC", "other"}, arg \in {-2, -1}, o \in Outcomes, a \in Alcs :
          Lands(do_calib_run(Start(o, a), cal, arg))
    BY DEF Calibrate, API, Perform, Start, Outcomes, Lands
  <1> QED BY <1>1, StartRanged, CalibRanged, LandsBounded DEF Bounded

LEMMA FirEnableBounded ==
  ASSUME Bounded, FirEnable PROVE Bounded'
  <1>1. PICK on \in BOOLEAN, o \in Outcomes, a \in Alcs :
          \/ Lands(set_fir_en_dis(Start(o, a), {"rx"}, on))
          \/ Lands(set_fir_en_dis(Start(o, a), {"tx"}, on))
          \/ Lands(set_fir_en_dis(Start(o, a), {"rx", "tx"}, on))
    BY DEF FirEnable, API, Perform, Start, Outcomes, Lands
  <1> QED BY <1>1, StartRanged, FirRanged, LandsBounded DEF Bounded

LEMMA FirConfigBounded ==
  ASSUME Bounded, FirConfig PROVE Bounded'
  <1>1. PICK cfg \in Fir, o \in Outcomes, a \in Alcs :
          \/ Lands(set_rx_fir_config(Start(o, a), cfg.rx))
          \/ Lands(set_tx_fir_config(Start(o, a), cfg.tx))
          \/ Lands(trx_load_enable_fir(Start(o, a), cfg.rx, cfg.tx))
    BY DEF FirConfig, API, Perform, Start, Outcomes, Lands
  <1> QED BY <1>1, StartRanged, CoefRanged, LoadEnableRanged, LandsBounded DEF Bounded

LEMMA PathClksBounded ==
  ASSUME Bounded, PathClks PROVE Bounded'
  <1>1. \E rx, tx : \E o \in Outcomes, a \in Alcs : Lands(set_trx_path_clks(Start(o, a), rx, tx))
    <2>1. PICK rate \in Rates : \E o \in Outcomes, a \in Alcs :
            LET plan == calculate_rf_clock_chain(rate, 0, 1, 1, FALSE)
            IN Lands(set_trx_path_clks(Start(o, a), plan.rx, plan.tx))
      BY DEF PathClks, API, Perform, Start, Outcomes, Lands
    <2> QED BY <2>1
  <1> QED BY <1>1, StartRanged, ThenBandwidthRanged, LandsBounded DEF Bounded

LEMMA GainModeBounded ==
  ASSUME Bounded, GainMode PROVE Bounded'
  <1>1. PICK ch \in {0, 1}, mode \in AgcModes, o \in Outcomes, a \in Alcs :
          Lands(set_rx_gain_control_mode(Start(o, a), ch, mode))
    BY DEF GainMode, API, Perform, Start, Outcomes, Lands
  <1> QED BY <1>1, StartRanged, GainModeRanged, LandsBounded DEF Bounded

LEMMA GainsBounded ==
  ASSUME Bounded, Gains PROVE Bounded'
  <1>1. \E ch, n : \E o \in Outcomes, a \in Alcs :
          \/ Lands(set_rx_rf_gain(Start(o, a), ch, n))
          \/ Lands(set_tx_attenuation(Start(o, a), ch, n))
    BY ZenonT(60) DEF Gains, API, Perform, Start, Outcomes, Lands
  <1> QED BY <1>1, StartRanged, GainRanged, MuteRanged, LandsBounded DEF Bounded

LEMMA MuteBounded ==
  ASSUME Bounded, Mute PROVE Bounded'
  <1>1. PICK on \in BOOLEAN, o \in Outcomes, a \in Alcs : Lands(tx_mute(Start(o, a), on))
    BY DEF Mute, API, Perform, Start, Outcomes, Lands
  <1> QED BY <1>1, StartRanged, MuteRanged, LandsBounded DEF Bounded

LEMMA PortsBounded ==
  ASSUME Bounded, Ports PROVE Bounded'
  <1>1. \E m : \E o \in Outcomes, a \in Alcs :
          \/ Lands(set_rx_rf_port_input(Start(o, a), m))
          \/ Lands(set_tx_rf_port_output(Start(o, a), m))
    BY DEF Ports, API, Perform, Start, Outcomes, Lands
  <1> QED BY <1>1, StartRanged, PortRanged, LandsBounded DEF Bounded

LEMMA NoChModeBounded ==
  ASSUME Bounded, NoChMode PROVE Bounded'
  <1>1. PICK n \in {1, 2}, o \in Outcomes, a \in Alcs : Lands(set_no_ch_mode(Start(o, a), n))
    BY DEF NoChMode, API, Perform, Start, Outcomes, Lands
  <1> QED BY <1>1, StartRanged, InitRanged, LandsBounded DEF Bounded

LEMMA McsBounded ==
  ASSUME Bounded, Mcs PROVE Bounded'
  <1>1. \E mode : \E o \in Outcomes, a \in Alcs : Lands(do_mcs(Start(o, a), mode))
    BY DEF Mcs, API, Perform, Start, Outcomes, Lands
  <1> QED BY <1>1, StartRanged, McsRanged, LandsBounded DEF Bounded

LEMMA GainStepBounded ==
  ASSUME Bounded, GainStepCalib PROVE Bounded'
  <1>1. PICK o \in Outcomes, a \in Alcs :
          Lands(Ok(ensm_restore_prev_state(ensm_force_state(Start(o, a), "ALERT"))))
    BY DEF GainStepCalib, API, Perform, Start, Outcomes, Lands
  <1> QED BY <1>1, StartRanged, ForceRanged, RestoreRanged, ReturnRanged, LandsBounded DEF Bounded

\* The calls that write one field.
LEMMA FieldBounded ==
  ASSUME Bounded, AutoCal \/ RateGov \/ Dcxo PROVE Bounded'
  <1>1. \E v : \E o \in Outcomes, a \in Alcs :
          \/ Lands(Ok([Start(o, a) EXCEPT !.autocal = v]))
          \/ Lands(Ok([Start(o, a) EXCEPT !.pd.gov = v]))
          \/ Lands(Ok([Start(o, a) EXCEPT !.dcxo[1] = v]))
    BY DEF AutoCal, RateGov, Dcxo, API, Perform, Start, Outcomes, Lands
  <1>2. ASSUME NEW x, Ranged(x), NEW v
        PROVE  /\ Ranged([x EXCEPT !.autocal = v]) /\ Ranged([x EXCEPT !.pd.gov = v])
               /\ Ranged([x EXCEPT !.dcxo[1] = v])
    BY <1>2 DEF Ranged, Fields
  <1> QED BY <1>1, <1>2, StartRanged, ReturnRanged, LandsBounded DEF Bounded

LEMMA MainBounded ==
  ASSUME Bounded, pc \in 0..15, MainStep PROVE Bounded'
  <1>1. pc \in 1..15
    BY DEF MainStep, MainEnd
  <1>2. PICK o \in Outcomes, a \in Alcs : Lands(main(Start(o, a), pc))
    BY <1>1, SMTT(30) DEF MainStep, Perform, Start, Outcomes, Lands
  <1> QED BY <1>1, <1>2, StartRanged, MainRanged, LandsBounded DEF Bounded

LEMMA PinsBounded ==
  ASSUME Bounded, PinsMove PROVE Bounded'
  <1>1. PICK d \in {"ALERT", "FDD", "TX", "RX"} : s' = [s EXCEPT !.en = [@ EXCEPT !.dev = d]]
    BY DEF PinsMove
  <1> DEFINE en == [s.en EXCEPT !.dev = d]
  <1>2. EnIn(en)
    BY DEF Bounded, Ranged, EnIn, EnFields, EnsmStates
  <1> HIDE DEF en
  <1>3. Ranged([s EXCEPT !.en = en])
    BY <1>2, PartRanged DEF Bounded
  <1>4. Ranged(s')
    BY <1>1, <1>3 DEF en
  <1> QED BY <1>4 DEF PinsMove, Bounded

LEMMA InitBounded == Init => Bounded
  <1> SUFFICES ASSUME NEW pd \in Params, s = ZeroPhy(pd), left = MaxCalls PROVE Bounded
    BY DEF Init
  <1>1. DOMAIN s = Fields /\ s.quad.first \in QuadAnswers
    BY DEF ZeroPhy, Fields, QuadAnswers
  <1>2. RowsIn(s.lo)
    <2>1. Len(VcoMHz) = 53
      BY DEF VcoMHz
    <2>2. 0 \in 0..Len(VcoMHz)
      BY <2>1
    <2> QED BY <2>2 DEF ZeroPhy, RowsIn, Sides, SynthFields
  <1>3. DivsIn(s.clk)
    BY DEF ZeroPhy, DivsIn
  <1>4. GainsIn(s.gain)
    BY DEF ZeroPhy, GainsIn, GainMax
  <1>5. EnIn(s.en) /\ TrkIn(s.trk)
    BY DEF ZeroPhy, EnIn, EnFields, EnsmStates, EnsmModes, TrkIn
  <1>6. left \in 0..MaxCalls
    BY ParamsAssumption
  <1> QED BY <1>1, <1>2, <1>3, <1>4, <1>5, <1>6 DEF Bounded, Ranged

LEMMA NextBounded == IInv /\ Bounded /\ [Next]_vars => Bounded'
  <1> SUFFICES ASSUME IInv, Bounded, [Next]_vars PROVE Bounded'
    OBVIOUS
  <1>1. CASE Next
    BY <1>1, SamplingBounded, BandwidthBounded, SetLoBounded, IntExtBounded, LoPowerBounded,
       FastlockingBounded, EnsmBounded, TrackingBounded, CalibrateBounded, FirEnableBounded,
       FirConfigBounded, PathClksBounded, GainModeBounded, GainsBounded, MuteBounded,
       PortsBounded, NoChModeBounded, McsBounded, GainStepBounded, FieldBounded, MainBounded,
       PinsBounded DEF Next, IInv
  <1>2. CASE UNCHANGED vars
    BY <1>2 DEF vars, Bounded
  <1> QED BY <1>1, <1>2

\* Whatever was called with whatever arguments and outcomes: the state machine is in a
\* state the driver knows and only bits of its registers are written, no divider leaves
\* its range, every synthesizer is at a row its table has, and a gain index that a change
\* of the band makes new is one of the table's (find_table_index, ad9361_load_gt,
\* ad9361_rfpll_vco_init, ad9361_clk_factor_set_rate).
THEOREM AlwaysTyped == Spec => []TypeOK
  <1>1. IInv /\ Bounded => TypeOK
    <2> SUFFICES ASSUME IInv, Bounded PROVE TypeOK
      OBVIOUS
    <2>1. \A p \in Sides : s.lo[p].reg.vdiv \in 0..7
      <3> SUFFICES ASSUME NEW p \in Sides PROVE s.lo[p].reg.vdiv \in 0..7
        OBVIOUS
      <3> DEFINE w == s.lo[p].reg
      <3>1. w \in LoWords
        BY DEF IInv, Sound, SynthsOk, SynthOk
      <3> HIDE DEF w
      <3>2. w.vdiv \in 0..7
        BY <3>1 DEF LoWords, RfpllWord
      <3> QED BY <3>2 DEF w
    <2>2. EnIn(s.en) /\ TrkIn(s.trk) /\ DivsIn(s.clk) /\ GainsIn(s.gain) /\ RowsIn(s.lo)
      BY DEF Bounded, Ranged
    <2>3. phy \in BOOLEAN /\ pc \in 0..15 /\ left \in 0..MaxCalls
      BY DEF IInv, Sound, Bounded
    <2> QED BY <2>1, <2>2, <2>3
            DEF TypeOK, EnIn, TrkIn, DivsIn, GainsIn, RowsIn, Config2, Sides
  <1> QED BY <1>1, InitIInv, InitBounded, NextIInv, NextBounded, PTL DEF Spec
=============================================================================
