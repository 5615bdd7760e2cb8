-------------------------- MODULE Ad9361Clk_proofs --------------------------
(* Proofs about what hangs on the clocks of the driver: after any calls in    *)
(* any order, whatever fails, the filters, the ADC and the times are set up   *)
(* for the clocks there are.                                                  *)
(*                                                                            *)
(* From the inside out: the tree (Hung, Linked) and what a setting of one     *)
(* clock does to it, the chain and what follows a change of the clocks        *)
(* (TimesIn, TuneIn), then what a step may do: leave it all alone (Aside),    *)
(* pace it (Paced), keep it in step (InStep); the setup (Raises), the calls   *)
(* one by one, the invariant (Timed).                                         *)
EXTENDS Ad9361_proofs

Leaves == {"RX_SAMPL", "TX_SAMPL"}
Stems == Factors \ Leaves
Clocks == Factors \cup {"BBPLL"}

\* The fields the clocks and what is set up for them are kept in.
Form(x) == /\ DOMAIN x = Fields
           /\ DOMAIN x.lo = Sides /\ \A p \in Sides : DOMAIN x.lo[p] = SynthFields
           /\ DOMAIN x.pd = DOMAIN default_init_param
           /\ DOMAIN x.clk = {"ref", "word", "div", "rate", "init"}
           /\ DOMAIN x.clk.div = Factors /\ DOMAIN x.clk.rate = Clocks
           /\ DOMAIN x.tune = {"rx", "tx", "tia", "second", "adc"}
           /\ DOMAIN x.times = {"gc", "rssi", "auxadc"}
           /\ DOMAIN x.bw = Sides
           /\ x.quad.first \in QuadAnswers

\* The clocks below the BBPLL that have clocks below them are remembered as their
\* parents and their dividers give them, and the BBPLL as its word gives it.
Hung(x) == \A c \in Stems : x.clk.rate[c] = clk_get_rate(x, c)
Linked(x) == Hung(x) /\ x.clk.rate["BBPLL"] = clk_get_rate(x, "BBPLL")

-----------------------------------------------------------------------------
(* What a step of a call leaves alone.                                        *)
Powers(x) == \A p \in Sides : x.lo[p].chippd = x.lo[p].pd
Running(x) == x.clk.init /\ Linked(x)

\* From x to y no more than the clocks has changed of what hangs on them; and not even
\* those.
Reclocked(x, y) == /\ Form(y) /\ y.late = x.late /\ y.fir = x.fir
                   /\ y.tune = x.tune /\ y.times = x.times /\ y.bw = x.bw
                   /\ y.pd.ref = x.pd.ref /\ y.pd.bw = x.pd.bw /\ y.pd.clks = x.pd.clks
                   /\ \A p \in Sides : y.lo[p].pd = x.lo[p].pd /\ y.lo[p].chippd = x.lo[p].chippd
Apart(x, y) == Reclocked(x, y) /\ y.clk = x.clk

-----------------------------------------------------------------------------
(* The tree.                                                                  *)
LEMMA ParentIs ==
  /\ Factors = {"ADC", "R2", "R1", "CLKRF", "RX_SAMPL", "DAC", "T2", "T1", "CLKTF", "TX_SAMPL"}
  /\ Parent.ADC = "BBPLL" /\ Parent.R2 = "ADC" /\ Parent.R1 = "R2" /\ Parent.CLKRF = "R1"
  /\ Parent.RX_SAMPL = "CLKRF" /\ Parent.DAC = "ADC" /\ Parent.T2 = "DAC" /\ Parent.T1 = "T2"
  /\ Parent.CLKTF = "T1" /\ Parent.TX_SAMPL = "CLKTF"
  BY DEF Factors, Parent

LEMMA ParentStem ==
  /\ Stems = {"ADC", "R2", "R1", "CLKRF", "DAC", "T2", "T1", "CLKTF"}
  /\ \A c \in Factors : Parent[c] \in Stems \cup {"BBPLL"} /\ Parent[c] \in Clocks /\ c # "BBPLL"
  BY ParentIs DEF Stems, Leaves, Clocks

\* The rates of a tree are one function: the one that follows parent by parent.
Follows(rate, x) ==
  rate = [c \in Clocks |-> IF c = "BBPLL" THEN BbpllRate(x.clk.word, x.clk.ref)
                           ELSE rate[Parent[c]] \div Ratio(x.clk.div[c])]

LEMMA TreeFollows == ASSUME NEW x PROVE Follows(TreeRates(x), x)
  <1> DEFINE at(c, parent) == parent \div Ratio(x.clk.div[c])
             bb == BbpllRate(x.clk.word, x.clk.ref)
             adc == at("ADC", bb)
             r2 == at("R2", adc)
             r1 == at("R1", r2)
             rf == at("CLKRF", r1)
             dac == at("DAC", adc)
             t2 == at("T2", dac)
             t1 == at("T1", t2)
             tf == at("CLKTF", t1)
             v(c) == CASE c = "BBPLL" -> bb [] c = "ADC" -> adc [] c = "R2" -> r2 [] c = "R1" -> r1
                       [] c = "CLKRF" -> rf [] c = "DAC" -> dac [] c = "T2" -> t2 [] c = "T1" -> t1
                       [] c = "CLKTF" -> tf [] c = "RX_SAMPL" -> at("RX_SAMPL", rf)
                       [] c = "TX_SAMPL" -> at("TX_SAMPL", tf)
             w == [c \in Clocks |-> v(c)]
             step(c) == IF c = "BBPLL" THEN bb ELSE at(c, w[Parent[c]])
  <1>1. \A c \in Clocks : w[c] = step(c)
    <2> HIDE DEF bb, at
    <2> QED BY ParentIs DEF Clocks
  <1>2. DOMAIN w = Clocks /\ w = [c \in Clocks |-> w[c]]
    <2> HIDE DEF v
    <2> QED OBVIOUS
  <1> HIDE DEF w
  <1>3. w = [c \in Clocks |-> step(c)]
    BY <1>1, <1>2
  <1>4. Follows(w, x)
    BY <1>3 DEF Follows
  <1>5. TreeRates(x) = CHOOSE rate : Follows(rate, x)
    BY DEF TreeRates, Follows, Clocks
  <1> QED BY <1>4, <1>5

\* What recalc_all leaves.
LEMMA RecalcIs ==
  ASSUME NEW x, Form(x), NEW y, y = recalc_all(x)
  PROVE  Reclocked(x, y) /\ y.rc = x.rc /\ y.clk = [x.clk EXCEPT !.rate = TreeRates(x)]
  <1> DEFINE rate == TreeRates(x)
             lo == [p \in Sides |-> [x.lo[p] EXCEPT !.rate = rfpll_recalc_rate(x, p)]]
             clk == [x.clk EXCEPT !.rate = rate]
  <1>1. y = [x EXCEPT !.clk = clk, !.lo = lo]
    BY DEF recalc_all, Form
  <1>2. DOMAIN rate = Clocks
    BY TreeFollows DEF Follows
  <1> HIDE DEF rate
  <1>3. DOMAIN clk = {"ref", "word", "div", "rate", "init"} /\ clk.div = x.clk.div /\ clk.rate = rate
    BY DEF Form
  <1>4. /\ DOMAIN lo = Sides
        /\ \A p \in Sides : /\ DOMAIN lo[p] = SynthFields
                            /\ lo[p].pd = x.lo[p].pd /\ lo[p].chippd = x.lo[p].chippd
    BY DEF Form, SynthFields
  <1> HIDE DEF lo, clk
  <1>5. y.clk = clk
    BY <1>1 DEF Form, Fields
  <1> QED BY <1>1, <1>2, <1>3, <1>4, <1>5 DEF Reclocked, Form, Fields, clk, rate

\* Every clock follows its parent then; and where the remembered rates followed already,
\* no rate that is read changes.
LEMMA RecalcLinks ==
  ASSUME NEW x, Form(x), NEW y, y = recalc_all(x)
  PROVE  /\ \A c \in Clocks : y.clk.rate[c] = clk_get_rate(y, c)
         /\ Linked(y)
         /\ Linked(x) => \A c \in Clocks : clk_get_rate(y, c) = clk_get_rate(x, c)
  <1> DEFINE rate == TreeRates(x)
  <1>1. y.clk = [x.clk EXCEPT !.rate = rate]
    BY RecalcIs
  <1>2. /\ rate["BBPLL"] = BbpllRate(x.clk.word, x.clk.ref)
        /\ \A c \in Factors : rate[c] = rate[Parent[c]] \div Ratio(x.clk.div[c])
    BY TreeFollows, ParentStem, ZenonT(60) DEF Follows, Clocks
  <1> HIDE DEF rate
  <1>3. y.clk.rate = rate /\ y.clk.div = x.clk.div /\ y.clk.word = x.clk.word /\ y.clk.ref = x.clk.ref
    BY <1>1 DEF Form
  <1>4. \A c \in Clocks : y.clk.rate[c] = clk_get_rate(y, c)
    BY <1>2, <1>3 DEF clk_get_rate, Clocks
  <1>5. Linked(y)
    BY <1>4 DEF Linked, Hung, Clocks, Stems
  <1>6. ASSUME Linked(x) PROVE \A c \in Clocks : clk_get_rate(y, c) = clk_get_rate(x, c)
    <2>1. /\ x.clk.rate["BBPLL"] = rate["BBPLL"]
          /\ \A c \in Stems : x.clk.rate[c] = x.clk.rate[Parent[c]] \div Ratio(x.clk.div[c])
      BY <1>2, <1>6, ParentStem DEF Linked, Hung, clk_get_rate
    <2>2. \A c \in Stems : Parent[c] \in Stems \cup {"BBPLL"} /\
            (x.clk.rate[Parent[c]] = rate[Parent[c]] => x.clk.rate[c] = rate[c])
      BY <1>2, <2>1, ParentStem DEF Stems
    <2>3. \A c \in Stems \cup {"BBPLL"} : x.clk.rate[c] = rate[c]
      <3>1. x.clk.rate.ADC = rate.ADC
        BY <2>1, <2>2, ParentIs, ParentStem
      <3>2. x.clk.rate.R2 = rate.R2 /\ x.clk.rate.DAC = rate.DAC
        BY <3>1, <2>2, ParentIs, ParentStem
      <3>3. x.clk.rate.R1 = rate.R1 /\ x.clk.rate.T2 = rate.T2
        BY <3>2, <2>2, ParentIs, ParentStem
      <3>4. x.clk.rate.CLKRF = rate.CLKRF /\ x.clk.rate.T1 = rate.T1
        BY <3>3, <2>2, ParentIs, ParentStem
      <3>5. x.clk.rate.CLKTF = rate.CLKTF
        BY <3>4, <2>2, ParentIs, ParentStem
      <3> QED BY <2>1, <3>1, <3>2, <3>3, <3>4, <3>5, ParentStem
    <2> QED BY <1>3, <2>3, ParentStem DEF clk_get_rate, Clocks
  <1> QED BY <1>4, <1>5, <1>6

-----------------------------------------------------------------------------
(* The BBPLL is at the rate it was asked for, when it can be.                 *)
PllRefs == 1..1750         \* up to 70 MHz: what ref_div_sel lets through

LEMMA WordExact ==
  \A ref \in PllRefs, r \in Nat : BbpllRate(BbpllWord(r, ref), ref) = r
  <1> SUFFICES ASSUME NEW ref \in 1..1750, NEW r \in Nat
               PROVE  BbpllRate(BbpllWord(r, ref), ref) = r
    BY ZenonT(60) DEF PllRefs
  <1> DEFINE m == r % ref
             n == m * BbpllModulus + ref \div 2
             f == n \div ref
  <1>1. m \in 0..(ref - 1) /\ r = ref * (r \div ref) + m /\ r \div ref \in Nat
    BY Z3
  <1> HIDE DEF m
  <1>2. ref \div 2 \in Nat /\ 2 * (ref \div 2) \in {ref, ref - 1}
    BY Z3
  <1>3. n \in Nat
    BY <1>1, <1>2 DEF BbpllModulus
  <1>4. f \in Nat /\ ref * f <= n /\ n < ref * f + ref
    <2> HIDE DEF n
    <2> QED BY <1>3, Z3
  <1> DEFINE p == ref * f
  <1>5. p \in Nat
    BY <1>4, Z3
  <1> HIDE DEF f, p
  <1>6. DivRound(p, BbpllModulus) = m
    <2>1. p <= n /\ n < p + ref
      BY <1>4 DEF p
    <2>2. BbpllModulus \div 2 = 1044480
      BY DEF BbpllModulus
    <2>3. /\ m * 2088960 <= p + 1044480 /\ p + 1044480 < m * 2088960 + 2088960
      BY <1>1, <1>2, <1>5, <2>1 DEF BbpllModulus
    <2>4. (p + 1044480) \div 2088960 = m
      BY <1>1, <1>5, <2>3, Z3
    <2> QED BY <2>2, <2>4 DEF DivRound, BbpllModulus
  <1>7. BbpllWord(r, ref) = [int |-> r \div ref, fract |-> f]
    BY DEF BbpllWord, f, m
  <1>8. BbpllRate(BbpllWord(r, ref), ref) = ref * (r \div ref) + DivRound(p, BbpllModulus)
    BY <1>7 DEF BbpllRate, p
  <1> QED BY <1>1, <1>6, <1>8

-----------------------------------------------------------------------------
(* Such a step, and what follows from it.                                     *)
LEMMA ApartTrans ==
  ASSUME NEW x, NEW y, NEW z
  PROVE  /\ Apart(x, y) /\ Apart(y, z) => Apart(x, z)
         /\ Reclocked(x, y) /\ Reclocked(y, z) => Reclocked(x, z)
         /\ Apart(x, y) => Form(y) /\ Reclocked(x, y)
         /\ Form(x) => Apart(x, x)
  BY DEF Apart, Reclocked

LEMMA ReturnApart ==
  ASSUME NEW x, Form(x), NEW r
  PROVE  /\ Apart(x, Return(x, r)) /\ Return(x, r).rc = r
         /\ Apart(x, Ok(x)) /\ Ok(x).rc = 0
  BY DEF Apart, Reclocked, Return, Ok, Form, Fields

LEMMA CalDoneApart ==
  ASSUME NEW x, Form(x), NEW cal
  PROVE  /\ Apart(x, check_cal_done(x, cal)) /\ Apart(x, run_calibration(x, cal))
         /\ x.late = {} => check_cal_done(x, cal).rc = 0 /\ run_calibration(x, cal).rc = 0
  BY ReturnApart DEF check_cal_done, run_calibration

\* The clocks follow with the clocks alone.
LEMMA ApartClocks ==
  ASSUME NEW x, NEW y, y.clk = x.clk
  PROVE  /\ \A c : clk_get_rate(y, c) = clk_get_rate(x, c)
         /\ (Hung(x) <=> Hung(y)) /\ (Linked(x) <=> Linked(y)) /\ (Running(x) <=> Running(y))
  <1>1. \A c : clk_get_rate(y, c) = clk_get_rate(x, c)
    BY DEF clk_get_rate
  <1> QED BY <1>1 DEF Hung, Linked, Running

-----------------------------------------------------------------------------
(* Setting a clock.                                                           *)
LEMMA BbpllSetIs ==
  ASSUME NEW x, Form(x), NEW rate, NEW y, y = bbpll_set_rate(x, rate)
  PROVE  /\ Reclocked(x, y) /\ y.clk.init = TRUE
         /\ y.clk.ref = x.clk.ref /\ y.clk.div = x.clk.div /\ y.clk.rate = x.clk.rate
         /\ y.clk.word = BbpllWord(bbpll_round_rate(rate, x.clk.ref), x.clk.ref)
  <1> DEFINE word == BbpllWord(bbpll_round_rate(rate, x.clk.ref), x.clk.ref)
             clk == [x.clk EXCEPT !.word = word, !.init = TRUE]
             z == [x EXCEPT !.clk = clk]
  <1>1. y = check_cal_done(z, "bbpll")
    BY DEF bbpll_set_rate, Form
  <1> HIDE DEF word
  <1>2. /\ DOMAIN clk = {"ref", "word", "div", "rate", "init"} /\ clk.init = TRUE
        /\ clk.ref = x.clk.ref /\ clk.div = x.clk.div /\ clk.rate = x.clk.rate /\ clk.word = word
    BY DEF Form
  <1> HIDE DEF clk
  <1>3. Reclocked(x, z) /\ z.clk = clk
    BY <1>2 DEF Reclocked, Form, Fields
  <1> HIDE DEF z
  <1>4. Apart(z, y)
    BY <1>1, <1>3, CalDoneApart DEF Reclocked
  <1> QED BY <1>2, <1>3, <1>4, ApartTrans DEF Apart, word

Divided1(x, c, d) == IF d = 0 THEN x.clk.div
                     ELSE [x.clk.div EXCEPT ![c] = ScalerWord(c, d, Bypassed(x, c))]

LEMMA FactorSetIs ==
  ASSUME NEW x, Form(x), NEW c \in Factors, NEW rate, NEW y, y = clk_factor_set_rate(x, c, rate)
  PROVE  /\ Reclocked(x, y) /\ y.clk.init = x.clk.init
         /\ y.clk.ref = x.clk.ref /\ y.clk.word = x.clk.word /\ y.clk.rate = x.clk.rate
         /\ y.clk.div = Divided1(x, c, FactorDiv(c, rate, x.clk.rate[Parent[c]]))
  <1> DEFINE d == FactorDiv(c, rate, x.clk.rate[Parent[c]])
             word == ScalerWord(c, d, Bypassed(x, c))
             div == [x.clk.div EXCEPT ![c] = word]
             clk == [x.clk EXCEPT !.div = div]
             z == [x EXCEPT !.clk = clk]
  <1>1. y = IF d = 0 THEN Return(x, EINVAL) ELSE Ok(z)
    BY DEF clk_factor_set_rate, Form
  <1> HIDE DEF d, word
  <1>2. DOMAIN div = Factors
    BY DEF Form
  <1> HIDE DEF div
  <1>3. /\ DOMAIN clk = {"ref", "word", "div", "rate", "init"} /\ clk.init = x.clk.init
        /\ clk.ref = x.clk.ref /\ clk.div = div /\ clk.rate = x.clk.rate /\ clk.word = x.clk.word
    BY DEF Form
  <1> HIDE DEF clk
  <1>4. Reclocked(x, z) /\ z.clk = clk
    BY <1>2, <1>3 DEF Reclocked, Form, Fields
  <1> HIDE DEF z
  <1>5. Apart(x, Return(x, EINVAL)) /\ Apart(z, Ok(z))
    BY <1>4, ReturnApart DEF Reclocked
  <1>6. CASE d = 0
    BY <1>1, <1>5, <1>6 DEF Apart, d, Divided1
  <1>7. CASE d # 0
    <2>1. y = Ok(z)
      BY <1>1, <1>7
    <2>2. Reclocked(x, y) /\ y.clk = clk
      BY <1>4, <1>5, <2>1, ApartTrans DEF Apart
    <2> QED BY <1>3, <1>7, <2>2 DEF d, div, word, Divided1
  <1> QED BY <1>6, <1>7

\* Every clock, the leaves among them, is remembered as it is.
Remembered(x) == \A c \in Clocks : x.clk.rate[c] = clk_get_rate(x, c)

LEMMA SetRateIs ==
  ASSUME NEW x, Form(x), NEW c \in Clocks, NEW rate, NEW y, y = clk_set_rate(x, c, rate)
  PROVE  /\ Reclocked(x, y) /\ y.rc = 0 /\ y.clk.ref = x.clk.ref
         /\ Running(x) => Running(y)
         /\ Running(x) /\ Remembered(x) => Remembered(y)
  <1> DEFINE b == bbpll_set_rate(x, rate)
             f == clk_factor_set_rate(x, c, rate)
             t == IF c = "BBPLL" THEN b ELSE f
             u == recalc_all(t)
             v == recalc_clk(b, c)
  <1>1. y = IF x.clk.rate[c] # rate THEN Ok(u)
            ELSE IF c = "BBPLL" /\ ~x.clk.init THEN Ok(v) ELSE Ok(x)
    BY DEF clk_set_rate
  <1>2. Reclocked(x, b) /\ b.clk.init = TRUE /\ b.clk.ref = x.clk.ref /\ b.clk.rate = x.clk.rate
    BY BbpllSetIs
  <1>3. c # "BBPLL" => Reclocked(x, f) /\ f.clk.init = x.clk.init /\ f.clk.ref = x.clk.ref
    <2> SUFFICES ASSUME c # "BBPLL"
                 PROVE  Reclocked(x, f) /\ f.clk.init = x.clk.init /\ f.clk.ref = x.clk.ref
      OBVIOUS
    <2>1. c \in Factors /\ f = clk_factor_set_rate(x, c, rate)
      BY DEF Clocks
    <2> HIDE DEF f
    <2> QED BY <2>1, FactorSetIs
  <1> HIDE DEF b, f
  <1>4. Reclocked(x, t) /\ (x.clk.init => t.clk.init) /\ t.clk.ref = x.clk.ref
    BY <1>2, <1>3
  <1> HIDE DEF t
  <1>11. u = recalc_all(t)
    OBVIOUS
  <1> HIDE DEF u
  <1>5. /\ Reclocked(t, u) /\ u.clk.init = t.clk.init /\ u.clk.ref = t.clk.ref
        /\ Remembered(u) /\ Linked(u)
    <2>1. Form(t) /\ u = recalc_all(t)
      BY <1>4, <1>11 DEF Reclocked
    <2>2. u.clk = [t.clk EXCEPT !.rate = TreeRates(t)]
      BY <2>1, RecalcIs
    <2>3. Remembered(u) /\ Linked(u)
      BY <2>1, RecalcLinks DEF Remembered
    <2>4. Reclocked(t, u)
      BY <2>1, RecalcIs
    <2>5. u.clk.init = t.clk.init /\ u.clk.ref = t.clk.ref
      BY <2>1, <2>2 DEF Form
    <2> QED BY <2>3, <2>4, <2>5
  <1>6. Reclocked(b, v) /\ v.clk.ref = b.clk.ref
    <2>1. Form(b)
      BY <1>2 DEF Reclocked
    <2> DEFINE g == clk_get_rate(b, c)
               w == [b EXCEPT !.clk.rate[c] = g]
    <2>2. v = w
      BY DEF recalc_clk
    <2> HIDE DEF v, g
    <2> QED BY <2>1, <2>2 DEF Reclocked, Form, Fields
  <1> HIDE DEF v
  <1>7. Apart(u, Ok(u)) /\ Apart(v, Ok(v)) /\ Apart(x, Ok(x))
        /\ Ok(u).rc = 0 /\ Ok(v).rc = 0 /\ Ok(x).rc = 0
    BY <1>5, <1>6, ReturnApart DEF Reclocked
  <1>8. CASE y = Ok(u)
    <2>1. Reclocked(x, y) /\ y.clk = u.clk
      BY <1>4, <1>5, <1>7, <1>8, ApartTrans DEF Apart
    <2>2. Remembered(y) <=> Remembered(u)
      BY <2>1, ApartClocks DEF Remembered
    <2> QED BY <1>4, <1>5, <1>7, <1>8, <2>1, <2>2, ApartClocks DEF Running
  <1>9. CASE y = Ok(v) /\ ~x.clk.init
    <2>1. Reclocked(x, y) /\ y.clk = v.clk
      BY <1>2, <1>6, <1>7, <1>9, ApartTrans DEF Apart
    <2> QED BY <1>2, <1>6, <1>7, <1>9, <2>1 DEF Running
  <1>10. CASE y = Ok(x)
    <2>1. Remembered(x) <=> Remembered(y)
      BY <1>7, <1>10, ApartClocks DEF Apart, Remembered
    <2> QED BY <1>7, <1>10, <2>1, ApartClocks DEF Apart
  <1> QED BY <1>1, <1>8, <1>9, <1>10

\* The first clock of a setup: whatever the reference was before, the tree is right after
\* it, if the clocks below followed what was remembered of the BBPLL.
Startable(x) == /\ Hung(x) /\ x.clk.ref \in PllRefs
                /\ x.clk.init => x.clk.rate["BBPLL"] = clk_get_rate(x, "BBPLL")

LEMMA FirstClock ==
  ASSUME NEW x, Form(x), Startable(x), NEW rate \in MinBbpll..MaxBbpll,
         NEW y, y = clk_set_rate(x, "BBPLL", rate)
  PROVE  /\ Running(y)
         /\ (\A c \in Leaves : x.clk.rate[c] = clk_get_rate(x, c)) => Remembered(y)
  <1> DEFINE b == bbpll_set_rate(x, rate)
             u == recalc_all(b)
             g == clk_get_rate(b, "BBPLL")
             v == [b EXCEPT !.clk.rate["BBPLL"] = g]
             leaves == \A c \in Leaves : x.clk.rate[c] = clk_get_rate(x, c)
  <1>1. y = IF x.clk.rate["BBPLL"] # rate THEN Ok(u) ELSE IF ~x.clk.init THEN Ok(v) ELSE Ok(x)
    BY DEF clk_set_rate, recalc_clk
  <1>7. /\ Reclocked(x, b) /\ b.clk.init = TRUE
        /\ b.clk.ref = x.clk.ref /\ b.clk.div = x.clk.div /\ b.clk.rate = x.clk.rate
        /\ b.clk.word = BbpllWord(bbpll_round_rate(rate, x.clk.ref), x.clk.ref)
    BY BbpllSetIs
  <1>2. Form(b) /\ b.clk.init = TRUE
        /\ b.clk.ref = x.clk.ref /\ b.clk.div = x.clk.div /\ b.clk.rate = x.clk.rate
        /\ b.clk.word = BbpllWord(bbpll_round_rate(rate, x.clk.ref), x.clk.ref)
    BY <1>7 DEF Reclocked
  <1>3. g = rate
    <2>1. rate \in Nat /\ BbpllClamp(rate) = rate
      BY DEF BbpllClamp, MinBbpll, MaxBbpll, Mega
    <2> DEFINE ref == x.clk.ref
    <2>4. ref \in PllRefs
      BY DEF Startable
    <2> HIDE DEF ref
    <2>5. BbpllRate(BbpllWord(rate, ref), ref) = rate
      BY <2>1, <2>4, WordExact
    <2>2. BbpllRate(BbpllWord(rate, x.clk.ref), x.clk.ref) = rate
      BY <2>5 DEF ref
    <2>3. bbpll_round_rate(rate, x.clk.ref) = rate
      BY <2>1, <2>2 DEF bbpll_round_rate
    <2> QED BY <1>2, <2>2, <2>3 DEF clk_get_rate
  <1> HIDE DEF b, g
  <1>4. CASE x.clk.rate["BBPLL"] # rate
    <2>6. Remembered(u) /\ Linked(u)
      BY <1>2, RecalcLinks DEF Remembered
    <2>7. Reclocked(b, u)
      BY <1>2, RecalcIs
    <2>1. Remembered(u) /\ Linked(u) /\ Form(u)
      BY <2>6, <2>7 DEF Reclocked
    <2>2. u.clk = [b.clk EXCEPT !.rate = TreeRates(b)]
      BY <1>2, RecalcIs
    <2>3. u.clk.init = TRUE
      BY <1>2, <2>2 DEF Form
    <2> HIDE DEF u
    <2>4. Apart(u, Ok(u)) /\ y = Ok(u)
      BY <1>1, <1>4, <2>1, ReturnApart
    <2>5. y.clk = u.clk
      BY <2>4 DEF Apart
    <2> QED BY <2>1, <2>3, <2>5, ApartClocks DEF Running, Remembered
  <1>5. CASE x.clk.rate["BBPLL"] = rate /\ x.clk.init
    <2>1. y = Ok(x) /\ Apart(x, y)
      BY <1>1, <1>5, ReturnApart
    <2>2. y.clk = x.clk
      BY <2>1 DEF Apart
    <2>3. Linked(x) /\ (leaves => Remembered(x))
      BY <1>5 DEF Startable, Linked, Hung, Remembered, Clocks, Stems
    <2> QED BY <1>5, <2>2, <2>3, ApartClocks DEF Running, Remembered
  <1>6. CASE x.clk.rate["BBPLL"] = rate /\ ~x.clk.init
    <2>1. Form(v) /\ v.clk = [b.clk EXCEPT !.rate = [b.clk.rate EXCEPT !["BBPLL"] = g]]
      <3> DEFINE r == [b.clk.rate EXCEPT !["BBPLL"] = g]
                 k == [b.clk EXCEPT !.rate = r]
      <3>1. v = [b EXCEPT !.clk = k] /\ DOMAIN r = Clocks
        BY <1>2 DEF Form
      <3> HIDE DEF r
      <3>2. DOMAIN k = {"ref", "word", "div", "rate", "init"} /\ k.div = b.clk.div /\ k.rate = r
        BY <1>2 DEF Form
      <3> HIDE DEF k
      <3> QED BY <1>2, <3>1, <3>2 DEF Form, Fields, k, r
    <2> DEFINE r == [b.clk.rate EXCEPT !["BBPLL"] = g]
    <2>2. \A c \in Clocks : r[c] = x.clk.rate[c]
      BY <1>2, <1>3, <1>6 DEF Form, Clocks
    <2> HIDE DEF r
    <2>3. /\ \A c \in Clocks : v.clk.rate[c] = x.clk.rate[c]
          /\ v.clk.div = x.clk.div /\ v.clk.init = TRUE /\ v.clk.word = b.clk.word /\ v.clk.ref = b.clk.ref
      <3>1. v.clk = [b.clk EXCEPT !.rate = r]
        BY <2>1 DEF r
      <3> QED BY <1>2, <2>2, <3>1 DEF Form
    <2> HIDE DEF v
    <2>4. clk_get_rate(v, "BBPLL") = rate /\ \A c \in Factors : clk_get_rate(v, c) = clk_get_rate(x, c)
      BY <1>3, <2>3, ParentStem DEF clk_get_rate, g
    <2>5. Linked(v) /\ (leaves => Remembered(v))
      BY <1>6, <2>3, <2>4 DEF Startable, Linked, Hung, Remembered, Clocks, Stems, Leaves
    <2>6. Apart(v, y)
      BY <1>1, <1>6, <2>1, ReturnApart
    <2>7. y.clk = v.clk
      BY <2>6 DEF Apart
    <2> QED BY <2>3, <2>5, <2>7, ApartClocks DEF Running, Remembered
  <1> QED BY <1>4, <1>5, <1>6

\* The times are those of the clocks of this moment, and so are the filters and the ADC.
TimesIn(x) == /\ x.times.rssi = clk_get_rate(x, "RX_SAMPL")
              /\ x.times.auxadc = clk_get_rate(x, "BBPLL")
              /\ x.times.gc[1] = clk_get_rate(x, "CLKRF")

\* A step that sets clocks, or anything else but the filters.
Paced(x, y) == /\ Form(y) /\ y.late = x.late
               /\ y.pd.ref = x.pd.ref /\ y.pd.bw = x.pd.bw /\ y.pd.clks = x.pd.clks
               /\ y.clk.ref = x.clk.ref
               /\ Powers(x) => Powers(y)
               /\ Running(x) => Running(y)
               /\ Running(x) /\ TimesIn(x) => TimesIn(y)

LEMMA PacedTrans ==
  ASSUME NEW x, NEW y, NEW z
  PROVE  /\ Paced(x, y) /\ Paced(y, z) => Paced(x, z)
         /\ Paced(x, y) => Form(y)
         /\ Form(x) => Paced(x, x)
  BY DEF Paced

LEMMA ApartPaced ==
  ASSUME NEW x, NEW y, Apart(x, y)
  PROVE  /\ Paced(x, y) /\ Form(y)
         /\ TimesIn(x) <=> TimesIn(y)
  <1>1. y.clk = x.clk /\ y.times = x.times /\ Reclocked(x, y)
    BY DEF Apart, Reclocked
  <1>2. \A c : clk_get_rate(y, c) = clk_get_rate(x, c)
    BY <1>1, ApartClocks
  <1>3. (Running(x) <=> Running(y)) /\ (TimesIn(x) <=> TimesIn(y))
    BY <1>1, <1>2, ApartClocks DEF TimesIn
  <1>4. Powers(x) => Powers(y)
    BY <1>1 DEF Powers, Reclocked
  <1> QED BY <1>1, <1>3, <1>4 DEF Paced, Reclocked

\* The clocks of the chain, one after the other.
Clocked(x, y) == /\ Reclocked(x, y) /\ y.clk.ref = x.clk.ref
                 /\ Running(x) => Running(y)
                 /\ Running(x) /\ Remembered(x) => Remembered(y)

LEMMA ClockedTrans ==
  ASSUME NEW x, NEW y, NEW z, Clocked(x, y), Clocked(y, z) PROVE Clocked(x, z)
  BY DEF Clocked, Reclocked

\* The clocks after the first.
LaterClocks(t, rx, tx) ==
  LET set(u, c) == set_clock(u, rx, tx, c)
      both(u, c, d) == set(set(u, c), d)
  IN both(both(both(both(both(t, "ADC", "DAC"), "R2", "T2"), "R1", "T1"),
               "CLKRF", "CLKTF"), "RX_SAMPL", "TX_SAMPL")

LEMMA LaterClocked ==
  ASSUME NEW x, Form(x), NEW rx, NEW tx
  PROVE  Clocked(x, LaterClocks(x, rx, tx))
  <1> DEFINE set(t, c) == set_clock(t, rx, tx, c)
             both(t, c, d) == set(set(t, c), d)
  <1>1. ASSUME NEW t, Clocked(x, t), NEW c \in Clocks PROVE Clocked(x, set(t, c))
    <2>1. Form(t)
      BY <1>1 DEF Clocked, Reclocked
    <2>2. Clocked(t, set(t, c))
      BY <2>1, SetRateIs DEF set_clock, Clocked
    <2> HIDE DEF set
    <2> QED BY <1>1, <2>2, ClockedTrans
  <1>2. ASSUME NEW t, Clocked(x, t), NEW c \in Clocks, NEW d \in Clocks
        PROVE  Clocked(x, both(t, c, d))
    <2> HIDE DEF set
    <2> QED BY <1>1, <1>2
  <1>3. Clocked(x, x)
    BY DEF Clocked, Reclocked
  <1>4. LaterClocks(x, rx, tx) =
          both(both(both(both(both(x, "ADC", "DAC"), "R2", "T2"), "R1", "T1"),
               "CLKRF", "CLKTF"), "RX_SAMPL", "TX_SAMPL")
    BY DEF LaterClocks
  <1>5. {"ADC", "DAC", "R2", "T2", "R1", "T1", "CLKRF", "CLKTF", "RX_SAMPL", "TX_SAMPL"} \subseteq Clocks
    BY ParentIs DEF Clocks
  <1> HIDE DEF set, both
  <1> QED BY <1>2, <1>3, <1>4, <1>5

LEMMA ClocksAre ==
  ASSUME NEW x, NEW rx, NEW tx
  PROVE  set_clocks(x, rx, tx) = LaterClocks(clk_set_rate(x, "BBPLL", rx.bbpll), rx, tx)
  BY DEF set_clocks, LaterClocks, set_clock, RateOf

\* The switch of a filter changes a divider of a leaf.
LEMMA SwitchIs ==
  ASSUME NEW x, Form(x), NEW c \in Leaves, NEW factor, NEW by, NEW y, y = switch_fir(x, c, factor, by)
  PROVE  /\ Reclocked(x, y) /\ y.clk.ref = x.clk.ref
         /\ Running(x) => Running(y)
         /\ Running(x) /\ Remembered(x) /\ ((by \/ factor = 1) => Ratio(x.clk.div[c]) = 1)
              => Remembered(y)
  <1> DEFINE word == IF by THEN 0 ELSE 1
             div == [x.clk.div EXCEPT ![c] = word]
             clk == [x.clk EXCEPT !.div = div]
             z == [x EXCEPT !.clk = clk]
  <1>1. y = IF factor = 1 \/ by THEN z ELSE x
    BY DEF switch_fir
  <1>2. Ratio(word) = 1
    BY DEF Ratio
  <1> HIDE DEF word
  <1>3. DOMAIN div = Factors /\ c \in Factors /\ div[c] = word
        /\ \A d \in Factors \ {c} : div[d] = x.clk.div[d]
    BY ParentIs DEF Form, Leaves
  <1> HIDE DEF div
  <1>4. /\ DOMAIN clk = {"ref", "word", "div", "rate", "init"} /\ clk.init = x.clk.init
        /\ clk.ref = x.clk.ref /\ clk.div = div /\ clk.rate = x.clk.rate /\ clk.word = x.clk.word
    BY DEF Form
  <1> HIDE DEF clk
  <1>5. Reclocked(x, z) /\ z.clk = clk
    BY <1>3, <1>4 DEF Reclocked, Form, Fields
  <1> HIDE DEF z
  <1>6. /\ clk_get_rate(z, "BBPLL") = clk_get_rate(x, "BBPLL")
        /\ \A d \in Factors \ {c} : clk_get_rate(z, d) = clk_get_rate(x, d)
    BY <1>3, <1>4, <1>5, ParentStem DEF clk_get_rate
  <1>7. Linked(x) => Linked(z)
    BY <1>4, <1>5, <1>6 DEF Linked, Hung, Stems
  <1>8. ASSUME Remembered(x), Ratio(x.clk.div[c]) = 1 PROVE Remembered(z)
    <2>1. clk_get_rate(z, c) = clk_get_rate(x, c)
      BY <1>2, <1>3, <1>4, <1>5, <1>8, ParentStem DEF clk_get_rate
    <2> QED BY <1>4, <1>5, <1>6, <1>8, <2>1 DEF Remembered, Clocks
  <1>9. CASE factor = 1 \/ by
    <2>1. y = z
      BY <1>1, <1>9
    <2> QED BY <1>4, <1>5, <1>7, <1>8, <1>9, <2>1 DEF Running
  <1>10. CASE ~(factor = 1 \/ by)
    <2>1. y = x
      BY <1>1, <1>10
    <2> QED BY <2>1 DEF Reclocked
  <1> QED BY <1>9, <1>10

-----------------------------------------------------------------------------
(* The chain.                                                                 *)
\* All but the times is as it was.
Retimed(x, y) == /\ Form(y) /\ y.late = x.late /\ y.fir = x.fir /\ y.clk = x.clk
                 /\ y.tune = x.tune /\ y.bw = x.bw
                 /\ y.pd.ref = x.pd.ref /\ y.pd.bw = x.pd.bw /\ y.pd.clks = x.pd.clks
                 /\ \A p \in Sides : y.lo[p].pd = x.lo[p].pd /\ y.lo[p].chippd = x.lo[p].chippd

LEMMA TimesAre ==
  ASSUME NEW x, Form(x)
  PROVE  /\ LET y == gc_update(x)
            IN /\ Retimed(x, y) /\ y.rc = 0 /\ y.times.gc[1] = clk_get_rate(x, "CLKRF")
               /\ y.times.rssi = x.times.rssi /\ y.times.auxadc = x.times.auxadc
         /\ LET y == rssi_setup(x)
            IN /\ Retimed(x, y) /\ y.rc = 0 /\ y.times.rssi = clk_get_rate(x, "RX_SAMPL")
               /\ y.times.gc = x.times.gc /\ y.times.auxadc = x.times.auxadc
         /\ LET y == auxadc_setup(x)
            IN /\ Retimed(x, y) /\ y.rc = 0 /\ y.times.auxadc = clk_get_rate(x, "BBPLL")
               /\ y.times.gc = x.times.gc /\ y.times.rssi = x.times.rssi
  <1>1. ASSUME NEW times, DOMAIN times = {"gc", "rssi", "auxadc"}, NEW y,
               y = [[x EXCEPT !.times = times] EXCEPT !.rc = 0]
        PROVE  Retimed(x, y) /\ y.rc = 0 /\ y.times = times
    BY <1>1 DEF Retimed, Form, Fields
  <1> DEFINE rf == clk_get_rate(x, "CLKRF")
             sampl == clk_get_rate(x, "RX_SAMPL")
             bb == clk_get_rate(x, "BBPLL")
             gc == <<rf, IF FastAgc(x) THEN 0 ELSE sampl>>
             a == [x.times EXCEPT !.gc = gc]
             b == [x.times EXCEPT !.rssi = sampl]
             c == [x.times EXCEPT !.auxadc = bb]
  <1>2. /\ gc_update(x) = [[x EXCEPT !.times = a] EXCEPT !.rc = 0]
        /\ rssi_setup(x) = [[x EXCEPT !.times = b] EXCEPT !.rc = 0]
        /\ auxadc_setup(x) = [[x EXCEPT !.times = c] EXCEPT !.rc = 0]
    BY DEF gc_update, rssi_setup, auxadc_setup, Ok, Return, Form
  <1>3. gc[1] = rf
    OBVIOUS
  <1> HIDE DEF gc, sampl, bb, rf
  <1>4. /\ DOMAIN a = {"gc", "rssi", "auxadc"} /\ a.gc = gc
        /\ a.rssi = x.times.rssi /\ a.auxadc = x.times.auxadc
    BY DEF Form
  <1>5. /\ DOMAIN b = {"gc", "rssi", "auxadc"} /\ b.rssi = sampl
        /\ b.gc = x.times.gc /\ b.auxadc = x.times.auxadc
    BY DEF Form
  <1>6. /\ DOMAIN c = {"gc", "rssi", "auxadc"} /\ c.auxadc = bb
        /\ c.gc = x.times.gc /\ c.rssi = x.times.rssi
    BY DEF Form
  <1> HIDE DEF a, b, c
  <1>7. LET y == gc_update(x) IN Retimed(x, y) /\ y.rc = 0 /\ y.times = a
    BY <1>1, <1>2, <1>4
  <1>8. LET y == rssi_setup(x) IN Retimed(x, y) /\ y.rc = 0 /\ y.times = b
    BY <1>1, <1>2, <1>5
  <1>9. LET y == auxadc_setup(x) IN Retimed(x, y) /\ y.rc = 0 /\ y.times = c
    BY <1>1, <1>2, <1>6
  <1> QED BY <1>3, <1>4, <1>5, <1>6, <1>7, <1>8, <1>9 DEF rf, sampl, bb

LEMMA RetimedTrans ==
  ASSUME NEW x, NEW y, NEW z
  PROVE  /\ Retimed(x, y) /\ Retimed(y, z) => Retimed(x, z)
         /\ Retimed(x, y) => Form(y) /\ y.clk = x.clk
  BY DEF Retimed

LEMMA HandlerIs ==
  ASSUME NEW x, Form(x), NEW y, y = bb_clk_change_handler(x)
  PROVE  Retimed(x, y) /\ y.rc = 0 /\ TimesIn(y)
  <1> DEFINE a == gc_update(x)
             b == rssi_setup(a)
  <1>1. y = auxadc_setup(b)
    BY DEF bb_clk_change_handler
  <1>2. Retimed(x, a) /\ a.times.gc[1] = clk_get_rate(x, "CLKRF")
    BY TimesAre
  <1> HIDE DEF a
  <1>3. Retimed(a, b) /\ b.times.rssi = clk_get_rate(a, "RX_SAMPL") /\ b.times.gc = a.times.gc
    BY <1>2, TimesAre, RetimedTrans
  <1> HIDE DEF b
  <1>4. Retimed(b, y) /\ y.rc = 0 /\ y.times.auxadc = clk_get_rate(b, "BBPLL")
        /\ y.times.gc = b.times.gc /\ y.times.rssi = b.times.rssi
    BY <1>1, <1>3, TimesAre, RetimedTrans, SMTT(30)
  <1>5. Retimed(x, y) /\ a.clk = x.clk /\ b.clk = a.clk /\ y.clk = b.clk
    BY <1>2, <1>3, <1>4, RetimedTrans
  <1>6. \A c : /\ clk_get_rate(y, c) = clk_get_rate(x, c) /\ clk_get_rate(y, c) = clk_get_rate(a, c)
               /\ clk_get_rate(y, c) = clk_get_rate(b, c)
    BY <1>5, ApartClocks
  <1> QED BY <1>2, <1>3, <1>4, <1>5, <1>6 DEF TimesIn

\* Either the chain is refused and nothing happens, or it is set and the times with it.
LEMMA ChainIs ==
  ASSUME NEW x, Form(x), NEW rx, NEW tx, NEW y, y = set_trx_clock_chain(x, rx, tx)
  PROVE  /\ Paced(x, y) /\ y.fir = x.fir /\ y.tune = x.tune /\ y.bw = x.bw
         /\ y.rc < 0 => Apart(x, y)
         /\ ~(y.rc < 0) => TimesIn(y)
         /\ Startable(x) /\ rx.bbpll \in MinBbpll..MaxBbpll /\ ~(y.rc < 0) => Running(y)
  <1> DEFINE first == clk_set_rate(x, "BBPLL", rx.bbpll)
             chain == LaterClocks(first, rx, tx)
             rxf == switch_fir(chain, "RX_SAMPL", x.fir.rxdec, x.fir.rxby)
             txf == switch_fir(rxf, "TX_SAMPL", x.fir.txint, x.fir.txby)
             z == bb_clk_change_handler(txf)
  <1>1. y \in {Return(x, EINVAL), z}
    BY ClocksAre DEF set_trx_clock_chain
  <1>2. CASE y = Return(x, EINVAL)
    <2>1. Apart(x, y) /\ y.rc < 0
      BY <1>2, ReturnApart DEF EINVAL
    <2> QED BY <2>1, ApartPaced DEF Apart, Reclocked
  <1>3. CASE y = z
    <2>1. Clocked(x, first)
      BY SetRateIs DEF Clocked, Clocks
    <2>2. Startable(x) /\ rx.bbpll \in MinBbpll..MaxBbpll => Running(first)
      BY FirstClock
    <2>3. Form(first)
      BY <2>1 DEF Clocked, Reclocked
    <2>15. chain = LaterClocks(first, rx, tx)
      OBVIOUS
    <2> HIDE DEF first
    <2>4. Clocked(first, chain)
      BY <2>3, LaterClocked
    <2>5. Form(chain)
      BY <2>4 DEF Clocked, Reclocked
    <2> HIDE DEF chain
    <2>6. Reclocked(chain, rxf) /\ rxf.clk.ref = chain.clk.ref /\ (Running(chain) => Running(rxf))
      BY <2>5, SwitchIs DEF Leaves
    <2>7. Form(rxf)
      BY <2>6 DEF Reclocked
    <2> HIDE DEF rxf
    <2>8. Reclocked(rxf, txf) /\ txf.clk.ref = rxf.clk.ref /\ (Running(rxf) => Running(txf))
      BY <2>7, SwitchIs DEF Leaves
    <2>9. Form(txf)
      BY <2>8 DEF Reclocked
    <2>10. z = bb_clk_change_handler(txf)
      OBVIOUS
    <2> HIDE DEF txf, z
    <2>11. Retimed(txf, z) /\ z.rc = 0 /\ TimesIn(z)
      BY <2>9, <2>10, HandlerIs
    <2>12. Reclocked(x, txf) /\ txf.clk.ref = x.clk.ref
           /\ (Running(first) => Running(txf)) /\ (Running(x) => Running(txf))
      BY <2>1, <2>4, <2>6, <2>8, ApartTrans DEF Clocked
    <2>13. Running(txf) <=> Running(z)
      BY <2>11, ApartClocks DEF Retimed
    <2>14. Paced(x, z) /\ z.fir = x.fir /\ z.tune = x.tune /\ z.bw = x.bw
      BY <2>11, <2>12, <2>13 DEF Paced, Reclocked, Retimed, Powers
    <2> QED BY <1>3, <2>2, <2>11, <2>12, <2>13, <2>14
  <1> QED BY <1>1, <1>2, <1>3

-----------------------------------------------------------------------------
(* The filters and the ADC.                                                   *)
\* What they are set up for at a rate of the BBPLL, one of the ADC and two bandwidths.
TuneFor(bb, adc, rx, tx) ==
  LET b == Clamp(rx \div 2, 5, 700)
      at == <<b, TuneDiv(bb, b, 126906)>>
  IN [rx |-> at, tx |-> TuneDiv(bb, Clamp(tx \div 2, 16, 500), 145036),
      tia |-> <<CASE rx \div 2 <= 75 -> 1 [] rx \div 2 \in 76..250 -> 2 [] OTHER -> 3, at>>,
      second |-> Clamp(tx \div 2, 13, 500), adc |-> <<bb, adc, TuneDiv(bb, b, 126906), at>>]

TunedTo(x, rx, tx) ==
  x.tune = TuneFor(clk_get_rate(x, "BBPLL"), clk_get_rate(x, "ADC"), rx, tx)
TuneIn(x) == TunedTo(x, x.bw.rx, x.bw.tx)

\* All but what they are set up for is as it was.
Retuned1(x, y) == /\ Form(y) /\ y.late = x.late /\ y.fir = x.fir /\ y.clk = x.clk
                  /\ y.times = x.times /\ y.bw = x.bw
                  /\ y.pd.ref = x.pd.ref /\ y.pd.bw = x.pd.bw /\ y.pd.clks = x.pd.clks
                  /\ \A p \in Sides : y.lo[p].pd = x.lo[p].pd /\ y.lo[p].chippd = x.lo[p].chippd

LEMMA RetunedTrans ==
  ASSUME NEW x, NEW y, NEW z
  PROVE  /\ Retuned1(x, y) /\ Retuned1(y, z) => Retuned1(x, z)
         /\ Retuned1(x, y) => Form(y) /\ y.clk = x.clk /\ y.late = x.late
         /\ Apart(x, y) => Retuned1(x, y)
  BY DEF Retuned1, Apart, Reclocked

LEMMA FiltersAre ==
  ASSUME NEW x, Form(x), NEW rx, NEW tx, NEW y, y = update_filters(x, rx, tx)
  PROVE  /\ Retuned1(x, y)
         /\ x.late = {} => y.rc = 0 /\ TunedTo(y, rx, tx)
  <1> DEFINE bb == clk_get_rate(x, "BBPLL")
             a == rx_bb_analog_filter_calib(x, rx \div 2, bb)
             b == Then(a, LAMBDA t : tx_bb_analog_filter_calib(t, tx \div 2, bb))
             c == Then(b, LAMBDA t : rx_tia_calib(t, rx \div 2))
             d == Then(c, LAMBDA t : tx_bb_second_filter_calib(t, tx \div 2))
             e == Then(d, LAMBDA t : rx_adc_setup(t, bb, clk_get_rate(t, "ADC")))
             brx == Clamp(rx \div 2, 5, 700)
             div == TuneDiv(bb, brx, 126906)
             dtx == TuneDiv(bb, Clamp(tx \div 2, 16, 500), 145036)
             class == CASE rx \div 2 <= 75 -> 1 [] rx \div 2 \in 76..250 -> 2 [] OTHER -> 3
             second == Clamp(tx \div 2, 13, 500)
             at == <<brx, div>>
  <1>1. y = e
    BY DEF update_filters
  <1>2. Retuned1(x, a) /\ a.bbfdiv = div /\ (x.late = {} => a.rc = 0) /\ a.tune.rx = at
        /\ a.tune = [x.tune EXCEPT !.rx = at]
    <2> DEFINE tune == [x.tune EXCEPT !.rx = at]
               z == [x EXCEPT !.tune = tune, !.bbfdiv = div]
    <2>0. z = [x EXCEPT !.bbfdiv = div, !.tune.rx = at]
      <3> HIDE DEF at, div
      <3> QED BY DEF Form, Fields
    <2>1. a = run_calibration(z, "rxbb")
      <3>1. a = run_calibration([x EXCEPT !.bbfdiv = div, !.tune.rx = at], "rxbb")
        BY DEF rx_bb_analog_filter_calib
      <3> HIDE DEF a, z, at, div
      <3> QED BY <2>0, <3>1
    <2> HIDE DEF at, div
    <2>2. DOMAIN tune = {"rx", "tx", "tia", "second", "adc"} /\ tune.rx = at
      BY DEF Form
    <2> HIDE DEF tune
    <2>7. z = [x EXCEPT !.tune = tune, !.bbfdiv = div]
      OBVIOUS
    <2> HIDE DEF z
    <2>3. Retuned1(x, z) /\ z.tune = tune /\ z.bbfdiv = div
      BY <2>2, <2>7 DEF Retuned1, Form, Fields
    <2>4. Form(z) /\ z.late = x.late
      BY <2>3 DEF Retuned1
    <2> HIDE DEF z, a
    <2>5. Apart(z, a) /\ (x.late = {} => a.rc = 0)
      BY <2>1, <2>4, CalDoneApart
    <2>6. a.bbfdiv = z.bbfdiv
      BY <2>1, <2>4 DEF run_calibration, check_cal_done, Return, Form, Fields
    <2> QED BY <2>2, <2>3, <2>5, <2>6, RetunedTrans DEF Apart, Reclocked, tune
  <1> HIDE DEF a, div, at, dtx, class, second, bb
  <1>3. Retuned1(x, b) /\ b.bbfdiv = a.bbfdiv /\ b.tune.rx = a.tune.rx
        /\ (x.late = {} => b.rc = 0 /\ b.tune = [a.tune EXCEPT !.tx = dtx])
    <2> DEFINE tune == [a.tune EXCEPT !.tx = dtx]
               bbf == a.bbfdiv
               z == [a EXCEPT !.tune = tune, !.bbfdiv = bbf]
               w == [a EXCEPT !.tune.tx = dtx]
    <2>1. b = IF a.rc < 0 THEN a ELSE run_calibration(w, "txbb")
      BY DEF Then, tx_bb_analog_filter_calib, dtx
    <2>2. Form(a) /\ a.late = x.late
      BY <1>2 DEF Retuned1
    <2>3. DOMAIN tune = {"rx", "tx", "tia", "second", "adc"} /\ tune.rx = a.tune.rx
      BY <2>2 DEF Form
    <2>4. w = [a EXCEPT !.tune = tune]
      OBVIOUS
    <2> HIDE DEF tune, w
    <2>5. Retuned1(a, w) /\ w.tune = tune /\ w.bbfdiv = a.bbfdiv
      BY <2>2, <2>3, <2>4 DEF Retuned1, Form, Fields
    <2>6. Form(w) /\ w.late = x.late
      BY <2>2, <2>5 DEF Retuned1
    <2> DEFINE k == run_calibration(w, "txbb")
    <2>7. Apart(w, k) /\ (x.late = {} => k.rc = 0)
      BY <2>6, CalDoneApart
    <2>8. k.bbfdiv = w.bbfdiv
      BY <2>6 DEF run_calibration, check_cal_done, Return, Form, Fields
    <2> HIDE DEF k, b
    <2>9. Retuned1(x, k) /\ k.tune = tune
      BY <1>2, <2>5, <2>7, RetunedTrans DEF Apart, Reclocked
    <2>10. tune = [a.tune EXCEPT !.tx = dtx]
      BY DEF tune
    <2>11. CASE a.rc < 0
      <3>1. b = a
        BY <2>1, <2>11
      <3>2. x.late # {}
        BY <1>2, <2>11
      <3> QED BY <1>2, <3>1, <3>2
    <2>12. CASE ~(a.rc < 0)
      <3>1. b = k
        BY <2>1, <2>12 DEF k
      <3> QED BY <2>3, <2>5, <2>7, <2>8, <2>9, <2>10, <3>1
    <2> QED BY <2>11, <2>12
  <1> HIDE DEF b
  <1>4. ASSUME NEW t, Form(t), NEW tune, DOMAIN tune = {"rx", "tx", "tia", "second", "adc"}, NEW u,
               u = Ok([t EXCEPT !.tune = tune])
        PROVE  Retuned1(t, u) /\ u.rc = 0 /\ u.tune = tune /\ u.bbfdiv = t.bbfdiv
    BY <1>4 DEF Ok, Return, Retuned1, Form, Fields
  <1>5. Retuned1(x, c) /\ c.bbfdiv = b.bbfdiv /\ c.tune.rx = b.tune.rx
        /\ (x.late = {} => c.rc = 0 /\ c.tune = [b.tune EXCEPT !.tia = <<class, b.tune.rx>>])
    <2> DEFINE tune == [b.tune EXCEPT !.tia = <<class, b.tune.rx>>]
               k == Ok([b EXCEPT !.tune = tune])
    <2>1. c = IF b.rc < 0 THEN b ELSE k
      BY DEF Then, rx_tia_calib, class
    <2>2. Form(b)
      BY <1>3 DEF Retuned1
    <2>3. DOMAIN tune = {"rx", "tx", "tia", "second", "adc"} /\ tune.rx = b.tune.rx
      BY <2>2 DEF Form
    <2> HIDE DEF tune
    <2>4. Retuned1(b, k) /\ k.rc = 0 /\ k.tune = tune /\ k.bbfdiv = b.bbfdiv
      BY <1>4, <2>2, <2>3
    <2> HIDE DEF k, c
    <2>5. Retuned1(x, k)
      BY <1>3, <2>4, RetunedTrans
    <2> QED BY <1>3, <2>1, <2>3, <2>4, <2>5 DEF tune
  <1> HIDE DEF c
  <1>6. Retuned1(x, d) /\ d.bbfdiv = c.bbfdiv /\ d.tune.rx = c.tune.rx
        /\ (x.late = {} => d.rc = 0 /\ d.tune = [c.tune EXCEPT !.second = second])
    <2> DEFINE tune == [c.tune EXCEPT !.second = second]
               k == Ok([c EXCEPT !.tune = tune])
    <2>1. d = IF c.rc < 0 THEN c ELSE k
      BY DEF Then, tx_bb_second_filter_calib, second
    <2>2. Form(c)
      BY <1>5 DEF Retuned1
    <2>3. DOMAIN tune = {"rx", "tx", "tia", "second", "adc"} /\ tune.rx = c.tune.rx
      BY <2>2 DEF Form
    <2> HIDE DEF tune
    <2>4. Retuned1(c, k) /\ k.rc = 0 /\ k.tune = tune /\ k.bbfdiv = c.bbfdiv
      BY <1>4, <2>2, <2>3
    <2> HIDE DEF k, d
    <2>5. Retuned1(x, k)
      BY <1>5, <2>4, RetunedTrans
    <2> QED BY <1>5, <2>1, <2>3, <2>4, <2>5 DEF tune
  <1> HIDE DEF d
  <1> DEFINE adc == clk_get_rate(d, "ADC")
  <1>7. /\ Retuned1(x, e)
        /\ x.late = {} =>
             e.rc = 0 /\ e.tune = [d.tune EXCEPT !.adc = <<bb, adc, d.bbfdiv, d.tune.rx>>]
    <2> DEFINE tune == [d.tune EXCEPT !.adc = <<bb, adc, d.bbfdiv, d.tune.rx>>]
               k == Ok([d EXCEPT !.tune = tune])
    <2>1. e = IF d.rc < 0 THEN d ELSE k
      BY DEF Then, rx_adc_setup
    <2>2. Form(d)
      BY <1>6 DEF Retuned1
    <2> HIDE DEF adc
    <2>3. DOMAIN tune = {"rx", "tx", "tia", "second", "adc"}
      BY <2>2 DEF Form
    <2> HIDE DEF tune
    <2>4. Retuned1(d, k) /\ k.rc = 0 /\ k.tune = tune
      BY <1>4, <2>2, <2>3
    <2> HIDE DEF k, e
    <2>5. Retuned1(x, k)
      BY <1>6, <2>4, RetunedTrans
    <2> QED BY <1>6, <2>1, <2>4, <2>5 DEF tune
  <1> HIDE DEF e
  <1>8. ASSUME x.late = {} PROVE TunedTo(y, rx, tx)
    <2>1. /\ clk_get_rate(y, "BBPLL") = bb /\ clk_get_rate(y, "ADC") = adc
      <3>1. y.clk = x.clk /\ d.clk = x.clk
        BY <1>1, <1>6, <1>7, RetunedTrans
      <3> QED BY <3>1, ApartClocks DEF bb
    <2>2. d.bbfdiv = div /\ d.tune.rx = at /\ b.tune.rx = at
      BY <1>2, <1>3, <1>5, <1>6
    <2> DEFINE want == [rx |-> at, tx |-> dtx, tia |-> <<class, at>>, second |-> second,
                        adc |-> <<bb, adc, div, at>>]
    <2>3. TuneFor(bb, adc, rx, tx) = want
      BY DEF TuneFor, at, div, dtx, class, second
    <2> HIDE DEF adc
    <2>4. y.tune = want
      <3> DEFINE tia == <<class, at>>
                 last == <<bb, adc, div, at>>
      <3>1. /\ a.tune = [x.tune EXCEPT !.rx = at] /\ b.tune = [a.tune EXCEPT !.tx = dtx]
            /\ c.tune = [b.tune EXCEPT !.tia = tia] /\ d.tune = [c.tune EXCEPT !.second = second]
            /\ y.tune = [d.tune EXCEPT !.adc = last]
        BY <1>1, <1>2, <1>3, <1>5, <1>6, <1>7, <1>8, <2>2
      <3>2. DOMAIN x.tune = {"rx", "tx", "tia", "second", "adc"}
        BY DEF Form
      <3> HIDE DEF tia, last
      <3> HIDE DEF want
      <3>4. /\ DOMAIN y.tune = {"rx", "tx", "tia", "second", "adc"}
            /\ y.tune.rx = at /\ y.tune.tx = dtx /\ y.tune.tia = tia /\ y.tune.second = second
            /\ y.tune.adc = last /\ y.tune = [f \in DOMAIN y.tune |-> y.tune[f]]
        <4>1. /\ DOMAIN a.tune = {"rx", "tx", "tia", "second", "adc"} /\ a.tune.rx = at
          BY <3>1, <3>2
        <4>2. /\ DOMAIN b.tune = {"rx", "tx", "tia", "second", "adc"} /\ b.tune.rx = at
              /\ b.tune.tx = dtx
          BY <3>1, <4>1
        <4>3. /\ DOMAIN c.tune = {"rx", "tx", "tia", "second", "adc"} /\ c.tune.rx = at
              /\ c.tune.tx = dtx /\ c.tune.tia = tia
          BY <3>1, <4>2
        <4>4. /\ DOMAIN d.tune = {"rx", "tx", "tia", "second", "adc"} /\ d.tune.rx = at
              /\ d.tune.tx = dtx /\ d.tune.tia = tia /\ d.tune.second = second
          BY <3>1, <4>3
        <4>5. y.tune = [d.tune EXCEPT !.adc = last]
          BY <3>1
        <4> QED BY <4>4, <4>5
      <3>3. y.tune = [rx |-> at, tx |-> dtx, tia |-> tia, second |-> second, adc |-> last]
        BY <3>4
      <3> QED BY <3>3 DEF tia, last, want
    <2> QED BY <2>1, <2>3, <2>4 DEF TunedTo
  <1> QED BY <1>1, <1>7, <1>8

-----------------------------------------------------------------------------
(* Steps that are about other things.                                         *)
\* From x to y nothing that the clocks drive has changed, nor the clocks; a power-down
\* may have been asked for.
Aside(x, y) == /\ Form(y) /\ y.late = x.late /\ y.clk = x.clk
               /\ y.tune = x.tune /\ y.times = x.times /\ y.bw = x.bw
               /\ y.pd.ref = x.pd.ref /\ y.pd.bw = x.pd.bw /\ y.pd.clks = x.pd.clks
               /\ Powers(x) => Powers(y)

\* A step of a radio whose filters are set up for its bandwidth: they still are.
InStep(x, y) == /\ Paced(x, y)
                /\ x.late = {} /\ Running(x) /\ TuneIn(x) => TuneIn(y)

LEMMA AsideTrans ==
  ASSUME NEW x, NEW y, NEW z
  PROVE  /\ Aside(x, y) /\ Aside(y, z) => Aside(x, z)
         /\ Aside(x, y) => Form(y) /\ y.late = x.late
         /\ Apart(x, y) => Aside(x, y)
         /\ Form(x) => Aside(x, x)
  BY DEF Aside, Apart, Reclocked, Powers

LEMMA InStepTrans ==
  ASSUME NEW x, NEW y, NEW z
  PROVE  /\ InStep(x, y) /\ InStep(y, z) => InStep(x, z)
         /\ InStep(x, y) => Form(y) /\ y.late = x.late
         /\ Form(x) => InStep(x, x)
  BY DEF InStep, Paced

LEMMA AsideInStep ==
  ASSUME NEW x, NEW y, Aside(x, y)
  PROVE  /\ InStep(x, y) /\ Paced(x, y) /\ Form(y)
         /\ (TimesIn(x) <=> TimesIn(y)) /\ (TuneIn(x) <=> TuneIn(y))
         /\ (Running(x) <=> Running(y))
  <1>1. \A c : clk_get_rate(y, c) = clk_get_rate(x, c)
    BY ApartClocks DEF Aside
  <1>2. (Running(x) <=> Running(y)) /\ (TimesIn(x) <=> TimesIn(y)) /\ (TuneIn(x) <=> TuneIn(y))
    BY <1>1, ApartClocks DEF TimesIn, TuneIn, TunedTo, Aside
  <1> QED BY <1>2 DEF Aside, InStep, Paced

LEMMA ReturnAside ==
  ASSUME NEW x, Form(x), NEW r
  PROVE  /\ Aside(x, Return(x, r)) /\ Return(x, r).rc = r
         /\ Aside(x, Ok(x)) /\ Ok(x).rc = 0
  BY ReturnApart, AsideTrans

\* The state machine's record, the tracking's, the gain's and what else is beside.
LEMMA FieldsAside ==
  ASSUME NEW x, Form(x), NEW v
  PROVE  /\ Aside(x, [x EXCEPT !.en = v]) /\ Aside(x, [x EXCEPT !.trk = v])
         /\ Aside(x, [x EXCEPT !.fir = v]) /\ Aside(x, [x EXCEPT !.gain = v])
         /\ Aside(x, [x EXCEPT !.att = v]) /\ Aside(x, [x EXCEPT !.port = v])
         /\ Aside(x, [x EXCEPT !.qc = v]) /\ Aside(x, [x EXCEPT !.autocal = v])
         /\ Aside(x, [x EXCEPT !.dcxo = v]) /\ Aside(x, [x EXCEPT !.dcband = v])
         /\ Aside(x, [x EXCEPT !.mcsrf = v]) /\ Aside(x, [x EXCEPT !.rc = v])
  BY DEF Aside, Form, Fields, Powers

\* The platform data, but for what a setup takes the clocks and the bandwidth from.
LEMMA PdAside ==
  ASSUME NEW x, Form(x), NEW pd, DOMAIN pd = DOMAIN default_init_param,
         pd.ref = x.pd.ref, pd.bw = x.pd.bw, pd.clks = x.pd.clks
  PROVE  Aside(x, [x EXCEPT !.pd = pd])
  BY DEF Aside, Form, Fields, Powers

\* One synthesizer, with the power-down asked for in the radio.
LEMMA LoAside ==
  ASSUME NEW x, Form(x), NEW p \in Sides, NEW k, DOMAIN k = SynthFields,
         x.lo[p].chippd = x.lo[p].pd => k.chippd = k.pd
  PROVE  Aside(x, [x EXCEPT !.lo[p] = k])
  <1> DEFINE lo == [x.lo EXCEPT ![p] = k]
             y == [x EXCEPT !.lo = lo]
  <1>1. y = [x EXCEPT !.lo[p] = k]
    OBVIOUS
  <1>2. DOMAIN lo = Sides /\ lo[p] = k /\ \A q \in Sides \ {p} : lo[q] = x.lo[q]
    BY DEF Form
  <1> HIDE DEF lo
  <1>3. Aside(x, y)
    BY <1>2 DEF Aside, Form, Fields, Powers
  <1> QED BY <1>1, <1>3

-----------------------------------------------------------------------------
(* The state machine.                                                         *)
LEMMA EnAside ==
  ASSUME NEW x, Form(x), NEW st, NEW force, NEW pin
  PROVE  /\ Aside(x, tracking_control(x, st)) /\ Aside(x, Config1(x, force, pin))
         /\ Aside(x, ensm_force_state(x, st)) /\ Aside(x, ensm_restore_prev_state(x))
  <1>1. ASSUME NEW t, Aside(x, t), NEW f, NEW q
        PROVE  Aside(x, Config1(t, f, q))
    <2>1. PICK e : Config1(t, f, q) = [t EXCEPT !.en = e]
      BY DEF Config1
    <2> QED BY <1>1, <2>1, FieldsAside, AsideTrans
  <1>2. ASSUME NEW t, Aside(x, t), NEW e PROVE Aside(x, [t EXCEPT !.en = e])
    BY <1>2, FieldsAside, AsideTrans
  <1>3. Aside(x, x)
    BY AsideTrans
  <1>4. Aside(x, tracking_control(x, st))
    <2>1. PICK trk : tracking_control(x, st) = Ok([x EXCEPT !.trk = trk])
      BY DEF tracking_control
    <2>2. Aside(x, [x EXCEPT !.trk = trk])
      BY FieldsAside
    <2> QED BY <2>1, <2>2, ReturnAside, AsideTrans
  <1>5. Aside(x, ensm_force_state(x, st))
    <2> DEFINE kept == [x EXCEPT !.en.prev = x.en.dev]
               e == [kept.en EXCEPT !.pinctl = x.en.pin]
               flag == [kept EXCEPT !.en = e]
               forced(force1) == Config1(flag, force1, FALSE)
    <2>1. Aside(x, kept)
      BY <1>2, <1>3
    <2>2. Aside(x, flag)
      BY <1>2, <2>1
    <2>3. ensm_force_state(x, st) \in {kept, forced("TX"), forced("RX"), forced("ALERT"), flag}
      BY DEF ensm_force_state
    <2> HIDE DEF kept, flag
    <2>4. \A g : Aside(x, forced(g))
      BY <1>1, <2>2
    <2> QED BY <2>1, <2>2, <2>3, <2>4
  <1>6. Aside(x, ensm_restore_prev_state(x))
    <2> DEFINE on(g) == Config1(Config1(x, "ALERT", FALSE), g, x.en.pin)
               back(t) == IF x.en.pinctl THEN [t EXCEPT !.en.pin = TRUE] ELSE t
    <2>1. ensm_restore_prev_state(x) \in {back(on("TX")), back(on("RX")), back(on("none")), x}
      BY DEF ensm_restore_prev_state, ensm_restore_state
    <2>2. \A g : Aside(x, on(g))
      BY <1>1, <1>3
    <2> HIDE DEF on
    <2>3. ASSUME NEW t, Aside(x, t) PROVE Aside(x, back(t))
      <3>1. Aside(x, [t EXCEPT !.en.pin = TRUE])
        BY <1>2, <2>3
      <3> QED BY <2>3, <3>1
    <2> HIDE DEF back
    <2> QED BY <1>3, <2>1, <2>2, <2>3
  <1> QED BY <1>1, <1>3, <1>4, <1>5, <1>6

LEMMA HoldAside ==
  ASSUME NEW x, Form(x) PROVE Aside(x, Suspend(x)) /\ Aside(x, Resume(x))
  <1>1. \A t : Aside(x, t) => Form(t)
    BY AsideTrans
  <1>2. /\ Aside(x, tracking_control(x, {})) /\ Aside(x, tracking_control(x, x.trk.want))
    BY EnAside
  <1> DEFINE a == tracking_control(x, {})
             b == tracking_control(x, x.trk.want)
  <1>3. Aside(a, ensm_force_state(a, "ALERT")) /\ Aside(b, ensm_restore_prev_state(b))
    BY <1>1, <1>2, EnAside
  <1>4. Suspend(x) = ensm_force_state(a, "ALERT") /\ Resume(x) = ensm_restore_prev_state(b)
    BY DEF Suspend, Resume
  <1> HIDE DEF a, b
  <1> QED BY <1>2, <1>3, <1>4, AsideTrans DEF a, b

-----------------------------------------------------------------------------
(* The calibrations.                                                          *)
\* The filters may be set up anew, and if nothing fails are as the bandwidth says again.
Filtered(x, y) == /\ Form(y) /\ y.late = x.late /\ y.clk = x.clk
                  /\ y.times = x.times /\ y.bw = x.bw
                  /\ y.pd.ref = x.pd.ref /\ y.pd.bw = x.pd.bw /\ y.pd.clks = x.pd.clks
                  /\ x.late = {} /\ TuneIn(x) => TuneIn(y)

LEMMA FilteredTrans ==
  ASSUME NEW x, NEW y, NEW z
  PROVE  /\ Filtered(x, y) /\ Filtered(y, z) => Filtered(x, z)
         /\ Filtered(x, y) => Form(y) /\ y.late = x.late
         /\ Form(x) => Filtered(x, x)
         /\ Aside(x, y) => Filtered(x, y)
  <1>1. Aside(x, y) => (TuneIn(x) <=> TuneIn(y))
    BY AsideInStep
  <1> QED BY <1>1 DEF Filtered, Aside

LEMMA FilteredInStep ==
  ASSUME NEW x, NEW y, Filtered(x, y), Powers(x) => Powers(y)
  PROVE  InStep(x, y)
  <1>1. \A c : clk_get_rate(y, c) = clk_get_rate(x, c)
    BY ApartClocks DEF Filtered
  <1>2. (Running(x) <=> Running(y)) /\ (TimesIn(x) <=> TimesIn(y))
    BY <1>1, ApartClocks DEF TimesIn, Filtered
  <1> QED BY <1>2 DEF InStep, Paced, Filtered

LEMMA CalAside ==
  ASSUME NEW x, Form(x), NEW cal
  PROVE  /\ Aside(x, check_cal_done(x, cal)) /\ Aside(x, run_calibration(x, cal))
         /\ x.late = {} => check_cal_done(x, cal).rc = 0 /\ run_calibration(x, cal).rc = 0
  BY CalDoneApart, AsideTrans

LEMMA DcAside ==
  ASSUME NEW x, Form(x), NEW f
  PROVE  Aside(x, bb_dc_offset_calib(x)) /\ Aside(x, rf_dc_offset_calib(x, f))
  <1> DEFINE trk == [x.trk EXCEPT !.chip = x.trk.chip \ {"bbdc", "rfdc"}]
             band == f > 4000
             a == [x EXCEPT !.trk = trk]
             b == [a EXCEPT !.dcband = band]
  <1>1. rf_dc_offset_calib(x, f) = run_calibration(b, "rfdc")
    BY DEF rf_dc_offset_calib
  <1>2. Aside(x, a)
    BY FieldsAside
  <1>5. Form(a)
    BY <1>2, AsideTrans
  <1> HIDE DEF a, band
  <1>3. Aside(a, b)
    BY <1>5, FieldsAside
  <1> HIDE DEF b
  <1>4. Aside(x, b) /\ Form(b)
    BY <1>2, <1>3, AsideTrans
  <1> QED BY <1>1, <1>4, CalAside, AsideTrans DEF bb_dc_offset_calib

LEMMA QuadRunsAside ==
  ASSUME NEW x, Form(x), NEW phase, NEW forced
  PROVE  Aside(x, quad_runs(x, phase, forced))
  <1>1. ASSUME NEW v, NEW r PROVE Aside(x, [[x EXCEPT !.qc = v] EXCEPT !.rc = r])
    <2>1. Aside(x, [x EXCEPT !.qc = v])
      BY FieldsAside
    <2> QED BY <2>1, FieldsAside, AsideTrans
  <1>2. PICK v, r : tx_quad_phase_search(x) = [[x EXCEPT !.qc = v] EXCEPT !.rc = r]
    <2> DEFINE v == [x.qc EXCEPT !.phase = IF x.quad.search = "late" THEN x.qc.phase ELSE x.quad.phase]
               r == IF x.quad.search = "ok" THEN 0 ELSE ETIMEDOUT
    <2>1. tx_quad_phase_search(x) = [x EXCEPT !.qc = v, !.rc = r]
      BY DEF tx_quad_phase_search
    <2> HIDE DEF v, r
    <2>2. [x EXCEPT !.qc = v, !.rc = r] = [[x EXCEPT !.qc = v] EXCEPT !.rc = r]
      OBVIOUS
    <2> QED BY <2>1, <2>2
  <1> DEFINE b == tx_quad_phase_search(x)
  <1>3. Aside(x, b)
    <2>1. b = [[x EXCEPT !.qc = v] EXCEPT !.rc = r]
      BY <1>2
    <2>2. Aside(x, [[x EXCEPT !.qc = v] EXCEPT !.rc = r])
      BY <1>1
    <2> HIDE DEF b
    <2> QED BY <2>1, <2>2
  <1> DEFINE w == [x.qc EXCEPT !.phase = phase]
             a == [x EXCEPT !.qc = w]
  <1>4. quad_runs(x, phase, forced) \in
          {tx_quad_phase_search(x), Ok(a), Return(a, ETIMEDOUT), Ok(x)}
    BY DEF quad_runs, Form, QuadAnswers
  <1>5. Aside(x, a)
    BY FieldsAside
  <1> HIDE DEF a
  <1>6. Aside(x, Ok(a)) /\ Aside(x, Return(a, ETIMEDOUT)) /\ Aside(x, Ok(x))
    BY <1>5, ReturnAside, AsideTrans
  <1> QED BY <1>3, <1>4, <1>6

\* Of the power-downs only which are asked for matters.
LEMMA PowerdownIs ==
  ASSUME NEW x, Form(x), NEW rx, NEW tx, NEW y, y = synth_lo_powerdown(x, rx, tx)
  PROVE  Aside(x, y) /\ Filtered(x, y) /\ Powers(y)
  <1> DEFINE pd(p, ctrl) == CASE ctrl = "off" -> x.lo[p].pd \cup {"LO"}
                              [] ctrl = "on" -> x.lo[p].pd \ {"LO"}
                              [] ctrl = "dontcare" -> x.lo[p].pd
             want == [rx |-> pd("rx", rx), tx |-> pd("tx", tx)]
             lo == [p \in Sides |-> [x.lo[p] EXCEPT !.pd = want[p], !.chippd = want[p]]]
             z == [x EXCEPT !.lo = lo]
  <1>1. y = Ok(z)
    BY DEF synth_lo_powerdown, Form
  <1> HIDE DEF want
  <1>2. /\ DOMAIN lo = Sides
        /\ \A p \in Sides : DOMAIN lo[p] = SynthFields /\ lo[p].chippd = lo[p].pd
    BY DEF Form, SynthFields
  <1> HIDE DEF lo
  <1>3. Aside(x, z) /\ Powers(z)
    BY <1>2 DEF Aside, Form, Fields, Powers
  <1> HIDE DEF z
  <1>4. Aside(z, y)
    BY <1>1, <1>3, ReturnAside, AsideTrans
  <1> QED BY <1>3, <1>4, AsideTrans, FilteredTrans DEF Aside

LEMMA QuadWideIs ==
  ASSUME NEW x, Form(x), NEW bwrx, NEW bwtx, NEW nco, NEW phase, NEW forced,
         NEW y, y = quad_wide(x, bwrx, bwtx, nco, phase, forced)
  PROVE  Filtered(x, y) /\ (Powers(x) => Powers(y))
  <1> DEFINE f == update_filters(x, nco * 8, nco * 8)
             run(t) == quad_runs(t, phase, forced)
             u == run(f)
             g == update_filters(u, u.bw.rx, u.bw.tx)
             z == Return(g, u.rc)
  <1>1. y \in {run(x), f, z} /\ (y = f /\ y # z /\ y # run(x) => f.rc < 0)
    BY DEF quad_wide, Then, Always
  <1>2. Retuned1(x, f) /\ (x.late = {} => f.rc = 0)
    BY FiltersAre
  <1>3. Form(f)
    BY <1>2 DEF Retuned1
  <1>8. Aside(x, run(x))
    BY QuadRunsAside
  <1> HIDE DEF f
  <1>4. Aside(f, u)
    BY <1>3, QuadRunsAside
  <1>5. Form(u)
    BY <1>4, AsideTrans
  <1> HIDE DEF u, run
  <1>6. Retuned1(u, g) /\ (u.late = {} => TuneIn(g))
    <2>1. Retuned1(u, g) /\ (u.late = {} => TunedTo(g, u.bw.rx, u.bw.tx))
      BY <1>5, FiltersAre
    <2> QED BY <2>1 DEF TuneIn, Retuned1
  <1>7. Form(g)
    BY <1>6 DEF Retuned1
  <1> HIDE DEF g
  <1>9. Aside(g, z)
    BY <1>7, ReturnAside
  <1> HIDE DEF z
  <1>10. CASE y = run(x)
    BY <1>8, <1>10, FilteredTrans DEF Aside
  <1>11. CASE y = f /\ f.rc < 0
    <2>1. x.late # {}
      BY <1>2, <1>11
    <2> QED BY <1>2, <1>11, <2>1 DEF Filtered, Retuned1, Powers
  <1>12. CASE y = z
    <2>1. /\ Form(g) /\ g.late = x.late /\ g.clk = x.clk /\ g.times = x.times /\ g.bw = x.bw
          /\ g.pd.ref = x.pd.ref /\ g.pd.bw = x.pd.bw /\ g.pd.clks = x.pd.clks
          /\ (Powers(x) => Powers(g)) /\ (x.late = {} => TuneIn(g))
      <3>1. (Powers(x) => Powers(f)) /\ (Powers(f) => Powers(u)) /\ (Powers(u) => Powers(g))
        BY <1>2, <1>4, <1>6 DEF Retuned1, Aside, Powers
      <3> QED BY <1>2, <1>4, <1>6, <3>1 DEF Retuned1, Aside
    <2>2. Filtered(x, g) /\ Filtered(g, z) /\ (Powers(g) => Powers(z))
      BY <1>9, <2>1, FilteredTrans DEF Filtered, Aside
    <2> QED BY <1>12, <2>1, <2>2, FilteredTrans
  <1> QED BY <1>1, <1>10, <1>11, <1>12

LEMMA TxQuadIs ==
  ASSUME NEW x, Form(x), NEW bwrx, NEW bwtx, NEW arg, NEW y, y = tx_quad_calib(x, bwrx, bwtx, arg)
  PROVE  Filtered(x, y) /\ (Powers(x) => Powers(y))
  <1> DEFINE rf == clk_get_rate(x, "CLKRF")
             tf == clk_get_rate(x, "CLKTF")
             at(t) == quad_at(t, bwrx, bwtx, arg, rf, tf)
             tx == "tx"
             k == [x.lo[tx] EXCEPT !.chippd = x.lo[tx].chippd \ {"LO"}]
             up == [x EXCEPT !.lo[tx] = k]
             a == at(up)
             b == synth_lo_powerdown(a, "dontcare", "dontcare")
             z == Return(b, a.rc)
  <1>0. tx \in Sides /\ tx = "tx"
    BY DEF Sides
  <1>1. y \in {Return(x, EFAULT), at(x), z}
    <2>1. [x EXCEPT !.lo.tx.chippd = x.lo.tx.chippd \ {"LO"}] = up
      OBVIOUS
    <2> HIDE DEF up
    <2>2. tx_quad_calib(x, bwrx, bwtx, arg) \in {Return(x, EFAULT), at(x), z}
      BY <2>1 DEF tx_quad_calib, Always
    <2> QED BY <2>2
  <1>2. ASSUME NEW t, Form(t) PROVE Filtered(t, at(t)) /\ (Powers(t) => Powers(at(t)))
    BY <1>2, QuadWideIs DEF quad_at
  <1>3. Filtered(x, up)
    <2>1. DOMAIN k = SynthFields
      BY <1>0 DEF Form
    <2> HIDE DEF k, tx
    <2> DEFINE lo == [x.lo EXCEPT ![tx] = k]
    <2>2. DOMAIN lo = Sides /\ \A p \in Sides : DOMAIN lo[p] = SynthFields
      BY <1>0, <2>1 DEF Form
    <2>3. up = [x EXCEPT !.lo = lo]
      OBVIOUS
    <2> HIDE DEF lo, up
    <2>4. Form(up) /\ up.late = x.late /\ up.clk = x.clk /\ up.times = x.times /\ up.bw = x.bw
          /\ up.pd = x.pd /\ up.tune = x.tune
      BY <2>2, <2>3 DEF Form, Fields
    <2>5. \A c : clk_get_rate(up, c) = clk_get_rate(x, c)
      BY <2>4, ApartClocks
    <2> QED BY <2>4, <2>5 DEF Filtered, TuneIn, TunedTo
  <1> HIDE DEF up
  <1>4. Filtered(up, a)
    BY <1>2, <1>3 DEF Filtered
  <1>5. Filtered(x, at(x)) /\ (Powers(x) => Powers(at(x)))
    BY <1>2
  <1> HIDE DEF a, at
  <1>6. Filtered(a, b) /\ Powers(b) /\ Form(b)
    BY <1>4, PowerdownIs DEF Filtered
  <1> HIDE DEF b
  <1>7. Filtered(b, z) /\ Powers(z)
    BY <1>6, ReturnAside, FilteredTrans DEF Aside
  <1> HIDE DEF z
  <1>8. Filtered(x, z)
    BY <1>3, <1>4, <1>6, <1>7, FilteredTrans
  <1>9. Filtered(x, Return(x, EFAULT)) /\ (Powers(x) => Powers(Return(x, EFAULT)))
    BY ReturnAside, FilteredTrans DEF Aside
  <1> QED BY <1>1, <1>5, <1>7, <1>8, <1>9

LEMMA CalibIs ==
  ASSUME NEW x, Form(x), NEW cal, NEW arg, NEW y, y = do_calib_run(x, cal, arg)
  PROVE  Filtered(x, y) /\ (Powers(x) => Powers(y)) /\ InStep(x, y)
  <1> DEFINE a == Suspend(x)
             b == calib(a, cal, arg)
  <1>1. Aside(x, a)
    BY HoldAside
  <1>5. y = Resume(b)
    BY DEF do_calib_run
  <1> HIDE DEF a
  <1>2. Form(a)
    BY <1>1, AsideTrans
  <1>3. Filtered(a, b) /\ (Powers(a) => Powers(b))
    <2>1. b \in {tx_quad_calib(a, a.bw.rx \div 2, a.bw.tx \div 2, arg),
                 rf_dc_offset_calib(a, rfpll_recalc_rate(a, "rx")), a}
      BY DEF calib
    <2>2. Aside(a, rf_dc_offset_calib(a, rfpll_recalc_rate(a, "rx"))) /\ Aside(a, a)
      BY <1>2, DcAside, AsideTrans
    <2> HIDE DEF b
    <2>3. CASE b = tx_quad_calib(a, a.bw.rx \div 2, a.bw.tx \div 2, arg)
      BY <1>2, <2>3, TxQuadIs
    <2> QED BY <2>1, <2>2, <2>3, FilteredTrans DEF Aside
  <1> HIDE DEF b
  <1>4. Aside(b, y)
    BY <1>3, <1>5, HoldAside, FilteredTrans
  <1>6. Filtered(x, y) /\ (Powers(x) => Powers(y))
    BY <1>1, <1>3, <1>4, FilteredTrans DEF Aside
  <1> QED BY <1>6, FilteredInStep

\* A change of the bandwidth, as every change of the clocks ends with.
Banded(x, y) == Paced(x, y) /\ (x.late = {} => TuneIn(y))

LEMMA BandedInStep ==
  ASSUME NEW x, NEW y, NEW z
  PROVE  /\ Banded(x, y) => InStep(x, y)
         /\ Paced(x, y) /\ Banded(y, z) => Banded(x, z)
         /\ Banded(x, y) /\ Aside(y, z) => Banded(x, z)
  <1>1. Aside(y, z) => Paced(y, z) /\ (TuneIn(y) <=> TuneIn(z))
    BY AsideInStep
  <1> QED BY <1>1, PacedTrans DEF Banded, InStep, Paced

LEMMA BandwidthIs ==
  ASSUME NEW x, Form(x), NEW rx, NEW tx, NEW y, y = update_rf_bandwidth(x, rx, tx)
  PROVE  Banded(x, y)
  <1> DEFINE h == Suspend(x)
             a == update_filters(h, rx, tx)
             bw == [side \in Sides |-> IF side = "rx" THEN rx ELSE tx]
             n == [a EXCEPT !.bw = bw]
             q == tx_quad_calib(n, rx \div 2, tx \div 2, -1)
             b == IF a.rc < 0 THEN a ELSE q
             r == Resume(b)
  <1>1. y = IF b.rc < 0 THEN b ELSE r
    <2>1. [rx |-> rx, tx |-> tx] = bw
      BY DEF Sides
    <2> HIDE DEF bw
    <2> QED BY <2>1 DEF update_rf_bandwidth, Then
  <1>2. Aside(x, h)
    BY HoldAside
  <1>3. Form(h)
    BY <1>2, AsideTrans
  <1> HIDE DEF h
  <1>4. Retuned1(h, a) /\ (h.late = {} => a.rc = 0 /\ TunedTo(a, rx, tx))
    BY <1>3, FiltersAre
  <1> HIDE DEF a
  <1>5. /\ Form(n) /\ n.bw = bw /\ n.clk = a.clk /\ n.late = a.late /\ n.times = a.times
        /\ n.tune = a.tune /\ n.pd = a.pd /\ n.lo = a.lo /\ DOMAIN bw = Sides
    BY <1>4 DEF Retuned1, Form, Fields
  <1>6. bw.rx = rx /\ bw.tx = tx
    BY DEF Sides
  <1> HIDE DEF bw, n
  <1>7. \A c : clk_get_rate(n, c) = clk_get_rate(a, c)
    BY <1>5, ApartClocks
  <1>8. TunedTo(a, rx, tx) => TuneIn(n)
    BY <1>5, <1>6, <1>7 DEF TuneIn, TunedTo
  <1>9. Filtered(n, q) /\ (Powers(n) => Powers(q))
    BY <1>5, TxQuadIs
  <1> HIDE DEF q
  <1>10. /\ Form(b) /\ b.late = x.late /\ b.clk = x.clk /\ b.times = x.times
         /\ b.pd.ref = x.pd.ref /\ b.pd.bw = x.pd.bw /\ b.pd.clks = x.pd.clks
         /\ (Powers(x) => Powers(b)) /\ (x.late = {} => TuneIn(b))
    <2>1. Powers(n) <=> Powers(a)
      BY <1>5 DEF Powers
    <2>2. Powers(h) => Powers(a)
      BY <1>4 DEF Powers, Retuned1
    <2>3. CASE a.rc < 0
      <3>1. b = a /\ x.late # {}
        BY <1>2, <1>4, <2>3 DEF Aside
      <3> HIDE DEF b
      <3> QED BY <1>2, <1>4, <2>2, <3>1 DEF Aside, Retuned1
    <2>4. CASE ~(a.rc < 0)
      <3>1. b = q
        BY <2>4
      <3> HIDE DEF b
      <3>2. x.late = {} => TuneIn(q)
        BY <1>2, <1>4, <1>5, <1>8, <1>9 DEF Aside, Retuned1, Filtered
      <3> QED BY <1>2, <1>4, <1>5, <1>9, <2>1, <2>2, <3>1, <3>2 DEF Aside, Retuned1, Filtered
    <2> QED BY <2>3, <2>4
  <1> HIDE DEF b
  <1>11. Banded(x, b)
    <2>1. \A c : clk_get_rate(b, c) = clk_get_rate(x, c)
      BY <1>10, ApartClocks
    <2>2. (Running(x) <=> Running(b)) /\ (TimesIn(x) <=> TimesIn(b))
      BY <1>10, <2>1, ApartClocks DEF TimesIn
    <2> QED BY <1>10, <2>2 DEF Banded, Paced
  <1>12. Aside(b, r)
    BY <1>10, HoldAside
  <1> QED BY <1>1, <1>11, <1>12, BandedInStep

\* The clocks, and the bandwidth after them.
LEMMA ClocksBanded ==
  ASSUME NEW x, Form(x), NEW rx, NEW tx, NEW c, c = set_trx_clock_chain(x, rx, tx)
  PROVE  /\ Paced(x, c) /\ Form(c) /\ (c.rc < 0 => Aside(x, c))
         /\ \A brx, btx : Banded(x, update_rf_bandwidth(c, brx, btx))
  <1>1. Paced(x, c) /\ (c.rc < 0 => Apart(x, c))
    BY ChainIs
  <1>2. Form(c)
    BY <1>1 DEF Paced
  <1> QED BY <1>1, <1>2, BandwidthIs, BandedInStep, AsideTrans

LEMMA SamplingIs ==
  ASSUME NEW x, Form(x), NEW rate PROVE InStep(x, set_sampling_freq(x, rate))
  <1> DEFINE plan == Plan(x, rate)
             c == set_trx_clock_chain(x, plan.rx, plan.tx)
  <1>1. set_sampling_freq(x, rate) = IF plan.rc < 0 THEN Return(x, plan.rc)
                                     ELSE update_rf_bandwidth(c, x.bw.rx, x.bw.tx)
    BY DEF set_sampling_freq
  <1>2. Banded(x, update_rf_bandwidth(c, x.bw.rx, x.bw.tx))
    BY ClocksBanded
  <1> HIDE DEF c, plan
  <1> QED BY <1>1, <1>2, BandedInStep, ReturnAside, AsideInStep

LEMMA BandwidthIn ==
  ASSUME NEW x, Form(x), NEW p, NEW bw PROVE InStep(x, set_rf_bandwidth(x, p, bw))
  <1> DEFINE b == [x.bw EXCEPT ![p] = validate_rf_bw(x, bw)]
  <1>1. set_rf_bandwidth(x, p, bw) \in {Ok(x), update_rf_bandwidth(x, b.rx, b.tx)}
    BY DEF set_rf_bandwidth
  <1> HIDE DEF b
  <1> QED BY <1>1, BandwidthIs, BandedInStep, ReturnAside, AsideInStep

LEMMA PathClksIn ==
  ASSUME NEW x, Form(x), NEW rx, NEW tx PROVE InStep(x, set_trx_path_clks(x, rx, tx))
  <1> DEFINE c == set_trx_clock_chain(x, rx, tx)
  <1>1. set_trx_path_clks(x, rx, tx) = IF c.rc < 0 THEN c ELSE update_rf_bandwidth(c, c.bw.rx, c.bw.tx)
    BY DEF set_trx_path_clks, Then
  <1>2. (c.rc < 0 => Aside(x, c)) /\ Banded(x, update_rf_bandwidth(c, c.bw.rx, c.bw.tx))
    BY ClocksBanded
  <1> HIDE DEF c
  <1> QED BY <1>1, <1>2, BandedInStep, AsideInStep

-----------------------------------------------------------------------------
(* The filters of the caller.                                                 *)
LEMMA LoadCoefAside ==
  ASSUME NEW x, Form(x), NEW p, NEW cfg PROVE Aside(x, load_fir_filter_coef(x, p, cfg))
  <1> DEFINE a == ensm_force_state(x, "ALERT")
             m == [a EXCEPT !.fir.taps[p] = cfg.taps]
             b == [m EXCEPT !.fir.chip[p] = [taps |-> cfg.taps, dest |-> cfg.dest]]
             c == ensm_restore_prev_state(b)
  <1>1. load_fir_filter_coef(x, p, cfg) \in {Return(x, EINVAL), Ok(c)}
    <2>1. b = [a EXCEPT !.fir.taps[p] = cfg.taps,
                        !.fir.chip[p] = [taps |-> cfg.taps, dest |-> cfg.dest]]
      OBVIOUS
    <2> HIDE DEF b
    <2> QED BY <2>1 DEF load_fir_filter_coef
  <1>2. Aside(x, a)
    BY EnAside
  <1>3. Form(a)
    BY <1>2, AsideTrans
  <1> HIDE DEF a
  <1>9. Aside(a, m)
    <2> DEFINE v == [a.fir EXCEPT !.taps[p] = cfg.taps]
    <2>1. m = [a EXCEPT !.fir = v]
      OBVIOUS
    <2> HIDE DEF m, v
    <2> QED BY <1>3, <2>1, FieldsAside
  <1>10. Form(m)
    BY <1>9, AsideTrans
  <1> HIDE DEF m
  <1>4. Aside(a, b)
    <2> DEFINE v == [m.fir EXCEPT !.chip[p] = [taps |-> cfg.taps, dest |-> cfg.dest]]
    <2>1. b = [m EXCEPT !.fir = v]
      OBVIOUS
    <2> HIDE DEF b, v
    <2>2. Aside(m, b)
      BY <1>10, <2>1, FieldsAside
    <2> QED BY <1>9, <2>2, AsideTrans
  <1>5. Form(b)
    BY <1>4, AsideTrans
  <1> HIDE DEF b
  <1>6. Aside(b, c)
    BY <1>5, EnAside
  <1>7. Form(c)
    BY <1>6, AsideTrans
  <1> HIDE DEF c
  <1>8. Aside(c, Ok(c)) /\ Aside(x, Return(x, EINVAL))
    BY <1>7, ReturnAside
  <1> QED BY <1>1, <1>2, <1>4, <1>6, <1>8, AsideTrans

LEMMA FirConfigAside ==
  ASSUME NEW x, Form(x), NEW cfg
  PROVE  Aside(x, set_rx_fir_config(x, cfg)) /\ Aside(x, set_tx_fir_config(x, cfg))
  <1> DEFINE r == [x.fir EXCEPT !.rxdec = cfg.factor]
             t == [x.fir EXCEPT !.txint = cfg.factor]
             a == [x EXCEPT !.fir = r]
             b == [x EXCEPT !.fir = t]
  <1>1. /\ set_rx_fir_config(x, cfg) = load_fir_filter_coef(a, "rx", cfg)
        /\ set_tx_fir_config(x, cfg) = load_fir_filter_coef(b, "tx", cfg)
    BY DEF set_rx_fir_config, set_tx_fir_config
  <1> HIDE DEF r, t
  <1>2. Aside(x, a) /\ Aside(x, b)
    BY FieldsAside
  <1> HIDE DEF a, b
  <1>3. Form(a) /\ Form(b)
    BY <1>2, AsideTrans
  <1> QED BY <1>1, <1>2, <1>3, LoadCoefAside, AsideTrans

LEMMA FirEnableIn ==
  ASSUME NEW x, Form(x), NEW ps, NEW on PROVE InStep(x, set_fir_en_dis(x, ps, on))
  <1>1. ASSUME NEW u, Form(u), NEW by PROVE Aside(u, bypass(u, ps, by))
    <2> DEFINE f == [u.fir EXCEPT !.rxby = IF "rx" \in ps THEN by ELSE u.fir.rxby]
               g == [f EXCEPT !.txby = IF "tx" \in ps THEN by ELSE f.txby]
               w == [u EXCEPT !.fir = f]
               v == [w EXCEPT !.fir = g]
    <2>1. bypass(u, ps, by) = [u EXCEPT !.fir.rxby = IF "rx" \in ps THEN by ELSE u.fir.rxby,
                                        !.fir.txby = IF "tx" \in ps THEN by ELSE f.txby]
      BY <1>1 DEF bypass, Form, Fields
    <2> QED BY <1>1, <2>1 DEF bypass, Aside, Form, Fields, Powers
  <1>2. ASSUME NEW u, Form(u), NEW c PROVE InStep(u, enable_on(u, c))
    <2> DEFINE k == set_trx_clock_chain(u, c.rx, c.tx)
               b == update_rf_bandwidth(k, c.bw.rx, c.bw.tx)
    <2>1. enable_on(u, c) \in {Return(u, c.rc), Return(u, EINVAL), IF k.rc < 0 THEN k ELSE b}
      BY DEF enable_on, Then
    <2>2. (k.rc < 0 => Aside(u, k)) /\ Banded(u, b)
      BY <1>2, ClocksBanded
    <2> HIDE DEF b, k
    <2>3. Aside(u, Return(u, c.rc)) /\ Aside(u, Return(u, EINVAL))
      BY <1>2, ReturnAside
    <2> QED BY <2>1, <2>2, <2>3, BandedInStep, AsideInStep
  <1>3. ASSUME NEW u, Form(u) PROVE InStep(u, validate_enable_fir(u))
    <2>1. validate_enable_fir(u) \in {enable_on(u, FirChain(u)), Return(u, EINVAL)}
      BY DEF validate_enable_fir
    <2> QED BY <1>2, <1>3, <2>1, ReturnAside, AsideInStep
  <1> DEFINE a == bypass(x, ps, ~on)
             b == validate_enable_fir(a)
             c == bypass(b, ps, TRUE)
  <1>4. set_fir_en_dis(x, ps, on) \in {Ok(x), b, c}
    BY DEF set_fir_en_dis
  <1>5. Aside(x, a)
    <2> DEFINE by == ~on
    <2>1. a = bypass(x, ps, by)
      OBVIOUS
    <2> HIDE DEF by, a
    <2> QED BY <1>1, <2>1
  <1>6. Form(a)
    BY <1>5, AsideTrans
  <1> HIDE DEF a
  <1>7. InStep(a, b)
    BY <1>3, <1>6
  <1>8. Form(b)
    BY <1>7, InStepTrans
  <1> HIDE DEF b
  <1>9. Aside(b, c)
    <2> DEFINE by == TRUE
    <2>1. c = bypass(b, ps, by)
      OBVIOUS
    <2> HIDE DEF by, c
    <2> QED BY <1>1, <1>8, <2>1
  <1> HIDE DEF c
  <1>10. InStep(x, b) /\ InStep(x, c)
    BY <1>5, <1>7, <1>9, AsideInStep, InStepTrans
  <1> QED BY <1>4, <1>10, ReturnAside, AsideInStep

LEMMA LoadEnableIn ==
  ASSUME NEW x, Form(x), NEW rxcfg, NEW txcfg PROVE InStep(x, trx_load_enable_fir(x, rxcfg, txcfg))
  <1> DEFINE clks(p, cfg) == IF cfg.clks.sampl # 0 THEN cfg.clks ELSE x.fir.clks[p]
             paths == [rx |-> clks("rx", rxcfg), tx |-> clks("tx", txcfg)]
             bws == [rx |-> rxcfg.bw, tx |-> txcfg.bw]
             fir == [x.fir EXCEPT !.valid = FALSE, !.bw = bws, !.clks = paths]
             a == [x EXCEPT !.fir.valid = FALSE, !.fir.bw = bws, !.fir.clks = paths]
             b == set_tx_fir_config(a, txcfg)
             c == set_rx_fir_config(b, rxcfg)
             ok == rxcfg.clks.sampl # 0 /\ txcfg.clks.sampl # 0
             valid == [c.fir EXCEPT !.valid = ok]
             d == [c EXCEPT !.fir = valid]
             e == set_fir_en_dis(d, {"rx", "tx"}, TRUE)
  <1>1. trx_load_enable_fir(x, rxcfg, txcfg) = Ok(e)
    BY DEF trx_load_enable_fir
  <1> HIDE DEF paths, bws, ok
  <1>2. Aside(x, a)
    BY DEF Aside, Form, Fields, Powers
  <1>3. Form(a)
    BY <1>2, AsideTrans
  <1> HIDE DEF a
  <1>4. Aside(a, b)
    BY <1>3, FirConfigAside
  <1>5. Form(b)
    BY <1>4, AsideTrans
  <1> HIDE DEF b
  <1>6. Aside(b, c)
    BY <1>5, FirConfigAside
  <1>7. Form(c)
    BY <1>6, AsideTrans
  <1> HIDE DEF c, valid
  <1>8. Aside(c, d)
    BY <1>7, FieldsAside
  <1>9. Form(d)
    BY <1>8, AsideTrans
  <1> HIDE DEF d
  <1>10. InStep(d, e)
    <2> DEFINE ps == {"rx", "tx"}
               yes == TRUE
    <2>1. e = set_fir_en_dis(d, ps, yes)
      OBVIOUS
    <2> HIDE DEF ps, yes, e
    <2> QED BY <1>9, <2>1, FirEnableIn
  <1>11. Form(e)
    BY <1>10, InStepTrans
  <1> HIDE DEF e
  <1>12. InStep(x, d) /\ InStep(e, Ok(e))
    BY <1>2, <1>4, <1>6, <1>8, <1>11, ReturnAside, AsideTrans, AsideInStep
  <1> QED BY <1>1, <1>10, <1>12, InStepTrans

-----------------------------------------------------------------------------
(* The other calls on the side.                                               *)
LEMMA TimesInStep ==
  ASSUME NEW x, Form(x), NEW y, y \in {gc_update(x), rssi_setup(x), auxadc_setup(x)}
  PROVE  InStep(x, y) /\ Form(y) /\ y.rc = 0
  <1>1. /\ Retimed(x, y) /\ y.rc = 0
        /\ y.times.gc[1] \in {x.times.gc[1], clk_get_rate(x, "CLKRF")}
        /\ y.times.rssi \in {x.times.rssi, clk_get_rate(x, "RX_SAMPL")}
        /\ y.times.auxadc \in {x.times.auxadc, clk_get_rate(x, "BBPLL")}
    <2> DEFINE g == gc_update(x)
               r == rssi_setup(x)
               a == auxadc_setup(x)
    <2>1. y \in {g, r, a}
      OBVIOUS
    <2>2. /\ Retimed(x, g) /\ g.rc = 0 /\ g.times.gc[1] = clk_get_rate(x, "CLKRF")
          /\ g.times.rssi = x.times.rssi /\ g.times.auxadc = x.times.auxadc
      BY TimesAre
    <2>3. /\ Retimed(x, r) /\ r.rc = 0 /\ r.times.rssi = clk_get_rate(x, "RX_SAMPL")
          /\ r.times.gc = x.times.gc /\ r.times.auxadc = x.times.auxadc
      BY TimesAre
    <2>4. /\ Retimed(x, a) /\ a.rc = 0 /\ a.times.auxadc = clk_get_rate(x, "BBPLL")
          /\ a.times.gc = x.times.gc /\ a.times.rssi = x.times.rssi
      BY TimesAre
    <2> HIDE DEF g, r, a
    <2> QED BY <2>1, <2>2, <2>3, <2>4
  <1>2. y.clk = x.clk /\ Form(y)
    BY <1>1 DEF Retimed
  <1>3. \A c : clk_get_rate(y, c) = clk_get_rate(x, c)
    BY <1>2, ApartClocks
  <1>4. Running(x) <=> Running(y)
    BY <1>2, ApartClocks
  <1>5. (TimesIn(x) => TimesIn(y)) /\ (TuneIn(x) => TuneIn(y)) /\ (Powers(x) => Powers(y))
    BY <1>1, <1>3 DEF TimesIn, TuneIn, TunedTo, Powers, Retimed
  <1> QED BY <1>1, <1>2, <1>4, <1>5 DEF InStep, Paced, Retimed

LEMMA GainsAside ==
  ASSUME NEW x, Form(x), NEW ch, NEW g
  PROVE  Aside(x, set_rx_rf_gain(x, ch, g))
  <1>1. ASSUME NEW c, NEW i PROVE Aside(x, Ok([x EXCEPT !.gain.idx[c] = i]))
    BY DEF Ok, Return, Aside, Powers, Form, Fields
  <1>2. ASSUME NEW c PROVE Aside(x, set_rx_gain(x, c, g))
    <2> DEFINE i == find_table_index(gt(x), g)
    <2>1. set_rx_gain(x, c, g) \in {Return(x, EINVAL), Return(x, EOPNOTSUPP), Return(x, i),
                                    Ok([x EXCEPT !.gain.idx[c] = i])}
      BY DEF set_rx_gain, set_full_table_gain
    <2> HIDE DEF i
    <2> QED BY <1>1, <2>1, ReturnAside
  <1> QED BY <1>2 DEF set_rx_rf_gain

LEMMA AttenAside ==
  ASSUME NEW x, Form(x), NEW mdb, NEW chans
  PROVE  Aside(x, set_tx_atten(x, mdb, chans)) /\ Form(set_tx_atten(x, mdb, chans))
  <1> DEFINE chip == [ch \in {1, 2} |-> IF ch \in chans THEN AttenWord(mdb) ELSE x.att.chip[ch]]
             z == [x EXCEPT !.att.chip = chip]
  <1>1. set_tx_atten(x, mdb, chans) \in {Return(x, EINVAL), Ok(z)}
    BY DEF set_tx_atten
  <1> HIDE DEF chip
  <1>2. Aside(x, z)
    BY DEF Aside, Powers, Form, Fields
  <1> HIDE DEF z
  <1> QED BY <1>1, <1>2, ReturnAside, AsideTrans

LEMMA MuteAside ==
  ASSUME NEW x, Form(x), NEW on \in BOOLEAN
  PROVE  Aside(x, tx_mute(x, on)) /\ \A ch, mdb : Aside(x, set_tx_attenuation(x, ch, mdb))
  <1> DEFINE att == [ch \in {1, 2} |-> get_tx_atten(x, ch)]
             kept == [x EXCEPT !.att.cached = att]
             first == set_tx_atten(x, x.att.cached[1], {1})
  <1>1. tx_mute(x, on) \in {set_tx_atten(kept, MaxAtten, {1, 2}),
          set_tx_atten(x, x.att.cached[1], {1, 2}), set_tx_atten(first, x.att.cached[2], {2})}
    <2>1. CASE on
      BY <2>1 DEF tx_mute
    <2>2. CASE ~on
      BY <2>2 DEF tx_mute
    <2> QED BY <2>1, <2>2
  <1> HIDE DEF att
  <1>2. Aside(x, kept) /\ Aside(x, first)
    <2>1. Aside(x, kept)
      BY DEF Aside, Powers, Form, Fields
    <2> QED BY <2>1, AttenAside
  <1> HIDE DEF kept, first
  <1>3. Form(kept) /\ Form(first)
    BY <1>2, AsideTrans
  <1>4. Aside(x, tx_mute(x, on))
    BY <1>1, <1>2, <1>3, AttenAside, AsideTrans
  <1> QED BY <1>4, AttenAside DEF set_tx_attenuation

LEMMA GainModeIn ==
  ASSUME NEW x, Form(x), NEW ch, NEW mode PROVE InStep(x, set_rx_gain_control_mode(x, ch, mode))
  <1> DEFINE a == [x EXCEPT !.gain.agc[ch + 1] = mode]
             c == channel_map(x, FALSE, ch + 1)
             b == [a EXCEPT !.gain.mode[c] = mode, !.gain.hybrid = mode = "hybrid",
                            !.gain.rxen = @ \cup {c}]
             g == gc_update(b)
             e == Return(a, EINVAL)
  <1>1. set_rx_gain_control_mode(x, ch, mode) \in {Ok(e), Ok(g)}
    BY DEF set_rx_gain_control_mode, set_gain_ctrl_mode
  <1>2. Aside(x, a)
    BY DEF Aside, Powers, Form, Fields
  <1>3. Form(a)
    BY <1>2, AsideTrans
  <1> HIDE DEF a, c
  <1>4. Aside(a, b)
    BY <1>3 DEF Aside, Powers, Form, Fields
  <1>5. Form(b)
    BY <1>4, AsideTrans
  <1> HIDE DEF b
  <1>6. InStep(b, g) /\ Form(g)
    BY <1>5, TimesInStep
  <1>7. Aside(a, e) /\ Form(e)
    BY <1>3, ReturnAside, AsideTrans
  <1> HIDE DEF g, e
  <1>8. InStep(x, g) /\ InStep(x, e)
    BY <1>2, <1>4, <1>6, <1>7, AsideInStep, InStepTrans
  <1>9. InStep(g, Ok(g)) /\ InStep(e, Ok(e))
    BY <1>6, <1>7, ReturnAside, AsideInStep
  <1> QED BY <1>1, <1>8, <1>9, InStepTrans

LEMMA PortAside ==
  ASSUME NEW u, Form(u), NEW out \in BOOLEAN, NEW rx, NEW tx
  PROVE  Aside(u, rf_port_setup(u, out, rx, tx))
  <1> DEFINE set == IF rx > 8 THEN {c \in {1, 2} : (rx \div c) % 2 = 1} ELSE {}
             mon == IF out THEN u ELSE txmon_control(u, set)
             val == (IF rx < 3 THEN 3 * 2^(rx * 2) ELSE 2^(rx - 3)) + (IF tx # 0 THEN 64 ELSE 0)
             z == [mon EXCEPT !.port.select = val]
  <1>1. rf_port_setup(u, out, rx, tx) \in {Return(u, EINVAL), Ok(mon), Ok(z)}
    BY DEF rf_port_setup
  <1> HIDE DEF set, val
  <1>2. Aside(u, mon)
    BY <1>1, AsideTrans DEF txmon_control, Aside, Powers, Form, Fields
  <1>3. Form(mon)
    BY <1>2, AsideTrans
  <1> HIDE DEF mon
  <1>4. Aside(mon, z)
    BY <1>3 DEF Aside, Powers, Form, Fields
  <1>5. Form(z)
    BY <1>4, AsideTrans
  <1> HIDE DEF z
  <1> QED BY <1>1, <1>2, <1>3, <1>4, <1>5, ReturnAside, AsideTrans

LEMMA PortsAside ==
  ASSUME NEW x, Form(x), NEW mode
  PROVE  /\ Aside(x, set_rx_rf_port_input(x, mode)) /\ Aside(x, set_tx_rf_port_output(x, mode))
  <1> DEFINE a == [x EXCEPT !.port.rx = mode]
             b == [x EXCEPT !.port.tx = mode]
             yes == TRUE
             no == FALSE
  <1>1. Aside(x, a) /\ Aside(x, b)
    BY DEF Aside, Powers, Form, Fields
  <1>2. Form(a) /\ Form(b)
    BY <1>1, AsideTrans
  <1>3. /\ set_rx_rf_port_input(x, mode) = rf_port_setup(a, no, mode, x.port.tx)
        /\ set_tx_rf_port_output(x, mode) = rf_port_setup(b, yes, x.port.rx, mode)
        /\ yes \in BOOLEAN /\ no \in BOOLEAN
    BY DEF set_rx_rf_port_input, set_tx_rf_port_output
  <1> HIDE DEF a, b, yes, no
  <1>4. Aside(a, rf_port_setup(a, no, mode, x.port.tx)) /\ Aside(b, rf_port_setup(b, yes, x.port.rx, mode))
    BY <1>2, <1>3, PortAside
  <1> QED BY <1>1, <1>3, <1>4, AsideTrans

\* The oscillator, the two flags a caller sets, what is tracked, the measurement of the
\* gain steps.
LEMMA FlagsAside ==
  ASSUME NEW x, Form(x), NEW v
  PROVE  /\ Aside(x, Ok([x EXCEPT !.dcxo[1] = v])) /\ Aside(x, Ok([x EXCEPT !.autocal = v]))
         /\ Aside(x, Ok([x EXCEPT !.pd.gov = v]))
  <1>1. /\ Aside(x, [x EXCEPT !.dcxo[1] = v]) /\ Aside(x, [x EXCEPT !.autocal = v])
        /\ Aside(x, [x EXCEPT !.pd.gov = v])
    BY DEF Aside, Powers, Form, Fields, default_init_param
  <1>2. \A t : Aside(x, t) => Aside(x, Ok(t))
    BY ReturnAside, AsideTrans
  <1> QED BY <1>1, <1>2

LEMMA TrackAside ==
  ASSUME NEW x, Form(x), NEW which, NEW on
  PROVE  /\ Aside(x, set_track_en_dis(x, which, on))
         /\ Aside(x, Ok(ensm_restore_prev_state(ensm_force_state(x, "ALERT"))))
  <1> DEFINE want == IF on THEN x.trk.want \cup {which} ELSE x.trk.want \ {which}
             z == [x EXCEPT !.trk.want = want]
             y == tracking_control(z, want)
             f == ensm_force_state(x, "ALERT")
             r == ensm_restore_prev_state(f)
  <1>1. set_track_en_dis(x, which, on) \in {Ok(x), y}
    BY DEF set_track_en_dis
  <1>2. Aside(x, z)
    BY DEF Aside, Powers, Form, Fields
  <1>3. Form(z)
    BY <1>2, AsideTrans
  <1> HIDE DEF want, z
  <1>4. Aside(z, y)
    BY <1>3, EnAside
  <1> HIDE DEF y
  <1>5. Aside(x, f)
    BY EnAside
  <1>6. Form(f)
    BY <1>5, AsideTrans
  <1> HIDE DEF f
  <1>7. Aside(f, r)
    BY <1>6, EnAside
  <1>8. Form(r)
    BY <1>7, AsideTrans
  <1> HIDE DEF r
  <1>9. Aside(x, Ok(r)) /\ Aside(x, Ok(x)) /\ Aside(x, y)
    BY <1>2, <1>4, <1>5, <1>7, <1>8, ReturnAside, AsideTrans
  <1> QED BY <1>1, <1>9 DEF f, r

-----------------------------------------------------------------------------
(* The synthesizers.                                                          *)
LEMMA SynthAside ==
  ASSUME NEW x, Form(x), NEW p \in Sides, NEW v
  PROVE  /\ Aside(x, [x EXCEPT !.lo[p].fl = v]) /\ Aside(x, [x EXCEPT !.lo[p].reg = v])
         /\ Aside(x, [x EXCEPT !.lo[p].cur = v]) /\ Aside(x, [x EXCEPT !.lo[p].div = v])
         /\ Aside(x, [x EXCEPT !.lo[p].tdd = v]) /\ Aside(x, [x EXCEPT !.lo[p].row = v])
         /\ Aside(x, [x EXCEPT !.lo[p].dummy = v]) /\ Aside(x, [x EXCEPT !.lo[p].ext = v])
  <1> DEFINE l == x.lo[p]
             Like(k) == DOMAIN k = SynthFields /\ k.pd = l.pd /\ k.chippd = l.chippd
  <1>1. DOMAIN l = SynthFields
    BY DEF Form
  <1>2. ASSUME NEW k, Like(k) PROVE Aside(x, [x EXCEPT !.lo[p] = k])
    BY <1>2, LoAside
  <1> HIDE DEF l
  <1>3. /\ Like([l EXCEPT !.fl = v]) /\ Like([l EXCEPT !.reg = v]) /\ Like([l EXCEPT !.cur = v])
        /\ Like([l EXCEPT !.div = v]) /\ Like([l EXCEPT !.tdd = v]) /\ Like([l EXCEPT !.row = v])
        /\ Like([l EXCEPT !.dummy = v]) /\ Like([l EXCEPT !.ext = v])
    BY <1>1 DEF SynthFields
  <1> HIDE DEF Like
  <1>4. /\ Aside(x, [x EXCEPT !.lo[p] = [l EXCEPT !.fl = v]])
        /\ Aside(x, [x EXCEPT !.lo[p] = [l EXCEPT !.reg = v]])
        /\ Aside(x, [x EXCEPT !.lo[p] = [l EXCEPT !.cur = v]])
        /\ Aside(x, [x EXCEPT !.lo[p] = [l EXCEPT !.div = v]])
        /\ Aside(x, [x EXCEPT !.lo[p] = [l EXCEPT !.tdd = v]])
        /\ Aside(x, [x EXCEPT !.lo[p] = [l EXCEPT !.row = v]])
        /\ Aside(x, [x EXCEPT !.lo[p] = [l EXCEPT !.dummy = v]])
        /\ Aside(x, [x EXCEPT !.lo[p] = [l EXCEPT !.ext = v]])
    BY <1>2, <1>3
  <1> QED BY <1>4 DEF l

LEMMA TuneAside ==
  ASSUME NEW x, Form(x), NEW p \in Sides, NEW word, NEW on
  PROVE  /\ Aside(x, fastlock_prepare(x, p, on)) /\ Aside(x, trx_vco_cal_control(x, p, on))
         /\ Aside(x, vco_cal_if_skipped(x, p, on)) /\ Aside(x, tune_synth(x, p, word))
  <1>1. Aside(x, x)
    BY AsideTrans
  <1>2. Aside(x, trx_vco_cal_control(x, p, on))
    BY SynthAside DEF trx_vco_cal_control
  <1>3. Aside(x, fastlock_prepare(x, p, on))
    <2> DEFINE f == Leave(x.lo[p].fl)
    <2>1. fastlock_prepare(x, p, on) \in {x, [x EXCEPT !.lo[p].fl = f]}
      BY DEF fastlock_prepare
    <2> HIDE DEF f
    <2>2. Aside(x, [x EXCEPT !.lo[p].fl = f])
      BY SynthAside
    <2> QED BY <1>1, <2>1, <2>2
  <1>4. Aside(x, tune_synth(x, p, word))
    <2> DEFINE g == ~(DuplexLos(x) /\ ~SameLo(x))
               row == VcoRow(word.vco)
               a == [x EXCEPT !.lo[p].tdd = g]
               b == [a EXCEPT !.lo[p].row = row]
               c == [b EXCEPT !.lo[p].reg = word]
               f == Tune(b.lo[p].fl, x.alc)
               d == [c EXCEPT !.lo[p].fl = f]
    <2>1. tune_synth(x, p, word) = check_cal_done(d, "lock_" \o p)
      <3>1. rfpll_vco_init(x, p, word.vco) = b
        <4> HIDE DEF g, row
        <4>1. rfpll_vco_init(x, p, word.vco) = [x EXCEPT !.lo[p].tdd = g, !.lo[p].row = row]
          BY DEF rfpll_vco_init, g, row
        <4> QED BY <4>1
      <3>2. tune_synth(x, p, word) =
              check_cal_done([b EXCEPT !.lo[p].reg = word, !.lo[p].fl = Tune(@, x.alc)], "lock_" \o p)
        <4> HIDE DEF b
        <4> QED BY <3>1 DEF tune_synth
      <3>3. [b EXCEPT !.lo[p].reg = word, !.lo[p].fl = Tune(@, x.alc)] = d
        <4>1. Form(b)
          <5>1. Aside(x, a) /\ Form(a)
            BY SynthAside, AsideTrans
          <5> HIDE DEF a, row
          <5> QED BY <5>1, SynthAside, AsideTrans
        <4>2. c.lo[p].fl = b.lo[p].fl
          <5> HIDE DEF b
          <5> QED BY <4>1 DEF Form, Fields, SynthFields
        <4> HIDE DEF b
        <4> QED BY <4>2
      <3> QED BY <3>2, <3>3
    <2>2. Aside(x, a) /\ Form(a)
      BY SynthAside, AsideTrans
    <2> HIDE DEF a, row
    <2>3. Aside(a, b) /\ Form(b)
      BY <2>2, SynthAside, AsideTrans
    <2> HIDE DEF b, f
    <2>4. Aside(b, c) /\ Form(c)
      BY <2>3, SynthAside, AsideTrans, ZenonT(60)
    <2> HIDE DEF c
    <2>5. Aside(c, d) /\ Form(d)
      BY <2>4, SynthAside, AsideTrans, ZenonT(60)
    <2> HIDE DEF d
    <2>6. Aside(d, tune_synth(x, p, word))
      BY <2>1, <2>5, CalAside
    <2> QED BY <2>2, <2>3, <2>4, <2>5, <2>6, AsideTrans
  <1> QED BY <1>1, <1>2, <1>3, <1>4 DEF vco_cal_if_skipped

LEMMA BothAside ==
  ASSUME NEW x, Form(x), NEW p \in Sides, NEW word
  PROVE  Aside(x, tune_both(x, p, word))
  <1> DEFINE t == tune_synth(x, p, word)
             q == Other(p)
             out == fastlock_prepare(t, q, FALSE)
             w == IF validate_rfpll(t, t.lo[q].cur) THEN RfpllWord(t.lo[q].cur) ELSE word
  <1>1. tune_both(x, p, word) \in {t, tune_synth(t, q, word), tune_synth(out, q, w)}
    BY DEF tune_both, fix_other
  <1>2. q \in Sides
    BY DEF Other, Sides
  <1>3. Aside(x, t) /\ Form(t)
    BY TuneAside, AsideTrans
  <1> HIDE DEF t, q
  <1>4. Aside(t, out) /\ Form(out)
    BY <1>2, <1>3, TuneAside, AsideTrans
  <1> HIDE DEF out, w
  <1>5. Aside(out, tune_synth(out, q, w)) /\ Aside(t, tune_synth(t, q, word))
    BY <1>2, <1>3, <1>4, TuneAside
  <1> QED BY <1>1, <1>3, <1>4, <1>5, AsideTrans

LEMMA IntSetAside ==
  ASSUME NEW x, Form(x), NEW p \in Sides, NEW f
  PROVE  Aside(x, rfpll_int_set_rate(x, p, f))
  <1> DEFINE left0 == fastlock_prepare(x, p, FALSE)
             word == RfpllWord(f)
             a == [left0 EXCEPT !.lo[p].cur = f]
             b == [a EXCEPT !.lo[p].div = word.vdiv]
             c == vco_cal_if_skipped(b, p, TRUE)
             d == tune_both(c, p, word)
             e == vco_cal_if_skipped(d, p, FALSE)
  <1>1. rfpll_int_set_rate(x, p, f) \in {Return(left0, EINVAL), e}
    <2>1. int_tune(left0, p, f, word) = e
      <3> HIDE DEF left0, word
      <3> QED BY DEF int_tune
    <2> HIDE DEF e
    <2> QED BY <2>1 DEF rfpll_int_set_rate
  <1>2. Aside(x, left0) /\ Form(left0)
    BY TuneAside, AsideTrans
  <1> HIDE DEF left0, word
  <1>3. Aside(left0, a) /\ Form(a)
    BY <1>2, SynthAside, AsideTrans
  <1> HIDE DEF a
  <1>4. Aside(a, b) /\ Form(b)
    BY <1>3, SynthAside, AsideTrans, ZenonT(60)
  <1> HIDE DEF b
  <1>5. Aside(b, c) /\ Form(c)
    BY <1>4, TuneAside, AsideTrans
  <1> HIDE DEF c
  <1>6. Aside(c, d) /\ Form(d)
    BY <1>5, BothAside, AsideTrans
  <1> HIDE DEF d
  <1>7. Aside(d, e)
    BY <1>6, TuneAside
  <1> HIDE DEF e
  <1>8. Aside(left0, Return(left0, EINVAL))
    BY <1>2, ReturnAside
  <1> QED BY <1>1, <1>2, <1>3, <1>4, <1>5, <1>6, <1>7, <1>8, AsideTrans

LEMMA LoadGtAside ==
  ASSUME NEW x, Form(x), NEW f PROVE Aside(x, load_gt(x, f))
  <1>1. PICK table, idx : load_gt(x, f) \in
          {Ok(x), Ok([x EXCEPT !.gain.table = table, !.gain.idx = idx])}
    BY DEF load_gt
  <1> DEFINE g == [x.gain EXCEPT !.table = table, !.idx = idx]
             y == [x EXCEPT !.gain = g]
  <1>2. [x EXCEPT !.gain.table = table, !.gain.idx = idx] = y
    BY DEF Form, Fields
  <1> HIDE DEF g
  <1>3. Aside(x, y) /\ Form(y)
    BY FieldsAside, AsideTrans
  <1> HIDE DEF y
  <1> QED BY <1>1, <1>2, <1>3, ReturnAside, AsideTrans

LEMMA CalIfFarIn ==
  ASSUME NEW x, Form(x), NEW f PROVE InStep(x, cal_if_far(x, f))
  <1> DEFINE c == do_calib_run(x, "TX_QUAD", -1)
             qc == [c.qc EXCEPT !.freq = f]
             y == [c EXCEPT !.qc = qc]
  <1>1. cal_if_far(x, f) \in {x, y}
    BY DEF cal_if_far
  <1>2. InStep(x, c) /\ Form(c)
    BY CalibIs, InStepTrans
  <1> HIDE DEF c, qc
  <1>3. Aside(c, y)
    BY <1>2, FieldsAside
  <1> QED BY <1>1, <1>2, <1>3, AsideInStep, InStepTrans

LEMMA RecalcInStep ==
  ASSUME NEW x, Form(x) PROVE InStep(x, recalc_all(x))
  <1> DEFINE y == recalc_all(x)
  <1>1. Reclocked(x, y) /\ y.clk = [x.clk EXCEPT !.rate = TreeRates(x)]
    BY RecalcIs
  <1>2. /\ Linked(y)
        /\ Linked(x) => \A c \in Clocks : clk_get_rate(y, c) = clk_get_rate(x, c)
    BY RecalcLinks
  <1>3. y.clk.ref = x.clk.ref /\ y.clk.init = x.clk.init
    BY <1>1 DEF Form
  <1> HIDE DEF y
  <1>4. {"RX_SAMPL", "CLKRF", "BBPLL", "ADC"} \subseteq Clocks
    BY ParentIs DEF Clocks
  <1>5. Running(x) => Running(y)
    BY <1>2, <1>3 DEF Running
  <1>6. Running(x) /\ TimesIn(x) => TimesIn(y)
    BY <1>1, <1>2, <1>4 DEF Running, TimesIn, Reclocked
  <1>7. Running(x) /\ TuneIn(x) => TuneIn(y)
    BY <1>1, <1>2, <1>4 DEF Running, TuneIn, TunedTo, Reclocked
  <1>8. Powers(x) => Powers(y)
    BY <1>1 DEF Powers, Reclocked
  <1>9. InStep(x, y)
    BY <1>1, <1>3, <1>5, <1>6, <1>7, <1>8 DEF InStep, Paced, Reclocked
  <1> QED BY <1>9 DEF y

LEMMA SetLoIn ==
  ASSUME NEW x, Form(x), NEW p \in Sides, NEW f PROVE InStep(x, set_lo(x, p, f))
  <1> DEFINE g == IF x.pd.ext[p] THEN f ELSE rfpll_int_round_rate(f)
             dum == [x EXCEPT !.lo[p].dummy = g]
             m == IF x.pd.ext[p] THEN dum ELSE rfpll_int_set_rate(x, p, g)
             t == rfpll_set_rate(x, p, g)
             r == recalc_all(t)
  <1>1. set_lo(x, p, f) \in {Ok(x), Ok(r)}
    BY DEF set_lo
  <1>2. t \in {load_gt(m, g), Ok(cal_if_far(m, g))}
    <2> HIDE DEF g
    <2> QED BY DEF rfpll_set_rate
  <1>3. InStep(x, m) /\ Form(m)
    <2> HIDE DEF g
    <2>1. Aside(x, dum)
      BY SynthAside
    <2> QED BY <2>1, IntSetAside, AsideInStep
  <1> HIDE DEF m, t, g
  <1>4. InStep(m, load_gt(m, g))
    BY <1>3, LoadGtAside, AsideInStep
  <1>5. InStep(m, cal_if_far(m, g)) /\ Form(cal_if_far(m, g))
    BY <1>3, CalIfFarIn, InStepTrans
  <1>6. InStep(cal_if_far(m, g), Ok(cal_if_far(m, g)))
    BY <1>5, ReturnAside, AsideInStep
  <1>7. InStep(x, t) /\ Form(t)
    BY <1>2, <1>3, <1>4, <1>5, <1>6, InStepTrans
  <1>8. InStep(t, r) /\ Form(r)
    BY <1>7, RecalcInStep, InStepTrans
  <1> HIDE DEF r
  <1>9. InStep(r, Ok(r)) /\ InStep(x, Ok(x))
    BY <1>8, ReturnAside, AsideInStep
  <1> QED BY <1>1, <1>7, <1>8, <1>9, InStepTrans

LEMMA ExtLoAside ==
  ASSUME NEW x, Form(x), NEW p \in Sides, NEW on
  PROVE  Aside(x, trx_ext_lo_control(x, p, on))
  <1> DEFINE pd == IF on THEN x.lo[p].pd \cup VcoBits ELSE x.lo[p].pd \ VcoBits
             bit == IF p = "rx" THEN "PD_RX" ELSE "PD_TX"
             cfg2 == (x.en.cfg2 \ {bit}) \cup Bit(on /\ ~x.mcsrf, bit)
             vdiv == IF on THEN 7 ELSE x.lo[p].div
             a == [x EXCEPT !.en.cfg2 = cfg2]
             b == [a EXCEPT !.lo[p].fl.ready = on]
             c == [b EXCEPT !.lo[p].reg.vdiv = vdiv]
             y == [c EXCEPT !.lo[p].pd = pd, !.lo[p].chippd = pd, !.lo[p].ext = on]
  <1>1. trx_ext_lo_control(x, p, on) = Ok(y)
    BY DEF trx_ext_lo_control
  <1> HIDE DEF pd, cfg2, vdiv
  <1>2. Aside(x, a) /\ Form(a)
    BY FieldsAside, AsideTrans
  <1> HIDE DEF a
  <1>3. Aside(a, b) /\ Form(b)
    <2> DEFINE fl == [a.lo[p].fl EXCEPT !.ready = on]
    <2>1. b = [a EXCEPT !.lo[p].fl = fl]
      OBVIOUS
    <2> HIDE DEF b, fl
    <2> QED BY <1>2, <2>1, SynthAside, AsideTrans
  <1> HIDE DEF b
  <1>4. Aside(b, c) /\ Form(c)
    <2> DEFINE reg == [b.lo[p].reg EXCEPT !.vdiv = vdiv]
    <2>1. c = [b EXCEPT !.lo[p].reg = reg]
      OBVIOUS
    <2> HIDE DEF c, reg
    <2> QED BY <1>3, <2>1, SynthAside, AsideTrans, ZenonT(60)
  <1> HIDE DEF c
  <1>5. Aside(c, y) /\ Form(y)
    <2> DEFINE k == [c.lo[p] EXCEPT !.pd = pd, !.chippd = pd, !.ext = on]
    <2>1. y = [c EXCEPT !.lo[p] = k]
      BY <1>4 DEF Form, Fields
    <2>2. DOMAIN k = SynthFields /\ k.chippd = k.pd
      BY <1>4 DEF Form, SynthFields
    <2> HIDE DEF y, k
    <2> QED BY <1>4, <2>1, <2>2, LoAside, AsideTrans
  <1> HIDE DEF y
  <1>6. Aside(y, Ok(y))
    BY <1>5, ReturnAside
  <1> QED BY <1>1, <1>2, <1>3, <1>4, <1>5, <1>6, AsideTrans

LEMMA MuxAside ==
  ASSUME NEW x, Form(x), NEW p \in Sides, NEW ext
  PROVE  Aside(x, clk_mux_set_parent(x, p, ext))
  <1> DEFINE a == ensm_force_state(x, "ALERT")
             b == trx_ext_lo_control(a, p, ext)
  <1>1. clk_mux_set_parent(x, p, ext) = ensm_restore_prev_state(b)
    BY DEF clk_mux_set_parent
  <1>2. Aside(x, a) /\ Form(a)
    BY EnAside, AsideTrans
  <1> HIDE DEF a
  <1>3. Aside(a, b) /\ Form(b)
    BY <1>2, ExtLoAside, AsideTrans
  <1> HIDE DEF b
  <1>4. Aside(b, ensm_restore_prev_state(b))
    BY <1>3, EnAside
  <1> QED BY <1>1, <1>2, <1>3, <1>4, AsideTrans

LEMMA FastlockAside ==
  ASSUME NEW x, Form(x), NEW p \in Sides, NEW k, NEW values
  PROVE  /\ Aside(x, fastlock_load(x, p, k, values)) /\ Aside(x, fastlock_store(x, p, k))
         /\ Aside(x, fastlock_recall(x, p, k))
  <1> DEFINE a == [x EXCEPT !.lo[p].fl = Load(x.lo[p].fl, k, values.freq, values.word)]
             b == [x EXCEPT !.lo[p].fl = Store(x.lo[p].fl, k, x.lo[p].reg)]
             c == [x EXCEPT !.lo[p].fl = Recall(x.lo[p].fl, k)]
  <1>1. \A v : Aside(x, [x EXCEPT !.lo[p].fl = v]) /\ Form([x EXCEPT !.lo[p].fl = v])
    BY SynthAside, AsideTrans
  <1>2. /\ fastlock_load(x, p, k, values) = Ok(a) /\ fastlock_store(x, p, k) = Ok(b)
        /\ fastlock_recall(x, p, k) \in {Return(x, EINVAL), Ok(c)}
    BY DEF fastlock_load, fastlock_store, fastlock_recall
  <1>3. Aside(x, a) /\ Form(a) /\ Aside(x, b) /\ Form(b) /\ Aside(x, c) /\ Form(c)
    <2> DEFINE f == Load(x.lo[p].fl, k, values.freq, values.word)
               g == Store(x.lo[p].fl, k, x.lo[p].reg)
               h == Recall(x.lo[p].fl, k)
    <2> HIDE DEF f, g, h
    <2>1. /\ Aside(x, [x EXCEPT !.lo[p].fl = f]) /\ Form([x EXCEPT !.lo[p].fl = f])
          /\ Aside(x, [x EXCEPT !.lo[p].fl = g]) /\ Form([x EXCEPT !.lo[p].fl = g])
          /\ Aside(x, [x EXCEPT !.lo[p].fl = h]) /\ Form([x EXCEPT !.lo[p].fl = h])
      BY <1>1
    <2> QED BY <2>1 DEF f, g, h
  <1> HIDE DEF a, b, c
  <1>4. Aside(a, Ok(a)) /\ Aside(b, Ok(b)) /\ Aside(c, Ok(c)) /\ Aside(x, Return(x, EINVAL))
    BY <1>3, ReturnAside
  <1> QED BY <1>2, <1>3, <1>4, AsideTrans

-----------------------------------------------------------------------------
(* The modes of the state machine.                                            *)
LEMMA VcoBothAside ==
  ASSUME NEW x, Form(x), NEW on
  PROVE  LET y == trx_vco_cal_control(trx_vco_cal_control(x, "rx", on), "tx", on)
         IN Aside(x, y) /\ Form(y)
  <1> DEFINE a == trx_vco_cal_control(x, "rx", on)
  <1>1. Aside(x, a) /\ Form(a)
    BY TuneAside, AsideTrans DEF Sides
  <1> HIDE DEF a
  <1>2. Aside(a, trx_vco_cal_control(a, "tx", on))
    BY <1>1, TuneAside DEF Sides
  <1>3. Aside(x, trx_vco_cal_control(a, "tx", on)) /\ Form(trx_vco_cal_control(a, "tx", on))
    BY <1>1, <1>2, AsideTrans
  <1> QED BY <1>3 DEF a

LEMMA WakeAside ==
  ASSUME NEW x, Form(x) PROVE Aside(x, Wake(x)) /\ Form(Wake(x))
  <1> DEFINE en == [x.en EXCEPT !.clocks = TRUE]
             a == [x EXCEPT !.en = en]
             b == Config1(a, "ALERT", FALSE)
             c == trx_vco_cal_control(trx_vco_cal_control(b, "rx", TRUE), "tx", TRUE)
  <1>1. Wake(x) \in {x, c}
    BY DEF Wake
  <1>2. Aside(x, a) /\ Form(a)
    BY FieldsAside, AsideTrans
  <1> HIDE DEF a
  <1>3. Aside(a, b) /\ Form(b)
    BY <1>2, EnAside, AsideTrans
  <1> HIDE DEF b
  <1>4. Aside(b, c)
    BY <1>3, VcoBothAside
  <1> HIDE DEF c
  <1>5. Aside(x, c) /\ Aside(x, x)
    BY <1>2, <1>3, <1>4, AsideTrans
  <1> QED BY <1>1, <1>5, AsideTrans

LEMMA SleepAside ==
  ASSUME NEW x, Form(x) PROVE Aside(x, Sleep(x))
  <1> DEFINE off == trx_vco_cal_control(trx_vco_cal_control(x, "rx", FALSE), "tx", FALSE)
             en == [off.en EXCEPT !.pin = FALSE, !.dev = "WAIT", !.clocks = FALSE, !.curr = "SLEEP"]
             y == [off EXCEPT !.en = en]
  <1>1. Aside(x, off) /\ Form(off)
    BY VcoBothAside
  <1>2. Sleep(x) = Ok(y)
    <2>1. Sleep(x) = Ok([off EXCEPT !.en.pin = FALSE, !.en.dev = "WAIT",
                                    !.en.clocks = FALSE, !.en.curr = "SLEEP"])
      BY DEF Sleep
    <2> HIDE DEF off
    <2>2. [off EXCEPT !.en.pin = FALSE, !.en.dev = "WAIT", !.en.clocks = FALSE, !.en.curr = "SLEEP"] = y
      BY <1>1 DEF Form, Fields
    <2> QED BY <2>1, <2>2
  <1> HIDE DEF off, en
  <1>3. Aside(off, y) /\ Form(y)
    BY <1>1, FieldsAside, AsideTrans
  <1> HIDE DEF y
  <1>4. Aside(y, Ok(y))
    BY <1>3, ReturnAside
  <1> QED BY <1>1, <1>2, <1>3, <1>4, AsideTrans

LEMMA EnFieldAside ==
  ASSUME NEW x, Form(x), NEW e
  PROVE  Aside(x, [x EXCEPT !.en = e]) /\ Form([x EXCEPT !.en = e])
  <1>1. Aside(x, [x EXCEPT !.en = e])
    BY FieldsAside
  <1> QED BY <1>1, AsideTrans

LEMMA EnModeAside ==
  ASSUME NEW x, Form(x), NEW fdd, NEW pinctrl
  PROVE  Aside(x, set_ensm_mode(x, fdd, pinctrl)) /\ Form(set_ensm_mode(x, fdd, pinctrl))
  <1> DEFINE a == [x EXCEPT !.en.fdd = fdd]
  <1>1. PICK v : set_ensm_mode(x, fdd, pinctrl) = Ok([a EXCEPT !.en.cfg2 = v])
    BY DEF set_ensm_mode
  <1> DEFINE y == [a EXCEPT !.en.cfg2 = v]
  <1>2. Aside(x, a) /\ Form(a)
    BY EnFieldAside
  <1> HIDE DEF a
  <1>3. Aside(a, y) /\ Form(y)
    BY <1>2, EnFieldAside
  <1> HIDE DEF y
  <1>4. Aside(y, Ok(y))
    BY <1>3, ReturnAside
  <1>5. set_ensm_mode(x, fdd, pinctrl) = Ok(y)
    BY <1>1 DEF y
  <1> QED BY <1>2, <1>3, <1>4, <1>5, AsideTrans

LEMMA SetStateAside ==
  ASSUME NEW x, Form(x), NEW st, NEW pinctrl
  PROVE  Aside(x, ensm_set_state(x, st, pinctrl)) /\ Form(ensm_set_state(x, st, pinctrl))
  <1> DEFINE w == Wake(x)
             force == CASE st \in {"TX", "FDD"} -> "TX" [] st = "RX" -> "RX"
                        [] st = "ALERT" -> "ALERT" [] OTHER -> "none"
             via == IF Legal(w, st) THEN w ELSE Config1(w, "ALERT", pinctrl)
             bits == (via.en.cfg2 \ {"TXNRX"}) \cup Bit(st = "TX", "TXNRX")
             tx == [via EXCEPT !.en.cfg2 = bits]
             m == IF ~x.pd.fdd /\ ~pinctrl /\ ~x.pd.dual /\ st \in {"TX", "RX"} THEN tx ELSE via
             c == Config1(m, force, pinctrl)
             z == [c EXCEPT !.en.curr = st]
  <1>1. ensm_set_state(x, st, pinctrl) \in {Sleep(w), Return(w, EINVAL), Ok(z)}
    <2>1. ensm_set_state(x, st, pinctrl) =
            CASE st = "SLEEP" -> Sleep(w)
              [] st # "SLEEP" /\ ~Legal(w, st) /\ w.en.curr = "ALERT" -> Return(w, EINVAL)
              [] OTHER -> Ok(z)
      BY DEF ensm_set_state
    <2> HIDE DEF w, z
    <2> QED BY <2>1
  <1>2. Aside(x, w) /\ Form(w)
    BY WakeAside
  <1> HIDE DEF w
  <1>3. Aside(w, via) /\ Form(via)
    BY <1>2, EnAside, AsideTrans
  <1> HIDE DEF via, bits
  <1>4. Aside(via, tx) /\ Form(tx)
    BY <1>3, EnFieldAside
  <1>5. Aside(via, m) /\ Form(m)
    <2> HIDE DEF tx
    <2> QED BY <1>3, <1>4, AsideTrans
  <1> HIDE DEF m, force
  <1>6. Aside(m, c) /\ Form(c)
    BY <1>5, EnAside, AsideTrans
  <1> HIDE DEF c
  <1>7. Aside(c, z) /\ Form(z)
    BY <1>6, EnFieldAside
  <1> HIDE DEF z
  <1>8. Aside(z, Ok(z)) /\ Aside(w, Return(w, EINVAL)) /\ Aside(w, Sleep(w))
    BY <1>2, <1>7, ReturnAside, SleepAside
  <1>9. Aside(x, ensm_set_state(x, st, pinctrl))
    BY <1>1, <1>2, <1>3, <1>5, <1>6, <1>7, <1>8, AsideTrans
  <1> QED BY <1>9, AsideTrans

LEMMA EnsmAside ==
  ASSUME NEW x, Form(x), NEW mode
  PROVE  /\ Aside(x, set_en_state_machine_mode(x, mode)) /\ Form(set_en_state_machine_mode(x, mode))
  <1> DEFINE pinctrl == mode = "PINCTRL"
             st == CASE mode \in {"WAIT", "PINCTRL"} -> "WAIT"
                     [] mode = "FDD_INDEP" -> "FDD" [] OTHER -> mode
             indep == mode = "FDD_INDEP"
             pd == [x.pd EXCEPT !.indep = indep]
             m == [x EXCEPT !.pd = pd]
             e == set_ensm_mode(m, x.pd.fdd, pinctrl)
             y == ensm_set_state(e, st, pinctrl)
  <1>1. set_en_state_machine_mode(x, mode) \in {Return(m, EINVAL), y}
    BY DEF set_en_state_machine_mode
  <1> HIDE DEF pinctrl, st, indep
  <1>2. Aside(x, m) /\ Form(m)
    <2>1. /\ DOMAIN pd = DOMAIN default_init_param
          /\ pd.ref = x.pd.ref /\ pd.bw = x.pd.bw /\ pd.clks = x.pd.clks
      BY DEF Form, default_init_param
    <2> HIDE DEF pd
    <2> QED BY <2>1, PdAside, AsideTrans
  <1> HIDE DEF m
  <1>3. Aside(m, e) /\ Form(e)
    BY <1>2, EnModeAside
  <1> HIDE DEF e
  <1>4. Aside(e, y) /\ Aside(m, Return(m, EINVAL))
    BY <1>2, <1>3, SetStateAside, ReturnAside
  <1> HIDE DEF y
  <1>5. Aside(x, set_en_state_machine_mode(x, mode))
    BY <1>1, <1>2, <1>3, <1>4, AsideTrans
  <1> QED BY <1>5, AsideTrans

LEMMA McsAside ==
  ASSUME NEW x, Form(x), NEW mode PROVE Aside(x, do_mcs(x, mode))
  <1> DEFINE a == set_en_state_machine_mode(x, "ALERT")
             b == [a EXCEPT !.en.cfg2 = @ \ SynthBits]
             c == [b EXCEPT !.mcsrf = TRUE]
             d == set_en_state_machine_mode(c, mode)
  <1>1. do_mcs(x, mode) \in {Return(x, -1), Ok(d)}
    <2>1. mcs(a) = c
      BY DEF mcs
    <2> HIDE DEF a, c
    <2> QED BY <2>1 DEF do_mcs, a
  <1>2. Aside(x, a) /\ Form(a)
    BY EnsmAside
  <1> HIDE DEF a
  <1>3. Aside(a, b) /\ Form(b)
    BY <1>2, EnFieldAside
  <1> HIDE DEF b
  <1>4. Aside(b, c) /\ Form(c)
    BY <1>3, FieldsAside, AsideTrans
  <1> HIDE DEF c
  <1>5. Aside(c, d) /\ Form(d)
    BY <1>4, EnsmAside
  <1> HIDE DEF d
  <1>6. Aside(d, Ok(d)) /\ Aside(x, Return(x, -1))
    BY <1>5, ReturnAside
  <1> QED BY <1>1, <1>2, <1>3, <1>4, <1>5, <1>6, AsideTrans

\* The charge pump of a synthesizer.
LEMMA PumpAside ==
  ASSUME NEW x, Form(x), NEW p \in Sides
  PROVE  LET y == txrx_synth_cp_calib(x, p)
         IN Aside(x, y) /\ Form(y) /\ (x.late = {} => y.rc = 0)
  <1> DEFINE a == [x EXCEPT !.en.cfg2 = {"DUAL"}]
             b == [a EXCEPT !.lo.rx.fl.ready = FALSE]
             m == [b EXCEPT !.lo.tx.fl.ready = FALSE]
             c == Config1(m, "ALERT", FALSE)
             d == [c EXCEPT !.en.fdd = TRUE]
             cal == "cp_" \o p
  <1>1. txrx_synth_cp_calib(x, p) = check_cal_done(d, cal)
    <2>1. txrx_synth_cp_calib(x, p) = check_cal_done([Config1(m, "ALERT", FALSE) EXCEPT !.en.fdd = TRUE], cal)
      BY DEF txrx_synth_cp_calib
    <2> HIDE DEF m, cal
    <2> QED BY <2>1
  <1> HIDE DEF cal
  <1>2. Aside(x, a) /\ Form(a)
    BY EnFieldAside
  <1> HIDE DEF a
  <1>3. Aside(a, b) /\ Form(b)
    <2> DEFINE q == "rx"
               fl == [a.lo[q].fl EXCEPT !.ready = FALSE]
    <2>1. b = [a EXCEPT !.lo[q].fl = fl] /\ q \in Sides
      BY DEF Sides
    <2> HIDE DEF b, fl, q
    <2> QED BY <1>2, <2>1, SynthAside, AsideTrans
  <1> HIDE DEF b
  <1>4. Aside(b, m) /\ Form(m)
    <2> DEFINE q == "tx"
               fl == [b.lo[q].fl EXCEPT !.ready = FALSE]
    <2>1. m = [b EXCEPT !.lo[q].fl = fl] /\ q \in Sides
      BY DEF Sides
    <2> HIDE DEF m, fl, q
    <2> QED BY <1>3, <2>1, SynthAside, AsideTrans, ZenonT(60)
  <1> HIDE DEF m
  <1>5. Aside(m, c) /\ Form(c)
    BY <1>4, EnAside, AsideTrans
  <1> HIDE DEF c
  <1>6. Aside(c, d) /\ Form(d)
    BY <1>5, EnFieldAside
  <1>7. x.late = d.late
    BY <1>2, <1>3, <1>4, <1>5, <1>6, AsideTrans
  <1> HIDE DEF d
  <1>8. Aside(d, check_cal_done(d, cal)) /\ (d.late = {} => check_cal_done(d, cal).rc = 0)
    BY <1>6, CalAside
  <1>9. Aside(x, check_cal_done(d, cal))
    BY <1>2, <1>3, <1>4, <1>5, <1>6, <1>8, AsideTrans
  <1> QED BY <1>1, <1>7, <1>8, <1>9, AsideTrans

-----------------------------------------------------------------------------
(* Bringing the radio up.                                                     *)
RefIn(x) == x.clk.ref = ref_div_sel(x.pd.ref, Mega(70))
\* The clocks of a radio that is brought up: none was ever set, or all are remembered
\* true.  What a setup must be given.
Raisable(x) == (Hung(x) /\ ~x.clk.init) \/ (Running(x) /\ RefIn(x))
Given(x) == x.pd.ref \in Nat /\ x.pd.clks.rx.bbpll \in MinBbpll..MaxBbpll

\* What a setup keeps.
Raises(x, y) == /\ Form(y) /\ y.late = x.late /\ y.pd.ref = x.pd.ref /\ y.pd.clks = x.pd.clks
                /\ Powers(x) => Powers(y)
                /\ Running(x) /\ RefIn(x) => Running(y) /\ RefIn(y)

LEMMA RefAllowed ==
  ASSUME NEW ref \in Nat PROVE ref_div_sel(ref, Mega(70)) \in PllRefs \cup {0}
  <1>1. Mega(70) = 1750
    BY DEF Mega
  <1>2. /\ ref <= 875 => 2 * ref \in PllRefs \cup {0}
        /\ ref > 875 /\ ref <= 1750 => ref \in PllRefs
        /\ ref > 1750 /\ ref <= 3500 => ref \div 2 \in PllRefs
        /\ ref > 3500 /\ ref <= 7000 => ref \div 4 \in PllRefs
    BY Z3 DEF PllRefs
  <1>3. 1750 \div 2 = 875 /\ 1750 * 2 = 3500 /\ 1750 * 4 = 7000
    BY Z3
  <1> QED BY <1>1, <1>2, <1>3 DEF ref_div_sel

LEMMA PacedRaises ==
  ASSUME NEW x, NEW y, NEW z
  PROVE  /\ Raises(x, y) /\ Raises(y, z) => Raises(x, z)
         /\ Raises(x, y) => Form(y)
         /\ Paced(x, y) => Raises(x, y)
         /\ Paced(x, y) /\ RefIn(x) => RefIn(y)
         /\ Form(x) => Raises(x, x)
  BY DEF Raises, Paced, RefIn

LEMMA LikeClocks ==
  ASSUME NEW x, NEW y, y.clk.ref = x.clk.ref, y.clk.word = x.clk.word, y.clk.div = x.clk.div,
         y.clk.rate = x.clk.rate, y.clk.init = x.clk.init
  PROVE  /\ \A c : clk_get_rate(y, c) = clk_get_rate(x, c)
         /\ (Hung(x) <=> Hung(y)) /\ (Running(x) <=> Running(y))
  <1>1. \A c : clk_get_rate(y, c) = clk_get_rate(x, c)
    BY DEF clk_get_rate
  <1> QED BY <1>1 DEF Hung, Linked, Running

LEMMA ClocksRaise ==
  ASSUME NEW x, Form(x), Given(x), NEW y, y = SetupClocks(x)
  PROVE  /\ Raises(x, y)
         /\ Raisable(x) /\ ~(y.rc < 0) => Running(y) /\ RefIn(y) /\ TimesIn(y)
         /\ DOMAIN y.pd.bw = Sides
  <1> DEFINE bw == [rx |-> validate_rf_bw(x, x.pd.bw.rx), tx |-> validate_rf_bw(x, x.pd.bw.tx)]
             skip == x.pd.skipcal /\ ~x.pd.fdd
             pin == x.pd.pinctrl /\ ~(x.pd.fdd /\ x.pd.indep)
             pd == [x.pd EXCEPT !.bw = bw, !.skipcal = skip, !.pinctrl = pin]
             ref == ref_div_sel(x.pd.ref, Mega(70))
             a == [x EXCEPT !.pd = pd, !.dcxo = pd.dcxo, !.en.clocks = TRUE, !.clk.ref = ref]
             b == [a EXCEPT !.clk.ref = x.clk.ref, !.en.clocks = x.en.clocks]
             c == set_trx_clock_chain(a, pd.clks.rx, pd.clks.tx)
  <1>1. y = IF ref = 0 THEN Return(b, EINVAL) ELSE c
    <2>1. DOMAIN x.pd = DOMAIN default_init_param
      BY DEF Form
    <2>2. pd = [x.pd EXCEPT !.bw = [rx |-> validate_rf_bw(x, @.rx), tx |-> validate_rf_bw(x, @.tx)],
                            !.skipcal = @ /\ ~x.pd.fdd,
                            !.pinctrl = @ /\ ~(x.pd.fdd /\ x.pd.indep)]
      BY <2>1 DEF default_init_param
    <2> QED BY <2>2 DEF SetupClocks
  <1>2. ref \in PllRefs \cup {0} /\ (RefIn(x) <=> x.clk.ref = ref)
    BY RefAllowed DEF Given, RefIn
  <1> HIDE DEF bw, skip, pin
  <1>12. DOMAIN bw = Sides
    BY DEF bw, Sides
  <1>3. /\ DOMAIN pd = DOMAIN default_init_param /\ pd.ref = x.pd.ref /\ pd.clks = x.pd.clks
        /\ DOMAIN pd.bw = Sides
    BY <1>12 DEF Form, default_init_param
  <1> HIDE DEF pd
  <1>4. /\ Form(a) /\ a.late = x.late /\ a.pd = pd /\ a.lo = x.lo
        /\ a.clk = [x.clk EXCEPT !.ref = ref]
    <2> HIDE DEF ref
    <2> QED BY <1>3 DEF Form, Fields
  <1>5. /\ Form(b) /\ b.late = x.late /\ b.pd = pd /\ b.lo = x.lo
        /\ b.clk.ref = x.clk.ref /\ b.clk.word = x.clk.word /\ b.clk.div = x.clk.div
        /\ b.clk.rate = x.clk.rate /\ b.clk.init = x.clk.init
    <2> DEFINE k == [a.clk EXCEPT !.ref = x.clk.ref]
    <2>1. b.clk = k
      <3> HIDE DEF ref
      <3> QED BY <1>4 DEF Form, Fields
    <2> HIDE DEF a, ref
    <2>2. /\ DOMAIN k = {"ref", "word", "div", "rate", "init"} /\ k.ref = x.clk.ref
          /\ k.word = x.clk.word /\ k.div = x.clk.div /\ k.rate = x.clk.rate /\ k.init = x.clk.init
      BY <1>4 DEF Form
    <2>3. /\ DOMAIN b = Fields /\ b.late = a.late /\ b.pd = a.pd /\ b.lo = a.lo
          /\ b.tune = a.tune /\ b.times = a.times /\ b.bw = a.bw /\ b.quad = a.quad
      BY <1>4 DEF Form, Fields
    <2> HIDE DEF b, k
    <2> QED BY <1>4, <2>1, <2>2, <2>3 DEF Form
  <1> HIDE DEF a, b, ref
  <1>6. Raises(x, b)
    <2>1. Running(x) <=> Running(b)
      BY <1>5, LikeClocks
    <2> QED BY <1>3, <1>5, <2>1 DEF Raises, Powers, RefIn
  <1>7. ASSUME Running(x), RefIn(x) PROVE Running(a)
    <2>1. /\ a.clk.ref = x.clk.ref /\ a.clk.word = x.clk.word /\ a.clk.div = x.clk.div
          /\ a.clk.rate = x.clk.rate /\ a.clk.init = x.clk.init
      BY <1>2, <1>4, <1>7 DEF Form
    <2> QED BY <1>7, <2>1, LikeClocks
  <1>8. RefIn(a) /\ Raises(x, a)
    <2>1. RefIn(a)
      BY <1>3, <1>4 DEF RefIn, Form, ref
    <2> QED BY <1>3, <1>4, <1>7, <2>1 DEF Raises, Powers
  <1>9. ASSUME Hung(x), ~x.clk.init, ref # 0 PROVE Startable(a)
    <2>1. a.clk.ref = ref /\ a.clk.init = x.clk.init /\ a.clk.rate = x.clk.rate /\ a.clk.div = x.clk.div
      BY <1>4 DEF Form
    <2>2. \A k \in Stems : clk_get_rate(a, k) = clk_get_rate(x, k)
      BY <2>1, ParentIs, ParentStem DEF clk_get_rate
    <2> QED BY <1>2, <1>9, <2>1, <2>2 DEF Startable, Hung
  <1>10. CASE ref = 0
    <2>1. y = Return(b, EINVAL)
      BY <1>1, <1>10
    <2>2. Aside(b, y) /\ y.rc = EINVAL
      BY <1>5, <2>1, ReturnAside
    <2>3. Raises(b, y)
      BY <2>2, AsideInStep, PacedRaises
    <2>4. y.rc < 0
      BY <2>2 DEF EINVAL
    <2>5. y.pd.bw = b.pd.bw
      BY <2>2 DEF Aside
    <2> QED BY <1>3, <1>5, <1>6, <2>3, <2>4, <2>5, PacedRaises
  <1>11. CASE ref # 0
    <2>1. y = c /\ c = set_trx_clock_chain(a, pd.clks.rx, pd.clks.tx)
      BY <1>1, <1>11
    <2> HIDE DEF c
    <2>2. /\ Paced(a, c) /\ (~(c.rc < 0) => TimesIn(c))
          /\ Startable(a) /\ pd.clks.rx.bbpll \in MinBbpll..MaxBbpll /\ ~(c.rc < 0) => Running(c)
      BY <1>4, <2>1, ChainIs
    <2>3. pd.clks.rx.bbpll \in MinBbpll..MaxBbpll
      BY <1>3 DEF Given
    <2>4. Raises(x, c) /\ RefIn(c)
      BY <1>8, <2>2, PacedRaises
    <2>5. Raisable(x) /\ ~(c.rc < 0) => Running(c)
      BY <1>7, <1>9, <1>11, <2>2, <2>3 DEF Raisable, Paced
    <2>6. DOMAIN c.pd.bw = Sides
      BY <1>3, <1>4, <2>2 DEF Paced
    <2> QED BY <2>1, <2>2, <2>4, <2>5, <2>6
  <1> QED BY <1>10, <1>11

LEMMA ChannelsIn ==
  ASSUME NEW y, Form(y) PROVE InStep(y, SetupChannels(y))
  <1> DEFINE rx == IF y.pd.rx2tx2 THEN {1, 2} ELSE {Clamp(y.pd.rxnum, 1, 2)}
             tx == IF y.pd.rx2tx2 THEN {1, 2} ELSE {Clamp(y.pd.txnum, 1, 2)}
             rxen == en_dis(y.gain.rxen, {1, 2}, rx)
             h == [y EXCEPT !.gain.rxen = rxen]
             txen == en_dis(h.gain.txen, {1, 2}, tx)
             a == [h EXCEPT !.gain.txen = txen]
             rxnum == Clamp(y.pd.rxnum, 1, 2)
             txnum == Clamp(y.pd.txnum, 1, 2)
             pd == [y.pd EXCEPT !.rxnum = rxnum, !.txnum = txnum]
             b == [a EXCEPT !.pd = pd]
             k == IF y.pd.rx2tx2 THEN a ELSE b
             yes == TRUE
             c == rf_port_setup(k, yes, y.port.rx, y.port.tx)
             d == auxadc_setup(c)
  <1>1. SetupChannels(y) \in {c, d}
    <2> DEFINE e == [a EXCEPT !.pd.rxnum = rxnum]
    <2>0. a.pd = y.pd /\ DOMAIN a = Fields /\ DOMAIN y.pd = DOMAIN default_init_param
      <3> HIDE DEF rxen, txen
      <3> QED BY DEF Form, Fields
    <2>1. a = [y EXCEPT !.gain.rxen = en_dis(@, {1, 2}, rx), !.gain.txen = en_dis(@, {1, 2}, tx)]
      <3> HIDE DEF rx, tx
      <3> QED OBVIOUS
    <2> HIDE DEF a
    <2>3. b = [a EXCEPT !.pd.rxnum = Clamp(@, 1, 2), !.pd.txnum = Clamp(@, 1, 2)]
      <3>1. e.pd.txnum = y.pd.txnum /\ e = [a EXCEPT !.pd.rxnum = Clamp(@, 1, 2)]
        BY <2>0 DEF Fields, default_init_param
      <3>2. [e EXCEPT !.pd.txnum = Clamp(@, 1, 2)] = [e EXCEPT !.pd.txnum = txnum]
        BY <3>1
      <3>3. [a EXCEPT !.pd.rxnum = Clamp(@, 1, 2), !.pd.txnum = Clamp(@, 1, 2)]
              = [e EXCEPT !.pd.txnum = Clamp(@, 1, 2)]
        BY <3>1
      <3>4. b = [e EXCEPT !.pd.txnum = txnum]
        <4> HIDE DEF rxnum, txnum
        <4> QED BY <2>0, ZenonT(60) DEF Fields, default_init_param
      <3> HIDE DEF e, b
      <3> QED BY <3>2, <3>3, <3>4
    <2> HIDE DEF rx, tx, b
    <2> QED BY <2>1, <2>3 DEF SetupChannels, Then, rx, tx
  <1>2. yes \in BOOLEAN
    OBVIOUS
  <1> HIDE DEF rxnum, txnum, yes, rxen, txen
  <1>9. a.pd = y.pd
    BY DEF Form, Fields
  <1>3. Aside(y, a) /\ Form(a)
    <2> DEFINE i == [y.gain EXCEPT !.rxen = rxen]
               j == [h.gain EXCEPT !.txen = txen]
    <2>1. h = [y EXCEPT !.gain = i] /\ a = [h EXCEPT !.gain = j]
      OBVIOUS
    <2> HIDE DEF a, h, i, j
    <2>2. Aside(y, h) /\ Form(h)
      BY <2>1, FieldsAside, AsideTrans
    <2>3. Aside(h, a) /\ Form(a)
      BY <2>1, <2>2, FieldsAside, AsideTrans
    <2> QED BY <2>2, <2>3, AsideTrans
  <1> HIDE DEF a
  <1>4. Aside(a, b) /\ Form(b)
    <2>1. /\ DOMAIN pd = DOMAIN default_init_param
          /\ pd.ref = a.pd.ref /\ pd.bw = a.pd.bw /\ pd.clks = a.pd.clks
      BY <1>9 DEF Form, default_init_param
    <2> HIDE DEF pd
    <2> QED BY <1>3, <2>1, PdAside, AsideTrans
  <1>5. Aside(y, k) /\ Form(k)
    <2> HIDE DEF b
    <2> QED BY <1>3, <1>4, AsideTrans
  <1> HIDE DEF k
  <1>6. Aside(k, c) /\ Form(c)
    BY <1>2, <1>5, PortAside, AsideTrans
  <1> HIDE DEF c
  <1>7. InStep(c, d)
    BY <1>6, TimesInStep
  <1>8. InStep(y, k) /\ InStep(k, c)
    BY <1>5, <1>6, AsideInStep
  <1> HIDE DEF d
  <1> QED BY <1>1, <1>7, <1>8, InStepTrans

LEMMA SynthsIn ==
  ASSUME NEW y, Form(y) PROVE InStep(y, SetupSynths(y))
  <1> DEFINE rx == "rx"
             tx == "tx"
             a == txrx_synth_cp_calib(y, rx)
             b == txrx_synth_cp_calib(a, tx)
             cp == IF a.rc < 0 THEN a ELSE b
             none == [rx |-> FALSE, tx |-> FALSE]
             i == [cp EXCEPT !.pd.ext = none]
             j == [i EXCEPT !.qc.freq = i.pd.synth.tx]
             k == set_lo(j, rx, j.pd.synth[rx])
             l == set_lo(k, tx, k.pd.synth[tx])
             e == y.pd.ext
             m == [l EXCEPT !.pd.ext = e]
             u == e[rx]
             v == e[tx]
             n == clk_mux_set_parent(m, rx, u)
             o == clk_mux_set_parent(n, tx, v)
             q == Ok(o)
  <1>0. rx \in Sides /\ tx \in Sides
    BY DEF Sides
  <1>1. SetupSynths(y) = IF cp.rc < 0 THEN cp ELSE q
    BY DEF SetupSynths, Then
  <1>2. /\ a = txrx_synth_cp_calib(y, rx) /\ b = txrx_synth_cp_calib(a, tx)
        /\ k = set_lo(j, rx, j.pd.synth[rx]) /\ l = set_lo(k, tx, k.pd.synth[tx])
        /\ n = clk_mux_set_parent(m, rx, u) /\ o = clk_mux_set_parent(n, tx, v)
    OBVIOUS
  <1> HIDE DEF rx, tx, a, b, k, l, n, o, e, u, v, none
  <1>3. ASSUME NEW t, Form(t), NEW ext, NEW w, w = [t EXCEPT !.pd.ext = ext]
        PROVE  Aside(t, w) /\ Form(w)
    <2> DEFINE pd == [t.pd EXCEPT !.ext = ext]
    <2>1. w = [t EXCEPT !.pd = pd]
      BY <1>3
    <2>2. /\ DOMAIN pd = DOMAIN default_init_param
          /\ pd.ref = t.pd.ref /\ pd.bw = t.pd.bw /\ pd.clks = t.pd.clks
      BY <1>3 DEF Form, default_init_param
    <2> HIDE DEF pd
    <2> QED BY <1>3, <2>1, <2>2, PdAside, AsideTrans
  <1>4. Aside(y, a) /\ Form(a)
    BY <1>0, <1>2, PumpAside
  <1>5. Aside(a, b) /\ Form(b)
    BY <1>0, <1>2, <1>4, PumpAside
  <1>6. Aside(y, cp) /\ Form(cp)
    BY <1>4, <1>5, AsideTrans
  <1> HIDE DEF cp
  <1>7. Aside(cp, i) /\ Form(i)
    BY <1>3, <1>6
  <1> HIDE DEF i
  <1>8. Aside(i, j) /\ Form(j)
    <2> DEFINE qc == [i.qc EXCEPT !.freq = i.pd.synth.tx]
    <2>1. j = [i EXCEPT !.qc = qc]
      OBVIOUS
    <2> HIDE DEF qc, j
    <2> QED BY <1>7, <2>1, FieldsAside, AsideTrans
  <1> HIDE DEF j
  <1>9. InStep(j, k) /\ Form(k)
    <2>1. InStep(j, set_lo(j, rx, j.pd.synth[rx]))
      BY <1>0, <1>8, SetLoIn
    <2>2. InStep(j, k)
      BY <1>2, <2>1
    <2> QED BY <2>2, InStepTrans
  <1>10. InStep(k, l) /\ Form(l)
    <2>1. InStep(k, set_lo(k, tx, k.pd.synth[tx]))
      BY <1>0, <1>9, SetLoIn
    <2>2. InStep(k, l)
      BY <1>2, <2>1
    <2> QED BY <2>2, InStepTrans
  <1>11. Aside(l, m) /\ Form(m)
    BY <1>3, <1>10
  <1> HIDE DEF m
  <1>12. Aside(m, n) /\ Form(n)
    BY <1>0, <1>2, <1>11, MuxAside, AsideTrans
  <1>13. Aside(n, o) /\ Form(o)
    BY <1>0, <1>2, <1>12, MuxAside, AsideTrans
  <1>14. Aside(o, q)
    BY <1>13, ReturnAside
  <1> HIDE DEF q
  <1>15. InStep(y, cp) /\ InStep(y, j)
    BY <1>6, <1>7, <1>8, AsideInStep, InStepTrans
  <1>16. InStep(l, q)
    BY <1>11, <1>12, <1>13, <1>14, AsideInStep, InStepTrans
  <1>17. InStep(y, q)
    BY <1>9, <1>10, <1>15, <1>16, InStepTrans
  <1> QED BY <1>1, <1>15, <1>17

\* At the end of the calibrations the filters are set up for the bandwidth that is
\* current from then on.
LEMMA CalibrationsIn ==
  ASSUME NEW y, Form(y), DOMAIN y.pd.bw = Sides, NEW z, z = SetupCalibrations(y)
  PROVE  Paced(y, z) /\ (y.late = {} /\ ~(z.rc < 0) => TuneIn(z))
  <1> DEFINE half == [rx |-> y.pd.bw.rx \div 2, tx |-> y.pd.bw.tx \div 2]
             hybrid == \E ch \in {1, 2} : y.pd.agc[ch] = "hybrid"
             idx == [ch \in {1, 2} |-> GainMax]
             gn == [y.gain EXCEPT !.agc = y.pd.agc, !.mode = y.pd.agc, !.hybrid = hybrid, !.idx = idx]
             u == [y EXCEPT !.gain = gn]
             g == gc_setup(y)
             f == update_filters(g, y.pd.bw.rx, y.pd.bw.tx)
             b == Then(f, bb_dc_offset_calib)
             r == rf_dc_offset_calib(b, rfpll_recalc_rate(b, "rx"))
             d == Then(b, LAMBDA k : rf_dc_offset_calib(k, rfpll_recalc_rate(k, "rx")))
             now(k) == [k EXCEPT !.bw = k.pd.bw, !.qc.phase = 32]
             n == now(d)
             q == tx_quad_calib(n, half.rx, half.tx, -1)
             e == Then(d, LAMBDA k : tx_quad_calib(now(k), half.rx, half.tx, -1))
             t == tracking_control(e, e.trk.want)
             last == Then(e, LAMBDA k : tracking_control(k, k.trk.want))
  <1>1. z = last
    BY DEF SetupCalibrations
  <1>2. g = gc_update(u)
    <2> HIDE DEF hybrid, idx
    <2>1. [y EXCEPT !.gain.agc = y.pd.agc, !.gain.mode = y.pd.agc,
                    !.gain.hybrid = hybrid, !.gain.idx = idx] = u
      BY DEF Form, Fields
    <2> HIDE DEF u
    <2> QED BY <2>1 DEF gc_setup, hybrid, idx
  <1>3. b = IF f.rc < 0 THEN f ELSE bb_dc_offset_calib(f)
    BY DEF Then
  <1>4. d = IF b.rc < 0 THEN b ELSE r
    BY DEF Then
  <1>5. e = IF d.rc < 0 THEN d ELSE q
    BY DEF Then
  <1>6. last = IF e.rc < 0 THEN e ELSE t
    BY DEF Then
  <1>19. f = update_filters(g, y.pd.bw.rx, y.pd.bw.tx)
    OBVIOUS
  <1> HIDE DEF half, gn, last, f, e, d, b
  <1>7. Aside(y, u) /\ Form(u)
    BY FieldsAside, AsideTrans
  <1> HIDE DEF u, g
  <1>8. InStep(u, g) /\ Form(g)
    BY <1>2, <1>7, TimesInStep
  <1>9. Paced(y, g) /\ Form(g) /\ y.late = g.late /\ g.pd.bw = y.pd.bw
    <2>1. Paced(y, u) /\ Paced(u, g)
      BY <1>7, <1>8, AsideInStep DEF InStep
    <2> QED BY <1>8, <2>1, PacedTrans DEF Paced
  <1>10. /\ Form(f) /\ f.late = g.late /\ f.pd.bw = y.pd.bw /\ Paced(g, f)
         /\ g.late = {} => TunedTo(f, y.pd.bw.rx, y.pd.bw.tx)
    <2>1. Retuned1(g, f) /\ (g.late = {} => TunedTo(f, y.pd.bw.rx, y.pd.bw.tx))
      BY <1>9, <1>19, FiltersAre
    <2>2. Form(f) /\ f.clk = g.clk /\ f.times = g.times /\ f.late = g.late
      BY <2>1 DEF Retuned1
    <2>3. \A c : clk_get_rate(f, c) = clk_get_rate(g, c)
      BY <2>2, ApartClocks
    <2>4. (Running(g) <=> Running(f)) /\ (TimesIn(g) <=> TimesIn(f))
      BY <2>2, <2>3, ApartClocks DEF TimesIn
    <2> QED BY <1>9, <2>1, <2>2, <2>4 DEF Paced, Retuned1, Powers
  <1>11. Aside(f, b) /\ Form(b)
    <2>1. Aside(f, f) /\ Aside(f, bb_dc_offset_calib(f))
      BY <1>10, DcAside, AsideTrans
    <2>2. Aside(f, b)
      BY <1>3, <2>1
    <2> QED BY <2>2, AsideTrans
  <1>12. Aside(b, d) /\ Form(d)
    <2>1. Aside(b, b) /\ Aside(b, r)
      BY <1>11, DcAside, AsideTrans
    <2> HIDE DEF r
    <2>2. Aside(b, d)
      BY <1>4, <2>1
    <2> QED BY <2>2, AsideTrans
  <1>13. /\ Paced(g, d) /\ d.late = g.late /\ d.pd.bw = y.pd.bw
         /\ g.late = {} => TunedTo(d, y.pd.bw.rx, y.pd.bw.tx)
    <2>1. Aside(f, d)
      BY <1>11, <1>12, AsideTrans
    <2>2. Paced(f, d)
      BY <2>1, AsideInStep
    <2>3. \A c : clk_get_rate(d, c) = clk_get_rate(f, c)
      BY <2>1, ApartClocks DEF Aside
    <2> QED BY <1>10, <2>1, <2>2, <2>3, PacedTrans DEF TunedTo, Aside
  <1>14. /\ Form(n) /\ n.late = d.late /\ Paced(d, n)
         /\ n.late = {} => TuneIn(n)
    <2> DEFINE bw == d.pd.bw
               m == [d EXCEPT !.bw = bw]
               qc == [m.qc EXCEPT !.phase = 32]
    <2>1. n = [m EXCEPT !.qc = qc] /\ bw = y.pd.bw
      BY <1>13
    <2> HIDE DEF bw, qc, n
    <2>2. /\ Form(m) /\ m.late = d.late /\ m.clk = d.clk /\ m.tune = d.tune /\ m.times = d.times
          /\ m.bw = bw /\ m.pd = d.pd /\ m.lo = d.lo
      BY <1>12, <2>1 DEF Form, Fields
    <2> HIDE DEF m
    <2>3. \A c : clk_get_rate(m, c) = clk_get_rate(d, c)
      BY <2>2, ApartClocks
    <2>4. Running(m) <=> Running(d)
      BY <2>2, ApartClocks
    <2>5. TimesIn(m) <=> TimesIn(d)
      BY <2>2, <2>3 DEF TimesIn
    <2>6. Paced(d, m)
      BY <2>2, <2>4, <2>5 DEF Paced, Powers
    <2>7. m.late = {} => TuneIn(m)
      BY <1>13, <2>1, <2>2, <2>3 DEF TuneIn, TunedTo
    <2>8. Aside(m, n) /\ Form(n)
      BY <2>1, <2>2, FieldsAside, AsideTrans
    <2>9. Paced(m, n) /\ (TuneIn(m) <=> TuneIn(n)) /\ n.late = m.late
      BY <2>8, AsideInStep DEF Aside
    <2> QED BY <2>2, <2>6, <2>7, <2>8, <2>9, PacedTrans
  <1> HIDE DEF n
  <1>15. Filtered(n, q) /\ (Powers(n) => Powers(q))
    BY <1>14, TxQuadIs
  <1>16. InStep(n, q) /\ Form(q) /\ q.late = n.late
    BY <1>15, FilteredInStep DEF Filtered
  <1> HIDE DEF q, r
  <1>17. /\ Paced(y, e) /\ Form(e) /\ e.late = y.late
         /\ y.late = {} /\ ~(e.rc < 0) => TuneIn(e)
    <2>1. Paced(y, d) /\ d.late = y.late
      BY <1>9, <1>13, PacedTrans
    <2>2. Paced(y, q) /\ q.late = y.late /\ (y.late = {} => TuneIn(q))
      BY <1>14, <1>15, <1>16, <2>1, PacedTrans DEF Filtered, InStep
    <2> QED BY <1>5, <2>1, <2>2 DEF Paced
  <1>18. Aside(e, t)
    BY <1>17, EnAside
  <1> HIDE DEF t
  <1>20. Paced(e, t) /\ (TuneIn(e) <=> TuneIn(t))
    BY <1>18, AsideInStep
  <1> QED BY <1>1, <1>6, <1>17, <1>20, PacedTrans

LEMMA SetupEnsmIn ==
  ASSUME NEW y, Form(y) PROVE InStep(y, SetupEnsm(y))
  <1> DEFINE on == IF y.pd.rx2tx2 THEN {1, 2} ELSE {y.pd.txnum}
             off == {1, 2} \ on
             a == set_ensm_mode(y, y.pd.fdd, y.pd.pinctrl)
             b == set_tx_atten(a, y.pd.atten, on)
             bb == set_tx_atten(b, MaxAtten, off)
             c == Then(b, LAMBDA k : set_tx_atten(k, MaxAtten, off))
             cc == rssi_setup(c)
             d == Then(c, rssi_setup)
             en == [d.en EXCEPT !.curr = d.en.dev]
             i == [d EXCEPT !.en = en]
             f == ensm_set_state(i, IF d.pd.fdd THEN "FDD" ELSE "RX", d.pd.pinctrl)
             g == [f EXCEPT !.autocal = TRUE]
             h == Ok(g)
             state(k) == ensm_set_state([k EXCEPT !.en.curr = k.en.dev],
                                        IF k.pd.fdd THEN "FDD" ELSE "RX", k.pd.pinctrl)
             last == Then(d, LAMBDA k : Ok([state(k) EXCEPT !.autocal = TRUE]))
  <1>1. SetupEnsm(y) = last
    BY DEF SetupEnsm
  <1>2. c = IF b.rc < 0 THEN b ELSE bb
    BY DEF Then
  <1>3. d = IF c.rc < 0 THEN c ELSE cc
    BY DEF Then
  <1> HIDE DEF on, off, a, b, c, d
  <1>4. last = IF d.rc < 0 THEN d ELSE h
    BY DEF Then
  <1>5. Aside(y, a) /\ Form(a)
    BY EnModeAside DEF a
  <1>6. Aside(a, b) /\ Form(b)
    BY <1>5, AttenAside DEF b
  <1>7. Aside(b, bb) /\ Form(bb)
    BY <1>6, AttenAside
  <1> HIDE DEF bb
  <1>8. Aside(b, c) /\ Form(c)
    <2>1. Aside(b, b)
      BY <1>6, AsideTrans
    <2>2. Aside(b, c)
      BY <1>2, <1>7, <2>1
    <2> QED BY <2>2, AsideTrans
  <1>9. InStep(c, d) /\ Form(d)
    <2>1. InStep(c, cc) /\ InStep(c, c)
      BY <1>8, TimesInStep, InStepTrans
    <2> HIDE DEF cc
    <2>2. InStep(c, d)
      BY <1>3, <2>1
    <2> QED BY <2>2, InStepTrans
  <1> HIDE DEF cc, en
  <1>10. Aside(d, i) /\ Form(i)
    BY <1>9, FieldsAside, AsideTrans
  <1> HIDE DEF i
  <1>11. Aside(i, f) /\ Form(f)
    BY <1>10, SetStateAside
  <1> HIDE DEF f
  <1>12. Aside(f, g) /\ Form(g)
    BY <1>11, FieldsAside, AsideTrans
  <1> HIDE DEF g
  <1>13. Aside(g, h)
    BY <1>12, ReturnAside
  <1> HIDE DEF h, last
  <1>14. InStep(y, c) /\ InStep(d, h)
    BY <1>5, <1>6, <1>8, <1>10, <1>11, <1>12, <1>13, AsideTrans, AsideInStep
  <1>15. InStep(y, d) /\ InStep(y, h)
    BY <1>9, <1>14, InStepTrans
  <1> QED BY <1>1, <1>4, <1>15

\* The whole setup.  A setup that goes to its end switches the automatic calibration on;
\* at the end the clocks are remembered true and everything is set up for them.
LEMMA SetupRaises ==
  ASSUME NEW x, Form(x), Given(x), Set(x, x), x.lo.tx.cur = 0, NEW y, y = ad9361_setup(x)
  PROVE  /\ Raises(x, y)
         /\ Raisable(x) /\ (y.autocal \/ ~(y.rc < 0)) =>
              /\ Running(y) /\ RefIn(y) /\ TimesIn(y)
              /\ x.late = {} => TuneIn(y)
  <1> DEFINE a == SetupClocks(x)
             b == Then(a, SetupChannels)
             c == Then(b, SetupSynths)
             d == Then(c, SetupCalibrations)
             e == Then(d, SetupEnsm)
  <1>1. y = e
    BY DEF ad9361_setup
  <1> HIDE DEF e
  <1>2. e = IF d.rc < 0 THEN d ELSE SetupEnsm(d)
    BY DEF Then, e
  <1> HIDE DEF d
  <1>3. d = IF c.rc < 0 THEN c ELSE SetupCalibrations(c)
    BY DEF Then, d
  <1> HIDE DEF c
  <1>4. c = IF b.rc < 0 THEN b ELSE SetupSynths(b)
    BY DEF Then, c
  <1> HIDE DEF b
  <1>5. b = IF a.rc < 0 THEN a ELSE SetupChannels(a)
    BY DEF Then, b
  <1>6. Set(x, a) /\ (~(a.rc < 0) => a.en.clocks) /\ SameLos(x, a)
    BY ClocksUp
  <1>7. /\ Raises(x, a) /\ DOMAIN a.pd.bw = Sides
        /\ Raisable(x) /\ ~(a.rc < 0) => Running(a) /\ RefIn(a) /\ TimesIn(a)
    BY ClocksRaise
  <1> HIDE DEF a
  <1>8. Set(x, b) /\ (~(b.rc < 0) => b.en.clocks) /\ b.lo.tx.cur = 0
    BY <1>5, <1>6, ChannelsUp DEF SameLos, Sides
  <1>9. Form(a)
    BY <1>7, PacedRaises
  <1>10. InStep(a, b) /\ Form(b)
    <2>1. InStep(a, a) /\ InStep(a, SetupChannels(a))
      BY <1>9, ChannelsIn, InStepTrans
    <2>2. InStep(a, b)
      BY <1>5, <2>1
    <2> QED BY <2>2, InStepTrans
  <1>11. Set(x, c) /\ (~(c.rc < 0) => c.en.clocks /\ c.en.dev = "ALERT")
    BY <1>4, <1>8, SynthsUp
  <1>12. InStep(b, c) /\ Form(c)
    <2>1. InStep(b, b) /\ InStep(b, SetupSynths(b))
      BY <1>10, SynthsIn, InStepTrans
    <2>2. InStep(b, c)
      BY <1>4, <2>1
    <2> QED BY <2>2, InStepTrans
  <1>13. Set(x, d)
    BY <1>3, <1>11, CalibrationsUp
  <1>14. Paced(a, c) /\ c.late = a.late /\ DOMAIN c.pd.bw = Sides
    BY <1>7, <1>10, <1>12, InStepTrans DEF InStep, Paced
  <1>15. /\ Paced(c, d) /\ Form(d)
         /\ c.late = {} /\ ~(c.rc < 0) /\ ~(d.rc < 0) => TuneIn(d)
    <2>1. Paced(c, c)
      BY <1>12, PacedTrans
    <2>2. LET m == SetupCalibrations(c)
          IN Paced(c, m) /\ (c.late = {} /\ ~(m.rc < 0) => TuneIn(m))
      BY <1>12, <1>14, CalibrationsIn
    <2> QED BY <1>3, <2>1, <2>2, PacedTrans
  <1>16. Paced(a, d) /\ d.late = x.late
    BY <1>7, <1>14, <1>15, PacedTrans DEF Raises, Paced
  <1>17. InStep(d, y)
    <2>1. InStep(d, d) /\ InStep(d, SetupEnsm(d))
      BY <1>15, SetupEnsmIn, InStepTrans
    <2> QED BY <1>1, <1>2, <2>1
  <1>18. Paced(a, y)
    BY <1>16, <1>17, PacedTrans DEF InStep
  <1>19. Raises(x, y)
    BY <1>7, <1>18, PacedRaises
  <1>20. (y.autocal \/ ~(y.rc < 0)) => ~(d.rc < 0) /\ ~(c.rc < 0) /\ ~(b.rc < 0) /\ ~(a.rc < 0)
    <2>1. ~d.autocal
      BY <1>13 DEF Set
    <2> QED BY <1>1, <1>2, <1>3, <1>4, <1>5, <2>1
  <1>21. ASSUME Raisable(x), y.autocal \/ ~(y.rc < 0)
         PROVE  Running(y) /\ RefIn(y) /\ TimesIn(y) /\ (x.late = {} => TuneIn(y))
    <2>1. Running(a) /\ RefIn(a) /\ TimesIn(a)
      BY <1>7, <1>20, <1>21
    <2>2. Running(y) /\ TimesIn(y) /\ Running(d)
      BY <1>16, <1>18, <2>1 DEF Paced
    <2>3. RefIn(y)
      BY <1>18, <2>1, PacedRaises
    <2>4. x.late = {} => TuneIn(d)
      BY <1>7, <1>14, <1>15, <1>20, <1>21 DEF Raises
    <2> QED BY <1>16, <1>17, <2>2, <2>3, <2>4 DEF InStep
  <1> QED BY <1>19, <1>21

-----------------------------------------------------------------------------
(* A reset.                                                                   *)
LEMMA ResetForm ==
  ASSUME NEW x, Form(x), NEW y, y = ad9361_reset(x)
  PROVE  /\ Form(y) /\ y.late = x.late /\ y.pd = x.pd
         /\ y.clk.ref = x.clk.ref /\ y.clk.init = x.clk.init
         /\ \A p \in Sides : y.lo[p].chippd = {} /\ y.lo[p].pd = x.lo[p].pd
  <1> DEFINE word == [int |-> 16, fract |-> 0]
             div == [c \in Factors |->
               CASE c = "ADC" -> 8 [] c \in {"RX_SAMPL", "TX_SAMPL"} -> 4
                 [] c = "DAC" -> 1 [] OTHER -> 2]
             chip == [rx |-> NoFilter, tx |-> NoFilter]
             times == [gc |-> <<0, 0>>, rssi |-> 0, auxadc |-> 0]
             mode == <<"manual", "manual">>
             idx == <<GainMax, GainMax>>
             a1 == [x EXCEPT !.clk.word = word]
             a2 == [a1 EXCEPT !.clk.div = div]
             a == [a2 EXCEPT !.fir.chip = chip, !.times = times,
                            !.gain.mode = mode, !.gain.hybrid = FALSE,
                            !.gain.rxen = {}, !.gain.txen = {}, !.gain.idx = idx]
             att == <<AttenWord(0), AttenWord(0)>>
             en == [x.en EXCEPT !.dev = "WAIT", !.pin = FALSE, !.clocks = FALSE, !.fdd = FALSE,
                                !.cfg2 = {}]
             port == [x.port EXCEPT !.select = 0, !.mon = {}]
             tune == [rx |-> <<0, 0>>, tx |-> 0, tia |-> <<0, <<0, 0>>>>, second |-> 0,
                      adc |-> <<0, 0, 0, <<0, 0>>>>]
             b == [a EXCEPT !.att.chip = att, !.en = en, !.trk.chip = {}, !.mcsrf = FALSE,
                            !.dcband = FALSE, !.port = port, !.tune = tune]
             fl(f) == [f EXCEPT !.mem = NoFastlock.mem, !.setup = 0, !.ready = FALSE,
                                !.vcocal = TRUE, !.alc = 0]
             synth(l) == [l EXCEPT !.reg = NoFreq, !.row = 0, !.chippd = {}, !.ext = FALSE,
                                   !.fl = fl(l.fl)]
             lo == [p \in DOMAIN x.lo |-> synth(x.lo[p])]
             c == [b EXCEPT !.lo = lo]
  <1>1. y = c
    BY DEF ad9361_reset, ResetRegisters
  <1>2. DOMAIN div = Factors
    OBVIOUS
  <1>3. DOMAIN times = {"gc", "rssi", "auxadc"} /\ DOMAIN tune = {"rx", "tx", "tia", "second", "adc"}
    OBVIOUS
  <1> HIDE DEF word, div, chip, times, mode, idx, att, tune, port, en
  <1>4. /\ Form(a1) /\ a1.clk.ref = x.clk.ref /\ a1.clk.init = x.clk.init /\ a1.pd = x.pd
        /\ a1.late = x.late /\ a1.lo = x.lo
    <2> DEFINE k == [x.clk EXCEPT !.word = word]
    <2>1. a1 = [x EXCEPT !.clk = k] /\ DOMAIN k = {"ref", "word", "div", "rate", "init"}
          /\ k.ref = x.clk.ref /\ k.init = x.clk.init /\ k.div = x.clk.div /\ k.rate = x.clk.rate
      BY DEF Form
    <2> HIDE DEF k
    <2> QED BY <2>1 DEF Form, Fields
  <1> HIDE DEF a1
  <1>5. /\ Form(a2) /\ a2.clk.ref = x.clk.ref /\ a2.clk.init = x.clk.init /\ a2.pd = x.pd
        /\ a2.late = x.late /\ a2.lo = x.lo
    <2> DEFINE k == [a1.clk EXCEPT !.div = div]
    <2>1. a2 = [a1 EXCEPT !.clk = k] /\ DOMAIN k = {"ref", "word", "div", "rate", "init"}
          /\ k.ref = x.clk.ref /\ k.init = x.clk.init /\ k.div = div /\ k.rate = a1.clk.rate
      BY <1>4 DEF Form
    <2> HIDE DEF k
    <2> QED BY <1>2, <1>4, <2>1 DEF Form, Fields
  <1> HIDE DEF a2
  <1>6. Form(a) /\ a.lo = x.lo /\ a.pd = x.pd /\ a.late = x.late /\ a.clk = a2.clk
    BY <1>3, <1>5 DEF Form, Fields
  <1> HIDE DEF a
  <1>7. Form(b) /\ b.lo = x.lo /\ b.pd = x.pd /\ b.late = x.late /\ b.clk = a2.clk
    BY <1>3, <1>6 DEF Form, Fields
  <1> HIDE DEF b, fl
  <1>8. /\ DOMAIN lo = Sides
        /\ \A p \in Sides : DOMAIN lo[p] = SynthFields /\ lo[p].chippd = {} /\ lo[p].pd = x.lo[p].pd
    BY DEF SynthFields, Form
  <1> HIDE DEF lo
  <1>9. Form(c) /\ c.lo = lo /\ c.pd = x.pd /\ c.late = x.late /\ c.clk = a2.clk
    BY <1>7, <1>8 DEF Form, Fields
  <1> HIDE DEF c
  <1> QED BY <1>1, <1>5, <1>8, <1>9

LEMMA ClearForm ==
  ASSUME NEW x, Form(x), NEW y, y = clear_state(x)
  PROVE  /\ Form(y) /\ y.late = x.late /\ y.clk = x.clk
         /\ y.pd.ref = x.pd.ref /\ y.pd.clks = x.pd.clks
         /\ \A p \in Sides : y.lo[p].pd = {} /\ y.lo[p].chippd = x.lo[p].chippd
  <1> DEFINE fir == [x.fir EXCEPT !.rxby = TRUE, !.txby = TRUE, !.rxdec = 0, !.txint = 0,
                                  !.taps = [rx |-> 0, tx |-> 0]]
             en == [x.en EXCEPT !.prev = "WAIT", !.curr = "WAIT", !.pinctl = FALSE]
             fl(f) == [f EXCEPT !.profile = 0, !.entry = NoFastlock.entry]
             synth(l) == [l EXCEPT !.cur = 0, !.tdd = FALSE, !.pd = {}, !.fl = fl(l.fl)]
             bw == [rx |-> 0, tx |-> 0]
             d == [x EXCEPT !.gain.table = NoTable, !.pd.gov = 1]
             a == [d EXCEPT !.autocal = FALSE, !.fir = fir, !.trk.want = Trackings, !.bw = bw,
                            !.bbfdiv = 0, !.en = en, !.qc.freq = 0]
             lo == [p \in DOMAIN x.lo |-> synth(x.lo[p])]
             b == [a EXCEPT !.lo = lo]
  <1>1. y = b
    BY DEF clear_state
  <1>2. DOMAIN bw = Sides
    BY DEF Sides
  <1> HIDE DEF fir, bw, en
  <1>3. Form(d) /\ d.lo = x.lo /\ d.pd = [x.pd EXCEPT !.gov = 1] /\ d.late = x.late /\ d.clk = x.clk
    BY DEF Form, Fields
  <1> HIDE DEF d
  <1>4. d.pd.ref = x.pd.ref /\ d.pd.clks = x.pd.clks
    BY <1>3 DEF Form, default_init_param
  <1>5. Form(a) /\ a.lo = x.lo /\ a.pd = d.pd /\ a.late = x.late /\ a.clk = x.clk
    BY <1>2, <1>3 DEF Form, Fields
  <1> HIDE DEF a, fl
  <1>6. /\ DOMAIN lo = Sides
        /\ \A p \in Sides : DOMAIN lo[p] = SynthFields /\ lo[p].pd = {} /\ lo[p].chippd = x.lo[p].chippd
    BY DEF Form, SynthFields
  <1> HIDE DEF lo
  <1>7. Form(b) /\ b.lo = lo /\ b.pd = a.pd /\ b.late = x.late /\ b.clk = x.clk
    BY <1>5, <1>6 DEF Form, Fields
  <1> HIDE DEF b
  <1> QED BY <1>1, <1>4, <1>5, <1>6, <1>7

LEMMA RegisterForm ==
  ASSUME NEW x, Form(x), NEW y, y = register_clocks(x)
  PROVE  /\ Form(y) /\ y.late = x.late /\ y.pd.ref = x.pd.ref /\ y.pd.clks = x.pd.clks
         /\ y.clk.ref = x.clk.ref /\ y.clk.init = x.clk.init /\ Linked(y)
         /\ \A p \in Sides : y.lo[p].pd = x.lo[p].pd /\ y.lo[p].chippd = x.lo[p].chippd
  <1> DEFINE d(p) == x.pd.synth[p]
             synth(p) == [x.lo[p] EXCEPT !.dummy = d(p)]
             lo == [p \in DOMAIN x.lo |-> synth(p)]
             z == [x EXCEPT !.lo = lo]
  <1>1. y = recalc_all(z)
    BY DEF register_clocks
  <1> HIDE DEF d
  <1>2. /\ DOMAIN lo = Sides
        /\ \A p \in Sides : DOMAIN lo[p] = SynthFields /\ lo[p].pd = x.lo[p].pd
                            /\ lo[p].chippd = x.lo[p].chippd
    BY DEF Form, SynthFields
  <1> HIDE DEF lo
  <1>3. Form(z) /\ z.lo = lo /\ z.pd = x.pd /\ z.late = x.late /\ z.clk = x.clk
    BY <1>2 DEF Form, Fields
  <1> HIDE DEF z
  <1>4. Reclocked(z, y) /\ y.clk = [z.clk EXCEPT !.rate = TreeRates(z)] /\ Linked(y)
    BY <1>1, <1>3, RecalcIs, RecalcLinks
  <1>5. y.clk.ref = z.clk.ref /\ y.clk.init = z.clk.init
    BY <1>3, <1>4 DEF Form
  <1> QED BY <1>2, <1>3, <1>4, <1>5 DEF Reclocked

\* The radio has clocks remembered true, and power-downs as they were asked for; after a
\* setup that went to its end everything is set up for them.
Up(y) == Running(y) /\ RefIn(y) /\ Powers(y)
InTune(y) == TimesIn(y) /\ TuneIn(y)

LEMMA InitRaises ==
  ASSUME NEW x, Form(x), Given(x), ~x.clk.init,
         Shape(x), SynthsOk(x), ~x.autocal,
         \A p \in Sides : /\ x.lo[p].fl = NoFastlock /\ x.pd.synth[p] \in LoFreqs /\ x.lo[p].cur = 0
                          /\ x.lo[p].pd = {},
         NEW y, y = ad9361_init(x)
  PROVE  /\ Form(y) /\ y.late = x.late /\ Given(y)
         /\ ~(y.rc < 0) => Up(y) /\ (x.late = {} => InTune(y))
  <1> DEFINE a == ad9361_reset(x)
             b == register_clocks(a)
             c == ad9361_setup(b)
  <1>1. y = IF c.rc < 0 THEN Return(c, ENODEV) ELSE Ok(c)
    BY DEF ad9361_init
  <1>2. /\ Shape(a) /\ SynthsOk(a) /\ a.pd = x.pd /\ a.autocal = x.autocal
        /\ \A p \in Sides : a.lo[p].fl = NoFastlock /\ a.lo[p].cur = 0
    BY ResetIs, FreshNew
  <1>3. /\ Form(a) /\ a.late = x.late /\ a.clk.init = x.clk.init
        /\ \A p \in Sides : a.lo[p].chippd = {} /\ a.lo[p].pd = {}
    BY ResetForm
  <1> HIDE DEF a
  <1>4. Quiet(a, b)
    BY <1>2, RegisterIs
  <1>5. /\ Form(b) /\ b.late = a.late /\ b.pd.ref = a.pd.ref /\ b.pd.clks = a.pd.clks
        /\ b.clk.init = a.clk.init /\ Linked(b)
        /\ \A p \in Sides : b.lo[p].pd = a.lo[p].pd /\ b.lo[p].chippd = a.lo[p].chippd
    BY <1>3, RegisterForm
  <1> HIDE DEF b
  <1>6. Set(b, b) /\ b.lo.tx.cur = 0
    <2>1. Shape(b) /\ b.pd = a.pd /\ b.autocal = a.autocal
          /\ \A p \in Sides : SameSynth(a.lo[p], b.lo[p])
      BY <1>4 DEF Quiet, Still
    <2>2. SynthsOk(b) /\ \A p \in Sides : Fresh(b.lo[p].fl) /\ b.lo[p].cur = 0
      BY <1>2, <2>1, FreshNew DEF SynthsOk, SynthOk, SameSynth
    <2> QED BY <1>2, <2>1, <2>2, SetSelf
  <1>7. Given(b) /\ Raisable(b) /\ Powers(b) /\ b.late = x.late
    BY <1>2, <1>3, <1>5 DEF Given, Raisable, Linked, Powers
  <1>8. /\ Raises(b, c)
        /\ ~(c.rc < 0) => Running(c) /\ RefIn(c) /\ TimesIn(c) /\ (b.late = {} => TuneIn(c))
    BY <1>5, <1>6, <1>7, SetupRaises
  <1> HIDE DEF c
  <1>9. Form(c) /\ Given(c) /\ c.late = x.late /\ Powers(c)
    BY <1>7, <1>8 DEF Raises, Given
  <1>10. Aside(c, y) /\ (~(y.rc < 0) => ~(c.rc < 0))
    <2>1. CASE c.rc < 0
      BY <1>1, <1>9, <2>1, ReturnAside DEF ENODEV
    <2>2. CASE ~(c.rc < 0)
      BY <1>1, <1>9, <2>2, ReturnAside
    <2> QED BY <2>1, <2>2
  <1>11. /\ (TimesIn(c) <=> TimesIn(y)) /\ (TuneIn(c) <=> TuneIn(y)) /\ (Running(c) <=> Running(y))
    BY <1>10, AsideInStep
  <1> QED BY <1>7, <1>8, <1>9, <1>10, <1>11 DEF Aside, Up, InTune, Given, RefIn

\* Another number of channels.
LEMMA NoChRaises ==
  ASSUME NEW x, Form(x), Given(x), Shape(x), SynthsOk(x), \A p \in Sides : x.pd.synth[p] \in LoFreqs,
         NEW n, NEW y, y = set_no_ch_mode(x, n)
  PROVE  /\ Form(y) /\ y.late = x.late /\ Given(y)
         /\ x.clk.init /\ RefIn(x) => Up(y)
         /\ x.clk.init /\ RefIn(x) /\ y.autocal /\ x.late = {} => InTune(y)
  <1> DEFINE v == n = 2
             pd == [x.pd EXCEPT !.rx2tx2 = v]
             a == [x EXCEPT !.pd = pd]
             b == ad9361_reset(a)
             c == clear_state(b)
             d == recalc_all(c)
             e == Ok(d)
             f == ad9361_setup(e)
  <1>1. y = Ok(f)
    BY DEF set_no_ch_mode
  <1> HIDE DEF v
  <1>2. /\ pd.ref = x.pd.ref /\ pd.clks = x.pd.clks /\ pd.bw = x.pd.bw /\ pd.synth = x.pd.synth
        /\ pd.ext = x.pd.ext /\ DOMAIN pd = DOMAIN default_init_param
    BY DEF Form, default_init_param
  <1> HIDE DEF pd
  <1>3. Shape(a) /\ a.lo = x.lo /\ a.pd = pd
    BY <1>2 DEF Shape, Fields
  <1>4. Aside(x, a) /\ Form(a)
    BY <1>2, PdAside, AsideTrans
  <1> HIDE DEF a
  <1>5. SynthsOk(a)
    BY <1>3 DEF SynthsOk
  <1>6. Shape(b) /\ SynthsOk(b) /\ b.pd = a.pd
        /\ \A p \in Sides : b.lo[p].fl = Reset(a.lo[p].fl)
    BY <1>3, <1>5, ResetIs
  <1>7. /\ Form(b) /\ b.late = a.late /\ b.pd = a.pd
        /\ b.clk.ref = a.clk.ref /\ b.clk.init = a.clk.init
        /\ \A p \in Sides : b.lo[p].chippd = {}
    BY <1>4, ResetForm
  <1> HIDE DEF b
  <1>8. /\ Shape(c) /\ SynthsOk(c) /\ SamePd(b, c) /\ ~c.autocal
        /\ \A p \in Sides : c.lo[p].fl = Cleared(b.lo[p].fl) /\ c.lo[p].cur = 0
    BY <1>6, ClearIs
  <1>9. /\ Form(c) /\ c.late = b.late /\ c.clk = b.clk
        /\ c.pd.ref = b.pd.ref /\ c.pd.clks = b.pd.clks
        /\ \A p \in Sides : c.lo[p].pd = {} /\ c.lo[p].chippd = {}
    BY <1>7, ClearForm
  <1>10. \A p \in Sides : c.lo[p].fl = NoFastlock
    BY <1>3, <1>6, <1>8, ResetLockShape DEF Shape
  <1> HIDE DEF c
  <1>11. Quiet(c, d)
    BY <1>8, RecalcQuiet
  <1>12. Reclocked(c, d) /\ d.clk = [c.clk EXCEPT !.rate = TreeRates(c)] /\ Linked(d)
    BY <1>9, RecalcIs, RecalcLinks
  <1>13. Form(d) /\ d.clk.ref = c.clk.ref /\ d.clk.init = c.clk.init
    BY <1>9, <1>12 DEF Form, Reclocked
  <1> HIDE DEF d
  <1>14. Quiet(c, e)
    BY <1>11, QuietShape, OkQuiet, QuietTrans
  <1>15. Apart(d, e) /\ Form(e)
    BY <1>13, ReturnApart, ApartTrans
  <1> HIDE DEF e
  <1>16. Set(e, e) /\ e.lo.tx.cur = 0
    <2>1. Shape(e) /\ e.pd = c.pd /\ e.autocal = c.autocal
          /\ \A p \in Sides : SameSynth(c.lo[p], e.lo[p])
      BY <1>14 DEF Quiet, Still
    <2>2. SynthsOk(e) /\ \A p \in Sides : Fresh(e.lo[p].fl) /\ e.lo[p].cur = 0
      BY <1>8, <1>10, <2>1, FreshNew DEF SynthsOk, SynthOk, SameSynth
    <2>3. e.pd.synth = x.pd.synth
      BY <1>2, <1>3, <1>6, <1>8, <2>1 DEF SamePd
    <2> QED BY <1>8, <2>1, <2>2, <2>3, SetSelf
  <1>17. /\ e.late = x.late /\ e.pd.ref = x.pd.ref /\ e.pd.clks = x.pd.clks
         /\ e.clk.ref = x.clk.ref /\ e.clk.init = x.clk.init /\ Linked(e) /\ Powers(e)
    <2>1. e.clk = d.clk /\ Reclocked(d, e)
      BY <1>15 DEF Apart
    <2>2. Linked(e)
      BY <1>12, <2>1, ApartClocks
    <2>3. Powers(e)
      <3> SUFFICES ASSUME NEW p \in Sides PROVE e.lo[p].chippd = e.lo[p].pd
        BY DEF Powers
      <3>1. c.lo[p].pd = {} /\ c.lo[p].chippd = {}
        BY <1>9
      <3>2. d.lo[p].pd = c.lo[p].pd /\ d.lo[p].chippd = c.lo[p].chippd
        BY <1>12 DEF Reclocked
      <3>3. e.lo[p].pd = d.lo[p].pd /\ e.lo[p].chippd = d.lo[p].chippd
        BY <2>1 DEF Reclocked
      <3> QED BY <3>1, <3>2, <3>3
    <2>4. e.late = x.late /\ e.pd.ref = x.pd.ref /\ e.pd.clks = x.pd.clks
      BY <1>4, <1>7, <1>9, <1>12, <2>1 DEF Reclocked, Aside
    <2>5. e.clk.ref = x.clk.ref /\ e.clk.init = x.clk.init
      BY <1>4, <1>7, <1>9, <1>13, <2>1 DEF Aside
    <2> QED BY <2>2, <2>3, <2>4, <2>5
  <1>18. Given(e)
    BY <1>17 DEF Given
  <1>19. /\ Raises(e, f)
         /\ Raisable(e) /\ f.autocal =>
              Running(f) /\ TimesIn(f) /\ (e.late = {} => TuneIn(f))
    BY <1>15, <1>16, <1>18, SetupRaises
  <1>22. Brought(e, f)
    BY <1>16, SetupIs
  <1> HIDE DEF f
  <1>20. Form(f) /\ Given(f) /\ f.late = x.late /\ Powers(f)
    BY <1>17, <1>18, <1>19 DEF Raises, Given
  <1>21. x.clk.init /\ RefIn(x) => Raisable(e) /\ Running(f) /\ RefIn(f)
    <2>1. x.clk.init /\ RefIn(x) => Running(e) /\ RefIn(e)
      BY <1>17 DEF Running, RefIn
    <2> QED BY <1>19, <2>1 DEF Raises, Raisable
  <1>23. Aside(f, y)
    BY <1>1, <1>20, ReturnAside
  <1>24. /\ (TimesIn(f) <=> TimesIn(y)) /\ (TuneIn(f) <=> TuneIn(y)) /\ (Running(f) <=> Running(y))
    BY <1>23, AsideInStep
  <1>25. y.autocal = f.autocal
    BY <1>1, <1>20 DEF Ok, Return, Form, Fields
  <1> QED BY <1>17, <1>19, <1>20, <1>21, <1>23, <1>24, <1>25 DEF Aside, Up, InTune, Given, RefIn

-----------------------------------------------------------------------------
(* The calls, one by one.                                                     *)

LEMMA IntExtAside ==
  ASSUME NEW x, Form(x), NEW p \in Sides, NEW ext
  PROVE  Aside(x, set_lo_int_ext(x, p, ext))
  <1> DEFINE pd == [x.pd EXCEPT !.ext[p] = ext]
             a == [x EXCEPT !.pd = pd]
             y == clk_mux_set_parent(a, p, ext)
  <1>1. set_lo_int_ext(x, p, ext) \in {Return(x, -1), y}
    BY DEF set_lo_int_ext
  <1>2. pd.ref = x.pd.ref /\ pd.clks = x.pd.clks /\ pd.bw = x.pd.bw
        /\ DOMAIN pd = DOMAIN default_init_param
    BY DEF Form, default_init_param
  <1> HIDE DEF pd
  <1>3. Aside(x, a) /\ Form(a)
    BY <1>2, PdAside, AsideTrans
  <1> HIDE DEF a
  <1>4. Aside(a, y)
    BY <1>3, MuxAside
  <1> HIDE DEF y
  <1>5. Aside(x, Return(x, -1))
    BY ReturnAside
  <1> QED BY <1>1, <1>3, <1>4, <1>5, AsideTrans

\* y is x but for what may happen during a call.
Echoes(x, y) == /\ Form(y) /\ y.clk = x.clk /\ y.tune = x.tune /\ y.times = x.times
                /\ y.bw = x.bw /\ y.pd = x.pd /\ y.lo = x.lo /\ y.autocal = x.autocal

LEMMA EchoKeeps ==
  ASSUME NEW x, NEW y, Echoes(x, y)
  PROVE  /\ (Up(x) <=> Up(y)) /\ (InTune(x) <=> InTune(y)) /\ (Given(x) <=> Given(y))
         /\ (Running(x) <=> Running(y)) /\ (TimesIn(x) <=> TimesIn(y)) /\ (TuneIn(x) <=> TuneIn(y))
  <1>1. /\ \A c : clk_get_rate(y, c) = clk_get_rate(x, c)
        /\ (Running(x) <=> Running(y))
    BY ApartClocks DEF Echoes
  <1>2. (TimesIn(x) <=> TimesIn(y)) /\ (TuneIn(x) <=> TuneIn(y))
    BY <1>1 DEF Echoes, TimesIn, TuneIn, TunedTo
  <1>3. (RefIn(x) <=> RefIn(y)) /\ (Powers(x) <=> Powers(y)) /\ (Given(x) <=> Given(y))
    BY DEF Echoes, RefIn, Powers, Given
  <1> QED BY <1>1, <1>2, <1>3 DEF Up, InTune

LEMMA DuringEchoes ==
  ASSUME NEW x, Form(x), NEW o \in Outcomes, NEW a, NEW y, y = During(Ok(x), o, a)
  PROVE  Echoes(x, y) /\ (o = Nominal => y.late = {})
  <1> DEFINE l == o.late
             q == o.quad
             z == Ok(x)
  <1>1. q.first \in QuadAnswers /\ (o = Nominal => l = {})
    BY ParamsAssumption DEF Outcomes, Nominal, QuadAnswers
  <1>2. y = [z EXCEPT !.late = l, !.quad = q, !.alc = a]
    BY DEF During
  <1> HIDE DEF l, q
  <1>3. Echoes(x, z)
    BY DEF Ok, Return, Echoes, Form, Fields
  <1> HIDE DEF z
  <1> QED BY <1>1, <1>2, <1>3 DEF Echoes, Form, Fields

LEMMA SettledEchoes ==
  ASSUME NEW x, Form(x) PROVE Echoes(x, Settled(x)) /\ Settled(x).late = {}
  <1> DEFINE q == Nominal.quad
  <1>1. Settled(x) = [x EXCEPT !.late = {}, !.quad = q, !.alc = 0, !.rc = 0]
    BY DEF Settled, During, Nominal
  <1>2. q.first \in QuadAnswers
    BY DEF Nominal, QuadAnswers
  <1> HIDE DEF q
  <1> QED BY <1>1, <1>2 DEF Echoes, Form, Fields

-----------------------------------------------------------------------------
(* The invariant: from when there is a handle the clocks are what the driver  *)
(* remembers of them, and in use all is set up for them.                      *)

\* Before the initialisation no clock was ever set and no LO powered down.
Unset == pc = 1 => ~s.clk.init /\ \A p \in Sides : s.lo[p].pd = {}

Timed == /\ Form(s) /\ s.late = {} /\ Given(s) /\ Unset
         /\ phy => Up(s)
         /\ InUse => InTune(s)

LEMMA EndsTimed ==
  ASSUME Timed, phy' = phy, pc' # 1, NEW o \in Outcomes, NEW a \in Alcs, NEW t, NEW plain,
         InStep(Start(o, a), t), InStep(Start(Nominal, a), plain),
         NEW name, name # "set_no_ch_mode", NEW arg, Ends(name, arg, t, plain)
  PROVE  Timed'
  <1> DEFINE x == Start(o, a)
             x0 == Start(Nominal, a)
  <1>1. Form(s) /\ Given(s)
    BY DEF Timed
  <1>2. Nominal \in Outcomes
    BY DEF Outcomes
  <1>3. Echoes(s, x) /\ Echoes(s, x0) /\ x0.late = {}
    BY <1>1, <1>2, DuringEchoes DEF Start
  <1> HIDE DEF x, x0
  <1>4. InStep(x, t) /\ InStep(x0, plain)
    BY DEF x, x0
  <1>5. Paced(x, t) /\ Paced(x0, plain) /\ Form(t) /\ Form(plain)
    BY <1>4 DEF InStep, Paced
  <1>6. /\ Echoes(t, Settled(t)) /\ Echoes(plain, Settled(plain)) /\ Settled(t).late = {}
    BY <1>5, SettledEchoes
  <1>7. s' = Settled(t)
    BY DEF Ends
  <1>8. Form(s') /\ s'.late = {} /\ Given(s')
    <2>1. Given(x)
      BY <1>1, <1>3, EchoKeeps
    <2>2. Given(t)
      BY <1>5, <2>1 DEF Paced, Given
    <2> QED BY <1>6, <1>7, <2>2, EchoKeeps DEF Echoes
  <1>9. phy => Up(s')
    <2>1. phy => Up(x)
      BY <1>3, EchoKeeps DEF Timed
    <2>2. phy => Up(t)
      BY <1>5, <2>1 DEF Paced, Up, RefIn
    <2> QED BY <1>6, <1>7, <2>2, EchoKeeps
  <1>10. ASSUME InUse' PROVE InTune(s')
    <2>1. past \subseteq past' /\ (Settled(t) # Settled(plain) => "fault" \in past')
      BY DEF Ends, Bit
    <2>2. phy /\ InUse /\ s' = Settled(plain)
      BY <1>7, <1>10, <2>1 DEF InUse
    <2>3. Running(x0) /\ TimesIn(x0) /\ TuneIn(x0)
      BY <1>3, <2>2, EchoKeeps DEF Timed, Up, InTune
    <2>4. TimesIn(plain) /\ TuneIn(plain)
      BY <1>3, <1>4, <1>5, <2>3 DEF InStep, Paced
    <2> QED BY <1>6, <2>2, <2>4, EchoKeeps DEF InTune
  <1>11. Timed' <=> /\ Form(s') /\ s'.late = {} /\ Given(s') /\ Unset'
                    /\ phy' => Up(s')
                    /\ InUse' => InTune(s')
    BY DEF Timed
  <1> QED BY <1>8, <1>9, <1>10, <1>11 DEF Unset

LEMMA NominalOne == Nominal \in Outcomes
  BY DEF Outcomes

LEMMA CallTimed ==
  ASSUME Timed, phy' = phy, pc' = MainEnd, NEW o \in Outcomes, NEW a \in Alcs, NEW t, NEW plain,
         InStep(Start(o, a), t), InStep(Start(Nominal, a), plain),
         NEW name, name # "set_no_ch_mode", NEW arg, Ends(name, arg, t, plain)
  PROVE  Timed'
  <1>1. pc' # 1
    BY DEF MainEnd
  <1> QED BY <1>1, EndsTimed

\* Whatever is to happen during the call.
LEMMA StartForm ==
  ASSUME Timed, NEW o \in Outcomes, NEW a PROVE Form(Start(o, a))
  BY DuringEchoes DEF Timed, Start, Echoes

LEMMA SamplingTimed ==
  ASSUME Timed, Sampling PROVE Timed'
  <1>1. PICK rate \in Rates, o \in Outcomes, a \in Alcs :
          /\ Ends("set_sampling_freq", rate, set_sampling_freq(Start(o, a), rate),
                  set_sampling_freq(Start(Nominal, a), rate))
          /\ phy' = phy /\ pc' = MainEnd
    BY DEF Sampling, API, Perform, Start, Outcomes
  <1>2. \A q \in Outcomes : InStep(Start(q, a), set_sampling_freq(Start(q, a), rate))
    BY StartForm, SamplingIs
  <1> QED BY <1>1, <1>2, NominalOne, CallTimed

LEMMA BandwidthTimed ==
  ASSUME Timed, Bandwidth PROVE Timed'
  <1>1. PICK p \in Sides, bw \in Bws, o \in Outcomes, a \in Alcs :
          /\ Ends(For(p, "set_rx_rf_bandwidth", "set_tx_rf_bandwidth"), bw, set_rf_bandwidth(Start(o, a), p, bw),
                  set_rf_bandwidth(Start(Nominal, a), p, bw))
          /\ phy' = phy /\ pc' = MainEnd
    BY DEF Bandwidth, API, Perform, Start, Outcomes, Sides
  <1>2. \A q \in Outcomes : InStep(Start(q, a), set_rf_bandwidth(Start(q, a), p, bw))
    BY StartForm, BandwidthIn
  <1>3. For(p, "set_rx_rf_bandwidth", "set_tx_rf_bandwidth") # "set_no_ch_mode"
    BY DEF For
  <1> QED BY <1>1, <1>2, <1>3, NominalOne, CallTimed

LEMMA SetLoTimed ==
  ASSUME Timed, SetLo PROVE Timed'
  <1>1. PICK p \in Sides, f \in Los, o \in Outcomes, a \in Alcs :
          /\ Ends(For(p, "set_rx_lo_freq", "set_tx_lo_freq"), f, set_lo(Start(o, a), p, f),
                  set_lo(Start(Nominal, a), p, f))
          /\ phy' = phy /\ pc' = MainEnd
    BY DEF SetLo, API, Perform, Start, Outcomes, Sides
  <1>2. \A q \in Outcomes : InStep(Start(q, a), set_lo(Start(q, a), p, f))
    BY StartForm, SetLoIn
  <1>3. For(p, "set_rx_lo_freq", "set_tx_lo_freq") # "set_no_ch_mode"
    BY DEF For
  <1> QED BY <1>1, <1>2, <1>3, NominalOne, CallTimed

LEMMA IntExtTimed ==
  ASSUME Timed, IntExt PROVE Timed'
  <1>1. PICK p \in Sides, ext \in BOOLEAN, o \in Outcomes, a \in Alcs :
          /\ Ends(For(p, "set_rx_lo_int_ext", "set_tx_lo_int_ext"), ext, set_lo_int_ext(Start(o, a), p, ext),
                  set_lo_int_ext(Start(Nominal, a), p, ext))
          /\ phy' = phy /\ pc' = MainEnd
    BY DEF IntExt, API, Perform, Start, Outcomes, Sides
  <1>2. \A q \in Outcomes : InStep(Start(q, a), set_lo_int_ext(Start(q, a), p, ext))
    BY StartForm, IntExtAside, AsideInStep
  <1>3. For(p, "set_rx_lo_int_ext", "set_tx_lo_int_ext") # "set_no_ch_mode"
    BY DEF For
  <1> QED BY <1>1, <1>2, <1>3, NominalOne, CallTimed

LEMMA LoPowerTimed ==
  ASSUME Timed, LoPower PROVE Timed'
  <1>1. PICK off \in BOOLEAN : \E o \in Outcomes, a \in Alcs :
          LET option == IF off THEN "off" ELSE "on"
              rx(q) == synth_lo_powerdown(Start(q, a), option, "dontcare")
              tx(q) == synth_lo_powerdown(Start(q, a), "dontcare", option)
          IN /\ \/ Ends("rx_lo_powerdown", off, rx(o), rx(Nominal))
                \/ Ends("tx_lo_powerdown", off, tx(o), tx(Nominal))
             /\ phy' = phy /\ pc' = MainEnd
    BY DEF LoPower, API, Perform, Start, Outcomes
  <1> DEFINE option == IF off THEN "off" ELSE "on"
  <1> HIDE DEF option
  <1>2. PICK o \in Outcomes, a \in Alcs :
          /\ \/ Ends("rx_lo_powerdown", off, synth_lo_powerdown(Start(o, a), option, "dontcare"),
                     synth_lo_powerdown(Start(Nominal, a), option, "dontcare"))
             \/ Ends("tx_lo_powerdown", off, synth_lo_powerdown(Start(o, a), "dontcare", option),
                     synth_lo_powerdown(Start(Nominal, a), "dontcare", option))
          /\ phy' = phy /\ pc' = MainEnd
    BY <1>1 DEF option
  <1>3. \A q \in Outcomes :
          /\ InStep(Start(q, a), synth_lo_powerdown(Start(q, a), option, "dontcare"))
          /\ InStep(Start(q, a), synth_lo_powerdown(Start(q, a), "dontcare", option))
    BY StartForm, PowerdownIs, AsideInStep
  <1> QED BY <1>2, <1>3, NominalOne, CallTimed

LEMMA FastlockingTimed ==
  ASSUME Timed, Fastlocking PROVE Timed'
  <1>1. PICK p \in Sides, k \in Profiles : \E o \in Outcomes, a \in Alcs :
          /\ \/ Ends("fastlock_store", <<p, k>>, fastlock_store(Start(o, a), p, k),
                     fastlock_store(Start(Nominal, a), p, k))
             \/ Ends("fastlock_recall", <<p, k>>, fastlock_recall(Start(o, a), p, k),
                     fastlock_recall(Start(Nominal, a), p, k))
             \/ \E j \in Profiles :
                  Ends("fastlock_load", <<p, k>>,
                       fastlock_load(Start(o, a), p, k, fastlock_save(Start(o, a), p, j)),
                       fastlock_load(Start(Nominal, a), p, k, fastlock_save(Start(Nominal, a), p, j)))
          /\ phy' = phy /\ pc' = MainEnd
    BY DEF Fastlocking, API, Perform, Start, Outcomes, Sides, MainEnd
  <1>2. PICK o \in Outcomes, a \in Alcs :
          /\ \/ Ends("fastlock_store", <<p, k>>, fastlock_store(Start(o, a), p, k),
                     fastlock_store(Start(Nominal, a), p, k))
             \/ Ends("fastlock_recall", <<p, k>>, fastlock_recall(Start(o, a), p, k),
                     fastlock_recall(Start(Nominal, a), p, k))
             \/ \E j \in Profiles :
                  Ends("fastlock_load", <<p, k>>,
                       fastlock_load(Start(o, a), p, k, fastlock_save(Start(o, a), p, j)),
                       fastlock_load(Start(Nominal, a), p, k, fastlock_save(Start(Nominal, a), p, j)))
          /\ phy' = phy /\ pc' = MainEnd
    BY <1>1
  <1>3. \A values : \A q \in Outcomes :
          /\ InStep(Start(q, a), fastlock_store(Start(q, a), p, k))
          /\ InStep(Start(q, a), fastlock_recall(Start(q, a), p, k))
          /\ InStep(Start(q, a), fastlock_load(Start(q, a), p, k, values))
    BY StartForm, FastlockAside, AsideInStep
  <1> QED BY <1>2, <1>3, NominalOne, CallTimed

LEMMA EnsmTimed ==
  ASSUME Timed, Ensm PROVE Timed'
  <1>1. PICK mode \in EnsmModes, o \in Outcomes, a \in Alcs :
          /\ Ends("set_en_state_machine_mode", mode, set_en_state_machine_mode(Start(o, a), mode),
                  set_en_state_machine_mode(Start(Nominal, a), mode))
          /\ phy' = phy /\ pc' = MainEnd
    BY DEF Ensm, API, Perform, Start, Outcomes
  <1>2. \A q \in Outcomes : InStep(Start(q, a), set_en_state_machine_mode(Start(q, a), mode))
    BY StartForm, EnsmAside, AsideInStep
  <1> QED BY <1>1, <1>2, NominalOne, CallTimed

LEMMA TrackingTimed ==
  ASSUME Timed, Tracking PROVE Timed'
  <1>1. PICK which \in Trackings, on \in BOOLEAN, o \in Outcomes, a \in Alcs :
          /\ Ends("set_track_en_dis", <<which, on>>, set_track_en_dis(Start(o, a), which, on),
                  set_track_en_dis(Start(Nominal, a), which, on))
          /\ phy' = phy /\ pc' = MainEnd
    BY DEF Tracking, API, Perform, Start, Outcomes
  <1>2. \A q \in Outcomes : InStep(Start(q, a), set_track_en_dis(Start(q, a), which, on))
    BY StartForm, TrackAside, AsideInStep
  <1> QED BY <1>1, <1>2, NominalOne, CallTimed

LEMMA CalibrateTimed ==
  ASSUME Timed, Calibrate PROVE Timed'
  <1>1. PICK cal \in {"TX_QUAD", "RFDC", "other"}, arg \in {-2, -1}, o \in Outcomes, a \in Alcs :
          /\ Ends("do_calib", <<cal, arg>>, do_calib_run(Start(o, a), cal, arg),
                  do_calib_run(Start(Nominal, a), cal, arg))
          /\ phy' = phy /\ pc' = MainEnd
    BY DEF Calibrate, API, Perform, Start, Outcomes
  <1>2. \A q \in Outcomes : InStep(Start(q, a), do_calib_run(Start(q, a), cal, arg))
    BY StartForm, CalibIs
  <1> QED BY <1>1, <1>2, NominalOne, CallTimed

LEMMA FirEnableTimed ==
  ASSUME Timed, FirEnable PROVE Timed'
  <1>1. PICK on \in BOOLEAN, o \in Outcomes, a \in Alcs :
          /\ \/ Ends("set_rx_fir_en_dis", on, set_fir_en_dis(Start(o, a), {"rx"}, on),
                     set_fir_en_dis(Start(Nominal, a), {"rx"}, on))
             \/ Ends("set_tx_fir_en_dis", on, set_fir_en_dis(Start(o, a), {"tx"}, on),
                     set_fir_en_dis(Start(Nominal, a), {"tx"}, on))
             \/ Ends("set_trx_fir_en_dis", on, set_fir_en_dis(Start(o, a), {"rx", "tx"}, on),
                     set_fir_en_dis(Start(Nominal, a), {"rx", "tx"}, on))
          /\ phy' = phy /\ pc' = MainEnd
    BY DEF FirEnable, API, Perform, Start, Outcomes
  <1>2. \A ps : \A q \in Outcomes : InStep(Start(q, a), set_fir_en_dis(Start(q, a), ps, on))
    BY StartForm, FirEnableIn
  <1> QED BY <1>1, <1>2, NominalOne, CallTimed

LEMMA FirConfigTimed ==
  ASSUME Timed, FirConfig PROVE Timed'
  <1>1. PICK cfg \in Fir, o \in Outcomes, a \in Alcs :
          /\ \/ Ends("set_rx_fir_config", cfg, set_rx_fir_config(Start(o, a), cfg.rx),
                     set_rx_fir_config(Start(Nominal, a), cfg.rx))
             \/ Ends("set_tx_fir_config", cfg, set_tx_fir_config(Start(o, a), cfg.tx),
                     set_tx_fir_config(Start(Nominal, a), cfg.tx))
             \/ Ends("trx_load_enable_fir", cfg, trx_load_enable_fir(Start(o, a), cfg.rx, cfg.tx),
                     trx_load_enable_fir(Start(Nominal, a), cfg.rx, cfg.tx))
          /\ phy' = phy /\ pc' = MainEnd
    BY DEF FirConfig, API, Perform, Start, Outcomes
  <1>2. \A q \in Outcomes :
          /\ InStep(Start(q, a), set_rx_fir_config(Start(q, a), cfg.rx))
          /\ InStep(Start(q, a), set_tx_fir_config(Start(q, a), cfg.tx))
          /\ InStep(Start(q, a), trx_load_enable_fir(Start(q, a), cfg.rx, cfg.tx))
    BY StartForm, FirConfigAside, AsideInStep, LoadEnableIn
  <1> QED BY <1>1, <1>2, NominalOne, CallTimed

LEMMA PathClksTimed ==
  ASSUME Timed, PathClks PROVE Timed'
  <1>1. PICK rate \in Rates : \E o \in Outcomes, a \in Alcs :
          LET plan == calculate_rf_clock_chain(rate, 0, 1, 1, FALSE)
          IN /\ Ends("set_trx_path_clks", rate, set_trx_path_clks(Start(o, a), plan.rx, plan.tx),
                     set_trx_path_clks(Start(Nominal, a), plan.rx, plan.tx))
             /\ phy' = phy /\ pc' = MainEnd
    BY DEF PathClks, API, Perform, Start, Outcomes
  <1> DEFINE plan == calculate_rf_clock_chain(rate, 0, 1, 1, FALSE)
             rx == plan.rx
             tx == plan.tx
  <1>2. PICK o \in Outcomes, a \in Alcs :
          /\ Ends("set_trx_path_clks", rate, set_trx_path_clks(Start(o, a), rx, tx),
                  set_trx_path_clks(Start(Nominal, a), rx, tx))
          /\ phy' = phy /\ pc' = MainEnd
    BY <1>1
  <1> HIDE DEF rx, tx
  <1>3. \A q \in Outcomes : InStep(Start(q, a), set_trx_path_clks(Start(q, a), rx, tx))
    BY StartForm, PathClksIn
  <1> QED BY <1>2, <1>3, NominalOne, CallTimed

LEMMA GainModeTimed ==
  ASSUME Timed, GainMode PROVE Timed'
  <1>1. PICK ch \in {0, 1}, mode \in AgcModes, o \in Outcomes, a \in Alcs :
          /\ Ends("set_rx_gain_control_mode", <<ch, mode>>, set_rx_gain_control_mode(Start(o, a), ch, mode),
                  set_rx_gain_control_mode(Start(Nominal, a), ch, mode))
          /\ phy' = phy /\ pc' = MainEnd
    BY DEF GainMode, API, Perform, Start, Outcomes
  <1>2. \A q \in Outcomes : InStep(Start(q, a), set_rx_gain_control_mode(Start(q, a), ch, mode))
    BY StartForm, GainModeIn
  <1> QED BY <1>1, <1>2, NominalOne, CallTimed

LEMMA GainsTimed ==
  ASSUME Timed, Gains PROVE Timed'
  <1>1. PICK ch \in {0, 1} :
          \/ \E g \in {10, 60} :
               API("set_rx_rf_gain", <<ch, g>>, LAMBDA t : set_rx_rf_gain(t, ch, g))
          \/ \E g \in {0, MaxAtten + 250} :
               API("set_tx_attenuation", <<ch, g>>, LAMBDA t : set_tx_attenuation(t, ch, g))
    BY DEF Gains
  <1>2. \A g, a : \A q \in Outcomes :
          /\ InStep(Start(q, a), set_rx_rf_gain(Start(q, a), ch, g))
          /\ InStep(Start(q, a), set_tx_attenuation(Start(q, a), ch, g))
    <2>1. \A g, a : \A q \in Outcomes :
            /\ Aside(Start(q, a), set_rx_rf_gain(Start(q, a), ch, g))
            /\ Aside(Start(q, a), set_tx_attenuation(Start(q, a), ch, g))
      BY StartForm, GainsAside, MuteAside
    <2> QED BY <2>1, AsideInStep
  <1>3. CASE \E g \in {10, 60} :
               API("set_rx_rf_gain", <<ch, g>>, LAMBDA t : set_rx_rf_gain(t, ch, g))
    <2>1. PICK g \in {10, 60}, o \in Outcomes, a \in Alcs :
            /\ Ends("set_rx_rf_gain", <<ch, g>>, set_rx_rf_gain(Start(o, a), ch, g),
                    set_rx_rf_gain(Start(Nominal, a), ch, g))
            /\ phy' = phy /\ pc' = MainEnd
      BY <1>3 DEF API, Perform, Start, Outcomes
    <2> QED BY <1>2, <2>1, NominalOne, CallTimed
  <1>4. CASE \E g \in {0, MaxAtten + 250} :
               API("set_tx_attenuation", <<ch, g>>, LAMBDA t : set_tx_attenuation(t, ch, g))
    <2>1. PICK g \in {0, MaxAtten + 250}, o \in Outcomes, a \in Alcs :
            /\ Ends("set_tx_attenuation", <<ch, g>>, set_tx_attenuation(Start(o, a), ch, g),
                    set_tx_attenuation(Start(Nominal, a), ch, g))
            /\ phy' = phy /\ pc' = MainEnd
      BY <1>4 DEF API, Perform, Start, Outcomes
    <2> QED BY <1>2, <2>1, NominalOne, CallTimed
  <1> QED BY <1>1, <1>3, <1>4

LEMMA MuteTimed ==
  ASSUME Timed, Mute PROVE Timed'
  <1>1. PICK on \in BOOLEAN, o \in Outcomes, a \in Alcs :
          /\ Ends("tx_mute", on, tx_mute(Start(o, a), on),
                  tx_mute(Start(Nominal, a), on))
          /\ phy' = phy /\ pc' = MainEnd
    BY DEF Mute, API, Perform, Start, Outcomes
  <1>2. \A q \in Outcomes : InStep(Start(q, a), tx_mute(Start(q, a), on))
    BY StartForm, MuteAside, AsideInStep
  <1> QED BY <1>1, <1>2, NominalOne, CallTimed

LEMMA PortsTimed ==
  ASSUME Timed, Ports PROVE Timed'
  <1>1. PICK o \in Outcomes, a \in Alcs :
          /\ \/ \E m \in {1, 11, 12} :
                  Ends("set_rx_rf_port_input", m, set_rx_rf_port_input(Start(o, a), m),
                       set_rx_rf_port_input(Start(Nominal, a), m))
             \/ \E m \in {0, 1} :
                  Ends("set_tx_rf_port_output", m, set_tx_rf_port_output(Start(o, a), m),
                       set_tx_rf_port_output(Start(Nominal, a), m))
          /\ phy' = phy /\ pc' = MainEnd
    BY DEF Ports, API, Perform, Start, Outcomes
  <1>2. \A m : \A q \in Outcomes :
          /\ InStep(Start(q, a), set_rx_rf_port_input(Start(q, a), m))
          /\ InStep(Start(q, a), set_tx_rf_port_output(Start(q, a), m))
    BY StartForm, PortsAside, AsideInStep
  <1> QED BY <1>1, <1>2, NominalOne, CallTimed

LEMMA McsTimed ==
  ASSUME Timed, Mcs PROVE Timed'
  <1>1. PICK o \in Outcomes, a \in Alcs :
          /\ \/ Ends("do_mcs", "master",
                     do_mcs(Start(o, a), get_en_state_machine_mode(Start(o, a))),
                     do_mcs(Start(Nominal, a), get_en_state_machine_mode(Start(Nominal, a))))
             \/ \E mode \in {"FDD", "ALERT", "RX"} :
                  Ends("do_mcs", "slave", do_mcs(Start(o, a), mode), do_mcs(Start(Nominal, a), mode))
          /\ phy' = phy /\ pc' = MainEnd
    BY DEF Mcs, API, Perform, Start, Outcomes
  <1>2. \A mode : \A q \in Outcomes : InStep(Start(q, a), do_mcs(Start(q, a), mode))
    BY StartForm, McsAside, AsideInStep
  <1> QED BY <1>1, <1>2, NominalOne, CallTimed

LEMMA GainStepCalibTimed ==
  ASSUME Timed, GainStepCalib PROVE Timed'
  <1>1. PICK o \in Outcomes, a \in Alcs :
          /\ Ends("rssi_gain_step_calib", 0, Ok(ensm_restore_prev_state(ensm_force_state(Start(o, a), "ALERT"))),
                  Ok(ensm_restore_prev_state(ensm_force_state(Start(Nominal, a), "ALERT"))))
          /\ phy' = phy /\ pc' = MainEnd
    BY DEF GainStepCalib, API, Perform, Start, Outcomes
  <1>2. \A q \in Outcomes : InStep(Start(q, a), Ok(ensm_restore_prev_state(ensm_force_state(Start(q, a), "ALERT"))))
    BY StartForm, TrackAside, AsideInStep
  <1> QED BY <1>1, <1>2, NominalOne, CallTimed

LEMMA DcxoTimed ==
  ASSUME Timed, Dcxo PROVE Timed'
  <1> DEFINE With(x, v) == Ok([x EXCEPT !.dcxo[1] = v])
  <1>1. PICK coarse \in {8, 9}, o \in Outcomes, a \in Alcs :
          /\ Ends("do_dcxo_tune_coarse", coarse, With(Start(o, a), coarse), With(Start(Nominal, a), coarse))
          /\ phy' = phy /\ pc' = MainEnd
    BY DEF Dcxo, API, Perform, Start, Outcomes
  <1>2. \A q \in Outcomes : InStep(Start(q, a), With(Start(q, a), coarse))
    BY StartForm, FlagsAside, AsideInStep
  <1> HIDE DEF With
  <1> QED BY <1>1, <1>2, NominalOne, CallTimed

LEMMA AutoCalTimed ==
  ASSUME Timed, AutoCal PROVE Timed'
  <1> DEFINE With(x, v) == Ok([x EXCEPT !.autocal = v])
  <1>1. PICK on \in BOOLEAN, o \in Outcomes, a \in Alcs :
          /\ Ends("set_tx_auto_cal_en_dis", on, With(Start(o, a), on), With(Start(Nominal, a), on))
          /\ phy' = phy /\ pc' = MainEnd
    BY DEF AutoCal, API, Perform, Start, Outcomes
  <1>2. \A q \in Outcomes : InStep(Start(q, a), With(Start(q, a), on))
    BY StartForm, FlagsAside, AsideInStep
  <1> HIDE DEF With
  <1> QED BY <1>1, <1>2, NominalOne, CallTimed

LEMMA RateGovTimed ==
  ASSUME Timed, RateGov PROVE Timed'
  <1> DEFINE With(x, v) == Ok([x EXCEPT !.pd.gov = v])
  <1>1. PICK gov \in {0, 1}, o \in Outcomes, a \in Alcs :
          /\ Ends("set_trx_rate_gov", gov, With(Start(o, a), gov), With(Start(Nominal, a), gov))
          /\ phy' = phy /\ pc' = MainEnd
    BY DEF RateGov, API, Perform, Start, Outcomes
  <1>2. \A q \in Outcomes : InStep(Start(q, a), With(Start(q, a), gov))
    BY StartForm, FlagsAside, AsideInStep
  <1> HIDE DEF With
  <1> QED BY <1>1, <1>2, NominalOne, CallTimed

LEMMA PinsTimed ==
  ASSUME Timed, PinsMove PROVE Timed'
  <1>1. PICK d : s' = [s EXCEPT !.en.dev = d]
    BY DEF PinsMove
  <1> DEFINE en == [s.en EXCEPT !.dev = d]
  <1>2. s' = [s EXCEPT !.en = en]
    BY <1>1
  <1> HIDE DEF en
  <1>3. Form(s) /\ UNCHANGED <<phy, pc, past>>
    BY DEF Timed, PinsMove
  <1>4. Aside(s, s')
    BY <1>2, <1>3, FieldsAside
  <1>5. /\ (TimesIn(s) <=> TimesIn(s')) /\ (TuneIn(s) <=> TuneIn(s'))
        /\ (Running(s) <=> Running(s'))
    BY <1>4, AsideInStep
  <1>6. Form(s') /\ s'.late = {} /\ Given(s') /\ (phy => Up(s')) /\ (InUse => InTune(s'))
    BY <1>4, <1>5 DEF Timed, Aside, Given, Up, RefIn, InTune
  <1>7. (InUse' <=> InUse) /\ Unset'
    <2>1. pc = MainEnd
      BY DEF PinsMove
    <2>2. pc' # 1
      BY <1>3, <2>1 DEF MainEnd
    <2> QED BY <1>3, <2>2 DEF InUse, Unset
  <1>8. Timed' <=> /\ Form(s') /\ s'.late = {} /\ Given(s') /\ Unset'
                   /\ phy' => Up(s')
                   /\ InUse' => InTune(s')
    BY DEF Timed
  <1> QED BY <1>3, <1>6, <1>7, <1>8

\* A new setup, from the clocks as they are: they stay true whatever its end, and all is
\* set up for them if it went to it.
LEMMA NoChModeTimed ==
  ASSUME Sound, Timed, NoChMode PROVE Timed'
  <1>1. PICK n \in {1, 2}, o \in Outcomes, a \in Alcs :
          /\ Ends("set_no_ch_mode", n, set_no_ch_mode(Start(o, a), n),
                  set_no_ch_mode(Start(Nominal, a), n))
          /\ phy' = phy /\ pc' = MainEnd
    BY DEF NoChMode, API, Perform, Start, Outcomes
  <1> DEFINE x == Start(o, a)
             t == set_no_ch_mode(x, n)
             x0 == Start(Nominal, a)
             plain == set_no_ch_mode(x0, n)
  <1>2. Form(s) /\ Given(s)
    BY DEF Timed
  <1>3. Echoes(s, x) /\ Echoes(s, x0) /\ x0.late = {} /\ Form(x) /\ Form(x0)
    BY <1>2, NominalOne, DuringEchoes DEF Start, Echoes
  <1>4. \A q \in {x, x0} : /\ Shape(q) /\ SynthsOk(q)
                           /\ \A p \in Sides : q.pd.synth[p] \in LoFreqs
    BY NominalOne, Starts
  <1>5. Given(x) /\ Given(x0) /\ (phy => Up(x) /\ Up(x0))
    BY <1>2, <1>3, EchoKeeps DEF Timed
  <1>6. /\ s' = Settled(t) /\ (~t.autocal => "halfway" \in past')
        /\ Settled(t) # Settled(plain) => "fault" \in past'
    BY <1>1 DEF Ends, Bit
  <1> HIDE DEF x, x0
  <1>7. /\ Form(t) /\ Given(t)
        /\ x.clk.init /\ RefIn(x) => Up(t)
    BY <1>3, <1>4, <1>5, NoChRaises
  <1>8. /\ Form(plain) /\ Given(plain)
        /\ x0.clk.init /\ RefIn(x0) /\ plain.autocal => InTune(plain)
    BY <1>3, <1>4, <1>5, NoChRaises
  <1> HIDE DEF t, plain
  <1>9. /\ Echoes(t, Settled(t)) /\ Echoes(plain, Settled(plain)) /\ Settled(t).late = {}
    BY <1>7, <1>8, SettledEchoes
  <1>10. Form(s') /\ s'.late = {} /\ Given(s')
    BY <1>6, <1>7, <1>9, EchoKeeps DEF Echoes
  <1>11. phy => Up(s')
    BY <1>5, <1>6, <1>7, <1>9, EchoKeeps DEF Up, Running
  <1>12. ASSUME InUse' PROVE InTune(s')
    <2>1. phy /\ t.autocal /\ s' = Settled(plain)
      BY <1>1, <1>6, <1>12 DEF InUse
    <2>2. plain.autocal
      BY <1>6, <1>9, <2>1 DEF Echoes
    <2>3. InTune(plain)
      BY <1>5, <1>8, <2>1, <2>2 DEF Up, Running
    <2> QED BY <1>9, <2>1, <2>3, EchoKeeps
  <1>13. Unset'
    <2>1. pc' # 1
      BY <1>1 DEF MainEnd
    <2> QED BY <2>1 DEF Unset
  <1>14. Timed' <=> /\ Form(s') /\ s'.late = {} /\ Given(s') /\ Unset'
                    /\ phy' => Up(s')
                    /\ InUse' => InTune(s')
    BY DEF Timed
  <1> QED BY <1>1, <1>10, <1>11, <1>12, <1>13, <1>14

\* The calls of main's sequence after the first.
LEMMA MainIn ==
  ASSUME NEW x, Form(x), NEW step \in 2..15, NEW y, y = main(x, step)
  PROVE  InStep(x, y)
  <1> DEFINE yes == TRUE
             ps == {IF step = 4 THEN "tx" ELSE "rx"}
             lop == IF step = 8 THEN "tx" ELSE "rx"
             lof == IF step = 8 THEN tx_lo_freq ELSE rx_lo_freq
             bwp == IF step = 10 THEN "tx" ELSE "rx"
             up == ad9361_init(x)
             txfir == set_tx_fir_config(x, tx_fir_config)
             rxfir == set_rx_fir_config(x, rx_fir_config)
             enable == set_fir_en_dis(x, ps, yes)
             rate == set_sampling_freq(x, sample_rate)
             lo == set_lo(x, lop, lof)
             bw == set_rf_bandwidth(x, bwp, bandwidth)
             rxgain == set_rx_rf_gain(x, step - 12, gain)
             atten == set_tx_attenuation(x, step - 14, txatt)
  <1>1. y = CASE step = 1 -> up
              [] step = 2 -> txfir
              [] step = 3 -> rxfir
              [] step \in {4, 5} -> enable
              [] step \in {6, 7} -> rate
              [] step \in {8, 9} -> lo
              [] step \in {10, 11} -> bw
              [] step \in {12, 13} -> rxgain
              [] step \in {14, 15} -> atten
    BY DEF main
  <1>2. y \in {txfir, rxfir, enable, rate, lo, bw, rxgain, atten}
    <2> HIDE DEF up, txfir, rxfir, enable, rate, lo, bw, rxgain, atten
    <2> QED BY <1>1
  <1>3. lop \in Sides
    BY DEF Sides
  <1> HIDE DEF yes, ps, lop, lof, bwp
  <1>4. Aside(x, txfir) /\ Aside(x, rxfir) /\ Aside(x, rxgain)
    BY FirConfigAside, GainsAside
  <1>5. Aside(x, atten)
    BY MuteAside
  <1>6. InStep(x, enable)
    BY FirEnableIn
  <1>7. InStep(x, rate) /\ InStep(x, bw)
    BY SamplingIs, BandwidthIn
  <1>8. InStep(x, lo)
    BY <1>3, SetLoIn
  <1> HIDE DEF txfir, rxfir, enable, rate, lo, bw, rxgain, atten
  <1> QED BY <1>2, <1>4, <1>5, <1>6, <1>7, <1>8, AsideInStep

LEMMA MainTimed ==
  ASSUME Sound, Begun, Timed, pc \in 0..15, MainStep PROVE Timed'
  <1>1. /\ pc \in 1..15 /\ (phy \/ pc = 1) /\ phy' = (phy \/ call'.rc >= 0)
        /\ pc' = IF pc = 15 THEN MainEnd ELSE pc + 1
    BY DEF MainStep, MainEnd
  <1>2. pc' # 1
    BY <1>1 DEF MainEnd
  <1>3. PICK o \in Outcomes, a \in Alcs :
          Ends("main", pc, main(Start(o, a), pc), main(Start(Nominal, a), pc))
    BY DEF MainStep, Perform, Start, Outcomes
  <1>4. CASE pc # 1
    <2>1. pc \in 2..15
      BY <1>1, <1>4
    <2>2. phy' = phy
      BY <1>1, <1>4, Zenon DEF Sound
    <2>3. \A q \in Outcomes : InStep(Start(q, a), main(Start(q, a), pc))
      BY <2>1, StartForm, MainIn
    <2> QED BY <1>2, <1>3, <2>2, <2>3, NominalOne, EndsTimed
  <1>5. CASE pc = 1
    <2> DEFINE x == Start(o, a)
               t == ad9361_init(x)
               x0 == Start(Nominal, a)
               plain == ad9361_init(x0)
    <2>1. /\ s' = Settled(t) /\ call'.rc = t.rc
          /\ Settled(t) # Settled(plain) \/ t.rc # plain.rc => "fault" \in past'
      <3>1. main(x, pc) = t /\ main(x0, pc) = plain
        BY <1>5 DEF main
      <3> QED BY <1>3, <3>1 DEF Ends, Bit
    <2>2. Form(s) /\ Given(s) /\ ~s.clk.init /\ \A p \in Sides : s.lo[p].pd = {}
      BY <1>5 DEF Timed, Unset
    <2>3. Echoes(s, x) /\ Echoes(s, x0) /\ x0.late = {}
      BY <2>2, NominalOne, DuringEchoes DEF Start, Echoes
    <2>4. \A q \in {x, x0} :
            /\ Shape(q) /\ SynthsOk(q) /\ ~q.autocal
            /\ \A p \in Sides : /\ q.pd.synth[p] \in LoFreqs /\ q.lo[p].fl = NoFastlock
                                /\ q.lo[p].cur = 0
      BY <1>5, NominalOne, Starts DEF Begun
    <2> HIDE DEF x, x0
    <2>5. \A q \in {x, x0} : /\ Form(q) /\ Given(q) /\ ~q.clk.init
                             /\ \A p \in Sides : q.lo[p].pd = {}
      BY <2>2, <2>3, EchoKeeps DEF Echoes
    <2>6. Form(t) /\ Given(t) /\ (~(t.rc < 0) => Up(t))
      BY <2>4, <2>5, InitRaises
    <2>7. Form(plain) /\ (~(plain.rc < 0) => InTune(plain))
      BY <2>3, <2>4, <2>5, InitRaises
    <2>8. t.rc \in {ENODEV, 0}
      BY <2>4, InitIs
    <2> HIDE DEF t, plain
    <2>9. /\ Echoes(t, Settled(t)) /\ Echoes(plain, Settled(plain)) /\ Settled(t).late = {}
      BY <2>6, <2>7, SettledEchoes
    <2>10. Form(s') /\ s'.late = {} /\ Given(s')
      BY <2>1, <2>6, <2>9, EchoKeeps DEF Echoes
    <2>11. phy' => ~(t.rc < 0)
      <3>1. t.rc >= 0 => ~(t.rc < 0)
        BY <2>8 DEF ENODEV
      <3>2. phy' => t.rc >= 0
        BY <1>1, <1>5, <2>1 DEF Begun
      <3> QED BY <3>1, <3>2
    <2>12. phy' => Up(s')
      BY <2>1, <2>6, <2>9, <2>11, EchoKeeps
    <2>13. ASSUME InUse' PROVE InTune(s')
      <3>1. phy' /\ s' = Settled(plain) /\ plain.rc = t.rc
        BY <2>1, <2>13 DEF InUse
      <3> QED BY <2>7, <2>9, <2>11, <3>1, EchoKeeps
    <2>14. Unset'
      BY <1>2 DEF Unset
    <2>15. Timed' <=> /\ Form(s') /\ s'.late = {} /\ Given(s') /\ Unset'
                      /\ phy' => Up(s')
                      /\ InUse' => InTune(s')
      BY DEF Timed
    <2> QED BY <2>10, <2>12, <2>13, <2>14, <2>15
  <1> QED BY <1>4, <1>5

LEMMA InitTimed == ASSUME Init PROVE Timed
  <1>1. PICK pd \in Params : s = ZeroPhy(pd)
    BY DEF Init
  <1>2. DOMAIN pd = DOMAIN default_init_param
    BY ParamsAssumption
  <1>3. /\ DOMAIN s = Fields /\ DOMAIN s.lo = Sides /\ s.pd = pd /\ s.late = {}
        /\ s.quad.first = "conv" /\ DOMAIN s.bw = Sides
        /\ DOMAIN s.tune = {"rx", "tx", "tia", "second", "adc"}
        /\ DOMAIN s.times = {"gc", "rssi", "auxadc"}
    BY <1>1 DEF ZeroPhy, Fields, Sides
  <1>4. /\ DOMAIN s.clk = {"ref", "word", "div", "rate", "init"} /\ s.clk.init = FALSE
        /\ DOMAIN s.clk.div = Factors /\ DOMAIN s.clk.rate = Clocks
    BY <1>1 DEF ZeroPhy, Clocks
  <1>5. \A p \in Sides : DOMAIN s.lo[p] = SynthFields /\ s.lo[p].pd = {}
    BY <1>1 DEF ZeroPhy, SynthFields, Sides
  <1>6. Form(s)
    BY <1>2, <1>3, <1>4, <1>5 DEF Form, QuadAnswers
  <1>7. Given(s)
    BY <1>1, <1>3, ClockAssumption DEF Given
  <1>8. ~phy /\ ~InUse
    BY DEF Init, InUse
  <1> QED BY <1>3, <1>4, <1>5, <1>6, <1>7, <1>8 DEF Timed, Unset

LEMMA NextTimed == IInv /\ Timed /\ [Next]_vars => Timed'
  <1> SUFFICES ASSUME IInv, Timed, [Next]_vars PROVE Timed'
    OBVIOUS
  <1>1. Sound /\ Begun /\ pc \in 0..15
    BY DEF IInv
  <1>2. CASE MainStep
    BY <1>1, <1>2, MainTimed
  <1>3. CASE NoChMode
    BY <1>1, <1>3, NoChModeTimed
  <1>4. CASE \/ PinsMove \/ Sampling \/ Bandwidth \/ SetLo \/ IntExt \/ LoPower
             \/ Fastlocking \/ Ensm \/ Tracking \/ AutoCal \/ Calibrate \/ FirEnable
    BY <1>4, PinsTimed, SamplingTimed, BandwidthTimed, SetLoTimed, IntExtTimed, LoPowerTimed,
       FastlockingTimed, EnsmTimed, TrackingTimed, AutoCalTimed, CalibrateTimed, FirEnableTimed
  <1>5. CASE \/ FirConfig \/ RateGov \/ PathClks \/ GainMode \/ Gains \/ Mute \/ Ports
             \/ Mcs \/ GainStepCalib \/ Dcxo
    BY <1>5, FirConfigTimed, RateGovTimed, PathClksTimed, GainModeTimed, GainsTimed, MuteTimed,
       PortsTimed, McsTimed, GainStepCalibTimed, DcxoTimed
  <1>6. CASE UNCHANGED vars
    BY <1>6 DEF vars, Timed, Unset, InUse
  <1> QED BY <1>2, <1>3, <1>4, <1>5, <1>6 DEF Next

LEMMA AlwaysTimed == Spec => [](IInv /\ Timed)
  <1>1. Init => Timed
    BY InitTimed
  <1> QED BY <1>1, InitIInv, NextIInv, NextTimed, PTL DEF Spec

-----------------------------------------------------------------------------
(* The theorems.                                                              *)

\* After any calls in any order, the analog filters, the ADC, the RSSI, the auxiliary ADC
\* and the gain control are set up for the clocks and the bandwidth of this moment
\* (__ad9361_update_rf_bandwidth, ad9361_bb_clk_change_handler).
THEOREM AlwaysTuned == Spec => []Tuned
  <1>1. Timed => Tuned
    <2> SUFFICES ASSUME Timed, InUse PROVE Tuned
      BY DEF Tuned
    <2> DEFINE u == update_filters(s, s.bw.rx, s.bw.tx)
               h == bb_clk_change_handler(s)
    <2>1. Form(s) /\ s.late = {} /\ TimesIn(s) /\ TuneIn(s)
      BY DEF Timed, InTune
    <2>2. Retuned1(s, u) /\ TunedTo(u, s.bw.rx, s.bw.tx)
      BY <2>1, FiltersAre
    <2>3. Retimed(s, h) /\ TimesIn(h)
      BY <2>1, HandlerIs
    <2>4. Tuned <=> /\ s.tune = u.tune
                    /\ s.times.rssi = h.times.rssi /\ s.times.auxadc = h.times.auxadc
                    /\ s.times.gc[1] = h.times.gc[1]
      BY DEF Tuned
    <2> HIDE DEF u, h
    <2>5. u.clk = s.clk /\ h.clk = s.clk
      BY <2>2, <2>3 DEF Retuned1, Retimed
    <2>6. \A c : clk_get_rate(u, c) = clk_get_rate(s, c) /\ clk_get_rate(h, c) = clk_get_rate(s, c)
      BY <2>5, ApartClocks
    <2> QED BY <2>1, <2>2, <2>3, <2>4, <2>6 DEF TimesIn, TuneIn, TunedTo
  <1> QED BY <1>1, AlwaysTimed, PTL

\* From when the caller has a handle, what the driver remembers of the clocks above the
\* two sample clocks is what is in the radio, and so is what it remembers of the
\* power-down of each synthesizer, whatever fails in a call (clk_set_rate, ad9361_synth_lo_powerdown, ad9361_tx_quad_calib).
StemsTrue ==
  phy => /\ s.clk.rate["BBPLL"] = clk_get_rate(s, "BBPLL")
         /\ \A c \in Stems : s.clk.rate[c] = clk_get_rate(s, c)
         /\ \A p \in {"rx", "tx"} : s.lo[p].chippd = s.lo[p].pd

THEOREM AlwaysStemsTrue == Spec => []StemsTrue
  <1>1. Timed => StemsTrue
    BY DEF Timed, StemsTrue, Up, Running, Linked, Hung, Powers, Sides
  <1> QED BY <1>1, AlwaysTimed, PTL
=============================================================================
