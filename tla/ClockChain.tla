----------------------------- MODULE ClockChain -----------------------------
(* The clock plan of the AD9361 driver: from a sample rate to the rates of    *)
(* the BBPLL, the converters and the half-band stages, the test a plan has    *)
(* to pass, and the dividers that approximate a rate.                         *)
(*                                                                            *)
(* Frequencies are whole numbers of UNIT = 40 kHz, so that the products of    *)
(* the code stay below 2^31: the reference clock of main.c is 1000, its       *)
(* sample rate 1000 as well.  The arithmetic (truncating divisions, rounding, *)
(* the modulus of the fractional divider) is the code's; a tolerance of 4 Hz  *)
(* is less than a UNIT, hence equality.                                       *)
EXTENDS Integers, Sequences, SequencesExt

EINVAL == -22
ETIMEDOUT == -110
EFAULT == -14

Mega(x) == x * 25                      \* x MHz
MinBbpll == Mega(715)
MaxBbpll == Mega(1430)
MinAdc == Mega(25)
MaxAdc == Mega(640)
MaxDac == MaxAdc \div 2
MaxSampl == 1536                       \* 61.44 MSPS
BbpllModulus == 2088960

DivRound(a, b) == (a + b \div 2) \div b
DiffAbs(a, b) == IF a > b THEN a - b ELSE b - a

ilog2(n) == IF n = 0 THEN 0
            ELSE CHOOSE k \in 0..30 : 2^k <= n /\ (k = 30 \/ n < 2^(k + 1))

-----------------------------------------------------------------------------
(* ad9361_calculate_rf_clock_chain.  A path is the record of its six rates:   *)
(* the converter (ADC or DAC), the three half-band outputs x2 (R2/T2),        *)
(* x1 (R1/T1) and xf (CLKRF/CLKTF), and the sample rate.                      *)
Stages == <<"conv", "x2", "x1", "xf", "sampl">>

\* Row i of clk_dividers: the ratio ADC / CLKRF and its split over the stages.
Dividers == << <<12, 3, 2, 2>>, <<8, 2, 2, 2>>, <<6, 3, 1, 2>>, <<4, 2, 2, 1>>,
               <<3, 3, 1, 1>>, <<2, 2, 1, 1>>, <<1, 1, 1, 1>> >>

Row(i) == Dividers[i + 1]

Path(bbpll, conv, i, fir) ==
  LET x2 == conv \div Row(i)[2]
      x1 == x2 \div Row(i)[3]
      xf == x1 \div Row(i)[4]
  IN [bbpll |-> bbpll, conv |-> conv, x2 |-> x2, x1 |-> x1, xf |-> xf,
      sampl |-> xf \div fir]

\* The row of the transmit path that goes with row i of the receive path:
\* tmp is the ratio of the two converter rates, negative when the DAC's is greater.
TxRow(i, adc, dac) ==
  LET tmp == IF dac > adc THEN -(dac \div adc) ELSE adc \div dac
      back == IF tmp = 1 THEN 0 ELSE tmp
  IN IF adc <= MaxDac THEN i - back
     ELSE IF i = 4 /\ tmp >= 0 THEN 7
     ELSE i + (IF i = 5 /\ tmp >= 0 THEN 1 ELSE 2) - back

\* The greatest of 64, 32, ..., 2 times the ADC's rate that the BBPLL can run at.
BbpllFor(adc) ==
  LET fits(k) == adc * 2^k <= MaxBbpll
  IN IF fits(6) THEN adc * 64 ELSE adc * 2^(CHOOSE k \in 0..5 :
        (k = 0 \/ fits(k)) /\ \A j \in (k + 1)..6 : ~fits(j))

\* One search from row gov on: the rows of the two paths, or none.
Search(gov, clkrf, clktf) ==
  LET ok(i) == Row(i)[1] * clkrf \in MinAdc..MaxAdc
      rows == {i \in gov..6 : ok(i)}
  IN IF rows = {} THEN [rx |-> -1, tx |-> -1, adc |-> 0]
     ELSE LET i == CHOOSE i \in rows : \A j \in rows : i <= j
              adc == clkrf * Row(i)[1]
          IN [rx |-> i, tx |-> TxRow(i, adc, clktf * Row(i)[1]), adc |-> adc]

Found(r) == r.rx \in 0..6 /\ r.tx \in 0..6

NoPath == [bbpll |-> 0, conv |-> 0, x2 |-> 0, x1 |-> 0, xf |-> 0, sampl |-> 0]

\* The two paths of a search.
Paths(r, rxdec, txint) ==
  LET bb == BbpllFor(r.adc)
      dac == IF r.adc <= MaxDac THEN r.adc ELSE r.adc \div 2
  IN [rc |-> 0, rx |-> Path(bb, r.adc, r.rx, rxdec), tx |-> Path(bb, dac, r.tx, txint)]

\* The call, its recursion unrolled: a search that finds nothing is repeated
\* with fewer rows.  A rate too low for the nominal mode is searched from row 0,
\* once: the repetition asks for the nominal mode again and ends there.
calculate_rf_clock_chain(rate, gov, rxdec, txint, eq2) ==
  LET low == rxdec * rate * 8 < MinAdc
      clktf == rate * txint
      clkrf == rate * rxdec * (IF eq2 THEN 2 ELSE 1)
      starts == IF low THEN {0} ELSE gov..7
      good == {g \in starts : Found(Search(g, clkrf, clktf))}
  IN IF rate > MaxSampl \/ good = {}
     THEN [rc |-> EINVAL, rx |-> NoPath, tx |-> NoPath]
     ELSE LET g == CHOOSE g \in good : \A h \in good : g <= h
          IN Paths(Search(g, clkrf, clktf), rxdec, txint)

\* ad9361_validate_trx_clock_chain: the first loop divides the ADC's rate by the
\* distance of 1, 2 or 3 Hz from DATA_CLK, which is DATA_CLK for all the quotient
\* tells; the second compares DATA_CLK with the halves of R2, to 4 Hz.
DataClk(path, rx2tx2, lvds) == ((IF rx2tx2 THEN 4 ELSE 2) \div (IF lvds THEN 1 ELSE 2)) * path.sampl

validate_trx_clock_chain(path, rx2tx2, lvds) ==
  LET data == DataClk(path, rx2tx2, lvds)
  IN /\ lvds \/ data <= MaxSampl
     /\ \/ path.conv < 4 * data
        \/ \E i \in 1..4 : path.x2 = data * 2^i

-----------------------------------------------------------------------------
(* Dividers.  A clock below the BBPLL divides its parent; the scaler accepts  *)
(* a ratio when the register can hold it.                                     *)
ScalerTakes(c, div) ==
  CASE c = "ADC" -> ilog2(div % 256) \in 1..6
    [] c \in {"R2", "T2"} -> div \in 1..3
    [] c \in {"RX_SAMPL", "TX_SAMPL"} -> div \in {1, 2, 4}
    [] OTHER -> div \in 1..2

\* What set_clk_scaler leaves in the register, as the ratio it stands for;
\* 0 in the two FIR fields is the bypassed filter.
ScalerWord(c, div, bypassed) ==
  IF c = "ADC" THEN 2^ilog2(div % 256)
  ELSE IF c \in {"RX_SAMPL", "TX_SAMPL"} /\ bypassed THEN 0 ELSE div

\* ad9361_get_clk_scaler: the ratio a register value stands for.
Ratio(word) == IF word = 0 THEN 1 ELSE word

\* ad9361_clk_factor_round_rate and _set_rate: the ratio that is written, 0 for
\* none.  A rate above 1.5 times the parent's asks for a multiplier, which no
\* scaler has, and a refused ratio comes back as -EINVAL in a uint32_t, a rate
\* far above the parent's: neither writes anything.
FactorDiv(c, rate, parent) ==
  LET div(r) == IF r >= parent THEN (IF DivRound(r, parent) = 1 THEN 1 ELSE 0)
                ELSE DivRound(parent, r)
      d == div(rate)
  IN IF d = 0 \/ ~ScalerTakes(c, d) THEN 0
     ELSE LET e == div(parent \div d) IN IF e # 0 /\ ScalerTakes(c, e) THEN e ELSE 0

-----------------------------------------------------------------------------
(* The BBPLL: integer and fractional word of a rate, and the rate of a word.  *)
BbpllClamp(rate) == IF rate > MaxBbpll THEN MaxBbpll ELSE IF rate < MinBbpll THEN MinBbpll ELSE rate

BbpllWord(rate, ref) ==
  [int |-> rate \div ref,
   fract |-> ((rate % ref) * BbpllModulus + ref \div 2) \div ref]

\* The code's rate is within 20 Hz of a multiple of UNIT when the plan asks for
\* one; here it is that multiple.
BbpllRate(word, ref) == ref * word.int + DivRound(ref * word.fract, BbpllModulus)

\* ad9361_bbpll_round_rate: what the words of a rate will give.
bbpll_round_rate(rate, ref) ==
  IF BbpllClamp(rate) # rate THEN BbpllClamp(rate) ELSE BbpllRate(BbpllWord(rate, ref), ref)
=============================================================================
