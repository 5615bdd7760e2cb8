---------------------------- MODULE Ad9361Rfpll -----------------------------
(* The synthesizers of the AD9361 driver: setting an LO frequency with what   *)
(* hangs on it (leaving fastlock, the VCO table, the gain table, the TX       *)
(* quadrature calibration), the external LOs, and the fastlock calls.         *)
(*   s.lo[p]  reg      the frequency in the registers: VCO in MHz, divider    *)
(*            rate     the rate the driver remembers, in MHz                  *)
(*            dummy    the rate of the external LO's clock                    *)
(*            cur      current_lo_freq      div    cached_rfpll_div           *)
(*            tdd      use_tdd_table        row    the row of the VCO table   *)
(*            pd, chippd   cached_synth_pd, and the register it stands for    *)
(*            ext      the EXT_VCO_BUFFER is powered: the radio takes the     *)
(*                     external LO                                            *)
(*            fl       the fastlock                                           *)
(*   s.gain   table, idx   current_table and the two manual gain indices      *)
(* s.alc is what the outside decides: the ALC word a VCO calibration ends     *)
(* with.  Frequencies are in MHz; to_clk's halving loses nothing then.        *)
EXTENDS Ad9361Cal, FastlockOps

Other(p) == IF p = "rx" THEN "tx" ELSE "rx"

MinCarrier == 70
MaxCarrier == 6000
Unreadable == 8589        \* -EINVAL taken for a clock rate

validate_rfpll(s, f) ==
  f \in (IF s.pd.dev = "AD9363A" THEN 325..3800 ELSE MinCarrier..MaxCarrier)

rfpll_int_round_rate(f) == IF f \in MinCarrier..MaxCarrier THEN f ELSE Unreadable

\* ad9361_calc_rfpll_int_divder: the frequency doubled until the VCO reaches it.
RfpllWord(f) ==
  LET n == CHOOSE n \in 1..7 : f * 2^n > 6000 /\ (n = 1 \/ f * 2^(n - 1) <= 6000)
  IN [vco |-> f * 2^n, vdiv |-> n - 1]

\* First column of the synthesizer tables, the same for every reference and mode:
\* the lowest VCO frequency of each row, in MHz.
VcoMHz == <<12605, 12245, 11906, 11588, 11288, 11007, 10742, 10492, 10258, 10036, 9827,
            9631, 9445, 9269, 9103, 8946, 8797, 8655, 8520, 8392, 8269, 8153, 8041, 7934,
            7831, 7733, 7638, 7547, 7459, 7374, 7291, 7212, 7135, 7061, 6988, 6918, 6850,
            6784, 6720, 6658, 6597, 6539, 6482, 6427, 6373, 6321, 6270, 6222, 6174, 6128,
            6083, 6040, 5997>>

VcoRow(vco) == CHOOSE i \in DOMAIN VcoMHz :
                 VcoMHz[i] <= vco /\ (i = 1 \/ VcoMHz[i - 1] > vco)

DuplexLos(s) == s.pd.fdd /\ ~s.pd.indep
SameLo(s) == s.lo.rx.cur = s.lo.tx.cur

\* In FDD mode the tables are those of TDD only while the two LOs are one frequency.
rfpll_vco_init(s, p, vco) ==
  [s EXCEPT !.lo[p].tdd = ~(DuplexLos(s) /\ ~SameLo(s)), !.lo[p].row = VcoRow(vco)]

-----------------------------------------------------------------------------
fastlock_prepare(s, p, on) == IF on THEN s ELSE [s EXCEPT !.lo[p].fl = Leave(@)]

\* One round of the loop: table, registers, calibration of the VCO, lock.
tune_synth(s, p, word) ==
  LET t == rfpll_vco_init(s, p, word.vco)
  IN check_cal_done([t EXCEPT !.lo[p].reg = word, !.lo[p].fl = Tune(@, s.alc)], "lock_" \o p)

(* Mutant: two LOs that have drawn apart are not looked at. *)
MutFixupOther(s) == DuplexLos(s) /\ SameLo(s) /\ s.lo.rx.tdd # s.lo.tx.tdd

\* The other synthesizer has the wrong table now.
fixup_other(s) == /\ DuplexLos(s)
                  /\ IF SameLo(s) THEN s.lo.rx.tdd # s.lo.tx.tdd
                     ELSE s.lo.rx.tdd \/ s.lo.tx.tdd

\* The second round: with two frequencies the other LO's own word, and out of its
\* fastlock; with one the word just written.
fix_other(s, q, word) ==
  IF SameLo(s) THEN tune_synth(s, q, word)
  ELSE tune_synth(fastlock_prepare(s, q, FALSE), q,
                  IF validate_rfpll(s, s.lo[q].cur) THEN RfpllWord(s.lo[q].cur) ELSE word)

tune_both(s, p, word) ==
  LET fixed(t) == IF fixup_other(t) THEN fix_other(t, Other(p), word) ELSE t
  IN fixed(tune_synth(s, p, word))

\* In a radio that skips the VCO calibrations this one is switched on for it.
vco_cal_if_skipped(s, p, on) == IF s.pd.skipcal THEN trx_vco_cal_control(s, p, on) ELSE s

int_tune(s, p, f, word) ==
  vco_cal_if_skipped(tune_both(vco_cal_if_skipped(
    [s EXCEPT !.lo[p].cur = f, !.lo[p].div = word.vdiv], p, TRUE), p, word), p, FALSE)

rfpll_int_set_rate(s, p, f) ==
  LET left == fastlock_prepare(s, p, FALSE)
  IN IF validate_rfpll(s, f) THEN int_tune(left, p, f, RfpllWord(f)) ELSE Return(left, EINVAL)

-----------------------------------------------------------------------------
(* The receive gain table goes by the frequency; the gains are kept as the    *)
(* tables allow.                                                              *)
GainMax == 76
NoTable == -1

\* ad9361_gt: the table in use, the lowest band's before one is loaded.
gt(s) == IF s.gain.table = NoTable THEN 0 ELSE s.gain.table

gt_tableindex(f) == CASE f \in 1..1300 -> 0 [] f \in 1301..4000 -> 1
                      [] f \in 4001..6000 -> 2 [] OTHER -> 0

AbsGain(table, i) == LET at(low, off) == IF i - off < low THEN low ELSE i - off
                     IN CASE table = 0 -> at(-1, 3) [] table = 1 -> at(-3, 5)
                          [] table = 2 -> at(-10, 14)

\* find_table_index: the nearer of the first gain that is enough and the one before.
find_table_index(table, gain) ==
  LET enough == {i \in 0..GainMax : AbsGain(table, i) >= gain}
  IN IF enough = {} THEN EINVAL
     ELSE LET i == CHOOSE i \in enough : \A j \in enough : i <= j
              far(j) == DiffAbs(AbsGain(table, j), gain)
          IN IF i > 0 /\ far(i - 1) < far(i) THEN i - 1 ELSE i

(* Mutant: the index of a gain that the new table does not have is kept. *)
MutLoadGt(s, f) ==
  LET band == gt_tableindex(f)
      from == IF s.gain.table = NoTable THEN band ELSE s.gain.table
  IN IF s.gain.table = band THEN Ok(s)
     ELSE Ok([s EXCEPT !.gain.table = band,
                       !.gain.idx = [ch \in DOMAIN @ |-> find_table_index(band, AbsGain(from, @[ch]))]])

load_gt(s, f) ==
  LET band == gt_tableindex(f)
      from == IF s.gain.table = NoTable THEN band ELSE s.gain.table
      kept(i) == find_table_index(band, AbsGain(from, i))
  IN IF s.gain.table = band THEN Ok(s)
     ELSE Ok([s EXCEPT !.gain.table = band,
                       !.gain.idx = [ch \in DOMAIN @ |-> IF kept(@[ch]) < 0 THEN GainMax
                                                         ELSE kept(@[ch])]])

\* The transmitter calibrates when the LO has moved far.
CalThreshold == 100
(* Mutant: the test for the external LO is the wrong way round. *)
MutCalIfFar(s, f) ==
  IF s.autocal /\ s.pd.ext.tx /\ DiffAbs(s.qc.freq, f) > CalThreshold
  THEN [do_calib_run(s, "TX_QUAD", -1) EXCEPT !.qc.freq = f] ELSE s

cal_if_far(s, f) ==
  IF s.autocal /\ ~s.pd.ext.tx /\ DiffAbs(s.qc.freq, f) > CalThreshold
  THEN [do_calib_run(s, "TX_QUAD", -1) EXCEPT !.qc.freq = f] ELSE s

\* ad9361_rfpll_set_rate: what the synthesizer said is not looked at; the receiver
\* loads its gain table.
rfpll_set_rate(s, p, f) ==
  LET after(t) == IF p = "rx" THEN load_gt(t, f) ELSE Ok(cal_if_far(t, f))
  IN after(IF s.pd.ext[p] THEN [s EXCEPT !.lo[p].dummy = f] ELSE rfpll_int_set_rate(s, p, f))

\* clk_set_rate of a synthesizer: nothing is done for the rate it remembers.
set_lo(s, p, f) ==
  IF s.lo[p].rate = f THEN Ok(s)
  ELSE Ok(recalc_all(rfpll_set_rate(s, p, IF s.pd.ext[p] THEN f ELSE rfpll_int_round_rate(f))))

-----------------------------------------------------------------------------
(* External LOs.                                                              *)
VcoBits == {"ALC", "PTAT", "VCO"}
trx_ext_lo_control(s, p, on) ==
  LET pd == IF on THEN s.lo[p].pd \cup VcoBits ELSE s.lo[p].pd \ VcoBits
      bit == IF p = "rx" THEN "PD_RX" ELSE "PD_TX"
  IN Ok([s EXCEPT !.en.cfg2 = (@ \ {bit}) \cup Bit(on /\ ~s.mcsrf, bit),
                  !.lo[p].fl.ready = on,
                  !.lo[p].reg.vdiv = IF on THEN 7 ELSE s.lo[p].div,
                  !.lo[p].pd = pd, !.lo[p].chippd = pd, !.lo[p].ext = on])

clk_mux_set_parent(s, p, ext) ==
  ensm_restore_prev_state(trx_ext_lo_control(ensm_force_state(s, "ALERT"), p, ext))

-----------------------------------------------------------------------------
(* The fastlock calls.                                                        *)
fastlock_load(s, p, k, values) == Ok([s EXCEPT !.lo[p].fl = Load(@, k, values.freq, values.word)])
fastlock_store(s, p, k) == Ok([s EXCEPT !.lo[p].fl = Store(@, k, s.lo[p].reg)])
(* Mutant: a profile that was never loaded is recalled. *)
MutFastlockRecall(s, p, k) == Ok([s EXCEPT !.lo[p].fl = Recall(@, k)])

fastlock_recall(s, p, k) ==
  IF ~s.lo[p].fl.entry[k].init THEN Return(s, EINVAL)
  ELSE Ok([s EXCEPT !.lo[p].fl = Recall(@, k)])
fastlock_save(s, p, k) == s.lo[p].fl.mem[k]
=============================================================================
