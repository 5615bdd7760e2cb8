----------------------------- MODULE Ad9361Ensm -----------------------------
(* The enable state machine (ENSM) of the radio as the driver handles it:     *)
(* forcing a state for a calibration and restoring the one before, and the    *)
(* modes a caller asks for.                                                   *)
(*   s.en.dev     the state the radio is in (REG_STATE)                       *)
(*   s.en.pin     the radio follows its pins (ENABLE_ENSM_PIN_CTRL)           *)
(*   s.en.clocks  the clocks of the radio run (off in SLEEP)                  *)
(*   s.en.fdd     FDD_MODE of REG_ENSM_MODE                                   *)
(*   s.en.cfg2    the bits of REG_ENSM_CONFIG_2                               *)
(*   s.en.prev, curr, pinctl   prev_ensm_state, curr_ensm_state,              *)
(*                             ensm_pin_ctl_en of the driver                  *)
EXTENDS Ad9361Clk

EnsmStates == {"WAIT", "ALERT", "TX", "RX", "FDD"}      \* what the radio can read back
EnsmModes == {"TX", "RX", "ALERT", "FDD", "WAIT", "SLEEP", "PINCTRL", "FDD_INDEP"}

\* The radio's answer to a write of ENSM_CONFIG_1 with a force bit or none.  It
\* moves only when its clocks run.  TO_ALERT is set in every such write, so
\* without a force bit the radio ends in ALERT; in FDD mode transmitting and
\* receiving are the one state FDD.
Config1(s, force, pin) ==
  LET to == CASE force \in {"TX", "RX"} -> (IF s.en.fdd THEN "FDD" ELSE force)
              [] OTHER -> "ALERT"
  IN [s EXCEPT !.en.pin = pin, !.en.dev = IF s.en.clocks THEN to ELSE @]

ensm_get_state(s) == s.en.dev

(* Mutant: the state before is not noted when there is nothing to force. *)
MutEnsmForceState(s, st) ==
  LET forced(force) == Config1([s EXCEPT !.en.prev = s.en.dev, !.en.pinctl = s.en.pin], force, FALSE)
  IN IF s.en.dev = st THEN s ELSE forced(IF st \in {"TX", "FDD"} THEN "TX" ELSE st)

\* ad9361_ensm_force_state.  A radio already in the state is left alone, and so is
\* ensm_pin_ctl_en.
ensm_force_state(s, st) ==
  LET kept == [s EXCEPT !.en.prev = s.en.dev]
      forced(force) == Config1([kept EXCEPT !.en.pinctl = s.en.pin], force, FALSE)
  IN IF s.en.dev = st THEN kept
     ELSE CASE st \in {"TX", "FDD"} -> forced("TX")
            [] st = "RX" -> forced("RX")
            [] st = "ALERT" -> forced("ALERT")
            [] OTHER -> [kept EXCEPT !.en.pinctl = s.en.pin]

\* ad9361_ensm_restore_state: nothing is written for a state it does not know,
\* WAIT among them.  Pin control comes back by the flag, not by what it was.
ensm_restore_state(s, st) ==
  LET on(force) == Config1(Config1(s, "ALERT", FALSE), force, s.en.pin)
      back(t) == IF s.en.pinctl THEN [t EXCEPT !.en.pin = TRUE] ELSE t
  IN CASE st \in {"TX", "FDD"} -> back(on("TX"))
       [] st = "RX" -> back(on("RX"))
       [] st = "ALERT" -> back(on("none"))
       [] OTHER -> s

ensm_restore_prev_state(s) == ensm_restore_state(s, s.en.prev)

-----------------------------------------------------------------------------
trx_vco_cal_control(s, p, enable) == [s EXCEPT !.lo[p].fl.vcocal = enable]

SynthBits == {"PD_RX", "PD_TX"}        \* the READY bits are in s.lo[p].fl.ready
Bit(cond, b) == IF cond THEN {b} ELSE {}

set_ensm_mode(s, fdd, pinctrl) ==
  Ok([s EXCEPT !.en.fdd = fdd,
        !.en.cfg2 = (@ \cap SynthBits) \cup
          (IF fdd THEN {"DUAL"} \cup Bit(s.pd.indep, "FDD_EXT")
           ELSE IF s.pd.dual THEN {"DUAL"} ELSE Bit(pinctrl, "SYNTH_PIN"))])

\* Out of SLEEP: clocks on, ALERT, VCO calibration on in both synthesizers.
Wake(s) ==
  IF s.en.curr # "SLEEP" THEN s
  ELSE trx_vco_cal_control(trx_vco_cal_control(
         Config1([s EXCEPT !.en.clocks = TRUE], "ALERT", FALSE), "rx", TRUE), "tx", TRUE)

Sleep(s) ==
  LET off == trx_vco_cal_control(trx_vco_cal_control(s, "rx", FALSE), "tx", FALSE)
  IN Ok([off EXCEPT !.en.pin = FALSE, !.en.dev = "WAIT",
                    !.en.clocks = FALSE, !.en.curr = "SLEEP"])

\* The transitions the driver knows for the current state and duplex mode.
Legal(s, st) == CASE st \in {"TX", "RX"} -> ~s.pd.fdd /\ s.en.curr = "ALERT"
                  [] st = "FDD" -> s.pd.fdd
                  [] OTHER -> TRUE

\* ad9361_ensm_set_state: an illegal transition from ALERT fails; from any other
\* state it goes through ALERT and is then carried out, and returns 0.
ensm_set_state(s, st, pinctrl) ==
  LET w == Wake(s)
      force == CASE st \in {"TX", "FDD"} -> "TX" [] st = "RX" -> "RX"
                 [] st = "ALERT" -> "ALERT" [] OTHER -> "none"
      via == IF Legal(w, st) THEN w ELSE Config1(w, "ALERT", pinctrl)
      txnrx == IF ~s.pd.fdd /\ ~pinctrl /\ ~s.pd.dual /\ st \in {"TX", "RX"}
               THEN [via EXCEPT !.en.cfg2 = (@ \ {"TXNRX"}) \cup Bit(st = "TX", "TXNRX")]
               ELSE via
  IN CASE st = "SLEEP" -> Sleep(w)
       [] st # "SLEEP" /\ ~Legal(w, st) /\ w.en.curr = "ALERT" -> Return(w, EINVAL)
       [] OTHER -> Ok([Config1(txnrx, force, pinctrl) EXCEPT !.en.curr = st])

\* The API: the mode names a state, pin control and the independent FDD mode.
set_en_state_machine_mode(s, mode) ==
  LET pinctrl == mode = "PINCTRL"
      st == CASE mode \in {"WAIT", "PINCTRL"} -> "WAIT"
              [] mode = "FDD_INDEP" -> "FDD"
              [] OTHER -> mode
      m == [s EXCEPT !.pd.indep = mode = "FDD_INDEP"]
  IN IF mode \notin EnsmModes THEN Return(m, EINVAL)
     ELSE ensm_set_state(set_ensm_mode(m, s.pd.fdd, pinctrl), st, pinctrl)

get_en_state_machine_mode(s) ==
  CASE s.en.dev = "FDD" -> (IF s.pd.indep THEN "FDD_INDEP" ELSE "FDD")
    [] s.en.dev = "WAIT" -> (IF s.en.pin THEN "PINCTRL" ELSE "WAIT")
    [] OTHER -> s.en.dev
=============================================================================
