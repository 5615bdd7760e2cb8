------------------------------ MODULE MCAd9361 ------------------------------
(* Instances of the driver: every call, two of them after main, and the calls *)
(* of the findings.                                                         *)
EXTENDS Ad9361

\* main.c's parameters, and a TDD radio with one channel, the second.
DefaultOnly == {default_init_param}
TddParam == [default_init_param EXCEPT !.fdd = FALSE, !.rx2tx2 = FALSE, !.rxnum = 2,
                                       !.txnum = 2, !.skipcal = TRUE]
BothParams == {default_init_param, TddParam}

Quad(first, retry, search) ==
  [Nominal EXCEPT !.quad = [first |-> first, retry |-> retry, search |-> search, phase |-> 5]]
Late(cal) == [Nominal EXCEPT !.late = {cal}]
AllFaults ==
  {Late(c) : c \in {"bbpll", "rxbb", "txbb", "bbdc", "rfdc", "cp_rx", "lock_tx"}}
    \cup {Quad("no", "conv", "ok"), Quad("no", "no", "ok"), Quad("no", "no", "late_end"),
          Quad("late", "no", "late"), Quad("garbage", "no", "ok")}
NoFaults == {}

AllCalls == {"set_sampling_freq", "set_rx_rf_bandwidth", "set_tx_rf_bandwidth",
  "set_rx_lo_freq", "set_tx_lo_freq", "set_rx_lo_int_ext", "set_tx_lo_int_ext",
  "rx_lo_powerdown", "tx_lo_powerdown", "set_en_state_machine_mode", "set_track_en_dis",
  "set_tx_auto_cal_en_dis", "do_calib", "set_rx_fir_en_dis", "set_tx_fir_en_dis",
  "set_trx_fir_en_dis", "set_rx_fir_config", "set_tx_fir_config", "trx_load_enable_fir",
  "set_trx_rate_gov", "set_trx_path_clks", "set_rx_gain_control_mode", "set_rx_rf_gain",
  "set_tx_attenuation", "tx_mute", "set_rx_rf_port_input", "set_tx_rf_port_output",
  "set_no_ch_mode", "do_mcs", "rssi_gain_step_calib", "do_dcxo_tune_coarse",
  "fastlock_store", "fastlock_recall", "fastlock_load"}

\* 40, 20 and 2 MSPS, and one that is too high.
SomeRates == {1000, 500, 50, 1537}
SomeBws == {450, 1500}
SomeLos == {2460, 5000, 50}
Zero == {0}
Designed == LET p == calculate_rf_clock_chain(500, 0, 2, 2, FALSE)
            IN [rx |-> [taps |-> 64, dest |-> 1, factor |-> 2, clks |-> p.rx, bw |-> 450],
                tx |-> [taps |-> 64, dest |-> 1, factor |-> 2, clks |-> p.tx, bw |-> 450]]
Odd == [rx |-> [taps |-> 48, dest |-> 3, factor |-> 4, clks |-> NoPath, bw |-> 0],
        tx |-> [taps |-> 20, dest |-> 3, factor |-> 1, clks |-> NoPath, bw |-> 0]]
SomeFir == {Designed, Odd}

LoCalls == {"set_rx_lo_freq", "fastlock_store", "fastlock_recall"}
PinCalls == {"set_en_state_machine_mode", "set_rx_rf_bandwidth"}
ChCalls == {"set_rx_rf_port_input", "set_no_ch_mode"}
=============================================================================
