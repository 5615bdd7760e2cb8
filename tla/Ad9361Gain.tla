----------------------------- MODULE Ad9361Gain -----------------------------
(* Gain, attenuation and signal strength in the AD9361 driver.                *)
(*   s.gain  agc      agc_mode of the driver, one per receive channel         *)
(*           mode     the modes in AGC_CONFIG_1, hybrid its hybrid-mode bit   *)
(*           rxen, txen   the channels that are enabled                       *)
(*   s.att   chip     the attenuation words of the two transmit channels      *)
(*           cached   tx1_atten_cached, tx2_atten_cached                      *)
(* The full gain table is modelled (split_gain_table_mode_enable is 0 in      *)
(* main.c).                                                                   *)
EXTENDS Ad9361Fir

EAGAIN == -11
EOPNOTSUPP == -95

AgcModes == {"manual", "fast", "slow", "hybrid"}

\* ad9361_1rx1tx_channel_map: with one channel in use its number decides.
channel_map(s, tx, ch) ==
  IF ~s.pd.rx2tx2 /\ (IF tx THEN s.pd.txnum ELSE s.pd.rxnum) = 2 THEN ch + 1 ELSE ch

\* ad9361_en_dis_rx, _tx: the channels of the mask are set to the value; a mask of
\* both takes a set of channels.
en_dis(enabled, mask, value) == (enabled \ mask) \cup (mask \cap value)

-----------------------------------------------------------------------------
set_full_table_gain(s, ch, gain) ==
  LET i == find_table_index(gt(s), gain)
  IN IF i < 0 THEN Return(s, i) ELSE Ok([s EXCEPT !.gain.idx[ch] = i])

\* ad9361_set_rx_gain: only under manual gain control.
set_rx_gain(s, ch, gain) ==
  CASE ch \notin {1, 2} -> Return(s, EINVAL)
    [] ch \in {1, 2} /\ s.gain.mode[ch] # "manual" -> Return(s, EOPNOTSUPP)
    [] OTHER -> set_full_table_gain(s, ch, gain)

set_rx_rf_gain(s, ch, gain) == set_rx_gain(s, channel_map(s, FALSE, ch + 1), gain)

\* The index the radio uses: the manual one, or idx of the outside under AGC;
\* locked is whether a fast attack has settled.
get_rx_gain(s, ch, idx, locked) ==
  LET i == IF s.gain.mode[ch] = "manual" THEN s.gain.idx[ch] ELSE idx
  IN IF ch \notin s.gain.rxen \/ (s.gain.mode[ch] = "fast" /\ ~locked)
     THEN [rc |-> EAGAIN, gain |-> 0]
     ELSE [rc |-> 0, gain |-> AbsGain(gt(s), i)]

get_rx_rf_gain(s, ch, idx, locked) == get_rx_gain(s, channel_map(s, FALSE, ch + 1), idx, locked)

\* ad9361_set_gain_ctrl_mode.  The channel comes out enabled; there is one hybrid
\* bit for the two channels, which goes by the last mode that was set.
set_gain_ctrl_mode(s, ch, mode) ==
  IF mode \notin AgcModes \/ ch \notin {1, 2} THEN Return(s, EINVAL)
  ELSE gc_update([s EXCEPT !.gain.mode[ch] = mode, !.gain.hybrid = mode = "hybrid",
                           !.gain.rxen = @ \cup {ch}])

\* The call records the mode for its channel number and sets it for the channel
\* that number is mapped to; it returns 0 whatever the setting said.
set_rx_gain_control_mode(s, ch, mode) ==
  Ok(set_gain_ctrl_mode([s EXCEPT !.gain.agc[ch + 1] = mode],
                        channel_map(s, FALSE, ch + 1), mode))

\* ad9361_gc_setup: the modes, the greatest manual gains, and the times.
gc_setup(s) ==
  gc_update([s EXCEPT !.gain.agc = s.pd.agc, !.gain.mode = s.pd.agc,
                      !.gain.hybrid = \E ch \in {1, 2} : s.pd.agc[ch] = "hybrid",
                      !.gain.idx = [ch \in {1, 2} |-> GainMax]])

-----------------------------------------------------------------------------
(* Attenuation, in mdB: words of 0.25 dB, in two registers, high byte first.  *)
MaxAtten == 89750
AttenWord(mdb) == [hi |-> (mdb \div 250) \div 256, lo |-> (mdb \div 250) % 256]

set_tx_atten(s, mdb, chans) ==
  IF mdb > MaxAtten THEN Return(s, EINVAL)
  ELSE Ok([s EXCEPT !.att.chip = [ch \in {1, 2} |-> IF ch \in chans THEN AttenWord(mdb)
                                                    ELSE @[ch]]])

get_tx_atten(s, ch) ==
  (s.att.chip[IF ch = 1 THEN 1 ELSE 2].hi * 256 + s.att.chip[IF ch = 1 THEN 1 ELSE 2].lo) * 250

\* The setter maps ch, the getter ch + 1: in both the result is compared with or
\* counts from its own first channel.
set_tx_attenuation(s, ch, mdb) ==
  LET c == channel_map(s, TRUE, ch)
  IN set_tx_atten(s, mdb, {c + 1} \cap {1, 2})

get_tx_attenuation(s, ch) == get_tx_atten(s, channel_map(s, TRUE, ch + 1))

\* ad9361_tx_mute: muting keeps the words, and muting again keeps the muted ones.
tx_mute(s, on) ==
  LET kept == [s EXCEPT !.att.cached = [ch \in {1, 2} |-> get_tx_atten(s, ch)]]
      first == set_tx_atten(s, s.att.cached[1], {1})
  IN CASE on -> set_tx_atten(kept, MaxAtten, {1, 2})
       [] ~on /\ s.att.cached[1] = s.att.cached[2] -> set_tx_atten(s, s.att.cached[1], {1, 2})
       [] OTHER -> set_tx_atten(first, s.att.cached[2], {2})

-----------------------------------------------------------------------------
(* ad9361_read_rssi: the symbol and preamble power of a channel from the six  *)
(* registers, in units of 0.25 dB: a byte and one bit below it.               *)
read_rssi(buf, ch) ==
  LET bit(x) == IF ch = 1 THEN x % 2 ELSE (x \div 2) % 2
      at == IF ch = 1 THEN [symbol |-> 6, preamble |-> 5] ELSE [symbol |-> 4, preamble |-> 3]
  IN [symbol |-> 25 * (buf[at.symbol] * 2 + bit(buf[2])),
      preamble |-> 25 * (buf[at.preamble] * 2 + bit(buf[1]))]

get_tx_rssi(buf, ch) ==
  LET val == 25 * (IF ch = 0 THEN (buf[3] * 2) + (buf[1] % 2)
                   ELSE (buf[2] * 2) + ((buf[1] \div 2) % 2))
  IN ((val \div 100) * 1000) + (val % 100)
=============================================================================
