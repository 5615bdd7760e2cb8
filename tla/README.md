# OFDM + LDPC transceiver: a TLA+ verification project

The repository is the Verilog of an OFDM modem with LDPC coding for a Zynq FPGA
with an AD9363 radio, plus the software around it. This directory models the
modem itself and its wrapper for the radio, register by register in their
control, and the driver that configures the radio, call by call. TLC checks the
models, and TLAPS proves the results that matter most.

- `PROJECT.json` lists components, runs, mutants, findings, hazards, theorems,
  and for every definition the source lines it stands for.
- Every component module holds its mutants (`Mut...`) next to the definition
  they change: each is a plausible bug, several are bugs the code's own comments
  record as fixed, and each breaks the property it is listed with.

To repeat a run: `tlc -config RxPath.cfg MCRxPath.tla`; to repeat a proof:
`tlapm CpStream_proofs.tla`.

## 1. The system

### 1.1 Components, state, operations

| component | source | state it keeps | what it does in a clock |
|---|---|---|---|
| LDPC encoder | `ldpc_encoder.v` | phase, cycle counter, latched block, parity sums, codeword | latch a block; add one bit of each base row's parity; resolve the dual diagonal and pulse `valid_out` |
| subcarrier mapper | `tx_subcarrier_map.v` | codeword, `active`, bit, bin and symbol pointers | offer one bin to the IFFT; advance when it is taken |
| IFFT / FFT | `xfft_stub.v` | input buffer and count, `load_done`, output buffer and count, `out_busy` | take a sample; transform a full block; drive a sample |
| prefix inserter | `cp_insert.v` | two banks, writer and reader pointers, `wr_full`, `rd_active`, output register | writer and reader each take a step |
| prefix remover | `cp_remove.v` | sample counter, `synced`, output register | count samples, drop the first `N_CP` of a symbol, restart at `frame_start` |
| channel estimator | `channel_est.v` | stream mode: one register | pass a bin on |
| demapper, demodulator, LLR buffer | `rx_subcarrier_demap.v`, `qpsk_demod.v`, `llr_buffer.v` | bin counter, LLR pair, LLR memory, write counter, `done_latched` | drop pilots and nulls; a pair of LLRs per bin; store 512 pairs, then freeze |
| LDPC decoder | `ldpc_decoder.v` | three memories with registered write ports, state machine, five counters, minima and signs | one memory step of serial min-sum |
| PL top | `ofdm_ldpc_pl.v`, `startup_gen.v`, `ofdm_ldpc_top.v` | power-on counter, start counter, edge detector, result latches | wires the transmitter to the receiver, starts one run, compares the result |
| RF wrapper | `ofdm_ldpc_rf_pl.v` | power-on and start counters, two asynchronous FIFOs, DAC registers, receive valid and frame start | start the transmitter late; carry samples between the modem's clock and the radio's |
| AD9361 driver | `ad9363_baremetal/ad9361.c`, `ad9361_api.c`, `util.c` | `ad9361_rf_phy`: remembered rates, current bandwidths and LOs, gain table, fastlock entries, state before the last forced one, caches; in the radio: dividers, synthesizers, state machine, calibrations | the calls of `ad9361_api.h` |
| bare-metal application | `ad9363_baremetal/main.c` | its parameters | bring the radio up: an initialisation and fourteen calls |
| older RF wrapper, pin interfaces | `ofdm_ldpc_rf_top.v`, `ad9363_cmos_if.v`, `ad9361_phy.v`, `phy_rx.v`, `phy_tx.v` | FIFOs, synchronisers, serialisers | not in the final build |
| other software | `simulation/live_demo_bridge*.py`, `path_x_*.py` | the last value read | poll the result register; experiments |

### 1.2 How they interact

Inside the modem everything shares one clock. Blocks are chained by
valid/ready wires and pulses:

    startup_gen --pulse--> ldpc_encoder --pulse--> tx_subcarrier_map
      --valid/ready--> IFFT --valid/ready--> cp_insert --valid--> (air or wire)
      --valid + frame_start--> cp_remove --valid--> FFT --valid--> channel_est
      --valid--> demapper --valid--> demodulator --valid--> llr_buffer
      --pulse, memory--> ldpc_decoder --pulse--> result latch

The wrapper replaces the wire in the middle by two FIFOs to the clock of the
radio and back, and makes `frame_start` itself, from the first sample received.
The driver is separate: it runs on the processor before any sample is sent, one
thread, one call at a time, over SPI; what it shares with the modem is the radio.

Three of these links carry less than they seem to. The receive side has no
ready wire at all: what `cp_remove` brings must find room in the FFT, whose
`s_axis_data_tready` is left open. `frame_start` realigns `cp_remove` and nobody
behind it. And no block after the mapper knows where a symbol or a frame begins
except by having counted since reset.

### 1.3 What is hard here, and what correctness means

- **Counting without resynchronising.** Mapper, IFFT and `cp_insert` count
  samples independently; so do `cp_remove`, FFT and demapper. One sample taken
  twice or lost shifts everything after it. Correct: the counters agree for good
  (`TxAligned`, `RxAligned`), and every sample that leaves is the one its place calls for
  (`FrameInOrder`, `InOrder`).
- **Two processes on two banks** (`cp_insert`): each sees the other's flags one
  clock late. Correct: never both on one bank, never both waiting, and to the
  outside a FIFO of two symbols (`BankExclusive`, `Delivered`, `ImplementsFramer`).
- **Delayed writes** (`ldpc_decoder`): a write is in memory one clock after the
  state that decided it, while the next state reads. Correct: the result is that
  of flooding min-sum (`ImplementsMinSum`).
- **Reset in the middle of a run**: it clears no memory. Correct: nothing left
  behind reaches the next result (`EndToEnd`, `ImplementsMinSum`), and the
  one-shot blocks are re-armed (`Finishes`).
- **Limits**: wrap-around of the bit pointer, saturation, ties of minima, more
  LLRs arriving than there are places (`LlrComplete`, `CleanDecodes`).
- **Two copies of one table** in encoder and decoder (`EncodesForDecoder`).
- **Two clocks** (`ofdm_ldpc_rf_pl.v`): a FIFO's output is valid one clock after
  the read, each side sees the other late, and the two sides leave reset at
  different times. Correct: what goes in comes out, in order, once
  (`TransmitInOrder`, `ReceiveInOrder`), when there is data and from the first
  sample on (`PushesWhatItHas`, `FrameFromFirst`: they are not met, §3.3).
- **Sequences of driver calls.** Nearly every call reads what an earlier one left
  in the driver or in the radio: a rate it remembers decides whether a divider is
  written, a calibration runs in a state forced for it and restored after it,
  tuning one synthesizer can spoil the table of the other. No test makes more
  than main's one sequence. Correct: after any calls in any order what is set up
  for a clock or a bandwidth is set up for the one there is (`Tuned`), what the
  driver remembers is true (`CachesTrue`), what was suspended is resumed
  (`TrackingOn`, `EnsmKept`), the synthesizers agree (`TablesAgree`, `QuadNear`).
- **Errors nobody looks at**: `main.c` and several calls drop return codes
  (`Configured`, `NoChModeDone`).

`PROJECT.json` lists each hazard at its line, with the properties that cover it
or the reason none does yet.

## 2. The modules

| module | models | kind |
|---|---|---|
| `CpInsert` | `cp_insert.v` | component |
| `CpFramer` | what a prefix inserter promises: a FIFO of whole symbols | abstract specification |
| `CpStream` | `CpInsert` between a producer and a sink | closed system, properties |
| `CpStream_proofs` | | theorems |
| `TxSubcarrierMap`, `Xfft` | `tx_subcarrier_map.v`, `xfft_stub.v` | components |
| `Link` | the sizes and layout of a frame, the order of the samples on the wire | shared by both paths |
| `TxPath` | mapper, IFFT and `CpInsert` as `ofdm_ldpc_top.v` wires them | composition, properties |
| `CpRemove`, `LlrPath` | `cp_remove.v`; `channel_est.v` (stream mode), `rx_subcarrier_demap.v`, `qpsk_demod.v`, `llr_buffer.v` | components |
| `RxPath` | `CpRemove`, `Xfft`, `LlrPath` as wired | composition, properties |
| `Paths_proofs` | | theorems about both paths |
| `BaseMatrix` | the table `HB` of `ldpc_decoder.v` | shared by encoder and decoder |
| `LdpcEncoder` | `ldpc_encoder.v` | component, properties |
| `MinSum` | flooding min-sum decoding | abstract specification |
| `LdpcDecoder` | `ldpc_decoder.v` | component, properties |
| `Ldpc_proofs` | | theorems about encoder and decoder |
| `PlLoopback` | `ofdm_ldpc_pl.v` and `startup_gen.v` around all of the above | composition, properties |
| `PlLoopback_proofs` | | theorems |
| `RfPl` | `ofdm_ldpc_rf_pl.v` around the modem | component, properties |
| `RfPl_proofs` | | theorems |
| `ClockChain` | the clock plan of the driver: rates, dividers, BBPLL words | pure operators |
| `Ad9361Clk` | the clock tree, `clk_set_rate`, `ad9361_set_trx_clock_chain` | operators on the driver's record |
| `Ad9361Ensm` | the radio's state machine: force, restore, modes | the same |
| `Ad9361Cal` | filters and ADC, calibrations, tracking, bandwidth | the same |
| `FastlockOps`, `Fastlock` | the fastlock of one synthesizer; as a state machine of its own | operators; abstract specification |
| `Fastlock_proofs` | | theorems |
| `Ad9361Rfpll` | synthesizers, external LOs, gain table by frequency, fastlock calls | operators on the driver's record |
| `Ad9361Fir`, `Ad9361Gain` | the programmable filters; gain, attenuation, RSSI | the same |
| `Ad9361Setup` | reset, `ad9361_setup`, `ad9361_init`, ports | the same |
| `Ad9361` | main's sequence and any calls after it, with faults | the driver in use, properties |
| `Ad9361_proofs`, `Ad9361Clk_proofs` | | theorems about the driver; about what hangs on its clocks |
| `MC...` | instances for TLC | |

### 2.1 How state and actions correspond to the code

**A clock is a conjunction.** All always-blocks of a file fire on the same edge
and read the registers as they were. A component's `Clock(inputs)` is therefore
the conjunction of its always-blocks, each a disjunction of named branches
(`Writer` is `WrRelease`, `WrAccept` or `WrHold`); a composition's clock is the
conjunction of its components' clocks, the outputs of one in the place of the
inputs of the next. Nothing interleaves that the circuit does not. What is free
in a clock is the environment: whether a sample comes, whether the sink is
ready, whether a pulse or a reset arrives.

**Compositions.** `TxPath` and `RxPath` instantiate their blocks (`Map`, `Ifft`,
`Cp`; `Rem`, `Fft`, `Llr`), because the transform occurs in both. `PlLoopback`
EXTENDS the four parts, so that one module holds all variables and the theorems
about a part are theorems about it in the loop. Each part therefore has its own
names (`TxInit`, `EncTick`, `DecRestart`) and two levels: `...Clock` is what its
registers do, `...Tick` is a clock with the record of what has been offered, taken
or sent, by which its properties are stated. By itself a part is closed by its own
`...Next`, which offers anything at any time; in the loop `Run` gives it the
outputs of the part before.

**Variables are registers**, with the code's names; two instances of a component
(IFFT and FFT) get a prefix. `...Reset` is the reset branch as a state,
`...Restart` the same as a step; memories, which reset does not clear, are
UNCHANGED in it. Words never written hold `Junk`, so that reading one shows.

**Data.** A bin is a record: null, pilot, or the two codeword bits its I and Q
carry. A time sample is the pair of the block and its index; the transform is
the invertible map between a block and its samples, and a block of samples that
do not belong together transforms to noise. An LLR in `RxPath` is the name of
the bit it is about; in `PlLoopback` it becomes a number, `Level` with the sign
of that bit. In the encoder a word is a set of positions per column of the base
matrix. The decoder keeps its numbers: values, sums, saturation.

**The driver is one record.** `s` holds the driver's fields and the radio's
registers, grouped as the comment of each module says. A function of the driver
is an operator of the same name (without `ad9361_`) that maps `s` to `s` as the
function leaves it, its return code in `s.rc`; early returns are `Then`, a call
whose return code nobody reads is `Always` or `Ok`. One call of `ad9361_api.h` is
one step, because the program has one thread and no interrupt touches the driver.
Three pairs or triples of functions that differ only in the path are one operator
with the path as a parameter (`set_lo`, `set_rf_bandwidth`, `set_fir_en_dis`).
What the outside decides in a call stands in `s` during the call: `s.late`, the
calibrations that never finish, `s.quad`, how the TX quadrature calibration
converges in each of its attempts (among the outcomes: a status that the code
reads uninitialised), `s.alc`, the word a VCO calibration ends with.

**Numbers in the driver.** Rates and bandwidths are in units of 40 kHz, LO
frequencies in MHz, so that products stay in TLC's integers; all divisions
and roundings are the code's. Two things happen below that unit. A tolerance of
4 Hz (`ad9361_validate_trx_clock_chain`) is equality of whole units. And the code
truncates the rate of the BBPLL's fractional word to a Hz, at most 20 Hz from a
whole unit for the rates a plan asks for, where `BbpllRate` gives that unit: what
a difference of a few Hz does to a remembered rate is not modelled. A filter is its
number of taps and its destination, a profile of the fastlock its frequency and its
word 15.

**Widths.** `bit_ptr` wraps at `PtrMod`, as its 10 bits do. Other counters are
shown by the type invariants to stay within their use, which is within their width. The
decoder's `Sat` is the code's 127.

**Left out.** `tlast`, which nobody reads. `inv_pending` of the transform, set from
`inverse_q` and used in the same clock. `busy` of the encoder, which is
`phase # 0`. `iter_count` of the decoder, constant when it is valid. The debug
latches, counters and heartbeat of `ofdm_ldpc_pl.v` (122-160, 197-204), which
nothing in the design reads. The arithmetic of the DFT and the amplitudes. In the
driver: registers of a setup that nothing reads again.

### 2.2 The abstract specifications

`CpFramer` knows no banks: it takes the samples of at most two symbols ahead of
the one it gives out, and gives each complete symbol as its last `N_CP` samples
and then all of it. `ImplementsFramer` maps every clock of `CpInsert` to a step
of it, with the producer's and the sink's positions as the mapping.

`MinSum` knows no ports, counters or pairs of minima: a check node answers all
its columns at once with the least of the *others*, the nodes of a
half-iteration come in any order, and no node of the next half starts before
the last of this one. `ImplementsMinSum` maps the decoder to it: a check node
counts as answered when its last column has been gathered (the answers that are
still to be scattered are computed from the minima), a memory is what it will be
once its port has been written, and a reset abandons the run. The property fails
if any state reads a word that is still in a port, which is the hazard.

`Fastlock` is what the driver promises of the fastlock of one synthesizer: loads,
stores, recalls, and what any other call may do to it. `Fastlocks` says that the
whole driver implements it twice, once for each synthesizer, whatever call is made
(`INSTANCE Fastlock WITH fl <- s.lo.rx.fl`); `Ad9361_proofs` proves it, so that the
theorems about `Fastlock` are theorems about the driver.

## 3. The runs

| run | instance | what it shows |
|---|---|---|
| `cp_stream` | the code's 64 + 16, three symbols at any pace, always-ready sink | `cp_insert` is the two-symbol FIFO; valid is high for exactly a symbol; every complete symbol is delivered |
| `tx_path` | 8 bins, 2 symbols, 3 codewords offered in any clock | alignment, order, nothing lost, every frame sent |
| `rx_path` | 8 bins, prefix 1, two frames at any pace, after samples of no frame, `frame_start` at any symbol | no sample dropped, alignment, the LLR memory is the first codeword and stays it |
| `ldpc_encoder` | both real tables, Z = 64, three blocks, pulses in any clock | announced words are the decoder's codewords and carry the block taken |
| `ldpc_decoder` | a code of 2 x 4 blocks of 2 bits, all 16 codewords and 5 noisy words, a reset in any clock | min-sum; clean frames decode; a result comes |
| `pl_loopback` | all blocks, 8-bit codewords, 3 symbols of 4 bins, one external reset at any moment | the decoded bits are the encoded bits in the first run and in the one after the reset; the result comes |
| `rf_pl` | FIFOs of two words, five samples out and four in, two clocks in any order, muting and resets at any time | what goes out and what comes in is what was accepted, in order, each once; unmuted without a gap; a burst that fits the FIFO is accepted whole |
| `one_late` | the same | violation: in one state the first word pushed to the DAC is not the first accepted, and the frame received is counted from its second sample |
| `driver` | main's sequence with main's parameters or a one-channel TDD radio, then any two of 34 calls; in any call one of 12 faults | tuned, caches true, tracking on, state kept; main gets what it asks for; both fastlocks implement `Fastlock`; tables agree; the transmitter was calibrated near its LO |
| `lo_after_recall` | main's sequence, then `set_rx_lo_freq`, fastlock store and recall | violation: a call returns 0 and the LO is elsewhere |
| `no_ch_mode_half` | main's sequence, then a port selection and `set_no_ch_mode` | violation: a call returns 0 with the radio set up by half |
| `pins_again` | main's sequence, then any four of `set_en_state_machine_mode` and `set_rx_rf_bandwidth` | violation: a bandwidth change gives the state machine back to the pins |

### 3.1 Bounds, and why they are enough

Counters that run over data of one kind are cut to the smallest instance in
which every branch is taken: a prefix shorter than the body, at least two
symbols (so that the ping-pong goes round and "the last symbol" differs from the
first), a codeword that ends inside a symbol (so that spare bins exist: the
code's twelve symbols have room for 128 bits more than a codeword), a null, a
pilot and data bins on both sides. Where the exact parameters are themselves the
question they are used: `cp_stream`, `ldpc_encoder`, and in the driver main's
parameters, the divider and VCO tables and the limits.

- `MaxSym` = 3: after two symbols the banks repeat. `CpStream_proofs`
  removes the bound.
- `MaxCw`: three codewords offered, so that one arrives during a frame, one
  between frames and one after; two frames at the receiver, since the second is
  what could overwrite the first.
- `MaxBlocks` = 2: the second pulse falls in every phase of the first block.
  `Ldpc_proofs` removes the bound.
- `N_CP` = 1 in `RxPath`: the prefix is the only slack the FFT has between two
  symbols, so one sample is the hardest case.
- The decoder's base matrix has the shape of the code's (a full information
  part, a dual diagonal); `Sat` = 3 makes saturation and ties frequent instead
  of rare; two iterations are the first with messages that are not zero.
- `MaxResets` = 1: a reset in any clock of a run followed by a complete run is
  what can show a leftover. `PlLoopback_proofs` and `Ldpc_proofs` remove
  the bound, and those on the sizes; for liveness, a second reset adds no state
  the first does not: the registers start from the same values, the memories
  hold words of an earlier run.
- In `PlLoopback` and `LdpcDecoder` the data of the run after a reset may
  differ from that of the run before. The code compares with a constant; with
  one constant a stale word would equal the right one and hide. The real system
  is the case in which the choice is the same.

- `RfPl`: two words are the least depth at which full, empty and in between
  differ; five samples go round it twice; with a start delay of 1 the modem may
  start at the earliest moment. `RfPl_proofs` removes all of these bounds.
- `Driver`, two calls after main: main's fifteen calls are already a history, and
  every property relates what one call leaves to what a second makes of it. The
  arguments are chosen so that every branch of the callee is taken: sample rates
  40, 20 and 2 MSPS and one too high; a filter with its own clocks and one that
  does not fit; a gain at both ends of the table; ports in, at and beyond the
  range. A fault ends the calls: what the driver owes its caller after a failure
  is written nowhere, so the properties that a failure may break stop there, and
  the failing call itself is part of the run. What only a longer history shows
  was looked for by simulation, with twelve calls after main's: it found
  `pins_again` and the replaced filters of §3.3, nothing else in some three hundred
  thousand states.
- The LOs of `Driver`: 2460 MHz is within the calibration threshold of main's LO,
  5000 far, 50 out of range. A VCO calibration leaves one ALC word; two stored
  profiles then hold equal words, the case in which a recall has to change the
  memory. Histories of any length and any ALC words are the theorems'
  (`DriverFastlocks`, `TablesFollowTheLos`, `AlwaysQuadNear`).

### 3.2 Fairness

The only fairness is the clock's: `WF_vars(Work /\ Next)` says that the clock
does not stop while a block holds work, `WF_vars(Tick)` in `PlLoopback` that it
runs at all, which an oscillator does. Nothing is assumed of the producer, of
the transmitter, of the encoder's source or of the sink beyond the wire being
tied high. `PlLoopback` also assumes that a pressed external reset is released
(`WF_vars(Release)`); without it the property would still hold as stated, since
it only promises a result out of reset, but the run after the reset would not
be forced to happen. The driver and `RfPl` state safety only: a call of the
driver ends because its loops are bounded (20000 polls), which is in the model as
a timeout. Liveness over a reset is stated with the reset as an
escape: a result comes, *or* a reset does.

### 3.3 Disagreements with the documents

Each is shown by a run with `expect: violation` and quoted in `PROJECT.json`. The
last two share the run `one_late`: `EitherOnTime` asks that at least one of
`PushesWhatItHas` and `FrameFromFirst` holds, so the state it ends in refutes both.

1. `ad9361_ensm_restore_state` says it only restores. The flag by which it
   gives the state machine back to the pins is written only when a state had to
   be forced, so that a call that finds the radio in ALERT restores the pin
   control an earlier call found. It takes four calls after main's to see.
2. `ad9361_set_rx_lo_freq` promises 0 for success. `clk_set_rate` does nothing
   for a rate it remembers, and a fastlock recall moves the LO without telling
   it: asked for the frequency before the recall, the call returns 0 and the LO
   stays where the profile put it.
3. `ad9361_set_no_ch_mode` promises a negative code otherwise. It drops the code
   of the setup it calls. A port selection is recorded before it is refused, so
   a refused one makes that setup stop half-way, and 0 is returned.
4. `ofdm_ldpc_rf_pl.v:310` says "When FIFO has data, push it; when not, push 0".
   The DAC registers take the FIFO's output in the clock of the read, when it
   still holds the word before: a zero goes out for the first sample, and the last
   sample of a burst waits for the next burst. `TransmitsOneLate` proves that it is
   so in every history. (With no data the registers keep their value.)
5. `cp_remove.v:28` says that `frame_start` comes with the first valid sample, and
   the wrapper aligns "by the first sample arrival" (`ofdm_ldpc_rf_pl.v:405`). The
   wrapper's pulse is a register set after that sample was seen, so `cp_remove`
   counts from the second; `CountsFromSecond` proves it of every history. In
   `ofdm_ldpc_pl.v`, where the pulse is the edge itself, the statement is true
   (`StartsInPlace`).

Met on the way, without a run of their own: `QA.md:187` says the tables of
encoder and decoder must be equal, and they are not, but the encoder's parity
columns, the wrong ones, are read by no line (`EncodesForDecoder` shows that the
program is right nonetheless; `TableAssumption` says what it needs of the tables);
with filters of one design on, replaced by others, the divider of a filter that
does not change the rate is written after the rates were recomputed, and a rate
remembered is wrong (`past` holds `mixed` from then on, and the first part of
`CachesTrue` does not speak of such a history); `cp_insert`'s output register is
overwritten when a sink refuses a sample (`ofdm_ldpc_top` ties ready high, so
the system is safe; the proofs cover any sink where they can); the spare bins of
the last symbol re-send the head of the codeword, because `bit_ptr` wraps, and
not the zero bits of `lkh.md` (`llr_buffer` freezes when full: `LlrComplete`); the
decoder never stops early.

## 4. The proofs

### 4.1 `CpStream_proofs`

For every `N_FFT`, `N_CP` (within the assumption of `CpInsert`), any number of
symbols and any producer:

- `TypeCorrect`: `Spec => []TypeOK`.
- `BankExclusion`: `Spec => []BankExclusive`, for *any* sink.
- `StreamInOrder`, `BurstTheorem`, `Refinement`: for `Ready = {TRUE}`,
  `[]InOrder`, `BurstIsSymbol`, and `ImplementsFramer`.

None of these is inductive as it stands. `BankExclusive` needs `Ownership`: while
the reader streams the writer's bank that bank is still full, and a reader that
is idle waits on the writer's bank. Being closed under every step of both sides,
it needs no assumption on the sink.

The order properties also need where the two sides are and what the banks hold.
`StreamInv` adds: where the reader is in its symbol (`RdPos`: `rd_ptr` is one
ahead of `snk.pos` exactly when the output register is full), where the writer
is (`WrPos`), which symbol each has in its bank (`Turn`: the same symbol on one
bank, successive ones on two), and that the bank being streamed holds its whole
symbol and the writer's bank its first `wr_ptr` samples (`Stored`). One step per
branch of `Writer` and of `Reader` carries it; `InOrder` is a conjunct,
`BurstIsSymbol` and the refinement follow from it step by step.

### 4.2 `Paths_proofs`, the transmit path

For every layout of the bins and all sizes within `TxAssumption` and the blocks'
assumptions, any number of codewords pulsed at any time:

- `TxTypeCorrect`; `TxCountersAligned`: `[]TxAligned`; `LastSampleIsTaken`:
  `[]LastSampleTaken`.
- `FramesInOrder`: `TxSpec => []FrameInOrder`.

The first three follow from `TxInv`: the mapper's `bin_ptr` *is* the IFFT's
`in_cnt`, also across a stall, and beyond the IFFT the sample on its output is
the one `cp_insert` writes next, with `out_cnt` one ahead exactly while the block
lasts. So `cp_insert` meets the last sample of a block with `wr_ptr` at its end
and the other bank free.

`FramesInOrder` needs to know which symbol each buffer holds. `FrameInv` numbers
the symbols absolutely, back from the one the mapper fills (`LoadSym`): the IFFT's
output is one behind if a block is loaded (`OutSym`), the writer's bank one more if
the bank is full (`WrSym`), and the reader is at `WrSym` or one before, depending on
whose bank it is (`RdPlace`). Each clock moves a symbol from one buffer to the
next or leaves it, so each part of the invariant is kept by the part before it.
The bits are tied to the bins by `BitOfNext`: `bit_ptr` grows by two with every
data bin, and the number of data bins below a bin grows by one there
(the lemmas about `Rank`); that is why the count must be of a finite set and not of a constant.

### 4.3 `Paths_proofs`, the receive path

For all sizes and layouts, samples at any pace: `RxTypeCorrect`,
`EverySampleTaken` (`[]NoSampleDropped`), `RxCountersAligned` (`[]RxAligned`),
`CodewordComplete` (`[]LlrComplete`).

`RxInv` follows a bin down the pipeline. From the place of the next sample in the
stream follow the place the FFT puts out next (`FftPlace`), the one the equaliser
and the demapper take next (one back for each full register), and from that the
number of data bins before it, which is what `llr_buffer` counts (`DemapCount`,
`DemodCount`). What each register holds is then a function of its place.

A sample from before the first symbol (`Early`) changes nothing, because `synced`
is false until the first sample with `frame_start` (`EarlyIsPause`).

`EverySampleTaken` is the part about time: while the FFT puts out symbol `k`, the
stream is at most two samples ahead of it in symbol `k + 1`
(`place.pos <= fft_out_cnt + 2` in `OutInv`), hence the output is through before
the next symbol is in. The two samples are the transform's clock and the register;
the prefix, at least one sample by `RxAssumption`, is what they are taken from.
`CodewordComplete` also uses that pilot and data bins are disjoint, without which
the demapper would take for data a bin the mapper, which asks for pilots first,
filled with a pilot.

### 4.4 `Ldpc_proofs`, the encoder

For every lifting factor `Z`, number of rows `MB`, pair of tables that satisfy
`TableAssumption`, and any number of pulses:

- `EncTypeCorrect`: `EncSpec => []EncTypeOK`.
- `AnnouncesCodewords`: `EncSpec => []EncodesForDecoder`.
- `AnnouncesBlock`: `EncSpec => []CarriesBlock`.

The invariant says that in the accumulating phase `parity_reg[r]` holds exactly
the information parities of row `r` at the positions below `cycle_cnt`. The step
that counts is `Resolve`: row `r` of the dual diagonal XORs the parity blocks
`r - 1` and `r`, the sums of rows up to `r - 1` and up to `r`, so all but row
`r`'s own information parity cancels; the lemmas about `Odd` of a union with one
more element carry that. `TableAssumption` itself is evaluated by TLC for the
tables of the repository.

### 4.5 `Ldpc_proofs`, the decoder

For every base matrix (of at least two columns), lifting factor, limit, number of
iterations, any frames and any number of resets:

- `DecTypeCorrect`: `DecSpec => []DecTypeOK`.
- `CleanFramesDecode`: `DecSpec => []CleanDecodes`.

`NumInv`, the part about numbers, reasons about what the memories hold *with the
write in the port done* (`chNow`, `vNow`, `mNow`). `LoadInv`: once the
initialisation is through nothing is left of an earlier frame or of the power-up
content. `PortInv`: what is still in a port when a half-iteration begins is of the
last column, and the first read is of column 0; hence the assumption of two
columns (the code has 16). With one, a check node would read a word that is not
there yet.

`SignInv` is about a frame whose signs are a codeword. No value ever has the wrong
sign and none becomes zero (`Strict`), answers have the right sign or are zero
(`Sided`), and each answer still to be read lies between zero and its variable's
value (`Within`), so that the difference the next check node takes has the right
sign or is zero. This survives the limit, since the answers are within it. The
difficult case is a zero: for a negative bit the code takes its sign for a plus.
`Gathered` says why it does not matter: such a column brings the least size zero,
so that every answer of the check is zero but at most the one to that column,
which is made of the other columns; `AnswerSided` is that argument, with the
parity of the signs from the codeword's check.

### 4.6 `Fastlock_proofs`

For any set of profiles, any range of ALC words and frequencies, any history of
loads, stores, recalls, retunings, sleeps and restarts:

- `TypeCorrect`; `CopiesTrue`: the driver's copy of a loaded profile's word is
  the word in the radio's memory; `ProfileInUse`: radio and driver agree on the
  profile in use, and it is a loaded one.
- `RecallWorks`: a recall leaves in memory another ALC word than the VCO has.

The invariant is `TypeOK /\ CacheIsMemory /\ InUse`. `RecallWorks` needs it: the
code compares and steps its own copy only, so that the word *in memory* differs
follows from the copy being true; and the word restored from `orig` differs from
the current one because it is chosen only when `orig` and `written` differ.

### 4.7 `RfPl_proofs`

For FIFOs of any depth, any start delay, any number of samples, two clocks in
any order, pointers that cross at any time, resets and muting at any time:

- `TransmitsInOrder`: `Spec => []TransmitInOrder`.
- `ReceivesInOrder`: `Spec => []ReceiveInOrder`.
- `TransmitsOneLate` and `CountsFromSecond`: the two disagreements of §3.3 with
  the comments are not of one history but of all.

Each FIFO carries a numbered stream (`Carries`): what it holds is the end of what
was accepted, and its output register is the last word read, or zero before the
first. On the transmit side (`TxInv`) the words pushed are one per read, each the
register before that read, hence one late. The count by which the writer refuses
never exceeds what was accepted (`Fits`), so a refusal needs a full depth of
accepted samples. On the receive side (`RxInv`) the
valid register says whether the last clock read, so the words taken are exactly
those read; and the frame start is the valid of one clock earlier, hence the
second sample.

The model assumes that the start delay outlasts the reset synchroniser of the
radio's side (the conjunct `dsync = 3` of `StartDelay`): 50000 clocks against
three of `data_clk`. Without it the first samples could meet a FIFO whose other
side is still in reset.

### 4.8 `PlLoopback_proofs`

For the whole loop, with every size, layout, table and block the assumptions of
the parts allow, and any number of external resets at any moment:

- `LoopTypeCorrect`: `Spec => []TypeOK`.
- `BitsComeThrough`: `Spec => []EndToEnd`.
- `DoneMeansPass`: `Spec => []PassWhenDone`.
- `NeverRealigned`: `Spec => []StartsInPlace`.

The proofs of the parts are used, not repeated: their invariants are stated over a
part's registers and record, their lemmas say that each is kept by the part's own
clock for whatever the surroundings offer, and here the surroundings are the other
parts. `PathInv` joins the invariants of the four (`EncInv`, `TxInv` and
`FrameInv`, `RxInv`, the decoder's `IInv`) with what a part asks of the one before
and cannot know by itself:

- `StageInv`: the start pulse comes once, so the stages of a run do not overlap.
  The block encoded is `TEST_BITS`, and the mapper is idle when the word comes.
- `SentInv`: nothing is sent, and then the receive path rests; or the one word
  sent is a codeword of the decoder's table that carries `TEST_BITS`.
- `GapInv`: `tx_valid_out` is low before a symbol and never within one, and the
  edge detector is one clock old. So `rx_frame_start` is high exactly at sample 0,
  which is what `RxPath` asks of a frame start; since the place on the wire is
  the transmitter's and the receiver's alike, `StartsInPlace` follows.
- `FeedInv`: what the decoder reads is the LLR memory, full when the pulse comes
  and the same from then on. This is the assumption under which the decoder was
  proved (`frame` is constant while it runs). In the loop it is not: the memory
  changes until it is full. The decoder's lemmas are therefore stated for a frame
  that may change as long as the decoder is idle.
- `LampInv`: the decoder is not started again, so that the result the lamps speak
  of stays.

`EndToEnd` then takes three steps. `LlrComplete` says that LLR `k` is about bit
`k` of the word sent; `FrameIs` that its number is `Level` with the sign of
that bit; the word satisfies the decoder's checks, hence `Clean`, hence
`CleanDecodes` gives back its information columns, which are the block
(`ResultRecovers`). A reset keeps the invariant because no conjunct says anything
of a memory in a state just after reset (`RestartStep`).

### 4.9 `Ad9361_proofs`

For every set of initialisation parameters, any arguments, any number of calls
after main in any order, and any faults in them:

- `TracksWhatIsWanted`: under `Managed`, `Spec => []TrackingOn`.
- `StateIsKept`: under `Managed`, `Spec => EnsmKept`.
- `DriverFastlocks`: `Spec => Fastlocks`, the driver implements `Fastlock` for each
  synthesizer: its initial states map to initial states, and every call to a step or
  a stutter.
- `TablesFollowTheLos`: `Spec => TablesAgree`.
- `AlwaysQuadNear`: `Spec => []QuadNear`.
- `AlwaysTyped`: `Spec => []TypeOK`.
- `BothCopiesTrue`: `Spec => [](FPrx!CacheIsMemory /\ FPtx!CacheIsMemory)`, what
  follows for the driver from the theorem about `Fastlock`: its copies of the
  loaded profiles are what the radio has in memory.

`IInv` says of the state between two calls that the record has its fields, that each
synthesizer's registers hold words an LO frequency has (`SynthsOk`), that a radio in
use is `Ready` (its state machine is in a state of its duplex mode, agrees with the
driver's own idea of the mode, and tracks what is wanted), and, through two instances
of `Fastlock_proofs`, the invariant of §4.6 for both synthesizers. `Ready` is needed
for the two properties: a bracket of `ensm_force_state` and `ensm_restore_state`
only comes back to the state it left when that state is one of its mode, and
`SynthsOk` for the refinement, because a profile that is stored is what the registers
hold. "In use" is the properties' own condition: no fault has changed what a call did.

`QuadNear` speaks of the frequency the transmitter's registers stand for, while the
driver decides by the one it was asked for. Two parts of `Sound` join them. `TxAt`: the
registers hold the word of the frequency last tuned to, which is one the radio has, but
for the divider while the LO is external (`ad9361_trx_ext_lo_control` writes that one,
and the one the driver remembers when the LO is internal again). `Near`: that frequency
is within the threshold of the one last calibrated for. `TxAt` holds whatever fails;
`Near` only while the calibration is automatic and no fault has changed a call, the
property's own condition. `QuadStep` is the relation that a call keeps both, and
composes as the others do; a call about the receiver needs it too, for the tables of
one synthesizer can make the driver tune the other (`fixup_other`). `WordIsFrequency`,
the arithmetic, says that the word of a frequency in the range stands for it.

The proof corrected the property's exception, which is any frequency the radio does not
have (`ad9361_validate_rfpll`) and not only the `-EINVAL` that
`ad9361_rfpll_int_round_rate` returns as a rate. An AD9363A asked for 100 MHz is not
tuned, is calibrated all the same, and remembers 100 MHz (`ad9361.c:7023`, `7037`). The
runs' parameters have another radio, so TLC could not tell the two apart.

A call is a composition of up to a hundred operators on one record, and the proof
follows that composition. Each group of lemmas says how far a part may move the state,
and the relations compose:

- `Quiet`, `Still`: the parts that touch neither the state machine, the tracking nor
  the synthesizers. The clock tree, filters, gain and attenuation are of this kind,
  whatever they return.
- `Returns`, `Held`: the parts that do, and give back. `Bracket` is the argument for
  everything that runs between force and restore; `CalibRun` and `BandwidthRun` add the
  suspended tracking, which comes back if no step in between fails.
- `Rest`, `Base`, `Retuned`: the synthesizers, which of their words a tuning writes
  and what it may do to the fastlock (`IntSetIs`, `RfpllSetIs`, `SetLoIs`).
- `Tables`: a step leaves both LOs where they are, or ends with the tables that go with
  them (`Placed`). One tuning may end with the wrong ones; the call that made it then
  tunes the other synthesizer too, and that is the step the relation is about.
- `Kept`, `Fine`, `Turned`: one lemma per call; `Set`, `Brought`: the setup, from the
  reset to the state machine's first state.
- `Steady`, `Stepped`: one lemma per action, from which `NextIInv` follows.

`AlwaysTyped` is a proof beside this one. Its invariant is `Bounded`: the record is
`Ranged`, that is, each of its parts has its fields and its range (`RowsIn`, `DivsIn`,
`GainsIn`, `EnIn`, `TrkIn`), and the budget of calls is one. `Ranged` says nothing of an
earlier state, so the lemmas are one per operator and just compose: whatever the state,
the arguments and the outcomes, a ranged record stays ranged. What is not bookkeeping in
it: the two scans of a table end inside it (`LeastExists` for the row of the VCO, which
needs that the word of a frequency puts the VCO above 6000 MHz, and for the gain index),
a divider is only written with one of its table's values, and a state machine command
reads the state it leaves, so the state it gives back is one the driver knows.

`Managed` says that every set of parameters leaves the power-down of an LO to the
driver (`tx_lo_powerdown_managed_enable`, which is main's). It is needed: without it
an LO can be down when a bandwidth is set, the quadrature calibration returns an
error, and `ad9361_update_rf_bandwidth` returns before it resumes the tracking
(`ad9361.c:5634`) with no fault of the radio. `TablesFollowTheLos`, `AlwaysQuadNear`,
`AlwaysTyped` and the refinement do not assume it. All rest on `ParamsAssumption`: the parameters have
the fields and, of the external LOs and the LO frequencies, the types of
`AD9361_InitParam`.

### 4.10 `Ad9361Clk_proofs`

For the same parameters, arguments, calls and faults, `Managed` or not:

- `AlwaysTuned`: `Spec => []Tuned`.
- `AlwaysStemsTrue`: `Spec => []StemsTrue`, the part of `CachesTrue` that is about the
  clocks above the two sample clocks and about the power-down of the synthesizers.

`Timed` is inductive together with `IInv`. It says that a driver with a handle is `Up`:
the BBPLL has been set, its rate and those of the eight clocks with a clock below them
are remembered as the words and dividers in the radio give them, the reference clock is
the divided one, and the power-down of each LO is what was last asked for; and that a
radio in use is `InTune`: the filters and the ADC are set up for the BBPLL, the ADC and
the bandwidths of this moment (`TuneIn`), RSSI, auxiliary ADC and gain control for theirs
(`TimesIn`). The first half holds whatever fails; the second needs that nothing has.

What the driver remembers has to be in it although `Tuned` is only about the radio:
`clk_set_rate` does nothing when it remembers the rate it is asked for, so a change of
the clocks with nothing set up after it is excluded only if what it remembers is true.
For the same reason the first setting of the BBPLL is a case of its own (`FirstClock`):
before it the remembered rate is 0, and `ClockAssumption`, that the parameters ask the
BBPLL for a rate it can have, is what makes the driver set it.

The lemmas follow the composition of a call again. `RecalcIs`, `SetRateIs`, `SwitchIs`
are about the tree; `WordExact`, the one piece of arithmetic, says that the word of a
rate stands for that rate, for every reference clock the divider lets through. A part of
a call is `Aside` (clocks, filters and times as they were), `Paced` (it may set clocks,
and sets the times again), `Filtered` (it may widen the filters for the TX calibration,
and sets them back), `Banded` (it ends with the filters set up) or `InStep` (none of it
is lost), and these relations compose; `Raises` is the setup's. A bandwidth is `Banded`
whatever the clocks were before, which is why a chain followed by it is in step.

### 4.11 Only model-checked

All liveness (`Delivered`, `FrameSent`, `FrameDecodable`, `Announced`,
`Decodes`, `Finishes`): TLAPS does not reason about ENABLED and fairness.
That the decoder is flooding min-sum (`ImplementsMinSum`): the sum over a
variable's rows is a fold, out of the prover's reach.

Of the driver: `Configured` and, of `CachesTrue`, the two sample clocks.
`Configured` is about main's own parameters: nothing in it is general but the faults,
and it is checked with each.

Every strengthened invariant above was first checked by TLC as an invariant of its
component's instance.

## 5. Not modelled, and why

- `ofdm_ldpc_rf_top.v` and `ad9363_cmos_if.v`: the CMOS interface, an experiment
  that was given up (`lkh.md:1568`). `ad9361_phy.v`, `phy_rx.v`, `phy_tx.v`: the
  board vendor's physical layer (`lkh.md:1567`), not used in the final build
  (`QA.md:481`), shift registers around DDR and delay cells.
- `zynq_top.v` is `ofdm_ldpc_pl.v` without the power-on reset. `xfft_stub_ip.v`
  wraps a vendor core of unknown timing. `qpsk_mod.v`, `llr_assembler.v` and the
  full mode of `channel_est.v` are instantiated nowhere.
- Of the driver: `ad9361_conv.c`, which `config.h:66` leaves out of the build;
  the registers of a setup that nothing reads again (auxiliary DAC, GPO, control
  outputs, external LNA, mixer sub-table), test tones and loopbacks, the
  temperature sensor, the parsing of filter files, the split gain table; what
  main does after a failed initialisation, when it passes on a NULL handle. With
  external LOs `set_no_ch_mode` tunes no synthesizer, and the tables are then
  those of the reset (`TablesAgree` leaves that time out).
- Of `main.c` and `platform.c`: register writes and delays without state.
- The live demo bridges keep nothing but the last value read, and what answers
  them is not in the repository. `path_x_*.py` are numerical experiments. Build
  scripts, boot image tools and plots have no run-time state.

Outside what a model of this kind can say: whether the fixed-point DFT keeps the
signs of a noisy signal, how well the code corrects errors, timing closure,
metastability in the synchronisers, whether a calibration is good.

## 6. Order of the work, and what is left

The order followed the importance of what can go wrong: the prefix inserter with
its two processes; the transmit and receive paths; encoder and decoder; the loop
over all of them; the wrapper with its two clocks; the driver from the clock plan
up to any sequence of calls.

Left, of the proofs: the two sample clocks of `CachesTrue`.
