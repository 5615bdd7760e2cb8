---------------------------- MODULE FastlockOps -----------------------------
(* The fastlock of one synthesizer: profiles in the radio's memory, each with *)
(* a frequency and, in its word 15, the ALC word the VCO starts from.  The    *)
(* driver keeps a copy of word 15 as it was loaded (orig) and as it was last  *)
(* written: a recall changes the word in memory when the VCO would start from *)
(* the ALC word it already has ("Workaround: Lock problem with same ALC       *)
(* word").                                                                    *)
(*                                                                            *)
(* A fastlock is the record                                                   *)
(*   entry    profile -> [init, orig, written]        phy->fastlock.entry     *)
(*   profile  0, or the recalled profile plus one     current_profile         *)
(*   mem      profile -> [freq, word]                 the radio's memory      *)
(*   setup    0, or the profile of FAST_LOCK_SETUP plus one                   *)
(*   ready    SYNTH_READY_MASK       vcocal   VCO calibration enabled         *)
(*   alc      the ALC word the VCO ended its last calibration with            *)
(* A word 15 is [alc, tune]: seven bits and the FORCE_VCO_TUNE bit below.     *)
EXTENDS Integers

CONSTANTS Profiles,      \* RX_FAST_LOCK_NUM of them
          AlcSize        \* 128, the values of the ALC word

ASSUME FastlockAssumption == /\ Profiles \subseteq Nat
                             /\ AlcSize \in Nat /\ AlcSize > 1

AlcWords == 0..(AlcSize - 1)
Words == [alc : AlcWords, tune : {0, 1}]
Blank == [alc |-> 0, tune |-> 0]
NoFreq == [vco |-> 0, vdiv |-> 0]

NoFastlock ==
  [entry |-> [k \in Profiles |-> [init |-> FALSE, orig |-> Blank, written |-> Blank]],
   profile |-> 0,
   mem |-> [k \in Profiles |-> [freq |-> NoFreq, word |-> Blank]],
   setup |-> 0, ready |-> FALSE, vcocal |-> TRUE, alc |-> 0]

-----------------------------------------------------------------------------
\* ad9361_fastlock_writeval of word 15.
WriteWord(f, k, w) == [f EXCEPT !.mem[k].word = w]

\* ad9361_fastlock_load: all words, and the two copies of the last.
Load(f, k, freq, w) ==
  [f EXCEPT !.mem[k] = [freq |-> freq, word |-> w],
            !.entry[k] = [init |-> TRUE, orig |-> w, written |-> w]]

\* ad9361_fastlock_store: the frequency the synthesizer's registers stand for and
\* its ALC word, the tune bit as the last tuning left it, 0.
Store(f, k, freq) == Load(f, k, freq, [alc |-> f.alc, tune |-> 0])

\* ad9361_fastlock_prepare: into the mode, and out of it.
Enter(f, k) ==
  IF f.profile # 0 THEN f ELSE [f EXCEPT !.setup = k + 1, !.ready = TRUE, !.vcocal = FALSE]

Leave(f) ==
  IF f.profile = 0 THEN f
  ELSE [f EXCEPT !.setup = 0, !.vcocal = TRUE, !.ready = FALSE, !.profile = 0]

\* Adding 2 to the byte steps the ALC word, which wraps.
Bump(w) == [w EXCEPT !.alc = IF @ = AlcSize - 1 THEN 0 ELSE @ + 1]

\* The ALC word a recall has to differ from: the one of the recalled profile as the
\* driver wrote it, the VCO's own when there is none.
Current(f) == IF f.profile = 0 THEN f.alc ELSE f.entry[f.profile - 1].written.alc

Same(f, k) == f.entry[k].written.alc = Current(f)

NextWord(f, k) ==
  LET e == f.entry[k]
  IN IF e.orig.alc = e.written.alc THEN Bump(e.written) ELSE e.orig

\* ad9361_fastlock_recall of a loaded profile: the memory is written only when the
\* word changes.
Recall(f, k) ==
  LET w == NextWord(f, k)
      g == IF Same(f, k) THEN WriteWord([f EXCEPT !.entry[k].written = w], k, w) ELSE f
  IN [Enter(g, k) EXCEPT !.profile = k + 1, !.setup = k + 1]

\* What the rest of the driver does to it: a tuning ends with an ALC word.
Tune(f, a) == [f EXCEPT !.alc = a]
=============================================================================
