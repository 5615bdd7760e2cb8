------------------------------ MODULE Fastlock ------------------------------
(* The fastlock of one synthesizer as a state machine of its own: the calls   *)
(* that load, store and recall profiles, and what the other calls of the      *)
(* driver do to it.  The driver implements it for both synthesizers.          *)
EXTENDS FastlockOps

CONSTANT Freqs           \* what the registers and the profiles can stand for

VARIABLE fl

Init == fl = NoFastlock

LoadProfile == \E k \in Profiles, freq \in Freqs, w \in Words : fl' = Load(fl, k, freq, w)
StoreProfile == \E k \in Profiles, freq \in Freqs : fl' = Store(fl, k, freq)
RecallProfile == \E k \in Profiles : fl.entry[k].init /\ fl' = Recall(fl, k)

\* A frequency is set, which leaves fastlock first and, with the VCO calibration
\* skipped, ends with it switched off; the other synthesizer is tuned again for
\* another table, and then leaves fastlock only when its frequency differs.
Retune == \E a \in AlcWords, v \in BOOLEAN : fl' = [Tune(Leave(fl), a) EXCEPT !.vcocal = v]
RetuneOther == \E a \in AlcWords : fl' = Tune(fl, a)
\* A frequency that is refused.
LeaveOnly == fl' = Leave(fl)

\* Sleeping and waking; the external LO, and the calibration of the charge pump.
VcoCal == \E on \in BOOLEAN : fl' = [fl EXCEPT !.vcocal = on]
Ready == \E on \in BOOLEAN : fl' = [fl EXCEPT !.ready = on]

\* A reset of the radio and of the driver's state, and the setup after it.
Restart == \E a \in AlcWords, r, v \in BOOLEAN :
             fl' = [NoFastlock EXCEPT !.alc = a, !.ready = r, !.vcocal = v]

Next == \/ LoadProfile \/ StoreProfile \/ RecallProfile \/ Retune \/ RetuneOther
        \/ LeaveOnly \/ VcoCal \/ Ready \/ Restart

Spec == Init /\ [][Next]_fl

-----------------------------------------------------------------------------
Entries == [init : BOOLEAN, orig : Words, written : Words]

Fastlocks == [entry : [Profiles -> Entries],
              profile : {0} \cup {k + 1 : k \in Profiles},
              mem : [Profiles -> [freq : Freqs \cup {NoFreq}, word : Words]],
              setup : {0} \cup {k + 1 : k \in Profiles},
              ready : BOOLEAN, vcocal : BOOLEAN, alc : AlcWords]

\* The copies and the words in memory are words, and the profile in use is a profile.
TypeOK == fl \in Fastlocks

\* The driver's copy of word 15 is the word in the radio's memory, for every
\* profile it takes for loaded, after any history of loads, stores, recalls and
\* restarts: a recall decides by the copy (ad9361_fastlock_recall never reads the
\* memory).
CacheIsMemory == \A k \in Profiles : fl.entry[k].init => fl.mem[k].word = fl.entry[k].written

\* The radio is in fastlock with the profile the driver believes to be in use,
\* which is a loaded one.
InUse == /\ fl.setup = fl.profile
         /\ fl.profile # 0 => fl.entry[fl.profile - 1].init

\* The word a recall leaves in memory differs from the ALC word the VCO had: the
\* workaround of ad9361_fastlock_recall works for every history of the two copies.
RecallChangesAlc ==
  [][\A k \in Profiles : fl' = Recall(fl, k) /\ fl.entry[k].init
       => fl'.mem[k].word.alc # Current(fl)]_fl
=============================================================================
