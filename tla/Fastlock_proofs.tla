-------------------------- MODULE Fastlock_proofs --------------------------
(* Proofs about the fastlock of a synthesizer, for any number of profiles,    *)
(* any width of the ALC word and any frequencies.  What the driver remembers  *)
(* of word 15 is what the radio holds (CacheIsMemory), and this is what makes *)
(* the workaround of ad9361_fastlock_recall work (RecallChangesAlc): a recall *)
(* that leaves the memory alone has compared the copy, not the memory.        *)
EXTENDS Fastlock, TLAPS

\* A word the workaround steps stays a word, and another ALC word.
LEMMA BumpChanges ==
  ASSUME NEW w \in Words
  PROVE  Bump(w) \in Words /\ Bump(w).alc # w.alc
  BY FastlockAssumption DEF Words, AlcWords, Bump

\* What a load leaves: the profile's memory and both copies are the loaded word.
LEMMA LoadIs ==
  ASSUME NEW f \in Fastlocks, NEW k \in Profiles, NEW freq \in Freqs, NEW w \in Words
  PROVE  /\ Load(f, k, freq, w) \in Fastlocks
         /\ Load(f, k, freq, w).entry[k] = [init |-> TRUE, orig |-> w, written |-> w]
         /\ Load(f, k, freq, w).mem[k].word = w
         /\ \A j \in Profiles \ {k} : /\ Load(f, k, freq, w).entry[j] = f.entry[j]
                                      /\ Load(f, k, freq, w).mem[j] = f.mem[j]
         /\ Load(f, k, freq, w).setup = f.setup
         /\ Load(f, k, freq, w).profile = f.profile
  <1> DEFINE e == [init |-> TRUE, orig |-> w, written |-> w]
             m == [freq |-> freq, word |-> w]
  <1>1. e \in Entries
    BY DEF Entries
  <1>2. m \in [freq : Freqs \cup {NoFreq}, word : Words]
    OBVIOUS
  <1>3. Load(f, k, freq, w) = [f EXCEPT !.mem[k] = m, !.entry[k] = e]
    BY DEF Load
  <1> HIDE DEF e, m
  <1>4. [f EXCEPT !.mem[k] = m, !.entry[k] = e] \in Fastlocks
    BY <1>1, <1>2 DEF Fastlocks
  <1>5. /\ Load(f, k, freq, w).entry = [f.entry EXCEPT ![k] = e]
        /\ Load(f, k, freq, w).mem = [f.mem EXCEPT ![k] = m]
        /\ Load(f, k, freq, w).setup = f.setup
        /\ Load(f, k, freq, w).profile = f.profile
    BY <1>3 DEF Fastlocks
  <1>6. f.entry \in [Profiles -> Entries] /\ DOMAIN f.mem = Profiles
    BY DEF Fastlocks
  <1>7. m.word = w /\ e = [init |-> TRUE, orig |-> w, written |-> w]
    BY DEF m, e
  <1> QED BY <1>3, <1>4, <1>5, <1>6, <1>7

\* What leaving the mode leaves.
LEMMA LeaveIs ==
  ASSUME NEW f \in Fastlocks
  PROVE  /\ Leave(f) \in Fastlocks
         /\ Leave(f).entry = f.entry /\ Leave(f).mem = f.mem
         /\ f.setup = f.profile => Leave(f).setup = Leave(f).profile
         /\ Leave(f).profile = 0
  BY DEF Leave, Fastlocks

\* What entering it leaves.
LEMMA EnterIs ==
  ASSUME NEW f \in Fastlocks, NEW k \in Profiles
  PROVE  /\ Enter(f, k) \in Fastlocks
         /\ Enter(f, k).entry = f.entry /\ Enter(f, k).mem = f.mem
  BY DEF Enter, Fastlocks

\* The word a recall writes when the ALC words are the same is a word and brings
\* another ALC word than the one the driver wrote last.
LEMMA NextWordChanges ==
  ASSUME NEW f \in Fastlocks, NEW k \in Profiles
  PROVE  NextWord(f, k) \in Words /\ NextWord(f, k).alc # f.entry[k].written.alc
  <1>1. f.entry[k].orig \in Words /\ f.entry[k].written \in Words
    BY DEF Fastlocks, Entries
  <1> QED BY <1>1, BumpChanges DEF NextWord

\* What a recall leaves: of the recalled profile, a new word in memory and in the copy
\* when the ALC words are the same; else nothing but the profile in use.
LEMMA RecallIs ==
  ASSUME NEW f \in Fastlocks, NEW k \in Profiles
  PROVE  /\ Recall(f, k) \in Fastlocks
         /\ Recall(f, k).setup = k + 1 /\ Recall(f, k).profile = k + 1
         /\ \A j \in Profiles : Recall(f, k).entry[j].init = f.entry[j].init
         /\ \A j \in Profiles \ {k} : /\ Recall(f, k).entry[j] = f.entry[j]
                                      /\ Recall(f, k).mem[j] = f.mem[j]
         /\ Same(f, k) => /\ Recall(f, k).entry[k].written = NextWord(f, k)
                          /\ Recall(f, k).mem[k].word = NextWord(f, k)
         /\ ~Same(f, k) => /\ Recall(f, k).entry = f.entry
                           /\ Recall(f, k).mem = f.mem
  <1> DEFINE w == NextWord(f, k)
             g == IF Same(f, k) THEN WriteWord([f EXCEPT !.entry[k].written = w], k, w) ELSE f
  <1>1. w \in Words
    BY NextWordChanges
  <1>2. Recall(f, k) = [Enter(g, k) EXCEPT !.profile = k + 1, !.setup = k + 1]
    BY DEF Recall
  <1> HIDE DEF w
  <1>3. /\ g \in Fastlocks
        /\ \A j \in Profiles : g.entry[j].init = f.entry[j].init
        /\ \A j \in Profiles \ {k} : g.entry[j] = f.entry[j] /\ g.mem[j] = f.mem[j]
        /\ Same(f, k) => g.entry[k].written = w /\ g.mem[k].word = w
        /\ ~Same(f, k) => g.entry = f.entry /\ g.mem = f.mem
    <2>1. CASE Same(f, k)
      <3> DEFINE e == [f.entry[k] EXCEPT !.written = w]
                 m == [f.mem[k] EXCEPT !.word = w]
      <3>1. /\ f.entry \in [Profiles -> Entries]
            /\ f.mem \in [Profiles -> [freq : Freqs \cup {NoFreq}, word : Words]]
        BY DEF Fastlocks
      <3>2. /\ e \in Entries /\ e.init = f.entry[k].init /\ e.written = w
            /\ m \in [freq : Freqs \cup {NoFreq}, word : Words] /\ m.word = w
        BY <1>1, <3>1 DEF Entries
      <3>3. g = [f EXCEPT !.entry = [f.entry EXCEPT ![k] = e], !.mem = [f.mem EXCEPT ![k] = m]]
        BY <2>1 DEF WriteWord, Fastlocks
      <3> HIDE DEF e, m
      <3>4. /\ g \in Fastlocks
            /\ g.entry = [f.entry EXCEPT ![k] = e] /\ g.mem = [f.mem EXCEPT ![k] = m]
        <4> HIDE DEF g
        <4> QED BY <3>1, <3>2, <3>3 DEF Fastlocks
      <3> HIDE DEF g
      <3> QED BY <2>1, <3>1, <3>2, <3>4
    <2>2. CASE ~Same(f, k)
      BY <2>2
    <2> QED BY <2>1, <2>2
  <1> HIDE DEF g
  <1>4. /\ Enter(g, k) \in Fastlocks
        /\ Enter(g, k).entry = g.entry /\ Enter(g, k).mem = g.mem
    BY <1>3, EnterIs
  <1>5. /\ Recall(f, k) \in Fastlocks
        /\ Recall(f, k).entry = Enter(g, k).entry /\ Recall(f, k).mem = Enter(g, k).mem
        /\ Recall(f, k).setup = k + 1 /\ Recall(f, k).profile = k + 1
    <2> DEFINE E == Enter(g, k)
    <2>1. E \in Fastlocks /\ Recall(f, k) = [E EXCEPT !.profile = k + 1, !.setup = k + 1]
      BY <1>2, <1>4
    <2>2. E = Enter(g, k)
      OBVIOUS
    <2> HIDE DEF E
    <2>3. /\ Recall(f, k).entry = E.entry /\ Recall(f, k).mem = E.mem
          /\ Recall(f, k).setup = k + 1 /\ Recall(f, k).profile = k + 1
      BY <2>1 DEF Fastlocks
    <2>4. Recall(f, k) \in Fastlocks
      <3> DEFINE Used == {0} \cup {j + 1 : j \in Profiles}
                 F == [entry : [Profiles -> Entries], profile : Used,
                       mem : [Profiles -> [freq : Freqs \cup {NoFreq}, word : Words]],
                       setup : Used, ready : BOOLEAN, vcocal : BOOLEAN, alc : AlcWords]
      <3>1. k + 1 \in Used
        OBVIOUS
      <3>2. Fastlocks = F
        BY DEF Fastlocks
      <3> HIDE DEF Used
      <3> QED BY <2>1, <3>1, <3>2
    <2> QED BY <2>2, <2>3, <2>4
  <1> QED BY <1>3, <1>4, <1>5 DEF w

-----------------------------------------------------------------------------
\* The inductive invariant: the type, the copies, the profile in use.
IInv == TypeOK /\ CacheIsMemory /\ InUse

\* A step that leaves copies and memory alone keeps CacheIsMemory.
LEMMA SameCopies ==
  ASSUME IInv, fl'.entry = fl.entry, fl'.mem = fl.mem
  PROVE  CacheIsMemory'
  BY DEF IInv, CacheIsMemory

LEMMA InitIInv == Init => IInv
  <1> SUFFICES ASSUME Init PROVE IInv
    OBVIOUS
  <1>1. Blank \in Words
    BY FastlockAssumption DEF Blank, Words, AlcWords
  <1>2. TypeOK
    BY <1>1, FastlockAssumption DEF Init, NoFastlock, TypeOK, Fastlocks, Entries, AlcWords
  <1>3. CacheIsMemory /\ InUse
    BY DEF Init, NoFastlock, CacheIsMemory, InUse
  <1> QED BY <1>2, <1>3 DEF IInv

\* A profile is loaded: its copies and its memory are the loaded word.
LEMMA LoadKeeps ==
  ASSUME IInv, NEW k \in Profiles, NEW freq \in Freqs, NEW w \in Words,
         fl' = Load(fl, k, freq, w)
  PROVE  IInv'
  <1>1. fl \in Fastlocks
    BY DEF IInv, TypeOK
  <1>0. /\ fl' \in Fastlocks
        /\ fl'.entry[k] = [init |-> TRUE, orig |-> w, written |-> w]
        /\ fl'.mem[k].word = w
        /\ \A j \in Profiles \ {k} : fl'.entry[j] = fl.entry[j] /\ fl'.mem[j] = fl.mem[j]
        /\ fl'.setup = fl.setup /\ fl'.profile = fl.profile
    <2> DEFINE g == Load(fl, k, freq, w)
    <2>1. /\ g \in Fastlocks
          /\ g.entry[k] = [init |-> TRUE, orig |-> w, written |-> w]
          /\ g.mem[k].word = w
          /\ \A j \in Profiles \ {k} : g.entry[j] = fl.entry[j] /\ g.mem[j] = fl.mem[j]
          /\ g.setup = fl.setup /\ g.profile = fl.profile
      BY <1>1, LoadIs
    <2> HIDE DEF g
    <2>2. fl' = g
      BY DEF g
    <2> QED BY <2>1, <2>2
  <1>2. TypeOK'
    BY <1>0 DEF TypeOK
  <1>3. \A j \in Profiles : fl'.entry[j].init => fl'.mem[j].word = fl'.entry[j].written
    <2> SUFFICES ASSUME NEW j \in Profiles, fl'.entry[j].init
                 PROVE  fl'.mem[j].word = fl'.entry[j].written
      OBVIOUS
    <2>1. CASE j = k
      BY <1>0, <2>1
    <2>2. CASE j # k
      <3>1. fl'.entry[j] = fl.entry[j] /\ fl'.mem[j] = fl.mem[j]
        BY <1>0, <2>2
      <3> QED BY <3>1 DEF IInv, CacheIsMemory
    <2> QED BY <2>1, <2>2
  <1>4. \A j \in Profiles : fl.entry[j].init => fl'.entry[j].init
    <2> SUFFICES ASSUME NEW j \in Profiles, fl.entry[j].init PROVE fl'.entry[j].init
      OBVIOUS
    <2>1. fl'.entry[k].init
      BY <1>0
    <2>2. j # k => fl'.entry[j] = fl.entry[j]
      BY <1>0
    <2> QED BY <2>1, <2>2
  <1>5. fl'.setup = fl.setup /\ fl'.profile = fl.profile
    BY <1>0
  <1>6. fl.profile # 0 => fl.profile - 1 \in Profiles
    BY <1>1, FastlockAssumption DEF Fastlocks
  <1>7. InUse'
    BY <1>4, <1>5, <1>6 DEF IInv, InUse
  <1> QED BY <1>2, <1>3, <1>7 DEF IInv, CacheIsMemory

\* A loaded profile is recalled: memory and copy change together.
LEMMA RecallKeeps ==
  ASSUME IInv, NEW k \in Profiles, fl.entry[k].init, fl' = Recall(fl, k)
  PROVE  IInv'
  <1>1. fl \in Fastlocks
    BY DEF IInv, TypeOK
  <1>2. TypeOK'
    BY <1>1, RecallIs DEF TypeOK
  <1>3. \A j \in Profiles : fl'.entry[j].init => fl'.mem[j].word = fl'.entry[j].written
    <2> SUFFICES ASSUME NEW j \in Profiles, fl'.entry[j].init
                 PROVE  fl'.mem[j].word = fl'.entry[j].written
      OBVIOUS
    <2>1. fl.entry[j].init
      BY <1>1, RecallIs
    <2>2. fl.mem[j].word = fl.entry[j].written
      BY <2>1 DEF IInv, CacheIsMemory
    <2>3. CASE j = k /\ Same(fl, k)
      BY <1>1, <2>3, RecallIs
    <2>4. CASE j # k
      <3>1. fl'.entry[j] = fl.entry[j] /\ fl'.mem[j] = fl.mem[j]
        BY <1>1, <2>4, RecallIs
      <3> QED BY <2>2, <3>1
    <2>5. CASE ~Same(fl, k)
      <3>1. fl'.entry = fl.entry /\ fl'.mem = fl.mem
        BY <1>1, <2>5, RecallIs
      <3> QED BY <2>2, <3>1
    <2> QED BY <2>3, <2>4, <2>5
  <1>4. fl'.setup = k + 1 /\ fl'.profile = k + 1 /\ fl'.entry[k].init
    BY <1>1, RecallIs
  <1>5. k \in Nat /\ (k + 1) - 1 = k
    BY FastlockAssumption
  <1>6. InUse'
    BY <1>4, <1>5 DEF InUse
  <1> QED BY <1>2, <1>3, <1>6 DEF IInv, CacheIsMemory

\* The mode is left, and what the tuning after it leaves.
LEMMA LeaveKeeps ==
  ASSUME IInv, NEW a \in AlcWords, NEW v \in BOOLEAN,
         fl' = Leave(fl) \/ fl' = [Tune(Leave(fl), a) EXCEPT !.vcocal = v]
  PROVE  IInv'
  <1>1. fl \in Fastlocks /\ fl.setup = fl.profile
    BY DEF IInv, TypeOK, InUse
  <1>2. /\ Leave(fl) \in Fastlocks
        /\ Leave(fl).entry = fl.entry /\ Leave(fl).mem = fl.mem
        /\ Leave(fl).setup = Leave(fl).profile /\ Leave(fl).profile = 0
    BY <1>1, LeaveIs
  <1>3. /\ fl' \in Fastlocks
        /\ fl'.entry = fl.entry /\ fl'.mem = fl.mem
        /\ fl'.setup = fl'.profile /\ fl'.profile = 0
    BY <1>2 DEF Tune, Fastlocks
  <1> QED BY <1>3, SameCopies DEF IInv, TypeOK, InUse

\* The flags and the ALC word change by themselves.
LEMMA FlagsKeep ==
  ASSUME IInv, NEW a \in AlcWords, NEW b \in BOOLEAN,
         \/ fl' = Tune(fl, a)
         \/ fl' = [fl EXCEPT !.vcocal = b]
         \/ fl' = [fl EXCEPT !.ready = b]
  PROVE  IInv'
  <1>1. /\ fl' \in Fastlocks
        /\ fl'.entry = fl.entry /\ fl'.mem = fl.mem
        /\ fl'.setup = fl.setup /\ fl'.profile = fl.profile
    BY DEF IInv, TypeOK, Tune, Fastlocks
  <1> QED BY <1>1, SameCopies DEF IInv, TypeOK, InUse

\* A restart is an initial state but for the ALC word and the two flags.
LEMMA RestartKeeps ==
  ASSUME NEW a \in AlcWords, NEW r \in BOOLEAN, NEW v \in BOOLEAN,
         fl' = [NoFastlock EXCEPT !.alc = a, !.ready = r, !.vcocal = v]
  PROVE  IInv'
  <1>1. Blank \in Words
    BY FastlockAssumption DEF Blank, Words, AlcWords
  <1>2. /\ fl'.entry = [k \in Profiles |-> [init |-> FALSE, orig |-> Blank, written |-> Blank]]
        /\ fl'.profile = 0 /\ fl'.setup = 0
    BY DEF NoFastlock
  <1>3. TypeOK'
    BY <1>1 DEF NoFastlock, TypeOK, Fastlocks, Entries
  <1>4. CacheIsMemory' /\ InUse'
    BY <1>2 DEF CacheIsMemory, InUse
  <1> QED BY <1>3, <1>4 DEF IInv

LEMMA NextIInv == IInv /\ [Next]_fl => IInv'
  <1> SUFFICES ASSUME IInv, [Next]_fl PROVE IInv'
    OBVIOUS
  <1>1. CASE LoadProfile
    BY <1>1, LoadKeeps DEF LoadProfile
  <1>2. CASE StoreProfile
    <2> PICK k \in Profiles, freq \in Freqs : fl' = Store(fl, k, freq)
      BY <1>2 DEF StoreProfile
    <2>1. [alc |-> fl.alc, tune |-> 0] \in Words
      BY DEF IInv, TypeOK, Fastlocks, Words
    <2> QED BY <2>1, LoadKeeps DEF Store
  <1>3. CASE RecallProfile
    BY <1>3, RecallKeeps DEF RecallProfile
  <1>4. CASE Retune
    BY <1>4, LeaveKeeps DEF Retune
  <1>5. CASE RetuneOther
    BY <1>5, FlagsKeep DEF RetuneOther
  <1>6. CASE LeaveOnly
    <2>1. 0 \in AlcWords
      BY FastlockAssumption DEF AlcWords
    <2> QED BY <1>6, <2>1, LeaveKeeps DEF LeaveOnly
  <1>7. CASE VcoCal \/ Ready
    <2>1. 0 \in AlcWords
      BY FastlockAssumption DEF AlcWords
    <2> QED BY <1>7, <2>1, FlagsKeep DEF VcoCal, Ready
  <1>8. CASE Restart
    BY <1>8, RestartKeeps DEF Restart
  <1>9. CASE UNCHANGED fl
    BY <1>9 DEF IInv, TypeOK, CacheIsMemory, InUse
  <1> QED BY <1>1, <1>2, <1>3, <1>4, <1>5, <1>6, <1>7, <1>8, <1>9 DEF Next

-----------------------------------------------------------------------------
\* The words, the copies and the profile in use keep their ranges (Fastlock!TypeOK).
THEOREM TypeCorrect == Spec => []TypeOK
  <1>1. IInv => TypeOK
    BY DEF IInv
  <1> QED BY <1>1, InitIInv, NextIInv, PTL DEF Spec

\* After any history of loads, stores, recalls, tunings and restarts, what the driver
\* remembers of word 15 is in the radio's memory (ad9361_fastlock_load, _recall).
THEOREM CopiesTrue == Spec => []CacheIsMemory
  <1>1. IInv => CacheIsMemory
    BY DEF IInv
  <1> QED BY <1>1, InitIInv, NextIInv, PTL DEF Spec

\* The radio is in fastlock with the profile the driver believes in, a loaded one
\* (ad9361_fastlock_prepare, _recall).
THEOREM ProfileInUse == Spec => []InUse
  <1>1. IInv => InUse
    BY DEF IInv
  <1> QED BY <1>1, InitIInv, NextIInv, PTL DEF Spec

\* A recall leaves in memory another ALC word than the one in use
\* (ad9361_fastlock_recall's workaround).
THEOREM RecallWorks == Spec => RecallChangesAlc
  <1> DEFINE Changes == \A k \in Profiles : fl' = Recall(fl, k) /\ fl.entry[k].init
                          => fl'.mem[k].word.alc # Current(fl)
  <1>1. IInv /\ [Next]_fl => [Changes]_fl
    <2> SUFFICES ASSUME IInv, NEW k \in Profiles, fl' = Recall(fl, k), fl.entry[k].init
                 PROVE  fl'.mem[k].word.alc # Current(fl)
      OBVIOUS
    <2>1. fl \in Fastlocks
      BY DEF IInv, TypeOK
    <2>2. CASE Same(fl, k)
      <3>1. fl'.mem[k].word = NextWord(fl, k)
        BY <2>1, <2>2, RecallIs
      <3> QED BY <2>1, <2>2, <3>1, NextWordChanges DEF Same
    <2>3. CASE ~Same(fl, k)
      <3>1. fl'.mem[k].word = fl.entry[k].written
        BY <2>1, <2>3, RecallIs DEF IInv, CacheIsMemory
      <3> QED BY <2>3, <3>1 DEF Same
    <2> QED BY <2>2, <2>3
  <1> QED BY <1>1, InitIInv, NextIInv, PTL DEF Spec, RecallChangesAlc
=============================================================================
