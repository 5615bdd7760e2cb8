---------------------------- MODULE RfPl_proofs -----------------------------
(* Proofs about the wrapper of the modem, for FIFOs of any depth, any start   *)
(* delay and any number of samples.  Each FIFO carries a numbered stream:     *)
(* what it holds is the end of what was accepted, and its output register is  *)
(* the last word that was read (Carries).  The transmit side pushes that      *)
(* register a clock too early, the receive side takes it when its valid says  *)
(* so; the frame start is one sample behind.                                  *)
EXTENDS RfPl, TLAPS, SequenceTheorems

Fifos == [q : Seq(Nat), seen : Nat, used : Nat, dout : Nat]

\* Words read so far of the stream accepted.
Reads(f, in) == Len(in) - Len(f.q)

Carries(f, in) ==
  /\ f \in Fifos /\ in \in Seq(Nat)
  /\ f.seen <= Len(f.q) /\ Len(f.q) <= f.used /\ Len(f.q) <= Len(in)
  /\ \A i \in 1..Len(f.q) : f.q[i] = in[Reads(f, in) + i]
  /\ f.dout = IF Reads(f, in) = 0 THEN 0 ELSE in[Reads(f, in)]

\* The samples accepted of n offered, each at most once and in order.
Numbered(in, n) ==
  /\ n \in Nat
  /\ \A i \in 1..Len(in) : 1 <= in[i] /\ in[i] <= n
  /\ \A i, j \in 1..Len(in) : i < j => in[i] < in[j]

-----------------------------------------------------------------------------
(* The FIFO.                                                                  *)

LEMMA FifoEmpty == Carries(Fifo, <<>>) /\ Reads(Fifo, <<>>) = 0
  BY DEF Carries, Reads, Fifo, Fifos

\* A write adds the word to the stream and reads nothing.
LEMMA WriteCarries ==
  ASSUME NEW f \in Fifos, NEW in \in Seq(Nat), Carries(f, in), NEW x \in Nat
  PROVE  /\ Carries(Write(f, x), Append(in, x))
         /\ Reads(Write(f, x), Append(in, x)) = Reads(f, in)
  <1> DEFINE g == Write(f, x)
             out == Append(in, x)
  <1>1. f \in Fifos /\ in \in Seq(Nat) /\ f.q \in Seq(Nat) /\ Len(f.q) <= Len(in)
    BY DEF Carries, Fifos
  <1>2. g \in Fifos /\ g.q = Append(f.q, x) /\ g.seen = f.seen /\ g.used = f.used + 1 /\ g.dout = f.dout
    <2>1. Append(f.q, x) \in Seq(Nat) /\ f.used + 1 \in Nat
      BY <1>1 DEF Fifos
    <2>2. g = [f EXCEPT !.q = Append(f.q, x), !.used = f.used + 1]
      BY <1>1 DEF Write, Fifos
    <2> QED BY <1>1, <2>1, <2>2 DEF Fifos
  <1>3. out \in Seq(Nat) /\ Len(out) = Len(in) + 1 /\ Len(g.q) = Len(f.q) + 1
    BY <1>1, <1>2
  <1>5. \A i \in 1..Len(in) : out[i] = in[i]
    BY <1>1
  <1>6. out[Len(in) + 1] = x /\ g.q[Len(f.q) + 1] = x /\ \A i \in 1..Len(f.q) : g.q[i] = f.q[i]
    BY <1>1, <1>2
  <1> HIDE DEF g, out
  <1>0. Len(in) \in Nat /\ Len(f.q) \in Nat /\ Reads(f, in) = Len(in) - Len(f.q)
    BY <1>1 DEF Reads
  <1>4. Reads(g, out) = Reads(f, in) /\ Reads(f, in) \in 0..Len(in)
    BY <1>1, <1>3, <1>0 DEF Reads
  <1>7. \A i \in 1..Len(g.q) : g.q[i] = out[Reads(g, out) + i]
    <2> SUFFICES ASSUME NEW i \in 1..Len(g.q) PROVE g.q[i] = out[Reads(g, out) + i]
      OBVIOUS
    <2>1. CASE i = Len(f.q) + 1
      <3>1. Reads(f, in) + i = Len(in) + 1
        BY <1>0, <1>1, <2>1 DEF Fifos
      <3> QED BY <1>4, <1>6, <2>1, <3>1
    <2>2. CASE i \in 1..Len(f.q)
      <3>1. g.q[i] = f.q[i] /\ f.q[i] = in[Reads(f, in) + i]
        BY <1>6, <2>2 DEF Carries
      <3>2. Reads(f, in) + i \in 1..Len(in)
        BY <1>1, <1>0, <2>2 DEF Reads
      <3> QED BY <1>4, <1>5, <3>1, <3>2
    <2> QED BY <1>0, <1>3, <2>1, <2>2
  <1>8. g.dout = IF Reads(g, out) = 0 THEN 0 ELSE out[Reads(g, out)]
    BY <1>2, <1>4, <1>5 DEF Carries
  <1>9. g.seen <= Len(g.q) /\ Len(g.q) <= g.used /\ Len(g.q) <= Len(out)
    <2>1. f.seen <= Len(f.q) /\ Len(f.q) <= f.used /\ f.seen \in Nat /\ f.used \in Nat
      BY DEF Carries, Fifos
    <2> QED BY <1>0, <1>1, <1>2, <1>3, <2>1 DEF Fifos
  <1>10. Carries(g, out)
    BY <1>2, <1>3, <1>7, <1>8, <1>9 DEF Carries
  <1> QED BY <1>4, <1>10 DEF g, out

\* A read puts the next word of the stream into the output.
LEMMA ReadCarries ==
  ASSUME NEW f \in Fifos, NEW in \in Seq(Nat), Carries(f, in), ~empty(f)
  PROVE  /\ Carries(Read(f), in)
         /\ Reads(Read(f), in) = Reads(f, in) + 1
         /\ Reads(f, in) + 1 \in 1..Len(in)
         /\ Read(f).dout = in[Reads(f, in) + 1]
  <1> DEFINE g == Read(f)
  <1>1. f \in Fifos /\ in \in Seq(Nat) /\ f.q \in Seq(Nat) /\ Len(f.q) <= Len(in) /\ Len(f.q) \in Nat \ {0}
    BY DEF Carries, Fifos, empty
  <1>2. f.q # <<>>
    BY <1>1
  <1>3. /\ Tail(f.q) \in Seq(Nat) /\ Len(Tail(f.q)) = Len(f.q) - 1
        /\ \A i \in 1..Len(Tail(f.q)) : Tail(f.q)[i] = f.q[i + 1]
        /\ Head(f.q) = f.q[1]
    BY <1>1, <1>2, HeadTailProperties
  <1>4. f.q[1] \in Nat /\ f.q[1] = in[Reads(f, in) + 1]
    BY <1>1 DEF Carries
  <1>5. f.seen - 1 \in Nat
    BY <1>1 DEF Carries, Fifos, empty
  <1>6. g \in Fifos /\ g.q = Tail(f.q) /\ g.seen = f.seen - 1 /\ g.used = f.used /\ g.dout = f.q[1]
    BY <1>1, <1>3, <1>4, <1>5 DEF Read, Fifos
  <1> HIDE DEF g
  <1>0. /\ Len(in) \in Nat /\ Len(f.q) \in Nat /\ Len(g.q) = Len(f.q) - 1
        /\ Reads(f, in) = Len(in) - Len(f.q) /\ Reads(g, in) = Len(in) - Len(g.q)
    BY <1>1, <1>3, <1>6 DEF Reads
  <1>7. Reads(g, in) = Reads(f, in) + 1 /\ Reads(f, in) \in Nat /\ Reads(f, in) + 1 \in 1..Len(in)
    BY <1>1, <1>0
  <1>8. \A i \in 1..Len(g.q) : g.q[i] = in[Reads(g, in) + i]
    <2> SUFFICES ASSUME NEW i \in 1..Len(g.q) PROVE g.q[i] = in[Reads(g, in) + i]
      OBVIOUS
    <2>1. g.q[i] = f.q[i + 1] /\ i + 1 \in 1..Len(f.q)
      BY <1>1, <1>3, <1>6
    <2>2. f.q[i + 1] = in[Reads(f, in) + (i + 1)]
      BY <2>1 DEF Carries
    <2>3. Reads(f, in) + (i + 1) = Reads(g, in) + i
      BY <1>7
    <2> QED BY <2>1, <2>2, <2>3
  <1>9. g.seen <= Len(g.q) /\ Len(g.q) <= g.used /\ Len(g.q) <= Len(in)
    BY <1>1, <1>3, <1>6 DEF Carries, Fifos
  <1>10. g.dout = in[Reads(g, in)] /\ Reads(g, in) # 0
    BY <1>4, <1>6, <1>7
  <1>11. Carries(g, in)
    BY <1>1, <1>6, <1>8, <1>9, <1>10 DEF Carries
  <1> QED BY <1>4, <1>6, <1>7, <1>11 DEF g

\* What crosses between the clocks of a FIFO leaves its stream alone.
LEMMA CrossCarries ==
  ASSUME NEW f \in Fifos, NEW in \in Seq(Nat), Carries(f, in), NEW g \in Crossed(f)
  PROVE  Carries(g, in) /\ Reads(g, in) = Reads(f, in) /\ g.dout = f.dout
  <1>1. f \in Fifos /\ Len(f.q) \in Nat
    BY DEF Carries, Fifos
  <1>2. PICK c \in (f.seen..Len(f.q)) \X (Len(f.q)..f.used) :
               g = [f EXCEPT !.seen = c[1], !.used = c[2]]
    BY DEF Crossed
  <1> DEFINE n == c[1]
             m == c[2]
  <1>3. n \in Nat /\ m \in Nat /\ n <= Len(f.q) /\ Len(f.q) <= m
    BY <1>1 DEF Fifos
  <1>4. g \in Fifos /\ g.q = f.q /\ g.dout = f.dout /\ g.seen = n /\ g.used = m
    BY <1>1, <1>2, <1>3 DEF Fifos
  <1>5. Reads(g, in) = Reads(f, in)
    BY <1>4 DEF Reads
  <1>6. Carries(g, in)
    BY <1>3, <1>4, <1>5 DEF Carries
  <1> QED BY <1>4, <1>5, <1>6

\* Nothing was accepted: the FIFO is empty to its reader.
LEMMA NothingToRead ==
  ASSUME NEW f, Carries(f, <<>>)
  PROVE  empty(f) /\ Reads(f, <<>>) = 0
  BY DEF Carries, Fifos, Reads, empty

\* A stream stays numbered when more is offered, and when it is accepted.
LEMMA NumberedNext ==
  ASSUME NEW in \in Seq(Nat), NEW n, Numbered(in, n)
  PROVE  Numbered(in, n + 1) /\ Numbered(Append(in, n + 1), n + 1)
  <1>1. n \in Nat /\ n + 1 \in Nat
    BY DEF Numbered
  <1>2. Numbered(in, n + 1)
    BY <1>1 DEF Numbered
  <1> DEFINE out == Append(in, n + 1)
  <1>3. Len(out) = Len(in) + 1 /\ out[Len(in) + 1] = n + 1 /\ \A i \in 1..Len(in) : out[i] = in[i]
    BY <1>1
  <1> HIDE DEF out
  <1>4. \A i \in 1..Len(out) : 1 <= out[i] /\ out[i] <= n + 1
    BY <1>1, <1>3 DEF Numbered
  <1>5. \A i, j \in 1..Len(out) : i < j => out[i] < out[j]
    <2> SUFFICES ASSUME NEW i \in 1..Len(out), NEW j \in 1..Len(out), i < j PROVE out[i] < out[j]
      OBVIOUS
    <2>1. i \in 1..Len(in) /\ out[i] = in[i] /\ in[i] <= n /\ in[i] \in Nat
      BY <1>3 DEF Numbered
    <2>2. CASE j = Len(in) + 1
      BY <1>1, <1>3, <2>1, <2>2
    <2>3. CASE j \in 1..Len(in)
      BY <1>3, <2>1, <2>3 DEF Numbered
    <2> QED BY <1>3, <2>2, <2>3
  <1> QED BY <1>1, <1>2, <1>4, <1>5 DEF Numbered, out

-----------------------------------------------------------------------------
(* The transmit side.  TxInv is inductive: what has gone to the DAC is what   *)
(* was in the output register before each read, so it stays below the word    *)
(* that is there now; nothing is accepted before the radio's side is out of   *)
(* its reset, because the start waits for it.                                 *)

\* The start is over only when the radio's side runs, and samples come only then.
Started ==
  /\ dsync \in 0..3 /\ start \in Nat
  /\ start > START_DELAY => dsync = 3
  /\ dsync < 3 => sent = <<>>

Pushed ==
  /\ played \in Seq(Nat) /\ Len(played) <= Reads(txf, sent)
  /\ \A i \in 1..Len(played) : played[i] < txf.dout
  /\ \A i \in 1..Len(played) : played[i] # 0 => \E k \in 1..Len(sent) : played[i] = sent[k]
  /\ \A i, j \in 1..Len(played) : i < j => played[i] < played[j]
  /\ ~quiet => /\ Len(played) = Reads(txf, sent)
               /\ \A i \in 1..Len(played) : played[i] = IF i = 1 THEN 0 ELSE sent[i - 1]

\* The writer's count is never more than what it wrote, so a refusal needs a full depth.
Fits ==
  /\ txf.used <= Len(sent)
  /\ Len(sent) < TX_DEPTH => Len(sent) = made

TxInv == Started /\ Carries(txf, sent) /\ Numbered(sent, made) /\ Pushed /\ Fits

TxFresh == dsync = 0 /\ start = 0 /\ txf = Fifo /\ made = 0 /\ sent = <<>> /\ played = <<>>

\* It holds of the values at the start and after a restart.
LEMMA TxInit == TxFresh => TxInv
  <1> SUFFICES ASSUME TxFresh PROVE TxInv
    OBVIOUS
  <1> USE DEF TxFresh
  <1>1. Carries(txf, sent) /\ Reads(txf, sent) = 0
    BY FifoEmpty
  <1> QED BY <1>1, RfPlAssumption DEF TxInv, Started, Numbered, Pushed, Fits, Fifo

\* A sample is accepted or dropped (TxWrite): what was pushed is not touched.
LEMMA TxWriteKeeps ==
  ASSUME TxInv, NEW tx_valid_out \in BOOLEAN, NEW rf_start \in BOOLEAN,
         tx_valid_out => started,
         TxWrite(tx_valid_out), StartDelay(rf_start), UNCHANGED <<dsync, played, quiet>>
  PROVE  TxInv'
  <1>1. sent \in Seq(Nat) /\ txf \in Fifos /\ made \in Nat
    BY DEF TxInv, Carries, Numbered
  <1>2. tx_valid_out => dsync = 3
    BY DEF started, TxInv, Started
  <1>3. CASE tx_valid_out /\ ~full(txf, TX_DEPTH)
    <2>1. made' = made + 1 /\ txf' = Write(txf, made + 1) /\ sent' = Append(sent, made + 1)
      BY <1>3 DEF TxWrite
    <2>2. Carries(txf, sent)' /\ Reads(txf, sent)' = Reads(txf, sent)
      BY <1>1, <2>1, WriteCarries DEF TxInv
    <2>3. Numbered(sent, made)'
      BY <1>1, <2>1, NumberedNext DEF TxInv
    <2>4. Len(sent') = Len(sent) + 1 /\ \A i \in 1..Len(sent) : sent'[i] = sent[i]
      BY <1>1, <2>1
    <2>5. txf'.dout = txf.dout /\ txf'.used = txf.used + 1
      BY <1>1, <2>1 DEF Write, Fifos
    <2>6. Started'
      BY <1>2, <1>3, RfPlAssumption DEF TxInv, Started, StartDelay
    <2>7. /\ Reads(txf, sent) <= Len(sent) /\ Reads(txf, sent) \in Int
          /\ Len(played) \in Nat /\ Len(played) <= Reads(txf, sent)
      BY <1>1 DEF Reads, TxInv, Pushed, Fifos
    <2>8. Pushed'
      <3>1. ~quiet => \A i \in 1..Len(played) : played[i] = IF i = 1 THEN 0 ELSE sent'[i - 1]
        <4> SUFFICES ASSUME ~quiet, NEW i \in 1..Len(played)
                     PROVE  played[i] = IF i = 1 THEN 0 ELSE sent'[i - 1]
          OBVIOUS
        <4>1. played[i] = IF i = 1 THEN 0 ELSE sent[i - 1]
          BY DEF TxInv, Pushed
        <4>2. i # 1 => i - 1 \in 1..Len(sent)
          BY <1>1, <2>7
        <4> QED BY <2>4, <4>1, <4>2
      <3>2. \A i \in 1..Len(played) : played[i] # 0 => \E k \in 1..Len(sent') : played[i] = sent'[k]
        <4>1. 1..Len(sent) \subseteq 1..Len(sent')
          BY <1>1, <2>4
        <4> QED BY <2>4, <4>1 DEF TxInv, Pushed
      <3> QED BY <2>2, <2>5, <3>1, <3>2 DEF TxInv, Pushed
    <2>9. Fits'
      BY <1>1, <2>1, <2>4, <2>5, RfPlAssumption DEF TxInv, Fits, Fifos
    <2> QED BY <2>2, <2>3, <2>6, <2>8, <2>9 DEF TxInv
  <1>4. CASE ~(tx_valid_out /\ ~full(txf, TX_DEPTH))
    <2>1. (made' = made \/ made' = made + 1) /\ txf' = txf /\ sent' = sent
      BY <1>4 DEF TxWrite
    <2>2. Numbered(sent, made)'
      BY <1>1, <2>1, NumberedNext DEF TxInv
    <2>3. Started'
      BY <2>1, RfPlAssumption DEF TxInv, Started, StartDelay
    <2>4. Carries(txf, sent)' /\ Pushed'
      BY <2>1 DEF TxInv, Pushed
    <2>5. Fits'
      <3>1. CASE tx_valid_out
        <4>1. txf.used = TX_DEPTH
          BY <1>4, <3>1 DEF full
        <4>2. ~(Len(sent) < TX_DEPTH)
          BY <1>1, <4>1, RfPlAssumption DEF TxInv, Fits
        <4> QED BY <2>1, <4>2 DEF TxInv, Fits
      <3>2. CASE ~tx_valid_out
        BY <2>1, <3>2 DEF TxInv, Fits, TxWrite
      <3> QED BY <3>1, <3>2
    <2> QED BY <2>2, <2>3, <2>4, <2>5 DEF TxInv
  <1> QED BY <1>3, <1>4

\* A clock of the radio: a word is read, and the one before it pushed or, muted,
\* dropped.
LEMMA TxReadKeeps ==
  ASSUME TxInv, NEW muted \in BOOLEAN, DacPush(muted), TxRead,
         dsync' = IF dsync < 3 THEN dsync + 1 ELSE dsync,
         quiet' = (quiet \/ (dsync = 3 /\ muted)),
         UNCHANGED <<start, made, sent>>
  PROVE  TxInv'
  <1>1. sent \in Seq(Nat) /\ txf \in Fifos /\ made \in Nat /\ played \in Seq(Nat)
    BY DEF TxInv, Carries, Numbered, Pushed
  <1>2. Started'
    BY DEF TxInv, Started
  <1>3. Numbered(sent, made)'
    BY DEF TxInv
  <1>4. CASE empty(txf)
    <2>1. txf' = txf
      BY <1>4 DEF TxRead
    <2>2. played' = played
      BY <1>4 DEF DacPush
    <2>3. Carries(txf, sent)' /\ Pushed'
      BY <2>1, <2>2 DEF TxInv, Pushed
    <2>4. Fits'
      BY <2>1 DEF TxInv, Fits
    <2> QED BY <1>2, <1>3, <2>3, <2>4 DEF TxInv
  <1>5. CASE ~empty(txf)
    <2> DEFINE r == Reads(txf, sent)
    <2>1. txf' = Read(txf)
      BY <1>5 DEF TxRead
    <2>2. /\ Carries(txf, sent)' /\ Reads(txf, sent)' = r + 1 /\ r + 1 \in 1..Len(sent)
          /\ txf'.dout = sent[r + 1]
      BY <1>1, <1>5, <2>1, ReadCarries DEF TxInv
    <2>3. dsync = 3
      <3>1. dsync < 3 => sent = <<>>
        BY DEF TxInv, Started
      <3>2. dsync < 3 => empty(txf)
        BY <3>1, NothingToRead DEF TxInv
      <3> QED BY <1>5, <3>2 DEF TxInv, Started
    <2>4. r \in Nat /\ txf.dout = IF r = 0 THEN 0 ELSE sent[r]
      BY <1>1 DEF TxInv, Carries, Reads, Fifos
    <2>5. sent[r + 1] \in Nat /\ txf.dout \in Nat /\ txf.dout < sent[r + 1]
      <3>1. sent[r + 1] \in Nat /\ 1 <= sent[r + 1]
        BY <1>1, <2>2 DEF TxInv, Numbered
      <3>2. r # 0 => r \in 1..Len(sent) /\ sent[r] \in Nat
        BY <1>1, <2>2, <2>4
      <3>3. r # 0 => sent[r] < sent[r + 1]
        BY <2>2, <2>4, <3>2 DEF TxInv, Numbered
      <3> QED BY <2>4, <3>1, <3>2, <3>3
    <2>6. /\ Len(played) \in Nat /\ Len(played) <= r
          /\ \A i \in 1..Len(played) : played[i] \in Nat /\ played[i] < txf.dout
      BY <1>1 DEF TxInv, Pushed
    <2>9. Fits'
      <3>1. txf'.used = txf.used
        BY <1>1, <2>1 DEF Read, Fifos
      <3> QED BY <3>1 DEF TxInv, Fits
    <2>10. \A i \in 1..Len(played) : played[i] # 0 => \E k \in 1..Len(sent) : played[i] = sent[k]
      BY DEF TxInv, Pushed
    <2> HIDE DEF r
    <2>7. CASE muted
      <3>1. played' = played /\ quiet'
        BY <2>3, <2>7 DEF DacPush
      <3>2. \A i \in 1..Len(played) : played[i] < txf'.dout
        BY <2>2, <2>5, <2>6
      <3> QED BY <1>2, <1>3, <2>2, <2>4, <2>6, <2>9, <3>1, <3>2 DEF TxInv, Pushed
    <2>8. CASE ~muted
      <3>1. played' = Append(played, txf.dout) /\ (quiet => quiet')
        <4>1. played' = Append(played, txf.dout)
          BY <1>5, <2>3, <2>8 DEF DacPush
        <4>2. quiet => quiet'
          BY Zenon
        <4> QED BY <4>1, <4>2
      <3>2. /\ played' \in Seq(Nat) /\ Len(played') = Len(played) + 1
            /\ played'[Len(played) + 1] = txf.dout
            /\ \A i \in 1..Len(played) : played'[i] = played[i]
        BY <1>1, <2>5, <3>1
      <3>0. \A i \in 1..Len(played') : i = Len(played) + 1 \/ i \in 1..Len(played)
        BY <2>6, <3>2
      <3>3. \A i \in 1..Len(played') : played'[i] < txf'.dout
        <4> SUFFICES ASSUME NEW i \in 1..Len(played') PROVE played'[i] < txf'.dout
          OBVIOUS
        <4>1. CASE i = Len(played) + 1
          BY <2>2, <2>5, <3>2, <4>1
        <4>2. CASE i \in 1..Len(played)
          BY <2>2, <2>5, <2>6, <3>2, <4>2
        <4> QED BY <3>0, <4>1, <4>2
      <3>4. \A i, j \in 1..Len(played') : i < j => played'[i] < played'[j]
        <4> SUFFICES ASSUME NEW i \in 1..Len(played'), NEW j \in 1..Len(played'), i < j
                     PROVE  played'[i] < played'[j]
          OBVIOUS
        <4>1. i \in 1..Len(played) /\ played'[i] = played[i]
          BY <2>6, <3>2
        <4>2. CASE j = Len(played) + 1
          BY <2>6, <3>2, <4>1, <4>2
        <4>3. CASE j \in 1..Len(played)
          BY <3>2, <4>1, <4>3 DEF TxInv, Pushed
        <4> QED BY <2>6, <3>2, <4>2, <4>3
      <3>5. ~quiet' => /\ Len(played') = r + 1
                       /\ \A i \in 1..Len(played') :
                            played'[i] = IF i = 1 THEN 0 ELSE sent[i - 1]
        <4> SUFFICES ASSUME ~quiet PROVE /\ Len(played') = r + 1
                       /\ \A i \in 1..Len(played') :
                            played'[i] = IF i = 1 THEN 0 ELSE sent[i - 1]
          BY <3>1
        <4>1. /\ Len(played) = r
              /\ \A i \in 1..Len(played) : played[i] = IF i = 1 THEN 0 ELSE sent[i - 1]
          BY DEF TxInv, Pushed, r
        <4>2. played'[r + 1] = IF r + 1 = 1 THEN 0 ELSE sent[(r + 1) - 1]
          BY <2>4, <3>2, <4>1
        <4>3. \A i \in 1..Len(played') : i = r + 1 \/ i \in 1..Len(played)
          BY <3>0, <4>1
        <4> QED BY <2>4, <3>2, <4>1, <4>2, <4>3
      <3>7. \A i \in 1..Len(played') : played'[i] # 0 => \E k \in 1..Len(sent) : played'[i] = sent[k]
        <4> SUFFICES ASSUME NEW i \in 1..Len(played'), played'[i] # 0
                     PROVE  \E k \in 1..Len(sent) : played'[i] = sent[k]
          OBVIOUS
        <4>1. CASE i = Len(played) + 1
          <5>1. r \in 1..Len(sent) /\ txf.dout = sent[r]
            BY <1>1, <2>2, <2>4, <3>2, <4>1
          <5> QED BY <3>2, <4>1, <5>1
        <4>2. CASE i \in 1..Len(played)
          BY <2>10, <3>2, <4>2
        <4> QED BY <3>0, <4>1, <4>2
      <3>6. Pushed'
        BY <2>2, <2>4, <2>6, <3>2, <3>3, <3>4, <3>5, <3>7 DEF Pushed
      <3> QED BY <1>2, <1>3, <2>2, <2>9, <3>6 DEF TxInv
    <2> QED BY <2>7, <2>8
  <1> QED BY <1>4, <1>5

\* The pointers cross.
LEMMA TxCrossKeeps ==
  ASSUME TxInv, txf' = txf \/ txf' \in Crossed(txf),
         UNCHANGED <<dsync, start, made, sent, played, quiet>>
  PROVE  TxInv'
  <1>1. sent \in Seq(Nat) /\ txf \in Fifos
    BY DEF TxInv, Carries
  <1>2. Carries(txf, sent)' /\ Reads(txf, sent)' = Reads(txf, sent) /\ txf'.dout = txf.dout
    <2>1. CASE txf' = txf
      BY <2>1 DEF TxInv
    <2>2. CASE txf' \in Crossed(txf)
      BY <1>1, <2>2, CrossCarries DEF TxInv
    <2> QED BY <2>1, <2>2
  <1>3. Started' /\ Numbered(sent, made)'
    BY DEF TxInv, Started
  <1>4. Pushed'
    BY <1>2 DEF TxInv, Pushed
  <1>5. Fits'
    <2>1. txf'.used \in Nat /\ txf'.used <= txf.used
      <3>1. CASE txf' = txf
        BY <1>1, <3>1 DEF Fifos
      <3>2. CASE txf' \in Crossed(txf)
        <4>1. PICK c \in (txf.seen..Len(txf.q)) \X (Len(txf.q)..txf.used) :
                     txf' = [txf EXCEPT !.seen = c[1], !.used = c[2]]
          BY <3>2 DEF Crossed
        <4>2. c[2] \in Nat /\ c[2] <= txf.used
          BY <1>1 DEF Fifos
        <4> QED BY <1>1, <4>1, <4>2 DEF Fifos
      <3> QED BY <3>1, <3>2
    <2> QED BY <1>1, <2>1 DEF TxInv, Fits, Fifos
  <1> QED BY <1>2, <1>3, <1>4, <1>5 DEF TxInv

LEMMA TxInductive == (Init => TxInv) /\ (TxInv /\ [Next]_vars => TxInv')
  <1>1. Init => TxInv
    BY TxInit DEF Init, TxFresh
  <1>2. ASSUME TxInv, [Next]_vars PROVE TxInv'
    <2>1. CASE Restart
      <3>1. TxFresh'
        BY <2>1 DEF Restart, TxFresh
      <3>2. TxFresh' => TxInv'
        BY TxInit, PTL
      <3> QED BY <3>1, <3>2
    <2>2. CASE PowerOn
      BY <1>2, <2>2, TxCrossKeeps DEF PowerOn
    <2>3. CASE Clk
      BY <1>2, <2>3, TxWriteKeeps DEF Clk
    <2>4. CASE DataClk
      BY <1>2, <2>4, TxReadKeeps DEF DataClk
    <2>5. CASE Cross
      BY <1>2, <2>5, TxCrossKeeps DEF Cross
    <2>6. CASE UNCHANGED vars
      BY <1>2, <2>6, TxCrossKeeps DEF vars
    <2> QED BY <1>2, <2>1, <2>2, <2>3, <2>4, <2>5, <2>6 DEF Next
  <1> QED BY <1>1, <1>2

\* The radio gets the accepted samples in order, never muted without a gap, and a burst
\* that fits into the FIFO is accepted whole, for any depth of the FIFO, any pace of
\* the two clocks and any resets (ofdm_ldpc_rf_pl.v:298-331).
THEOREM TransmitsInOrder == Spec => []TransmitInOrder
  <1>1. TxInv => TransmitInOrder
    <2> SUFFICES ASSUME TxInv PROVE TransmitInOrder
      OBVIOUS
    <2>1. sent \in Seq(Nat) /\ txf \in Fifos /\ played \in Seq(Nat)
      BY DEF TxInv, Carries, Pushed
    <2>2. /\ DOMAIN played = 1..Len(played) /\ Len(played) \in Nat
          /\ DOMAIN sent = 1..Len(sent) /\ Len(sent) \in Nat
          /\ \A k \in 1..Len(sent) : sent[k] \in Nat /\ sent[k] # 0
      BY <2>1 DEF TxInv, Numbered
    <2>3. Samples \subseteq 1..Len(played) /\ \A i \in Samples : played[i] # 0
      BY <2>2 DEF Samples
    <2>4. \A i \in Samples : \E k \in DOMAIN sent : played[i] = sent[k]
      BY <2>2, <2>3 DEF TxInv, Pushed
    <2>5. \A i, j \in Samples : i < j => played[i] < played[j]
      BY <2>3 DEF TxInv, Pushed
    <2>6. ASSUME ~quiet, NEW i \in Samples, NEW k \in 1..Len(sent), sent[k] < played[i]
          PROVE  \E h \in Samples : h < i /\ played[h] = sent[k]
      <3>1. /\ \A j \in 1..Len(played) : played[j] = IF j = 1 THEN 0 ELSE sent[j - 1]
            /\ Len(played) <= Len(sent)
        BY <2>1, <2>6 DEF TxInv, Pushed, Reads, Fifos
      <3>2. i \in 1..Len(played) /\ i # 1 /\ i - 1 \in 1..Len(sent) /\ played[i] = sent[i - 1]
        BY <2>2, <2>3, <3>1
      <3>3. k < i - 1
        <4>1. CASE i - 1 < k
          <5>1. sent[i - 1] < sent[k]
            BY <3>2, <4>1 DEF TxInv, Numbered
          <5> QED BY <2>2, <2>6, <3>2, <5>1
        <4>2. CASE i - 1 = k
          BY <2>2, <2>6, <3>2, <4>2
        <4> QED BY <2>2, <3>2, <4>1, <4>2
      <3>4. k + 1 \in 1..Len(played) /\ k + 1 < i /\ k + 1 # 1 /\ (k + 1) - 1 = k
        BY <2>2, <3>2, <3>3
      <3>5. played[k + 1] = sent[k]
        BY <3>1, <3>4
      <3>6. k + 1 \in Samples
        BY <2>2, <3>4, <3>5 DEF Samples
      <3> QED BY <3>4, <3>5, <3>6
    <2>7. Len(sent) < TX_DEPTH => Len(sent) = made
      BY DEF TxInv, Fits
    <2> QED BY <2>2, <2>4, <2>5, <2>6, <2>7 DEF TransmitInOrder
  <1> QED BY <1>1, TxInductive, PTL DEF Spec

\* Where the samples stand in what is pushed: never muted, a zero goes first and each
\* sample one read late.
OneLate ==
  /\ Len(played) <= Len(sent)
  /\ ~quiet => \A i \in DOMAIN played : played[i] = IF i = 1 THEN 0 ELSE sent[i - 1]

\* It is so in every history: the run of EitherOnTime shows one, this all
\* (ofdm_ldpc_rf_pl.v:322-324).
THEOREM TransmitsOneLate == Spec => []OneLate
  <1>1. TxInv => OneLate
    <2> SUFFICES ASSUME TxInv PROVE OneLate
      OBVIOUS
    <2>1. sent \in Seq(Nat) /\ txf \in Fifos /\ played \in Seq(Nat)
      BY DEF TxInv, Carries, Pushed
    <2>2. DOMAIN played = 1..Len(played) /\ Len(played) \in Nat
      BY <2>1
    <2>3. Reads(txf, sent) <= Len(sent) /\ Reads(txf, sent) \in Int
      BY <2>1 DEF Reads, Fifos
    <2> QED BY <2>1, <2>2, <2>3 DEF OneLate, TxInv, Pushed
  <1> QED BY <1>1, TxInductive, PTL DEF Spec

-----------------------------------------------------------------------------
(* The receive side.  A word that was read and not yet taken stands under     *)
(* rx.valid; the flag seen is set by the first sample taken, the frame start  *)
(* by the first only; cp_remove, once synced, has taken one sample before its *)
(* number 0.                                                                  *)

Taken ==
  /\ got \in Seq(Nat)
  /\ rx \in [valid : BOOLEAN, seen : BOOLEAN, frame : BOOLEAN]
  /\ Len(got) = IF rx.valid THEN Reads(rxf, heard) - 1 ELSE Reads(rxf, heard)
  /\ \A i \in 1..Len(got) : got[i] = heard[i]

Anchored ==
  /\ cp \in [synced : BOOLEAN, zero : Nat]
  /\ rx.seen <=> Len(got) >= 1
  /\ rx.frame => Len(got) = 1
  /\ cp.synced /\ cp.zero = 0 => Len(got) = 1
  /\ cp.zero # 0 => Len(got) >= 2 /\ cp.zero = heard[2]

RxInv == Carries(rxf, heard) /\ Numbered(heard, adc) /\ Taken /\ Anchored

RxFresh == rxf = Fifo /\ adc = 0 /\ heard = <<>> /\ got = <<>> /\ rx = NoRx /\ cp = NoCp

\* It holds of the values at the start and after a restart.
LEMMA RxInit == RxFresh => RxInv
  <1> SUFFICES ASSUME RxFresh PROVE RxInv
    OBVIOUS
  <1> USE DEF RxFresh
  <1>1. Carries(rxf, heard) /\ Reads(rxf, heard) = 0
    BY FifoEmpty
  <1>2. Numbered(heard, adc)
    BY DEF Numbered
  <1>3. Taken /\ Anchored
    BY <1>1 DEF Taken, Anchored, NoRx, NoCp
  <1> QED BY <1>1, <1>2, <1>3 DEF RxInv

\* A clock of the radio, and what crosses: more is accepted, nothing is taken.
LEMMA RxAcceptKeeps ==
  ASSUME RxInv, Carries(rxf, heard)', Numbered(heard, adc)',
         Reads(rxf, heard)' = Reads(rxf, heard),
         \A i \in 1..Len(heard) : heard'[i] = heard[i],
         UNCHANGED <<rx, cp, got>>
  PROVE  RxInv'
  <1>1. heard \in Seq(Nat) /\ rxf \in Fifos /\ got \in Seq(Nat)
    BY DEF RxInv, Carries, Taken
  <1>2. Len(heard) \in Nat /\ Len(got) \in Nat /\ Reads(rxf, heard) \in Int /\ Reads(rxf, heard) <= Len(heard)
    BY <1>1 DEF Reads, Fifos
  <1>3. Len(got) <= Len(heard)
    BY <1>2 DEF RxInv, Taken
  <1>4. Taken'
    BY <1>2, <1>3 DEF RxInv, Taken
  <1>5. Len(got) >= 2 => heard'[2] = heard[2]
    BY <1>2, <1>3
  <1>6. Anchored'
    BY <1>5 DEF RxInv, Anchored
  <1> QED BY <1>4, <1>6 DEF RxInv

\* A sample of the radio is accepted or dropped (RxWrite).
LEMMA RxWriteKeeps ==
  ASSUME RxInv, NEW adc_valid \in BOOLEAN, RxWrite(adc_valid), UNCHANGED <<rx, cp, got>>
  PROVE  RxInv'
  <1>1. heard \in Seq(Nat) /\ rxf \in Fifos /\ adc \in Nat
    BY DEF RxInv, Carries, Numbered
  <1>2. CASE por /\ adc_valid /\ ~full(rxf, RX_DEPTH)
    <2>1. adc' = adc + 1 /\ rxf' = Write(rxf, adc + 1) /\ heard' = Append(heard, adc + 1)
      BY <1>2 DEF RxWrite
    <2>2. Carries(rxf, heard)' /\ Reads(rxf, heard)' = Reads(rxf, heard)
      BY <1>1, <2>1, WriteCarries DEF RxInv
    <2>3. Numbered(heard, adc)'
      BY <1>1, <2>1, NumberedNext DEF RxInv
    <2>4. \A i \in 1..Len(heard) : heard'[i] = heard[i]
      BY <1>1, <2>1
    <2> QED BY <2>2, <2>3, <2>4, RxAcceptKeeps
  <1>3. CASE ~(por /\ adc_valid /\ ~full(rxf, RX_DEPTH))
    <2>1. (adc' = adc \/ adc' = adc + 1) /\ rxf' = rxf /\ heard' = heard
      BY <1>3 DEF RxWrite
    <2>2. Numbered(heard, adc)'
      BY <1>1, <2>1, NumberedNext DEF RxInv
    <2>3. Carries(rxf, heard)' /\ Reads(rxf, heard)' = Reads(rxf, heard)
      BY <2>1 DEF RxInv
    <2> QED BY <2>1, <2>2, <2>3, RxAcceptKeeps
  <1> QED BY <1>2, <1>3

\* The pointers cross.
LEMMA RxCrossKeeps ==
  ASSUME RxInv, rxf' = rxf \/ rxf' \in Crossed(rxf), UNCHANGED <<rx, cp, adc, heard, got>>
  PROVE  RxInv'
  <1>1. heard \in Seq(Nat) /\ rxf \in Fifos
    BY DEF RxInv, Carries
  <1>2. Carries(rxf, heard)' /\ Reads(rxf, heard)' = Reads(rxf, heard)
    <2>1. CASE rxf' = rxf
      BY <2>1 DEF RxInv
    <2>2. CASE rxf' \in Crossed(rxf)
      BY <1>1, <2>2, CrossCarries DEF RxInv
    <2> QED BY <2>1, <2>2
  <1>3. Numbered(heard, adc)'
    BY DEF RxInv
  <1> QED BY <1>2, <1>3, RxAcceptKeeps

\* A clock of the modem: the word under the valid is taken, and the next one read.
LEMMA RxReadKeeps ==
  ASSUME RxInv, RxRead, CpRemove, UNCHANGED <<adc, heard>>
  PROVE  RxInv'
  <1>1. heard \in Seq(Nat) /\ rxf \in Fifos /\ got \in Seq(Nat)
    BY DEF RxInv, Carries, Taken
  <1> DEFINE r == Reads(rxf, heard)
  <1>2. r \in 0..Len(heard) /\ Len(heard) \in Nat /\ rxf.dout = IF r = 0 THEN 0 ELSE heard[r]
    BY <1>1 DEF RxInv, Carries, Reads, Fifos
  <1>3. \A i \in 1..Len(heard) : heard[i] \in Nat /\ 1 <= heard[i]
    BY <1>1 DEF RxInv, Numbered
  <1>4. /\ Carries(rxf, heard)'
        /\ Reads(rxf, heard)' = IF empty(rxf) THEN r ELSE r + 1
    <2>1. CASE empty(rxf)
      BY <2>1 DEF RxRead, RxInv
    <2>2. CASE ~empty(rxf)
      BY <1>1, <2>2, ReadCarries DEF RxRead, RxInv
    <2> QED BY <2>1, <2>2
  <1>5. /\ Len(got) \in Nat /\ rx.valid \in BOOLEAN
        /\ Len(got) = IF rx.valid THEN r - 1 ELSE r
    BY <1>1 DEF RxInv, Taken
  <1> HIDE DEF r
  <1>6. /\ rx' = [valid |-> ~empty(rxf), seen |-> rx.seen \/ rx.valid, frame |-> rx.valid /\ ~rx.seen]
        /\ got' = IF rx.valid THEN Append(got, rxf.dout) ELSE got
    BY DEF RxRead, CpRemove
  <1>7. /\ rx.valid => /\ Len(got') = Len(got) + 1 /\ r = Len(got) + 1 /\ r \in 1..Len(heard)
                       /\ got'[Len(got) + 1] = rxf.dout /\ rxf.dout = heard[r]
                       /\ \A i \in 1..Len(got) : got'[i] = got[i]
        /\ ~rx.valid => got' = got
        /\ got' \in Seq(Nat) /\ Len(got') = r
    <2>1. CASE rx.valid
      <3>1. r = Len(got) + 1 /\ r \in 1..Len(heard) /\ rxf.dout = heard[r]
        BY <1>2, <1>5, <2>1
      <3>2. rxf.dout \in Nat /\ got' = Append(got, rxf.dout)
        BY <1>3, <1>6, <2>1, <3>1
      <3> QED BY <1>1, <2>1, <3>1, <3>2
    <2>2. CASE ~rx.valid
      BY <1>1, <1>5, <1>6, <2>2
    <2> QED BY <1>5, <2>1, <2>2
  <1>8. Taken'
    <2>1. \A i \in 1..Len(got') : got'[i] = heard[i]
      <3> SUFFICES ASSUME NEW i \in 1..Len(got') PROVE got'[i] = heard[i]
        OBVIOUS
      <3>1. CASE rx.valid /\ i = Len(got) + 1
        BY <1>7, <3>1
      <3>2. CASE i \in 1..Len(got)
        BY <1>7, <3>2 DEF RxInv, Taken
      <3> QED BY <1>5, <1>7, <3>1, <3>2
    <2>2. rx' \in [valid : BOOLEAN, seen : BOOLEAN, frame : BOOLEAN]
      BY <1>6
    <2>3. Len(got') = IF rx'.valid THEN Reads(rxf, heard)' - 1 ELSE Reads(rxf, heard)'
      <3>1. CASE empty(rxf)
        BY <1>2, <1>4, <1>6, <1>7, <3>1
      <3>2. CASE ~empty(rxf)
        <4>1. rx'.valid
          BY <1>6, <3>2
        <4> QED BY <1>2, <1>4, <1>7, <3>2, <4>1
      <3> QED BY <3>1, <3>2
    <2> QED BY <1>7, <2>1, <2>2, <2>3 DEF Taken
  <1>9. Anchored'
    <2>0. /\ rx.seen \in BOOLEAN /\ rx.frame \in BOOLEAN /\ rx.valid \in BOOLEAN
          /\ cp.synced \in BOOLEAN /\ cp.zero \in Nat
          /\ rx.seen <=> Len(got) >= 1
      BY DEF RxInv, Taken, Anchored
    <2>1. cp' = [synced |-> cp.synced \/ rx.frame,
                 zero |-> IF (cp.synced \/ rx.frame) /\ rx.valid /\ cp.zero = 0 THEN rxf.dout
                          ELSE cp.zero]
      BY DEF CpRemove
    <2>10. /\ rx'.seen = (rx.seen \/ rx.valid)
           /\ rx'.frame = (rx.valid /\ ~rx.seen)
           /\ cp'.synced = (cp.synced \/ rx.frame)
      <3>1. rx'.seen = (rx.seen \/ rx.valid)
        BY <1>6, Zenon
      <3>2. rx'.frame = (rx.valid /\ ~rx.seen)
        BY <1>6, Zenon
      <3>3. cp'.synced = (cp.synced \/ rx.frame)
        BY <2>1, Zenon
      <3> QED BY <3>1, <3>2, <3>3
    <2>2. (cp.synced \/ rx.frame) /\ cp.zero = 0 => Len(got) = 1
      BY DEF RxInv, Anchored
    <2>3. rx.valid => rxf.dout \in Nat /\ rxf.dout # 0
      BY <1>3, <1>7
    <2>4. cp'.synced \in BOOLEAN /\ cp'.zero \in Nat
      BY <2>0, <2>1, <2>3
    <2>5. rx'.seen <=> Len(got') >= 1
      BY <1>5, <1>7, <2>0, <2>10
    <2>6. rx'.frame => Len(got') = 1
      <3> SUFFICES ASSUME rx.valid, ~rx.seen PROVE Len(got') = 1
        BY <2>10, Zenon
      <3>0. ~(Len(got) >= 1)
        BY <2>0, Zenon
      <3>1. Len(got) = 0
        BY <1>1, <3>0
      <3> QED BY <1>7, <3>1
    <2>7. cp'.synced /\ cp'.zero = 0 => Len(got') = 1
      <3> SUFFICES ASSUME cp'.synced, cp'.zero = 0 PROVE Len(got') = 1
        OBVIOUS
      <3>1. cp.synced \/ rx.frame
        BY <2>10
      <3>2. cp.zero = 0 /\ ~rx.valid
        BY <2>0, <2>1, <2>3, <3>1
      <3> QED BY <1>7, <2>2, <3>1, <3>2
    <2>8. cp'.zero # 0 => Len(got') >= 2 /\ cp'.zero = heard[2]
      <3>1. CASE cp.zero # 0
        <4>1. cp'.zero = cp.zero /\ Len(got) >= 2 /\ cp.zero = heard[2]
          BY <2>1, <3>1 DEF RxInv, Anchored
        <4> QED BY <1>5, <1>7, <4>1
      <3>2. CASE cp.zero = 0 /\ cp'.zero # 0
        <4>1. (cp.synced \/ rx.frame) /\ rx.valid /\ cp'.zero = rxf.dout
          BY <2>1, <3>2
        <4>2. r = 2 /\ Len(got') = 2
          <5>1. Len(got) = 1
            BY <2>2, <3>2, <4>1
          <5> QED BY <1>7, <4>1, <5>1
        <4> QED BY <1>7, <4>1, <4>2
      <3> QED BY <3>1, <3>2
    <2>9. cp' \in [synced : BOOLEAN, zero : Nat]
      BY <2>1, <2>4
    <2> QED BY <2>5, <2>6, <2>7, <2>8, <2>9 DEF Anchored
  <1>10. Numbered(heard, adc)'
    BY DEF RxInv
  <1> QED BY <1>4, <1>8, <1>9, <1>10 DEF RxInv

LEMMA RxInductive == (Init => RxInv) /\ (RxInv /\ [Next]_vars => RxInv')
  <1>1. Init => RxInv
    BY RxInit DEF Init, RxFresh
  <1>2. ASSUME RxInv, [Next]_vars PROVE RxInv'
    <2>1. CASE Restart
      <3>1. RxFresh'
        BY <2>1 DEF Restart, RxFresh, NoRx, NoCp
      <3>2. RxFresh' => RxInv'
        BY RxInit, PTL
      <3> QED BY <3>1, <3>2
    <2>2. CASE PowerOn
      BY <1>2, <2>2, RxCrossKeeps DEF PowerOn
    <2>3. CASE Clk
      BY <1>2, <2>3, RxReadKeeps DEF Clk
    <2>4. CASE DataClk
      BY <1>2, <2>4, RxWriteKeeps DEF DataClk
    <2>5. CASE Cross
      BY <1>2, <2>5, RxCrossKeeps DEF Cross
    <2>6. CASE UNCHANGED vars
      BY <1>2, <2>6, RxCrossKeeps DEF vars
    <2> QED BY <1>2, <2>1, <2>2, <2>3, <2>4, <2>5, <2>6 DEF Next
  <1> QED BY <1>1, <1>2

\* The modem gets the accepted samples in order, each once and none left out, for any
\* depth of the FIFO, any pace of the two clocks and any resets
\* (ofdm_ldpc_rf_pl.v:383-401).
THEOREM ReceivesInOrder == Spec => []ReceiveInOrder
  <1>1. RxInv => ReceiveInOrder
    <2> SUFFICES ASSUME RxInv PROVE ReceiveInOrder
      OBVIOUS
    <2>1. heard \in Seq(Nat) /\ rxf \in Fifos /\ got \in Seq(Nat)
      BY DEF RxInv, Carries, Taken
    <2>2. DOMAIN got = 1..Len(got) /\ Len(got) \in Nat
      BY <2>1
    <2>3. Reads(rxf, heard) <= Len(heard) /\ Reads(rxf, heard) \in Int /\ Len(heard) \in Nat
      BY <2>1 DEF Reads, Fifos
    <2>4. Len(got) <= Len(heard)
      BY <2>2, <2>3 DEF RxInv, Taken
    <2> QED BY <2>2, <2>4 DEF ReceiveInOrder, RxInv, Taken
  <1> QED BY <1>1, RxInductive, PTL DEF Spec

\* The sample cp_remove counts as number 0 is the second that was received, however the
\* clocks fall: the run of EitherOnTime shows one history, this all
\* (ofdm_ldpc_rf_pl.v:408-421, cp_remove.v:36-51).
THEOREM CountsFromSecond == Spec => [](cp.zero # 0 => Len(got) >= 2 /\ cp.zero = heard[2])
  <1>1. RxInv => (cp.zero # 0 => Len(got) >= 2 /\ cp.zero = heard[2])
    BY DEF RxInv, Anchored
  <1> QED BY <1>1, RxInductive, PTL DEF Spec
=============================================================================
