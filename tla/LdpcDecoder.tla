----------------------------- MODULE LdpcDecoder -----------------------------
(***************************************************************************)
(* ldpc_decoder.v: a serial min-sum decoder.  One clock reads one or two   *)
(* memory words and at most one word of each memory is written, through    *)
(* port registers, so that a write is in the memory only one clock after   *)
(* the clock that decided it.                                              *)
(*                                                                         *)
(* An address that the code builds by concatenation is a tuple: <<col, z>> *)
(* in v_llr and ch_llr, <<row, col, z>> in msg_cv.                         *)
(***************************************************************************)
EXTENDS BaseMatrix

CONSTANTS KB,          (* K = KB * Z information bits *)
          MAX_ITER,
          Sat,         (* 127: values are limited to -Sat .. Sat *)
          NoNumber,
          Frames,      (* bound: the contents the LLR memory may have *)
          MaxResets    (* bound: resets while running *)

VarAddr  == Col \X Pos
MsgAddr  == Row \X Col \X Pos
InfoAddr == (0 .. KB - 1) \X Pos
Value    == -Sat .. Sat

(* With one column a check node would read the word still in the port.     *)
ASSUME DecoderAssumption ==
    /\ MB \in Nat \ {0} /\ NB \in Nat \ {0, 1} /\ Z \in Nat \ {0}
    /\ None \notin Pos /\ DecHB \in [Row -> [Col -> Shift]]
    /\ KB \in 0 .. NB /\ MAX_ITER \in Nat \ {0} /\ Sat \in Nat \ {0}
    /\ Frames \subseteq [VarAddr -> Value] /\ MaxResets \in Nat

VARIABLES
    ch_llr, v_llr, msg_cv,               (* the memories *)
    ch_port, v_port, msg_port,           (* their write ports *)
    state, init_cnt,
    cur_row, cur_z, col_cnt,             (* check nodes *)
    cnu_min1, cnu_min2, cnu_min1_idx, cnu_total_sign, cnu_sign,
    vn_cnt, row_cnt, s_acc,              (* variable nodes *)
    iter, rx_decoded, rx_valid_out, dbg_chllr_decoded,
    frame,      (* the LLR memory, complete before valid_in *)
    fed,        (* valid_in has come since the last reset: llr_buffer gives *)
                (* one pulse per reset                                      *)
    resets

memories == <<ch_llr, v_llr, msg_cv>>
ports    == <<ch_port, v_port, msg_port>>
checkCnt == <<cur_row, cur_z, col_cnt>>
minima   == <<cnu_min1, cnu_min2, cnu_min1_idx, cnu_total_sign>>
varCnt   == <<vn_cnt, row_cnt, s_acc>>
results  == <<rx_decoded, dbg_chllr_decoded>>
control  == <<state, init_cnt, iter>>
env      == <<frame, fed, resets>>
decVars  == <<memories, ports, control, checkCnt, minima, cnu_sign, varCnt,
              results, rx_valid_out, env>>

-----------------------------------------------------------------------------
(* The write ports.                                                        *)

NoWrite     == [we |-> FALSE, wa |-> <<>>, wd |-> 0]
Write(a, x) == [we |-> TRUE, wa |-> a, wd |-> x]

(* The memory once the write in its port has been done. *)
Written(mem, port) == IF port.we THEN [mem EXCEPT ![port.wa] = port.wd] ELSE mem

Commit ==
    /\ ch_llr' = Written(ch_llr, ch_port)
    /\ v_llr'  = Written(v_llr, v_port)
    /\ msg_cv' = Written(msg_cv, msg_port)

NoLlrWrite == ch_port' = NoWrite /\ v_port' = NoWrite

-----------------------------------------------------------------------------
(* Mutants: the sum wraps around, or is not limited at all. *)
MutLimitWrap(x) == IF x > Sat THEN x - 2 * Sat - 1 ELSE IF x < -Sat THEN x + 2 * Sat + 1 ELSE x
MutLimitNone(x) == x

Limit(x) == IF x > Sat THEN Sat ELSE IF x < -Sat THEN -Sat ELSE x   (* sat *)
Abs(x)   == IF x < 0 THEN -x ELSE x

(* The accumulators of a check node before its first column. *)
ClearMinima ==
    /\ cnu_min1' = Sat /\ cnu_min2' = Sat /\ cnu_min1_idx' = 0
    /\ cnu_total_sign' = FALSE

DecPowerUp ==
    /\ ch_llr = [a \in VarAddr |-> NoNumber]
    /\ v_llr  = [a \in VarAddr |-> NoNumber]
    /\ msg_cv = [a \in MsgAddr |-> NoNumber]
    /\ cnu_sign = [c \in Col |-> FALSE]
    /\ rx_decoded = [a \in InfoAddr |-> NoNumber]
    /\ ch_port = NoWrite /\ v_port = NoWrite /\ msg_port = NoWrite
    /\ state = "idle" /\ init_cnt = 0 /\ iter = 0
    /\ cur_row = 0 /\ cur_z = 0 /\ col_cnt = 0
    /\ cnu_min1 = Sat /\ cnu_min2 = Sat /\ cnu_min1_idx = 0 /\ cnu_total_sign = FALSE
    /\ vn_cnt = 0 /\ row_cnt = 0 /\ s_acc = 0
    /\ rx_valid_out = FALSE
    /\ dbg_chllr_decoded = [a \in InfoAddr |-> FALSE]

(* rst_n: every register but the memories, cnu_sign and decoded. *)
DecRestart ==
    /\ NoLlrWrite /\ msg_port' = NoWrite
    /\ state' = "idle" /\ init_cnt' = 0 /\ iter' = 0
    /\ cur_row' = 0 /\ cur_z' = 0 /\ col_cnt' = 0
    /\ ClearMinima
    /\ vn_cnt' = 0 /\ row_cnt' = 0 /\ s_acc' = 0
    /\ rx_valid_out' = FALSE
    /\ dbg_chllr_decoded' = [a \in InfoAddr |-> FALSE]
    /\ UNCHANGED <<memories, cnu_sign, rx_decoded>>

-----------------------------------------------------------------------------
(* ST_IDLE                                                                 *)
IdleWait(valid_in) ==
    /\ state = "idle" /\ ~valid_in
    /\ NoLlrWrite /\ msg_port' = NoWrite
    /\ rx_valid_out' = FALSE
    /\ UNCHANGED <<control, checkCnt, minima, cnu_sign, varCnt, results>>

IdleStart(valid_in) ==
    /\ state = "idle" /\ valid_in
    /\ init_cnt' = 0 /\ iter' = 0 /\ state' = "init"
    /\ NoLlrWrite /\ msg_port' = NoWrite
    /\ rx_valid_out' = FALSE
    /\ UNCHANGED <<checkCnt, minima, cnu_sign, varCnt, results>>

-----------------------------------------------------------------------------
(* ST_INIT: clear msg_cv and, with the first N of its words, load the LLRs. *)
MsgAt(n) == <<n \div (NB * Z), (n \div Z) % NB, n % Z>>
VarAt(n) == <<n \div Z, n % Z>>

InitLoad ==
    LET a == VarAt(init_cnt)
    IN  \/ /\ init_cnt < NB * Z
           /\ ch_port' = Write(a, frame[a])
           /\ v_port'  = Write(a, frame[a])
           /\ dbg_chllr_decoded' = IF init_cnt < KB * Z
                                   THEN [dbg_chllr_decoded EXCEPT ![a] = frame[a] < 0]
                                   ELSE dbg_chllr_decoded
        \/ /\ init_cnt >= NB * Z
           /\ NoLlrWrite
           /\ UNCHANGED dbg_chllr_decoded

(* Mutant: the messages are cleared only after power-up. *)
MutInitClear == msg_port' = IF resets = 0 THEN Write(MsgAt(init_cnt), 0) ELSE NoWrite

InitClear == msg_port' = Write(MsgAt(init_cnt), 0)

InitStep ==
    /\ state = "init"
    /\ InitLoad
    /\ InitClear
    /\ \/ /\ init_cnt # MB * NB * Z - 1
          /\ init_cnt' = init_cnt + 1
          /\ UNCHANGED <<state, checkCnt, minima>>
       \/ /\ init_cnt = MB * NB * Z - 1
          /\ state' = "gather"
          /\ cur_row' = 0 /\ cur_z' = 0 /\ col_cnt' = 0
          /\ ClearMinima
          /\ UNCHANGED init_cnt
    /\ rx_valid_out' = FALSE
    /\ UNCHANGED <<iter, cnu_sign, varCnt, rx_decoded>>

-----------------------------------------------------------------------------
(* ST_CNU_GATHER: one column of the check node (cur_row, cur_z).           *)
Connected(r, c) == DecHB[r][c] # None

VAddr == <<col_cnt, (cur_z - DecHB[cur_row][col_cnt]) % Z>>
MAddr == <<cur_row, col_cnt, cur_z>>
extval == Limit(v_llr[VAddr] - msg_cv[MAddr])

Xor(p, q) == p # q

(* The two least sizes so far and the column of the least. *)
TrackMinima(size) ==
    \/ /\ size <= cnu_min1
       /\ cnu_min2' = cnu_min1 /\ cnu_min1' = size /\ cnu_min1_idx' = col_cnt
    \/ /\ size > cnu_min1 /\ size < cnu_min2
       /\ cnu_min2' = size
       /\ UNCHANGED <<cnu_min1, cnu_min1_idx>>
    \/ /\ size > cnu_min1 /\ size >= cnu_min2
       /\ UNCHANGED <<cnu_min1, cnu_min2, cnu_min1_idx>>

GatherColumn ==
    \/ /\ Connected(cur_row, col_cnt)
       /\ cnu_sign' = [cnu_sign EXCEPT ![col_cnt] = extval < 0]
       /\ cnu_total_sign' = Xor(cnu_total_sign, extval < 0)
       /\ TrackMinima(Abs(extval))
    \/ /\ ~Connected(cur_row, col_cnt)
       /\ cnu_sign' = [cnu_sign EXCEPT ![col_cnt] = FALSE]
       /\ UNCHANGED minima

Gather ==
    /\ state = "gather"
    /\ GatherColumn
    /\ \/ col_cnt # NB - 1 /\ col_cnt' = col_cnt + 1 /\ UNCHANGED state
       \/ col_cnt = NB - 1 /\ col_cnt' = 0 /\ state' = "scatter"
    /\ NoLlrWrite /\ msg_port' = NoWrite
    /\ rx_valid_out' = FALSE
    /\ UNCHANGED <<init_cnt, iter, cur_row, cur_z, varCnt, results>>

-----------------------------------------------------------------------------
(* ST_CNU_WR: the answer of the check node to one column.                  *)
answer(c) ==
    LET size == IF c = cnu_min1_idx THEN cnu_min2 ELSE cnu_min1
    IN  IF Xor(cnu_total_sign, cnu_sign[c]) THEN -size ELSE size

LastCheck == cur_row = MB - 1 /\ cur_z = Z - 1

NextCheck ==
    /\ \/ cur_z # Z - 1 /\ cur_z' = cur_z + 1 /\ UNCHANGED cur_row
       \/ cur_z = Z - 1 /\ cur_z' = 0 /\ cur_row' = cur_row + 1
    /\ ClearMinima
    /\ state' = "gather"

Scatter ==
    /\ state = "scatter"
    /\ msg_port' = IF Connected(cur_row, col_cnt) THEN Write(MAddr, answer(col_cnt))
                                                  ELSE NoWrite
    /\ \/ /\ col_cnt # NB - 1
          /\ col_cnt' = col_cnt + 1
          /\ UNCHANGED <<state, cur_row, cur_z, minima, vn_cnt, row_cnt>>
       \/ /\ col_cnt = NB - 1 /\ ~LastCheck
          /\ col_cnt' = 0
          /\ NextCheck
          /\ UNCHANGED <<vn_cnt, row_cnt>>
       \/ /\ col_cnt = NB - 1 /\ LastCheck
          /\ col_cnt' = 0 /\ cur_row' = 0 /\ cur_z' = 0
          /\ vn_cnt' = 0 /\ row_cnt' = 0
          /\ state' = "vnu"
          /\ UNCHANGED minima
    /\ NoLlrWrite
    /\ rx_valid_out' = FALSE
    /\ UNCHANGED <<init_cnt, iter, cnu_sign, s_acc, results>>

-----------------------------------------------------------------------------
(* ST_VNU_ROW: one check row of the variable vn_cnt.                       *)
VnuAddr(r) ==
    LET a == VarAt(vn_cnt) IN <<r, a[1], (a[2] + DecHB[r][a[1]]) % Z>>

(* The sum with the row row_cnt. *)
row_sum ==
    (IF row_cnt = 0 THEN ch_llr[VarAt(vn_cnt)] ELSE s_acc)
    + (IF Connected(row_cnt, VarAt(vn_cnt)[1]) THEN msg_cv[VnuAddr(row_cnt)] ELSE 0)

VnuRow ==
    /\ state = "vnu" /\ row_cnt # MB - 1
    /\ s_acc' = row_sum
    /\ row_cnt' = row_cnt + 1
    /\ NoLlrWrite /\ msg_port' = NoWrite
    /\ rx_valid_out' = FALSE
    /\ UNCHANGED <<control, checkCnt, minima, cnu_sign, vn_cnt, results>>

VnuDone ==
    /\ state = "vnu" /\ row_cnt = MB - 1
    /\ v_port' = Write(VarAt(vn_cnt), Limit(row_sum))
    /\ rx_decoded' = IF iter = MAX_ITER - 1 /\ vn_cnt < KB * Z
                     THEN [rx_decoded EXCEPT ![VarAt(vn_cnt)] = Limit(row_sum) < 0]
                     ELSE rx_decoded
    /\ row_cnt' = 0
    /\ \/ /\ vn_cnt # NB * Z - 1
          /\ vn_cnt' = vn_cnt + 1
          /\ UNCHANGED <<state, iter, checkCnt, minima>>
       \/ /\ vn_cnt = NB * Z - 1 /\ iter = MAX_ITER - 1
          /\ state' = "output"
          /\ UNCHANGED <<vn_cnt, iter, checkCnt, minima>>
       \/ /\ vn_cnt = NB * Z - 1 /\ iter # MAX_ITER - 1
          /\ iter' = iter + 1
          /\ cur_row' = 0 /\ cur_z' = 0 /\ col_cnt' = 0
          /\ ClearMinima
          /\ state' = "gather"
          /\ UNCHANGED vn_cnt
    /\ ch_port' = NoWrite /\ msg_port' = NoWrite
    /\ rx_valid_out' = FALSE
    /\ UNCHANGED <<init_cnt, cnu_sign, s_acc, dbg_chllr_decoded>>

(* Mutant: the clear at the top of the clock wins over the set. *)
MutOutput ==
    /\ state = "output"
    /\ rx_valid_out' = FALSE
    /\ state' = "idle"
    /\ NoLlrWrite /\ msg_port' = NoWrite
    /\ UNCHANGED <<init_cnt, iter, checkCnt, minima, cnu_sign, varCnt, results>>

(* ST_OUTPUT *)
Output ==
    /\ state = "output"
    /\ rx_valid_out' = TRUE
    /\ state' = "idle"
    /\ NoLlrWrite /\ msg_port' = NoWrite
    /\ UNCHANGED <<init_cnt, iter, checkCnt, minima, cnu_sign, varCnt, results>>

DecClock(valid_in) ==
    /\ Commit
    /\ \/ IdleWait(valid_in) \/ IdleStart(valid_in)
       \/ InitStep \/ Gather \/ Scatter \/ VnuRow \/ VnuDone \/ Output

-----------------------------------------------------------------------------
(* The LLR memory is written between a reset and the one pulse of valid_in, *)
(* and the pulse comes in any clock after.                                  *)
DecInit == DecPowerUp /\ frame \in Frames /\ fed = FALSE /\ resets = 0

DecTick(valid_in) ==
    /\ DecClock(valid_in)
    /\ fed' = (fed \/ valid_in)

DecRun ==
    /\ \E valid_in \in BOOLEAN : (valid_in => ~fed) /\ DecTick(valid_in)
    /\ UNCHANGED <<frame, resets>>

(* rst_n in any clock: what the memories hold stays, a write in a port is   *)
(* lost; the next frame is another one.                                     *)
DecReset ==
    /\ fed /\ resets < MaxResets
    /\ DecRestart
    /\ frame' \in Frames /\ fed' = FALSE /\ resets' = resets + 1

DecNext == DecRun \/ DecReset

DecSpec     == DecInit /\ [][DecNext]_decVars
DecFairSpec == DecSpec /\ WF_decVars(state # "idle" /\ DecRun)

-----------------------------------------------------------------------------
(* Type invariant: counters stay within their tables, values within their   *)
(* eight bits and the sum of a variable within its twelve.                  *)
Port(addr) == {NoWrite} \cup [we : {TRUE}, wa : addr, wd : Value]

DecInRange ==
    /\ ch_llr \in [VarAddr -> Value \cup {NoNumber}]
    /\ v_llr \in [VarAddr -> Value \cup {NoNumber}]
    /\ msg_cv \in [MsgAddr -> Value \cup {NoNumber}]
    /\ ch_port \in Port(VarAddr) /\ v_port \in Port(VarAddr) /\ msg_port \in Port(MsgAddr)
    /\ state \in {"idle", "init", "gather", "scatter", "vnu", "output"}
    /\ init_cnt \in 0 .. MB * NB * Z - 1 /\ iter \in 0 .. MAX_ITER - 1
    /\ cur_row \in Row /\ cur_z \in Pos /\ col_cnt \in Col
    /\ cnu_min1 \in 0 .. Sat /\ cnu_min2 \in 0 .. Sat /\ cnu_min1_idx \in Col
    /\ cnu_total_sign \in BOOLEAN /\ cnu_sign \in [Col -> BOOLEAN]
    /\ vn_cnt \in 0 .. NB * Z - 1 /\ row_cnt \in Row
    /\ s_acc \in -((MB + 1) * Sat) .. (MB + 1) * Sat
    /\ rx_decoded \in [InfoAddr -> BOOLEAN \cup {NoNumber}]
    /\ dbg_chllr_decoded \in [InfoAddr -> BOOLEAN]
    /\ rx_valid_out \in BOOLEAN /\ fed \in BOOLEAN

DecTypeOK == DecInRange /\ frame \in Frames /\ resets \in 0 .. MaxResets

-----------------------------------------------------------------------------
(* The decoder against flooding min-sum.  A check node of MinSum answers    *)
(* when its last column has been gathered, although the answers reach       *)
(* msg_cv one clock after another, while the next states already read;      *)
(* a variable node takes its value when VnuDone puts it in the write port.  *)
stageOf ==
    CASE ~fed \/ state = "init"              -> "idle"
      [] state = "gather"                    -> "check"
      [] state = "scatter" /\ ~LastCheck     -> "check"
      [] state = "scatter" /\ LastCheck      -> "var"
      [] state = "vnu"                       -> "var"
      [] state = "output"                    -> "out"
      [] state = "idle" /\ fed               -> "done"

todoOf ==
    CASE state = "gather"  -> {n \in Row \X Pos : n[1] * Z + n[2] >= cur_row * Z + cur_z}
      [] state = "scatter" -> IF LastCheck THEN VarAddr
                              ELSE {n \in Row \X Pos : n[1] * Z + n[2] > cur_row * Z + cur_z}
      [] state = "vnu"     -> {a \in VarAddr : a[1] * Z + a[2] >= vn_cnt}
      [] OTHER             -> {}

Answered(a) == state = "scatter" /\ a[1] = cur_row /\ a[3] = cur_z
               /\ a[2] >= col_cnt /\ Connected(cur_row, a[2])
messagesOf == [a \in MsgAddr |-> IF Answered(a) THEN answer(a[2])
                                 ELSE Written(msg_cv, msg_port)[a]]

Loaded(x) == IF stageOf = "idle" THEN NoNumber ELSE x

MS == INSTANCE MinSum WITH
        HB <- DecHB, llr <- frame, Junk <- NoNumber,
        stage <- stageOf, todo <- todoOf, it <- iter,
        ch <- Loaded(Written(ch_llr, ch_port)), v <- Loaded(Written(v_llr, v_port)),
        m <- Loaded(messagesOf),
        result <- IF stageOf = "done" THEN rx_decoded ELSE NoNumber

(* The serial decoder, with its one-clock write ports, its two least sizes  *)
(* in place of a minimum per column, and memories that keep the frame       *)
(* before through a reset, computes flooding min-sum: no half-iteration     *)
(* reads a value the other one has not finished.                            *)
ImplementsMinSum == MS!Spec

(* A frame whose signs are a codeword, however weak its values, comes out    *)
(* as its own information bits: no saturation, no tie and no zero difference *)
(* in any iteration turns a sign.                                            *)
Syndrome(negative) ==
    {n \in Row \X Pos :
        Cardinality({c \in Col : Connected(n[1], c)
                                 /\ negative[<<c, (n[2] - DecHB[n[1]][c]) % Z>>]}) % 2 = 1}
Clean == /\ \A a \in VarAddr : frame[a] # 0
         /\ Syndrome([a \in VarAddr |-> frame[a] < 0]) = {}

CleanDecodes ==
    rx_valid_out /\ Clean => rx_decoded = [a \in InfoAddr |-> frame[a] < 0]

(* A frame handed over is decoded in the end, unless a reset comes.          *)
Decodes == state # "idle" ~> (rx_valid_out \/ ~fed)
=============================================================================
