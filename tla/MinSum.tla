-------------------------------- MODULE MinSum --------------------------------
(***************************************************************************)
(* Flooding min-sum decoding of a quasi-cyclic code, what a decoder that   *)
(* runs MAX_ITER iterations must compute.  In each iteration every check   *)
(* node answers its variables from the values of the iteration before, and *)
(* then every variable node sums its channel value and its answers.        *)
(* Within a half-iteration the nodes may come in any order.                *)
(***************************************************************************)
EXTENDS Integers, FiniteSets, FiniteSetsExt

CONSTANTS MB, NB, Z,   (* base rows, base columns, lifting factor *)
          HB, None,    (* shift of each block; None where there is no block *)
          KB,          (* base columns of the information part *)
          MAX_ITER,
          Sat,         (* values are limited to -Sat .. Sat *)
          Junk

VARIABLES stage,       (* "idle", "check", "var", "out" or "done" *)
          todo,        (* the nodes of this half-iteration still to come *)
          it,          (* iterations completed *)
          llr,         (* the channel values offered *)
          ch, v, m,    (* channel values, variable values, answers *)
          result

vars == <<stage, todo, it, llr, ch, v, m, result>>

Checks == (0 .. MB - 1) \X (0 .. Z - 1)
Vars   == (0 .. NB - 1) \X (0 .. Z - 1)

(* The blocks of a check or of a variable, and who is at the other end.     *)
Cols(r)    == {c \in 0 .. NB - 1 : HB[r][c] # None}
Rows(c)    == {r \in 0 .. MB - 1 : HB[r][c] # None}
VarOf(r, c, z)   == <<c, (z - HB[r][c]) % Z>>
CheckOf(r, c, z) == <<r, c, (z + HB[r][c]) % Z>>

Limit(x) == IF x > Sat THEN Sat ELSE IF x < -Sat THEN -Sat ELSE x
Abs(x)   == IF x < 0 THEN -x ELSE x

Idle == /\ stage = "idle" /\ todo = {} /\ it = 0
        /\ ch = Junk /\ v = Junk /\ m = Junk /\ result = Junk

Init == Idle

Load ==
    /\ stage = "idle"
    /\ stage' = "check" /\ todo' = Checks
    /\ ch' = llr /\ v' = llr
    /\ m' = [a \in {<<r, c, z>> : r \in 0 .. MB - 1, c \in 0 .. NB - 1, z \in 0 .. Z - 1} |-> 0]
    /\ UNCHANGED <<it, llr, result>>

(* The answer of check <<r, z>> to its block c: the product of the signs and *)
(* the least of the sizes of what the other blocks bring.                    *)
Brings(r, c, z) == Limit(v[VarOf(r, c, z)] - m[<<r, c, z>>])
Answer(r, c, z) ==
    LET others == Cols(r) \ {c}
        size   == Min({Abs(Brings(r, o, z)) : o \in others} \cup {Sat})
    IN  IF Cardinality({o \in others : Brings(r, o, z) < 0}) % 2 = 1 THEN -size ELSE size

CheckNode(r, z) ==
    /\ stage = "check" /\ <<r, z>> \in todo
    /\ m' = [a \in DOMAIN m |-> IF a[1] = r /\ a[3] = z /\ a[2] \in Cols(r)
                                THEN Answer(r, a[2], z) ELSE m[a]]
    /\ \/ /\ todo # {<<r, z>>}
          /\ todo' = todo \ {<<r, z>>} /\ UNCHANGED stage
       \/ /\ todo = {<<r, z>>}
          /\ todo' = Vars /\ stage' = "var"
    /\ UNCHANGED <<it, llr, ch, v, result>>

VarNode(c, z) ==
    /\ stage = "var" /\ <<c, z>> \in todo
    /\ v' = [v EXCEPT ![<<c, z>>] =
                Limit(ch[<<c, z>>] + MapThenSumSet(LAMBDA r : m[CheckOf(r, c, z)], Rows(c)))]
    /\ \/ /\ todo # {<<c, z>>}
          /\ todo' = todo \ {<<c, z>>} /\ UNCHANGED <<stage, it>>
       \/ /\ todo = {<<c, z>>} /\ it # MAX_ITER - 1
          /\ todo' = Checks /\ stage' = "check" /\ it' = it + 1
       \/ /\ todo = {<<c, z>>} /\ it = MAX_ITER - 1
          /\ todo' = {} /\ stage' = "out" /\ UNCHANGED it
    /\ UNCHANGED <<llr, ch, m, result>>

(* The result is the sign of each information variable. *)
Output ==
    /\ stage = "out"
    /\ stage' = "done"
    /\ result' = [a \in (0 .. KB - 1) \X (0 .. Z - 1) |-> v[a] < 0]
    /\ UNCHANGED <<todo, it, llr, ch, v, m>>

(* A reset, and another set of channel values. *)
Abandon == Idle'

Next ==
    \/ Load
    \/ \E r \in 0 .. MB - 1, z \in 0 .. Z - 1 : CheckNode(r, z)
    \/ \E c \in 0 .. NB - 1, z \in 0 .. Z - 1 : VarNode(c, z)
    \/ Output
    \/ Abandon

Spec == Init /\ [][Next]_vars
=============================================================================
