------------------------------ MODULE StreamFold ------------------------------
(***************************************************************************)
(* What the sequence kernels do to the streams of their keys: each stream  *)
(* is folded in row order, one row after the other, as an unsegmented      *)
(* F.aggregate over the sorted steps does it, except that the fold starts  *)
(* again from the initial state at some rows, fixed in advance; a stream   *)
(* without such a row is folded as a whole.  How many rows of which keys a *)
(* step folds is left open.                                                *)
(***************************************************************************)
EXTENDS Integers, Sequences

CONSTANT Keys

VARIABLES
    stream,    \* [Keys -> sequence]: the rows of each key, in order
    restarts,  \* [Keys -> set of rows]: the rows folded into the initial state
    seen       \* for each folded row, the rows folded into its state before it

\* The rows before n, back to the last restart.
Since(k, n) == {m \in 1..(n - 1) : \A r \in restarts[k] : ~(m < r /\ r <= n)}

Prefix(k, m) == [n \in 1..m |-> Since(k, n)]

Init == seen = [k \in Keys |-> Prefix(k, 0)]

\* Some keys move on to a later row m of their stream, the others stay.
Advance(k, m) ==
    /\ DOMAIN seen[k] \subseteq 1..m
    /\ seen'[k] = Prefix(k, m)

Next ==
    /\ DOMAIN seen' = Keys
    /\ \A k \in Keys : \E m \in 0..Len(stream[k]) : Advance(k, m)
    /\ UNCHANGED <<stream, restarts>>

Spec == Init /\ [][Next]_<<stream, restarts, seen>>
=============================================================================
