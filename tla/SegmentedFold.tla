---------------------------- MODULE SegmentedFold ----------------------------
(***************************************************************************)
(* The carry loop of the segmented Spark kernels.  The event detectors      *)
(* (libs/events/categorical.py, libs/events/continuous.py) and the window   *)
(* builder (libs/windows/pipeline.py) run the same driver loop: for each    *)
(* collected segment id, in ascending order, the steps of the keys that     *)
(* have rows in this segment are folded with F.aggregate, starting from     *)
(* the state carried over from the previous iteration.                      *)
(*                                                                          *)
(* What a kernel computes from a state is left out: any state is a function *)
(* of the rows folded into it since the initial state, so the model carries *)
(* that set of rows.  A row's output depends on the state it is folded      *)
(* into, hence on the set recorded for it in `seen'.                        *)
(***************************************************************************)
EXTENDS SequencePlan, FiniteSets

CONSTANTS
    Keys,      \* the sequence keys, e.g. (tail, flight, parameter)
    Streams    \* the streams a key may have

ASSUME StreamsAssumption == \A ts \in Streams : IsStream(ts)

VARIABLES
    stream,    \* [Keys -> timestamps]: the prepared source table
    pending,   \* the segment ids the driver loop has not processed yet
    carry,     \* carry_df: the rows folded into the carried state of a key;
               \* {} when the key has no row in carry_df
    seen       \* for each row already folded, the rows its state had folded

vars == <<stream, pending, carry, seen>>

Rows(k) == 1..Len(stream[k])

\* Mutant of Init: the loop runs over range(max_id + 1).
InitOverRange ==
    /\ stream \in [Keys -> Streams]
    /\ pending = 0..(CHOOSE s \in CollectedIds(stream) :
                        \A t \in CollectedIds(stream) : t <= s)
    /\ carry = [k \in Keys |-> {}]
    /\ seen = [k \in Keys |-> <<>>]

\* Mutant of Init: the ids are collected from the table of a single key.
InitFromOneKey ==
    /\ stream \in [Keys -> Streams]
    /\ pending = SegmentIdsOf(stream[CHOOSE k \in Keys : TRUE])
    /\ carry = [k \in Keys |-> {}]
    /\ seen = [k \in Keys |-> <<>>]

Init ==
    /\ stream \in [Keys -> Streams]
    /\ pending = CollectedIds(stream)
    /\ carry = [k \in Keys |-> {}]
    /\ seen = [k \in Keys |-> <<>>]

\* Mutant of StateBefore: the collected steps are not sorted by row number.
StateBeforeUnsorted(k, s, n) == carry[k] \cup (RowsIn(stream[k], s) \ {n})

\* The current steps join carry_df on the key with a left join; a key that
\* carry_df lacks has a null state, which coalesces to the initial state.
StateBefore(k, s, n) == carry[k] \cup {m \in RowsIn(stream[k], s) : m < n}

\* Mutant of CarryAfter: the carried state restarts at this segment.
CarryAfterRestarted(k, s) == RowsIn(stream[k], s)

\* carry_df is replaced by the rows of this iteration alone, so a key with
\* no rows in segment s leaves the carry.
CarryAfter(k, s) ==
    IF RowsIn(stream[k], s) = {} THEN {} ELSE carry[k] \cup RowsIn(stream[k], s)

SeenAfter(k, s) ==
    [n \in DOMAIN seen[k] \cup RowsIn(stream[k], s) |->
        IF n \in RowsIn(stream[k], s) THEN StateBefore(k, s, n) ELSE seen[k][n]]

\* Mutant of ProcessSegment: the collected ids are not put in order.
ProcessSegmentUnordered(s) ==
    /\ s \in pending
    /\ seen' = [k \in Keys |-> SeenAfter(k, s)]
    /\ carry' = [k \in Keys |-> CarryAfter(k, s)]
    /\ pending' = pending \ {s}
    /\ UNCHANGED stream

\* One iteration of `for segment_id in segment_ids'.
ProcessSegment(s) ==
    /\ s \in pending
    /\ \A t \in pending : s <= t
    /\ seen' = [k \in Keys |-> SeenAfter(k, s)]
    /\ carry' = [k \in Keys |-> CarryAfter(k, s)]
    /\ pending' = pending \ {s}
    /\ UNCHANGED stream

Next == \E s \in pending : ProcessSegment(s)

Spec == Init /\ [][Next]_vars
FairSpec == Spec /\ WF_vars(Next)
-----------------------------------------------------------------------------
TypeOK ==
    /\ stream \in [Keys -> Streams]
    /\ pending \subseteq CollectedIds(stream)
    /\ \A k \in Keys :
        /\ carry[k] \subseteq Rows(k)
        /\ DOMAIN seen[k] \subseteq Rows(k)
        /\ \A n \in DOMAIN seen[k] : seen[k][n] \subseteq Rows(k)

\* A key is present in every collected segment up to its own last one.  Only
\* the span policy can break this: a quiet stretch longer than MaxSpanMs skips
\* an id, which another key then supplies to the loop.
Unbroken(k) ==
    \A s \in CollectedIds(stream) :
        (\E n \in Rows(k) : s <= SegmentId(stream[k], n))
            => s \in SegmentIdsOf(stream[k])

\* Segmentation is invisible to an unbroken key: each of its rows is folded
\* into the state of exactly the rows that precede it, as one unsegmented
\* F.aggregate over the whole stream would do.
CarryComplete ==
    \A k \in Keys : Unbroken(k) =>
        \A n \in DOMAIN seen[k] : seen[k][n] = 1..(n - 1)

\* No key, broken or not, is ever folded out of order or with a row twice: a
\* state holds earlier rows only, and they are consecutive up to its own.
NoRowFromTheFuture ==
    \A k \in Keys : \A n \in DOMAIN seen[k] :
        \E m \in 1..n : seen[k][n] = m..(n - 1)

\* The rows in front of which key k skips a collected id.
Restarts(k) ==
    {n \in Rows(k) : n > 1 /\ \E s \in CollectedIds(stream) :
        SegmentId(stream[k], n - 1) < s /\ s < SegmentId(stream[k], n)}

Streamed == INSTANCE StreamFold WITH restarts <- [k \in Keys |-> Restarts(k)]

\* The segmented loop implements the fold of the streams row by row: each key
\* advances from one prefix of its rows to a longer one, and a row meets the
\* state of exactly the rows before it, back to the last skipped id.  There
\* the state is lost (carry_df), and nowhere else: a key that skips no id is
\* folded as a whole, however many segments and keys there are.
ImplementsStreamFold == Streamed!Spec

\* The driver loop ends with every row of every key folded.
EveryRowFolded == <>(\A k \in Keys : DOMAIN seen[k] = Rows(k))
=============================================================================
