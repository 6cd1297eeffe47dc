---------------------------- MODULE SequencePlan ----------------------------
(***************************************************************************)
(* The physical segmentation of one ordered stream                          *)
(* (libs/spark_sequence/plan.py, SegmentedSequencePlan).  A stream is the   *)
(* sequence of timestamps of the rows of one key, in the order of           *)
(* row_number(); everything else a row carries is left out, because a row's *)
(* segment id depends on its row number and its timestamp only.             *)
(***************************************************************************)
EXTENDS Integers, Sequences

CONSTANTS
    MaxRowsPerSegment,  \* SequenceSegmentPolicy.max_rows_per_segment
    MaxSpanMs           \* SequenceSegmentPolicy.max_span_ms; 0 or less: rows only

ASSUME PolicyAssumption == MaxRowsPerSegment \in Int /\ MaxSpanMs \in Int

\* The policy is normalised before it is used, so that any integer the
\* environment supplies is a legal policy.
NormalizedMaxRows == IF MaxRowsPerSegment > 1 THEN MaxRowsPerSegment ELSE 1
NormalizedMaxSpan == IF MaxSpanMs > 0 THEN MaxSpanMs ELSE 0

\* An ordered stream: at least one row, timestamps that never decrease.
IsStream(ts) ==
    /\ ts \in Seq(Nat)
    /\ Len(ts) > 0
    /\ \A m, n \in 1..Len(ts) : m <= n => ts[m] <= ts[n]

RowSegmentId(n) == (n - 1) \div NormalizedMaxRows
SpanSegmentId(ts, n) == (ts[n] - ts[1]) \div NormalizedMaxSpan

\* flight_segment_id of row n: F.greatest of the two ids, the row id alone
\* when the span policy is off.
SegmentId(ts, n) ==
    IF NormalizedMaxSpan > 0 /\ SpanSegmentId(ts, n) > RowSegmentId(n)
    THEN SpanSegmentId(ts, n)
    ELSE RowSegmentId(n)

\* The steps that build_segment_steps collects for one segment of a stream.
RowsIn(ts, s) == {n \in 1..Len(ts) : SegmentId(ts, n) = s}
SegmentIdsOf(ts) == {SegmentId(ts, n) : n \in 1..Len(ts)}

\* collect_segment_ids: the distinct ids over ALL the keys of the table.
CollectedIds(streams) ==
    UNION {SegmentIdsOf(streams[k]) : k \in DOMAIN streams}
=============================================================================
