--------------------------- MODULE MCSegmentedFold ---------------------------
(***************************************************************************)
(* Instances of SegmentedFold: all pairs of streams with at most MCMaxRows  *)
(* rows and timestamps up to MCMaxTs.                                       *)
(***************************************************************************)
EXTENDS SegmentedFold

CONSTANTS k1, k2

MCMaxRows == 4
MCMaxTs == 4
MCKeys == {k1, k2}
MCStreams ==
    {ts \in UNION {[1..n -> 0..MCMaxTs] : n \in 1..MCMaxRows} : IsStream(ts)}
=============================================================================
