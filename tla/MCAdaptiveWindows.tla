-------------------------- MODULE MCAdaptiveWindows --------------------------
(***************************************************************************)
(* Instances of AdaptiveWindows: every flight of at most MCMaxEvents events *)
(* within MCMaxTs milliseconds of its first event, at time 0.  Timestamps   *)
(* enter the fold as differences only.                                      *)
(***************************************************************************)
EXTENDS AdaptiveWindows

MCMaxEvents == 5
MCMaxTs == 9

MCFlights ==
    {ev \in UNION {[1..n -> 0..MCMaxTs] : n \in 1..MCMaxEvents} :
        IsFlight(ev) /\ ev[1] = 0}
=============================================================================
