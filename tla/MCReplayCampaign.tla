-------------------------- MODULE MCReplayCampaign --------------------------
(***************************************************************************)
(* Instances of ReplayCampaign: structural and full runs that end at        *)
(* several stages, and the groups of settings that the parameter searches   *)
(* of libs/tuning change together.                                          *)
(***************************************************************************)
EXTENDS ReplayCampaign

MCDirs == {"source", "other", "copy"}
MCModes == {"structural", "full"}
MCEnds == {Unset, "25"}
MCTiers == {"structural", "full"}
MCChanges ==
    {{"event_profile", "delta_threshold"}, {"window_limits", "window_strategy"},
     {"backbone", "graph"}, {"phase_count", "min_warm"}}
=============================================================================
