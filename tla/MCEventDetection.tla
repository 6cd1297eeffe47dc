--------------------------- MODULE MCEventDetection ---------------------------
(***************************************************************************)
(* An instance of EventDetection.  Categorical: two states, samples up to   *)
(* 2 ms apart.  Continuous: slope candidates of both signs with every kind  *)
(* of raw change: none, a candidate with none (by its residual), a change   *)
(* of an oscillation, and a large one.                                      *)
(***************************************************************************)
EXTENDS EventDetection

CONSTANTS s1, s2

MCStates == {s1, s2}
MCIllegal == {<<s1, s2>>}
MCSteps == {0, 1, 2}

MCSlopes == {<<0, 0>>, <<1, 1>>, <<1, 2>>, <<-1, 1>>, <<-1, 2>>}
MCChanges ==
    {<<0, {}>>, <<0, {"switch"}>>, <<2, {"oscillation", "extrema"}>>,
     <<3, {"switch", "oscillation"}>>}

MCRefractory == [kind \in {"switch", "oscillation"} |-> IF kind = "switch" THEN 3 ELSE 2]

MCInputs ==
    {[sign |-> s[1], delta |-> s[2], raw |-> c[1], candidates |-> c[2]] :
        s \in MCSlopes, c \in MCChanges}
=============================================================================
