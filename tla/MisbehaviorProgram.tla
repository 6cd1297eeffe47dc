-------------------------- MODULE MisbehaviorProgram --------------------------
(***************************************************************************)
(* MisbehaviorProgram (libs/simulation/fault/runtime.py): windows over the  *)
(* step index that put a coupling or a parameter under a context.  A window *)
(* is [subject, first, end, context]; the context names its window.         *)
(***************************************************************************)
EXTENDS Integers, SequencesExt

CONSTANTS
    None,     \* no value, no label
    Nominal   \* no misbehavior context

IsOpen(w, subject, n) == w.subject = subject /\ w.first <= n /\ n < w.end

\* step_context_for_step: of overlapping windows the last one counts.
ContextAt(windows, subject, n) ==
    LET open == {i \in DOMAIN windows : IsOpen(windows[i], subject, n)}
    IN  IF open = {} THEN Nominal ELSE windows[Max(open)].context
=============================================================================
