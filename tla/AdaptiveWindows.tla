--------------------------- MODULE AdaptiveWindows ---------------------------
(***************************************************************************)
(* The fold that cuts the events of one flight into adaptive windows        *)
(* (libs/windows/pipeline.py, AdaptiveWindowTransition).  Every step of the *)
(* flight may close the open window before it (inactivity, budget step) and *)
(* an event may close its own window after it.  The flight is folded        *)
(* without interruption here: SegmentedFold says when segmentation allows   *)
(* that.                                                                    *)
(*                                                                          *)
(* Every row of the events table has an event type, so a step has an event  *)
(* if and only if it is not a budget step.                                  *)
(***************************************************************************)
EXTENDS WindowSteps, FiniteSets

CONSTANTS
    InactivityTimeouts,  \* the values of WindowPolicy.inactivity_timeout_ms; 0: off
    Flights              \* the flights that may be folded

ASSUME FlightsAssumption ==
    /\ InactivityTimeouts \subseteq Int
    /\ \A ev \in Flights : IsFlight(ev)

VARIABLES
    timeout,    \* policy.inactivity_timeout_ms of the plan
    events,     \* the flight
    remaining,  \* its steps not folded yet
    nextWin,    \* next_win_id
    open,       \* the open window, or NoWindow
    closed,     \* closed_windows, in the order they were appended
    finished    \* end_of_stream_windows_column has been applied

vars == <<timeout, events, remaining, nextWin, open, closed, finished>>

\* The value of `open' when has_open_window is false.
NoWindow ==
    [win |-> 0, tStart |-> 0, tEnd |-> 0, first |-> NoSeq, last |-> NoSeq,
     count |-> 0]

IsOpen == open # NoWindow

Init ==
    /\ timeout \in InactivityTimeouts
    /\ events \in Flights
    /\ remaining = Steps(events)
    /\ nextWin = 1
    /\ open = NoWindow
    /\ closed = <<>>
    /\ finished = FALSE

Summary(w, tEnd, reason) ==
    [win |-> w.win, tStart |-> w.tStart, tEnd |-> tEnd, first |-> w.first,
     last |-> w.last, count |-> w.count, reason |-> reason]

\* Mutant of Inactive: the timeout itself is not yet inactivity.
InactiveLater(step) ==
    /\ timeout > 0
    /\ open.count > 0
    /\ step.ts - open.tEnd > timeout

Inactive(step) ==
    /\ timeout > 0
    /\ open.count > 0
    /\ step.ts - open.tEnd >= timeout

\* preclose_window: inactivity closes the open window at its last event, and
\* takes precedence over a budget step, which closes it at the step.
Preclosed(step) ==
    IF ~IsOpen THEN <<>>
    ELSE IF Inactive(step) THEN <<Summary(open, open.tEnd, "inactivity_timeout")>>
    ELSE IF IsBudgetStep(step) THEN <<Summary(open, step.ts, "budget_threshold")>>
    ELSE <<>>

\* Mutant of Fresh: the id of the window closed just before is used again.
FreshReusesId(step) ==
    [win |-> nextWin, tStart |-> step.ts, tEnd |-> step.ts,
     first |-> step.seq, last |-> step.seq,
     count |-> IF IsBudgetStep(step) THEN 0 ELSE 1]

\* The window that a step opens when it finds none open.
Fresh(step) ==
    [win |-> nextWin + Len(Preclosed(step)), tStart |-> step.ts, tEnd |-> step.ts,
     first |-> step.seq, last |-> step.seq,
     count |-> IF IsBudgetStep(step) THEN 0 ELSE 1]

\* Mutant of Joined: a window opened by a budget step keeps its null start id.
JoinedKeepsStart(step) ==
    [open EXCEPT !.tEnd = step.ts, !.last = step.seq, !.count = @ + 1]

\* A window that a budget step opened takes its first event's id here.
Joined(step) ==
    [open EXCEPT
        !.tEnd = step.ts,
        !.first = IF open.count <= 0 \/ @ = NoSeq THEN step.seq ELSE @,
        !.last = step.seq,
        !.count = @ + 1]

\* The window the step belongs to.
Working(step) ==
    IF IsOpen /\ Preclosed(step) = <<>> THEN Joined(step) ELSE Fresh(step)

ReachesThreshold(w) ==
    Credit(w.tEnd - w.tStart, w.count) >= EventThreshold * QuietHorizon

CloseReason(w) ==
    IF w.count >= Threshold THEN "event_threshold" ELSE "budget_threshold"

Postclosed(step) ==
    LET w == Working(step) IN
    IF ~IsBudgetStep(step) /\ ReachesThreshold(w)
    THEN <<Summary(w, w.tEnd, CloseReason(w))>>
    ELSE <<>>

\* Mutant of Fold: next_win_id starts over with each window that stays open.
FoldResetsNextWin(step) ==
    /\ step \in remaining
    /\ \A s \in remaining \ {step} : Precedes(step, s)
    /\ remaining' = remaining \ {step}
    /\ open' = IF Postclosed(step) = <<>> THEN Working(step) ELSE NoWindow
    /\ nextWin' = Len(Preclosed(step)) + Len(Postclosed(step))
    /\ closed' = closed \o Preclosed(step) \o Postclosed(step)
    /\ UNCHANGED <<timeout, events, finished>>

\* state_after_step_column
Fold(step) ==
    /\ step \in remaining
    /\ \A s \in remaining \ {step} : Precedes(step, s)
    /\ remaining' = remaining \ {step}
    /\ open' = IF Postclosed(step) = <<>> THEN Working(step) ELSE NoWindow
    /\ nextWin' = nextWin + Len(Preclosed(step)) + Len(Postclosed(step))
    /\ closed' = closed \o Preclosed(step) \o Postclosed(step)
    /\ UNCHANGED <<timeout, events, finished>>

\* Mutant of EndOfStream: the window still open is not emitted.
EndOfStreamDropsOpen ==
    /\ remaining = {}
    /\ ~finished
    /\ finished' = TRUE
    /\ UNCHANGED <<timeout, events, remaining, nextWin, open, closed>>

\* end_of_stream_windows_column, on the last segment of the flight
EndOfStream ==
    /\ remaining = {}
    /\ ~finished
    /\ finished' = TRUE
    /\ closed' = IF IsOpen /\ open.count > 0
                 THEN Append(closed, Summary(open, open.tEnd, "end_of_stream"))
                 ELSE closed
    /\ UNCHANGED <<timeout, events, remaining, nextWin, open>>

Next == (\E step \in remaining : Fold(step)) \/ EndOfStream

Spec == Init /\ [][Next]_vars
FairSpec == Spec /\ WF_vars(Next)
-----------------------------------------------------------------------------
EventIds == 1..Len(events)
Folded == {n \in EventIds : [ts |-> events[n], seq |-> n] \notin remaining}

\* The range join of _build_assignments.
Contains(w, n) == w.first # NoSeq /\ w.first <= n /\ n <= w.last

\* The windows built so far, the open one included.
Windows ==
    {closed[i] : i \in DOMAIN closed}
      \cup (IF IsOpen /\ ~finished THEN {Summary(open, open.tEnd, "open")} ELSE {})

WindowOf(reasons) ==
    [win : Nat \ {0}, tStart : Nat, tEnd : Nat, first : EventIds \cup {NoSeq},
     last : EventIds \cup {NoSeq}, count : 0..Len(events), reason : reasons]

CloseReasons ==
    {"inactivity_timeout", "budget_threshold", "event_threshold", "end_of_stream"}

TypeOK ==
    /\ timeout \in InactivityTimeouts
    /\ events \in Flights
    /\ remaining \subseteq Steps(events)
    /\ nextWin \in Nat \ {0}
    /\ IsOpen => Summary(open, open.tEnd, "open") \in WindowOf({"open"})
    /\ closed \in Seq(WindowOf(CloseReasons))
    /\ finished \in BOOLEAN

\* Window ids number the windows of a flight 1, 2, 3, ... in the order they
\* close; (tail_id, flight_id, win_id) is the key later stages join on.
WindowIdsContiguous ==
    /\ \A i \in DOMAIN closed : closed[i].win = i
    /\ ~finished => nextWin = Len(closed) + 1
    /\ IsOpen /\ ~finished => open.win = nextWin

\* The range join of _build_assignments gives every folded event exactly one
\* window, although windows may be opened by a budget step, which has no
\* event id of its own.
EachEventInOneWindow ==
    \A n \in Folded : Cardinality({w \in Windows : Contains(w, n)}) = 1

\* event_count, counted step by step, is the number of events that the range
\* join assigns; an empty window has a null range.
CountsMatchRanges ==
    \A w \in Windows :
        /\ w.count = Cardinality({n \in Folded : Contains(w, n)})
        /\ w.count = 0 <=> w.last = NoSeq

\* Windows do not overlap in time, are ordered by id, and each of their
\* events happened within their bounds.
WindowsOrderedInTime ==
    /\ \A i, j \in DOMAIN closed : i < j => closed[i].tEnd <= closed[j].tStart
    /\ \A w \in Windows :
        /\ w.tStart <= w.tEnd
        /\ \A n \in Folded : Contains(w, n) => events[n] \in w.tStart..w.tEnd

\* Together: the windows partition the events of the flight, in order.
WindowsPartitionEvents ==
    EachEventInOneWindow /\ CountsMatchRanges /\ WindowsOrderedInTime

\* Budget steps come at multiples of the threshold in the credit of the whole
\* flight, not of the open window, so a window may pass its own budget in
\* quiet time.  It still ends before it has spent two budgets (the last event
\* or the last millisecond of quiet time included), and it never holds more
\* events than the threshold.
BudgetCap ==
    \A w \in Windows :
        /\ w.count <= Threshold
        /\ Credit(w.tEnd - w.tStart, w.count) < 2 * BoundaryCredit + QuietHorizon

\* With an inactivity timeout, events that far apart never share a window,
\* even when budget steps fall between them.
QuietSplitsWindows ==
    \A n \in Folded : \A w \in Windows :
        timeout > 0 /\ Contains(w, n) /\ Contains(w, n + 1)
            => events[n + 1] - events[n] < timeout

\* The stream ends with every event assigned to a window that was emitted.
EveryEventAssigned ==
    <>(/\ finished
       /\ \A n \in EventIds : \E i \in DOMAIN closed : Contains(closed[i], n))
=============================================================================
