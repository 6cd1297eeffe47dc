------------------------ MODULE AdaptiveWindowsProofs ------------------------
(***************************************************************************)
(* Theorems of AdaptiveWindows, for every policy and every set of flights.  *)
(*                                                                          *)
(* First the ids: they are given from next_win_id, and the fold appends a   *)
(* window under the id that next_win_id had when it was opened.             *)
(*                                                                          *)
(* Then the partition.  The steps are folded in an order that takes the     *)
(* events in turn; the closed windows hold the events up to some e, without *)
(* a gap and in order of time, and the open window those from there up to   *)
(* the last event folded.  Where the budget steps fall plays no part in it. *)
(***************************************************************************)
EXTENDS AdaptiveWindows, SequenceTheorems, FiniteSetTheorems, TLAPS

OpenRecord ==
    [win : Nat, tStart : Int, tEnd : Int, first : Nat, last : Nat, count : Nat]

ClosedRecord ==
    [win : Nat, tStart : Int, tEnd : Int, first : Nat, last : Nat, count : Nat,
     reason : CloseReasons]

Shape ==
    /\ events \in Flights
    /\ remaining \subseteq Steps(events)
    /\ nextWin \in Nat
    /\ open \in OpenRecord
    /\ closed \in Seq(ClosedRecord)
    /\ finished \in BOOLEAN

\* The invariant that the steps preserve.
IInv ==
    /\ Shape
    /\ WindowIdsContiguous
    /\ finished => remaining = {}

\* A step has an integer time and the id of an event or none.
LEMMA StepIsTyped ==
    ASSUME NEW ev \in Flights, NEW step \in Steps(ev)
    PROVE  step.ts \in Int /\ step.seq \in Nat
<1>1. IsFlight(ev)
  BY FlightsAssumption
<1>2. ev \in Seq(Nat) /\ Len(ev) \in Nat
  BY <1>1 DEF IsFlight
<1>3. CASE step \in EventSteps(ev)
  BY <1>2, <1>3 DEF EventSteps
<1>4. CASE \E n \in 1..Len(ev) : step \in BudgetStepsAfter(ev, n)
  <2>1. PICK n \in 1..Len(ev) : step \in BudgetStepsAfter(ev, n)
    BY <1>4
  <2>2. PICK k \in Boundaries(ev, n) :
            step = [ts |-> BoundaryTime(ev, n, k), seq |-> NoSeq]
    BY <2>1 DEF BudgetStepsAfter
  <2>3. k \in Int
    BY <2>2 DEF Boundaries
  <2>4. Threshold \in Int /\ Threshold > 0 /\ QuietHorizon \in Int
    BY WindowPolicyAssumption DEF Threshold, QuietHorizon
  <2>5. DEFINE units == k * Threshold - n
  <2>6. units \in Int
    BY <2>3, <2>4
  <2>7. units * QuietHorizon + Threshold - 1 \in Int
    BY <2>4, <2>6
  <2>8. ElapsedFor(units) \in Int
    BY <2>4, <2>7 DEF ElapsedFor
  <2>9. ev[1] \in Nat
    BY <1>1, <1>2 DEF IsFlight
  <2>10. BoundaryTime(ev, n, k) \in Int
    BY <2>8, <2>9 DEF BoundaryTime
  <2>. QED
    BY <2>2, <2>10 DEF NoSeq
<1>. QED
  BY <1>3, <1>4 DEF Steps

\* The start of the fold: no window, the first id is 1.
LEMMA InitIInv == Init => IInv
<1>. SUFFICES ASSUME Init PROVE IInv
  OBVIOUS
<1>1. Shape
  <2>1. open \in OpenRecord
    BY DEF Init, NoWindow, NoSeq, OpenRecord
  <2>2. closed \in Seq(ClosedRecord)
    BY DEF Init
  <2>. QED
    BY <2>1, <2>2 DEF Init, Shape
<1>2. WindowIdsContiguous
  BY DEF Init, WindowIdsContiguous, IsOpen
<1>. QED
  BY <1>1, <1>2 DEF Init, IInv

\* What the fold of a step appends and leaves open.
LEMMA FoldParts ==
    ASSUME IInv, ~finished, NEW step \in remaining
    PROVE  /\ Preclosed(step) = <<>> \/
                \E w \in ClosedRecord : Preclosed(step) = <<w>> /\ w.win = nextWin
           /\ Working(step) \in OpenRecord
           /\ Working(step).win = nextWin + Len(Preclosed(step))
           /\ Postclosed(step) = <<>> \/
                \E w \in ClosedRecord :
                    Postclosed(step) = <<w>> /\ w.win = Working(step).win
<1>1. step.ts \in Int /\ step.seq \in Nat
  BY StepIsTyped DEF IInv, Shape
<1>2. nextWin \in Nat /\ open \in OpenRecord /\ (IsOpen => open.win = nextWin)
  BY DEF IInv, Shape, WindowIdsContiguous
<1>3. \A w \in OpenRecord : \A t \in Int : \A r \in CloseReasons :
          Summary(w, t, r) \in ClosedRecord /\ Summary(w, t, r).win = w.win
  BY DEF Summary, OpenRecord, ClosedRecord
<1>4. open.tEnd \in Int
  BY <1>2 DEF OpenRecord
<1>5. Preclosed(step) = <<>> \/
        \E w \in ClosedRecord : Preclosed(step) = <<w>> /\ w.win = nextWin
  <2>1. CASE ~IsOpen
    BY <2>1 DEF Preclosed
  <2>2. CASE IsOpen /\ Inactive(step)
    <3>1. Preclosed(step) = <<Summary(open, open.tEnd, "inactivity_timeout")>>
      BY <2>2 DEF Preclosed
    <3>. QED
      BY <1>2, <1>3, <1>4, <2>2, <3>1 DEF CloseReasons
  <2>3. CASE IsOpen /\ ~Inactive(step) /\ IsBudgetStep(step)
    <3>1. Preclosed(step) = <<Summary(open, step.ts, "budget_threshold")>>
      BY <2>3 DEF Preclosed
    <3>. QED
      BY <1>1, <1>2, <1>3, <2>3, <3>1 DEF CloseReasons
  <2>4. CASE IsOpen /\ ~Inactive(step) /\ ~IsBudgetStep(step)
    BY <2>4 DEF Preclosed
  <2>. QED
    BY <2>1, <2>2, <2>3, <2>4
<1>6. Len(Preclosed(step)) \in Nat
  BY <1>5
<1>7. Fresh(step) \in OpenRecord /\ Fresh(step).win = nextWin + Len(Preclosed(step))
  BY <1>1, <1>2, <1>6 DEF Fresh, OpenRecord
<1>8. IsOpen => Joined(step) \in OpenRecord /\ Joined(step).win = nextWin
  <2>. DEFINE first == IF open.count <= 0 \/ open.first = NoSeq THEN step.seq
                       ELSE open.first
              j1 == [open EXCEPT !.tEnd = step.ts]
              j2 == [j1 EXCEPT !.first = first]
              j3 == [j2 EXCEPT !.last = step.seq]
              j4 == [j3 EXCEPT !.count = open.count + 1]
  <2>1. first \in Nat /\ open.count + 1 \in Nat
    BY <1>1, <1>2 DEF OpenRecord
  <2>2. j1 \in OpenRecord /\ j1.win = open.win
    BY <1>1, <1>2 DEF OpenRecord
  <2>3. j2 \in OpenRecord /\ j2.win = open.win
    BY <2>1, <2>2 DEF OpenRecord
  <2>4. j3 \in OpenRecord /\ j3.win = open.win
    BY <1>1, <2>3 DEF OpenRecord
  <2>5. j4 \in OpenRecord /\ j4.win = open.win
    BY <2>1, <2>4 DEF OpenRecord
  <2>6. Joined(step) = j4
    BY <1>2 DEF Joined, OpenRecord
  <2>. QED
    BY <1>2, <2>5, <2>6
<1>9. Working(step) \in OpenRecord /\ Working(step).win = nextWin + Len(Preclosed(step))
  BY <1>2, <1>7, <1>8 DEF Working
<1>10. Working(step).tEnd \in Int
  BY <1>9 DEF OpenRecord
<1>11. CloseReason(Working(step)) \in CloseReasons
  BY DEF CloseReason, CloseReasons
<1>12. Postclosed(step) = <<>> \/
         \E w \in ClosedRecord : Postclosed(step) = <<w>> /\ w.win = Working(step).win
  BY <1>3, <1>9, <1>10, <1>11 DEF Postclosed
<1>. QED
  BY <1>5, <1>9, <1>12

\* Appending at most one window of the next id to a list numbered by id.
LEMMA AppendNext ==
    ASSUME NEW s \in Seq(ClosedRecord), NEW t,
           \A i \in DOMAIN s : s[i].win = i,
           t = <<>> \/ \E w \in ClosedRecord : t = <<w>> /\ w.win = Len(s) + 1
    PROVE  /\ s \o t \in Seq(ClosedRecord)
           /\ Len(s \o t) = Len(s) + Len(t)
           /\ Len(t) \in Nat
           /\ \A i \in DOMAIN (s \o t) : (s \o t)[i].win = i
<1>1. CASE t = <<>>
  BY <1>1
<1>2. CASE \E w \in ClosedRecord : t = <<w>> /\ w.win = Len(s) + 1
  <2>1. PICK w \in ClosedRecord : t = <<w>> /\ w.win = Len(s) + 1
    BY <1>2
  <2>2. t \in Seq(ClosedRecord) /\ Len(t) = 1 /\ t[1] = w
    BY <2>1
  <2>3. s \o t \in Seq(ClosedRecord) /\ Len(s \o t) = Len(s) + 1
    BY <2>2, ConcatProperties
  <2>4. \A i \in 1..Len(s) : (s \o t)[i] = s[i]
    BY <2>2, ConcatProperties
  <2>5. (s \o t)[Len(s) + 1] = w
    <3>1. Len(s) \in Nat
      OBVIOUS
    <3>2. (s \o t)[Len(s) + 1] = t[(Len(s) + 1) - Len(s)]
      BY <2>2, <3>1, ConcatProperties
    <3>. QED
      BY <2>2, <3>1, <3>2
  <2>6. \A i \in DOMAIN (s \o t) : i \in 1..Len(s) \/ i = Len(s) + 1
    BY <2>3
  <2>. QED
    BY <2>1, <2>2, <2>3, <2>4, <2>5, <2>6
<1>. QED
  BY <1>1, <1>2

\* One step of the fold keeps the invariant.
LEMMA FoldIInv ==
    ASSUME IInv, NEW step \in remaining, Fold(step)
    PROVE  IInv'
<1>1. ~finished
  BY DEF IInv
<1>. DEFINE pre == Preclosed(step)
            post == Postclosed(step)
            mid == closed \o pre
<1>2. /\ pre = <<>> \/ \E w \in ClosedRecord : pre = <<w>> /\ w.win = nextWin
      /\ Working(step) \in OpenRecord
      /\ Working(step).win = nextWin + Len(pre)
      /\ post = <<>> \/
           \E w \in ClosedRecord : post = <<w>> /\ w.win = Working(step).win
  BY <1>1, FoldParts
<1>3. /\ closed \in Seq(ClosedRecord)
      /\ \A i \in DOMAIN closed : closed[i].win = i
      /\ nextWin = Len(closed) + 1
  BY <1>1 DEF IInv, Shape, WindowIdsContiguous
<1>4. /\ mid \in Seq(ClosedRecord)
      /\ Len(mid) = Len(closed) + Len(pre)
      /\ Len(pre) \in Nat
      /\ \A i \in DOMAIN mid : mid[i].win = i
  <2>. HIDE DEF pre
  <2>. QED
    BY <1>2, <1>3, AppendNext
<1>5. Len(closed) \in Nat
  BY <1>3
<1>6. Working(step).win = Len(mid) + 1
  BY <1>2, <1>3, <1>4, <1>5
<1>7. /\ mid \o post \in Seq(ClosedRecord)
      /\ Len(mid \o post) = Len(mid) + Len(post)
      /\ Len(post) \in Nat
      /\ \A i \in DOMAIN (mid \o post) : (mid \o post)[i].win = i
  <2>. HIDE DEF mid, post
  <2>. QED
    BY <1>2, <1>4, <1>6, AppendNext
<1>8. closed' = mid \o post
  BY DEF Fold
<1>9. nextWin' = Len(closed') + 1 /\ nextWin' \in Nat
  BY <1>3, <1>4, <1>5, <1>7, <1>8 DEF Fold
<1>10. open' \in OpenRecord
  BY <1>2 DEF Fold, NoWindow, NoSeq, OpenRecord
<1>11. IsOpen' => open'.win = nextWin'
  <2>. SUFFICES ASSUME IsOpen' PROVE open'.win = nextWin'
    OBVIOUS
  <2>1. post = <<>> /\ open' = Working(step)
    BY DEF Fold, IsOpen
  <2>. QED
    BY <1>2, <1>3, <1>5, <1>4, <2>1 DEF Fold
<1>12. Shape'
  BY <1>7, <1>8, <1>9, <1>10 DEF Shape, IInv, Fold
<1>13. WindowIdsContiguous'
  BY <1>7, <1>8, <1>9, <1>11 DEF WindowIdsContiguous
<1>. QED
  BY <1>1, <1>12, <1>13 DEF IInv, Fold

\* The end of the stream keeps the invariant.
LEMMA EndOfStreamIInv ==
    ASSUME IInv, EndOfStream
    PROVE  IInv'
<1>1. ~finished /\ remaining = {} /\ finished' = TRUE
  BY DEF EndOfStream
<1>. DEFINE last == IF IsOpen /\ open.count > 0
                    THEN <<Summary(open, open.tEnd, "end_of_stream")>>
                    ELSE <<>>
<1>2. /\ closed \in Seq(ClosedRecord)
      /\ \A i \in DOMAIN closed : closed[i].win = i
      /\ open \in OpenRecord
      /\ IsOpen => open.win = Len(closed) + 1
  BY <1>1 DEF IInv, Shape, WindowIdsContiguous
<1>3. last = <<>> \/ \E w \in ClosedRecord : last = <<w>> /\ w.win = Len(closed) + 1
  BY <1>2 DEF Summary, OpenRecord, ClosedRecord, CloseReasons
<1>4. /\ closed \o last \in Seq(ClosedRecord)
      /\ \A i \in DOMAIN (closed \o last) : (closed \o last)[i].win = i
  <2>. HIDE DEF last
  <2>. QED
    BY <1>2, <1>3, AppendNext
<1>5. closed' = closed \o last
  <2>1. Append(closed, Summary(open, open.tEnd, "end_of_stream"))
          = closed \o <<Summary(open, open.tEnd, "end_of_stream")>>
    BY <1>2, AppendIsConcat DEF Summary, OpenRecord, ClosedRecord, CloseReasons
  <2>2. closed \o <<>> = closed
    BY <1>2, ConcatEmptySeq
  <2>. QED
    BY <2>1, <2>2 DEF EndOfStream
<1>6. Shape'
  BY <1>1, <1>4, <1>5 DEF IInv, Shape, EndOfStream
<1>7. WindowIdsContiguous'
  BY <1>1, <1>4, <1>5 DEF WindowIdsContiguous
<1>. QED
  BY <1>1, <1>6, <1>7 DEF IInv, EndOfStream

\* The windows of a flight are numbered 1, 2, 3, ... in the order they close,
\* whatever the policy: the (tail_id, flight_id, win_id) key is unique.
THEOREM IdsAreContiguous == Spec => []WindowIdsContiguous
<1>1. Init => IInv
  BY InitIInv
<1>2. IInv /\ [Next]_vars => IInv'
  <2>. SUFFICES ASSUME IInv, [Next]_vars PROVE IInv'
    OBVIOUS
  <2>1. CASE \E step \in remaining : Fold(step)
    BY <2>1, FoldIInv
  <2>2. CASE EndOfStream
    BY <2>2, EndOfStreamIInv
  <2>3. CASE UNCHANGED vars
    BY <2>3 DEF vars, IInv, Shape, WindowIdsContiguous, IsOpen
  <2>. QED
    BY <2>1, <2>2, <2>3 DEF Next
<1>3. IInv => WindowIdsContiguous
  BY DEF IInv
<1>. QED
  BY <1>1, <1>2, <1>3, PTL DEF Spec

-----------------------------------------------------------------------------
(* The partition of the events.                                             *)


WindowRecord ==
    [win : Nat, tStart : Int, tEnd : Int, first : Nat, last : Nat, count : Nat,
     reason : CloseReasons \cup {"open"}]

\* Window w holds the events lo + 1 to hi of flight ev, no two of them in a
\* row limit or more apart, if there is a limit.
Holds(ev, limit, w, lo, hi) ==
    /\ w.count = hi - lo /\ w.tStart <= w.tEnd
    /\ lo = hi => w.first = NoSeq /\ w.last = NoSeq
    /\ lo < hi => w.first = lo + 1 /\ w.last = hi
    /\ \A n \in (lo + 1)..hi : ev[n] \in w.tStart..w.tEnd
    /\ limit > 0 => \A n \in (lo + 1)..(hi - 1) : ev[n + 1] - ev[n] < limit

\* The windows of s have ended by time t.
Ended(s, t) == \A i \in DOMAIN s : s[i].tEnd <= t

\* The windows of s, in order of time, partition the events up to f.
Chain(ev, limit, s, f) ==
    /\ s \in Seq(WindowRecord)
    /\ \A i \in DOMAIN s : \E lo, hi \in 0..f : Holds(ev, limit, s[i], lo, hi)
    /\ \A i, j \in DOMAIN s : i < j => s[i].tEnd <= s[j].tStart
    /\ \A n \in 1..f : \E i \in DOMAIN s : Contains(s[i], n)
    /\ \A i, j \in DOMAIN s : \A n \in 1..f :
            Contains(s[i], n) /\ Contains(s[j], n) => i = j

EventStep(ev, n) == [ts |-> ev[n], seq |-> n]

IsLive == IsOpen /\ ~finished

\* The events up to f have been folded, and those up to e lie in closed
\* windows.
Parts(e, f) ==
    /\ e \in 0..f /\ f \in 0..Len(events)
    /\ \A n \in EventIds : EventStep(events, n) \in remaining <=> f < n
    /\ Chain(events, timeout, closed, e)
    /\ IsLive => /\ Holds(events, timeout, open, e, f)
                 /\ Ended(closed, open.tStart)
                 /\ e < f => open.tEnd = events[f]
    /\ ~IsLive => e = f
    /\ \A s \in remaining :
            Ended(closed, s.ts) /\ (IsOpen => open.tEnd <= s.ts)

\* The inductive invariant.
PartInv ==
    /\ IInv
    /\ timeout \in Int
    /\ \E e, f \in Nat : Parts(e, f)

-----------------------------------------------------------------------------
(* Lemmas about windows and lists of windows.                               *)

\* The range of a window is the events that it holds.
LEMMA HoldsRange ==
    ASSUME NEW ev, NEW limit, NEW w, NEW lo \in Nat, NEW hi \in Nat, lo <= hi,
           Holds(ev, limit, w, lo, hi), NEW n \in Nat \ {0}
    PROVE  Contains(w, n) <=> n \in (lo + 1)..hi
<1>1. CASE lo = hi
  <2>1. w.first = NoSeq
    BY <1>1 DEF Holds
  <2>2. QED
    BY <1>1, <2>1 DEF Contains
<1>2. CASE lo < hi
  <2>1. w.first = lo + 1 /\ w.last = hi
    BY <1>2 DEF Holds
  <2>2. QED
    BY <2>1 DEF Contains, NoSeq
<1>3. QED
  BY <1>1, <1>2

\* What a window holds does not depend on its number or its reason, nor on an
\* end that is moved to a later time.
LEMMA SummaryHolds ==
    ASSUME NEW ev, NEW limit, NEW w \in OpenRecord, NEW lo \in Nat, NEW hi \in Nat,
           Holds(ev, limit, w, lo, hi), NEW t \in Int, w.tEnd <= t,
           NEW reason \in CloseReasons \cup {"open"}
    PROVE  /\ Summary(w, t, reason) \in WindowRecord
           /\ Holds(ev, limit, Summary(w, t, reason), lo, hi)
           /\ Summary(w, t, reason).tStart = w.tStart
           /\ Summary(w, t, reason).tEnd = t
<1>1. w.tStart \in Int /\ w.tEnd \in Int
  BY DEF OpenRecord
<1> DEFINE x == Summary(w, t, reason)
<1>2. /\ x.count = w.count /\ x.tStart = w.tStart /\ x.tEnd = t
      /\ x.first = w.first /\ x.last = w.last
  BY DEF Summary
<1>3. x \in WindowRecord
  BY DEF Summary, OpenRecord, WindowRecord
<1>4. w.tStart <= t
  BY <1>1 DEF Holds
<1>5. \A n \in (lo + 1)..hi : ev[n] \in w.tStart..t
  BY <1>1 DEF Holds
<1> HIDE DEF x
<1>6. Holds(ev, limit, x, lo, hi)
  BY <1>2, <1>4, <1>5 DEF Holds
<1>7. QED
  BY <1>2, <1>3, <1>6 DEF x

\* The summary of a window, which a close appends, holds what the window held.
LEMMA SummaryKeeps ==
    ASSUME NEW ev, NEW limit, NEW w \in OpenRecord, NEW lo \in Nat, NEW hi \in Nat,
           Holds(ev, limit, w, lo, hi), NEW reason \in CloseReasons \cup {"open"}
    PROVE  /\ Summary(w, w.tEnd, reason) \in WindowRecord
           /\ Holds(ev, limit, Summary(w, w.tEnd, reason), lo, hi)
           /\ Summary(w, w.tEnd, reason).tStart = w.tStart
           /\ Summary(w, w.tEnd, reason).tEnd = w.tEnd
<1>1. ASSUME NEW t \in Int, w.tEnd <= t
      PROVE  /\ Summary(w, t, reason) \in WindowRecord
             /\ Holds(ev, limit, Summary(w, t, reason), lo, hi)
             /\ Summary(w, t, reason).tStart = w.tStart
             /\ Summary(w, t, reason).tEnd = t
  BY <1>1, SummaryHolds
<1>2. w.tEnd \in Int /\ w.tEnd <= w.tEnd
  BY DEF OpenRecord
<1>3. QED
  BY <1>1, <1>2

\* A window that starts when the others have ended and holds the next events
\* extends the partition.
LEMMA ChainGrows ==
    ASSUME NEW ev, NEW limit, NEW s, NEW f \in Nat, NEW g \in Nat, f <= g,
           Chain(ev, limit, s, f), NEW w \in WindowRecord,
           Holds(ev, limit, w, f, g), Ended(s, w.tStart)
    PROVE  /\ Chain(ev, limit, s \o <<w>>, g)
           /\ \A t \in Int : Ended(s, t) /\ w.tEnd <= t => Ended(s \o <<w>>, t)
<1> DEFINE r == s \o <<w>>
           last == Len(s) + 1
<1>1. s \in Seq(WindowRecord) /\ Len(s) \in Nat /\ DOMAIN s = 1..Len(s)
  BY DEF Chain
<1>2. /\ r \in Seq(WindowRecord) /\ DOMAIN r = 1..last
      /\ \A i \in 1..Len(s) : r[i] = s[i]
      /\ r[last] = w
  BY <1>1
<1> HIDE DEF r
<1>3. \A i \in DOMAIN r : (i \in DOMAIN s /\ i < last) \/ i = last
  BY <1>1, <1>2
<1>4. \A i \in DOMAIN s : r[i] = s[i] /\ i \in DOMAIN r
  BY <1>1, <1>2
<1>5. last \in DOMAIN r
  BY <1>1, <1>2
<1>6. \A n \in Nat \ {0} : Contains(w, n) <=> n \in (f + 1)..g
  BY HoldsRange
<1>7. ASSUME NEW i \in DOMAIN s, NEW n \in 1..g, Contains(s[i], n)
      PROVE  n <= f
  <2>1. PICK lo \in 0..f, hi \in 0..f : Holds(ev, limit, s[i], lo, hi)
    BY DEF Chain
  <2>2. lo \in Nat /\ hi \in Nat /\ s[i].count \in Nat
    <3>1. s[i] \in WindowRecord
      BY <1>1
    <3>2. QED
      BY <3>1 DEF WindowRecord
  <2>3. lo <= hi
    BY <2>1, <2>2 DEF Holds
  <2>4. n \in (lo + 1)..hi
    BY <1>7, <2>1, <2>2, <2>3, HoldsRange
  <2>5. QED
    BY <2>1, <2>4
<1>8. ASSUME NEW i \in DOMAIN r
      PROVE  \E lo, hi \in 0..g : Holds(ev, limit, r[i], lo, hi)
  <2>1. CASE i \in DOMAIN s
    <3>1. PICK lo \in 0..f, hi \in 0..f : Holds(ev, limit, s[i], lo, hi)
      BY <2>1 DEF Chain
    <3>2. lo \in 0..g /\ hi \in 0..g /\ r[i] = s[i]
      BY <1>4, <2>1
    <3>3. QED
      BY <3>1, <3>2
  <2>2. CASE i = last
    BY <1>2, <2>2
  <2>3. QED
    BY <1>3, <2>1, <2>2
<1>9. ASSUME NEW i \in DOMAIN r, NEW j \in DOMAIN r, i < j
      PROVE  r[i].tEnd <= r[j].tStart
  <2>1. i \in DOMAIN s
    BY <1>1, <1>2, <1>3, <1>9
  <2>2. CASE j \in DOMAIN s
    BY <1>4, <1>9, <2>1, <2>2 DEF Chain
  <2>3. CASE j = last
    BY <1>2, <1>4, <2>1, <2>3 DEF Ended
  <2>4. QED
    BY <1>3, <2>2, <2>3
<1>10. ASSUME NEW n \in 1..g
       PROVE  \E i \in DOMAIN r : Contains(r[i], n)
  <2>1. CASE n <= f
    <3>1. PICK i \in DOMAIN s : Contains(s[i], n)
      BY <2>1 DEF Chain
    <3>2. QED
      BY <1>4, <3>1
  <2>2. CASE n > f
    <3>1. Contains(w, n)
      BY <1>6, <2>2
    <3>2. QED
      BY <1>2, <1>5, <3>1
  <2>3. QED
    BY <2>1, <2>2
<1>11. ASSUME NEW i \in DOMAIN r, NEW j \in DOMAIN r, NEW n \in 1..g,
              Contains(r[i], n), Contains(r[j], n)
       PROVE  i = j
  <2>1. ASSUME NEW k \in DOMAIN r, Contains(r[k], n)
        PROVE  k = last <=> f < n
    <3>1. CASE k \in DOMAIN s /\ k < last
      BY <1>4, <1>7, <2>1, <3>1
    <3>2. CASE k = last
      BY <1>2, <1>6, <2>1, <3>2
    <3>3. QED
      BY <1>3, <3>1, <3>2
  <2>2. CASE f < n
    BY <1>11, <2>1, <2>2
  <2>3. CASE ~(f < n)
    <3>1. i \in DOMAIN s /\ j \in DOMAIN s /\ n \in 1..f
      BY <1>3, <1>11, <2>1, <2>3
    <3>2. Contains(s[i], n) /\ Contains(s[j], n)
      BY <1>4, <1>11, <3>1
    <3>3. QED
      BY <3>1, <3>2 DEF Chain
  <2>4. QED
    BY <2>2, <2>3
<1>12. Chain(ev, limit, r, g)
  BY <1>2, <1>8, <1>9, <1>10, <1>11 DEF Chain
<1>13. ASSUME NEW t \in Int, Ended(s, t), w.tEnd <= t
       PROVE  Ended(r, t)
  BY <1>2, <1>3, <1>4, <1>13 DEF Ended
<1>14. QED
  BY <1>12, <1>13 DEF r

-----------------------------------------------------------------------------
(* The steps of a flight, in order.                                         *)

\* The events of a flight have natural times and come in order.
LEMMA FlightIsTyped ==
    ASSUME NEW ev \in Flights
    PROVE  /\ Len(ev) \in Nat
           /\ \A n \in 1..Len(ev) : ev[n] \in Nat
           /\ \A m, n \in 1..Len(ev) : m <= n => ev[m] <= ev[n]
<1>1. IsFlight(ev)
  BY FlightsAssumption
<1>2. QED
  BY <1>1 DEF IsFlight

\* A step with an event id is the step of that event.
LEMMA StepOfEvent ==
    ASSUME NEW ev \in Flights, NEW step \in Steps(ev), ~IsBudgetStep(step)
    PROVE  step.seq \in 1..Len(ev) /\ step = EventStep(ev, step.seq)
<1>1. CASE step \in EventSteps(ev)
  BY <1>1 DEF EventSteps, EventStep
<1>2. CASE \E n \in 1..Len(ev) : step \in BudgetStepsAfter(ev, n)
  BY <1>2 DEF BudgetStepsAfter, IsBudgetStep
<1>3. QED
  BY <1>1, <1>2 DEF Steps

\* How many events have been folded after a step.
After(step, f) == IF IsBudgetStep(step) THEN f ELSE f + 1

\* The least step, if it is an event, is the next one, and no step that is
\* left is before it.
LEMMA TakesNext ==
    ASSUME IInv, NEW e \in Nat, NEW f \in Nat, Parts(e, f),
           NEW step \in remaining, Fold(step)
    PROVE  /\ ~IsBudgetStep(step) =>
                f + 1 \in 1..Len(events) /\ step = EventStep(events, f + 1)
           /\ \A n \in EventIds :
                EventStep(events, n) \in remaining' <=> After(step, f) < n
           /\ \A s \in remaining' : s \in remaining /\ step.ts <= s.ts
<1>1. events \in Flights /\ step \in Steps(events) /\ remaining \subseteq Steps(events)
  BY DEF IInv, Shape
<1>2. /\ Len(events) \in Nat
      /\ \A n \in 1..Len(events) : events[n] \in Nat
      /\ \A m, n \in 1..Len(events) : m <= n => events[m] <= events[n]
  BY <1>1, FlightIsTyped
<1>3. /\ \A s \in remaining \ {step} : Precedes(step, s)
      /\ remaining' = remaining \ {step}
  BY DEF Fold
<1>4. \A n \in 1..Len(events) : EventStep(events, n) \in remaining <=> f < n
  BY DEF Parts, EventIds
<1>5. ASSUME ~IsBudgetStep(step)
      PROVE  f + 1 \in 1..Len(events) /\ step = EventStep(events, f + 1)
  <2>1. step.seq \in 1..Len(events) /\ step = EventStep(events, step.seq)
    BY <1>1, <1>5, StepOfEvent
  <2>2. f < step.seq
    BY <1>4, <2>1
  <2>3. f + 1 \in 1..Len(events) /\ f + 1 <= step.seq
    BY <1>2, <2>1, <2>2
  <2>4. EventStep(events, f + 1) \in remaining
    BY <1>4, <2>3
  <2>5. SUFFICES ASSUME step.seq # f + 1 PROVE FALSE
    BY <2>1, <2>3
  <2>6. EventStep(events, f + 1) # step
    BY <2>5 DEF EventStep
  <2>7. Precedes(step, EventStep(events, f + 1))
    BY <1>3, <2>4, <2>6
  <2>8. step.ts = events[step.seq]
    BY <2>1 DEF EventStep
  <2>9. events[f + 1] <= step.ts /\ step.ts \in Nat /\ events[f + 1] \in Nat
    BY <1>2, <2>1, <2>3, <2>8
  <2>10. QED
    BY <2>1, <2>3, <2>5, <2>7, <2>9 DEF Precedes, EventStep
<1>6. ASSUME NEW n \in 1..Len(events)
      PROVE  EventStep(events, n) \in remaining' <=> After(step, f) < n
  <2>1. CASE IsBudgetStep(step)
    <3>1. EventStep(events, n) # step
      BY <2>1 DEF EventStep, IsBudgetStep, NoSeq
    <3>2. QED
      BY <1>3, <1>4, <2>1, <3>1 DEF After
  <2>2. CASE ~IsBudgetStep(step)
    <3>1. step = EventStep(events, f + 1)
      BY <1>5, <2>2
    <3>2. EventStep(events, n) = step <=> n = f + 1
      BY <3>1 DEF EventStep
    <3>3. After(step, f) = f + 1
      BY <2>2 DEF After
    <3>4. QED
      BY <1>3, <1>4, <3>2, <3>3
  <2>3. QED
    BY <2>1, <2>2
<1>7. ASSUME NEW s \in remaining'
      PROVE  s \in remaining /\ step.ts <= s.ts
  <2>1. s \in remaining \ {step} /\ Precedes(step, s)
    BY <1>3, <1>7
  <2>2. step.ts \in Int /\ s.ts \in Int
    BY <1>1, <2>1, StepIsTyped
  <2>3. QED
    BY <2>1, <2>2 DEF Precedes
<1>8. QED
  BY <1>5, <1>6, <1>7 DEF EventIds

-----------------------------------------------------------------------------
(* A step of the fold.                                                      *)

\* The events in closed windows when the step has closed the open one, or not.
ClosedTo(step, e, f) == IF IsOpen /\ Preclosed(step) = <<>> THEN e ELSE f

\* What the step closes before it belongs to the partition.
LEMMA PreclosedChain ==
    ASSUME IInv, ~finished, NEW e \in Nat, NEW f \in Nat, Parts(e, f),
           NEW step \in remaining
    PROVE  /\ Chain(events, timeout, closed \o Preclosed(step), ClosedTo(step, e, f))
           /\ Ended(closed \o Preclosed(step), step.ts)
           /\ IsOpen /\ Preclosed(step) = <<>> =>
                Ended(closed \o Preclosed(step), open.tStart)
<1>1. /\ events \in Flights /\ step.ts \in Int /\ open \in OpenRecord
      /\ e <= f /\ f <= Len(events) /\ Len(events) \in Nat
  BY StepIsTyped, FlightIsTyped DEF IInv, Shape, Parts
<1>3. Chain(events, timeout, closed, e) /\ closed \in Seq(WindowRecord)
  BY DEF Parts, Chain
<1>4. Ended(closed, step.ts)
  BY DEF Parts
<1>5. closed \o <<>> = closed
  BY <1>3
<1>6. ASSUME IsOpen, NEW t \in Int, open.tEnd <= t, t <= step.ts,
             NEW reason \in CloseReasons
      PROVE  /\ Chain(events, timeout, closed \o <<Summary(open, t, reason)>>, f)
             /\ Ended(closed \o <<Summary(open, t, reason)>>, step.ts)
  <2>1. Holds(events, timeout, open, e, f) /\ Ended(closed, open.tStart)
    BY <1>6 DEF Parts, IsLive
  <2> DEFINE w == Summary(open, t, reason)
  <2>2. /\ w \in WindowRecord /\ Holds(events, timeout, w, e, f)
        /\ w.tStart = open.tStart /\ w.tEnd = t
    <3>1. open \in OpenRecord /\ reason \in CloseReasons \cup {"open"} /\ open.tEnd <= t
      BY <1>1, <1>6
    <3>2. QED
      BY <2>1, <3>1, SummaryHolds
  <2> HIDE DEF w
  <2>3. Ended(closed, w.tStart)
    BY <2>1, <2>2
  <2>4. w.tEnd <= step.ts
    BY <1>6, <2>2
  <2>5. QED
    BY <1>1, <1>3, <1>4, <2>2, <2>3, <2>4, ChainGrows DEF w
<1>7. CASE ~IsOpen
  <2>1. Preclosed(step) = <<>> /\ e = f
    BY <1>7 DEF Preclosed, Parts, IsLive
  <2>2. QED
    BY <1>3, <1>4, <1>5, <1>7, <2>1 DEF ClosedTo
<1>8. CASE IsOpen /\ Preclosed(step) = <<>>
  <2>1. Ended(closed, open.tStart)
    BY <1>8 DEF Parts, IsLive
  <2>2. QED
    BY <1>3, <1>4, <1>5, <1>8, <2>1 DEF ClosedTo
<1>9. CASE IsOpen /\ Preclosed(step) # <<>>
  <2>1. open.tEnd \in Int /\ open.tEnd <= step.ts
    BY <1>1, <1>9 DEF Parts, OpenRecord
  <2>2. \E t \in Int : \E reason \in CloseReasons :
            /\ Preclosed(step) = <<Summary(open, t, reason)>>
            /\ open.tEnd <= t /\ t <= step.ts
    BY <1>1, <1>9, <2>1 DEF Preclosed, CloseReasons
  <2>3. PICK t \in Int, reason \in CloseReasons :
            /\ Preclosed(step) = <<Summary(open, t, reason)>>
            /\ open.tEnd <= t /\ t <= step.ts
    BY <2>2
  <2>4. ClosedTo(step, e, f) = f
    BY <1>9 DEF ClosedTo
  <2>5. QED
    BY <1>6, <1>9, <2>3, <2>4
<1>10. QED
  BY <1>7, <1>8, <1>9

\* The window that the step works on holds the events after those, the one of
\* the step included.
LEMMA WorkingHolds ==
    ASSUME IInv, ~finished, timeout \in Int, NEW e \in Nat, NEW f \in Nat,
           Parts(e, f), NEW step \in remaining, Fold(step)
    PROVE  LET w == Working(step)
               g == After(step, f)
               c == ClosedTo(step, e, f)
           IN  /\ Holds(events, timeout, w, c, g)
               /\ c \in Nat /\ g \in Nat /\ c <= g /\ g <= Len(events)
               /\ w.tEnd = step.ts /\ w.tStart \in Int /\ w.count \in Nat
               /\ c < g => w.tEnd = events[g]
               /\ Ended(closed \o Preclosed(step), w.tStart)
<1> DEFINE w == Working(step)
           g == After(step, f)
           c == ClosedTo(step, e, f)
<1>1. /\ events \in Flights /\ step.ts \in Int /\ open \in OpenRecord
      /\ e <= f /\ f <= Len(events) /\ Len(events) \in Nat
  BY StepIsTyped, FlightIsTyped DEF IInv, Shape, Parts
<1>2. ~IsBudgetStep(step) =>
        f + 1 \in 1..Len(events) /\ step = EventStep(events, f + 1)
  BY TakesNext
<1>3. ~IsBudgetStep(step) =>
        /\ f + 1 \in 1..Len(events) /\ step.seq = f + 1 /\ step.seq # NoSeq
        /\ step.ts = events[f + 1] /\ g = f + 1
  BY <1>2 DEF EventStep, NoSeq, After
<1>4. Ended(closed \o Preclosed(step), step.ts)
  BY PreclosedChain
<1>5. w \in OpenRecord
  BY FoldParts
<1>6. w.tStart \in Int /\ w.count \in Nat
  BY <1>5 DEF OpenRecord
<1>7. CASE ~(IsOpen /\ Preclosed(step) = <<>>)
  <2>1. w = Fresh(step) /\ c = f
    BY <1>7 DEF Working, ClosedTo
  <2>2. /\ w.tStart = step.ts /\ w.tEnd = step.ts
        /\ w.first = step.seq /\ w.last = step.seq
        /\ w.count = IF IsBudgetStep(step) THEN 0 ELSE 1
    BY <2>1 DEF Fresh
  <2> HIDE DEF w, c
  <2>3. CASE IsBudgetStep(step)
    <3>1. g = f /\ w.count = 0 /\ w.first = NoSeq /\ w.last = NoSeq
      BY <2>2, <2>3 DEF After, IsBudgetStep
    <3> HIDE DEF g
    <3>2. Holds(events, timeout, w, c, g)
      BY <1>1, <2>1, <2>2, <3>1 DEF Holds
    <3>3. QED
      BY <1>1, <1>4, <1>6, <2>1, <2>2, <3>1, <3>2 DEF w, g, c
  <2>4. CASE ~IsBudgetStep(step)
    <3>1. /\ g = f + 1 /\ w.count = 1 /\ w.first = f + 1 /\ w.last = f + 1
          /\ step.ts = events[f + 1] /\ f + 1 <= Len(events)
      BY <1>1, <1>3, <2>2, <2>4
    <3> HIDE DEF g
    <3>2. Holds(events, timeout, w, c, g)
      BY <1>1, <2>1, <2>2, <3>1 DEF Holds
    <3>3. QED
      BY <1>1, <1>4, <1>6, <2>1, <2>2, <3>1, <3>2 DEF w, g, c
  <2>5. QED
    BY <2>3, <2>4
<1>8. CASE IsOpen /\ Preclosed(step) = <<>>
  <2>1. w = Joined(step) /\ c = e
    BY <1>8 DEF Working, ClosedTo
  <2>2. ~IsBudgetStep(step) /\ ~Inactive(step)
    BY <1>8 DEF Preclosed
  <2>3. /\ Holds(events, timeout, open, e, f) /\ open.tEnd <= step.ts
        /\ e < f => open.tEnd = events[f]
    BY <1>8 DEF Parts, IsLive
  <2>4. /\ w.tStart = open.tStart /\ w.tEnd = step.ts /\ w.last = step.seq
        /\ w.count = open.count + 1
        /\ w.first = IF open.count <= 0 \/ open.first = NoSeq
                      THEN step.seq ELSE open.first
    BY <1>1, <2>1 DEF Joined, OpenRecord
  <2>5. /\ open.tStart \in Int /\ open.tEnd \in Int /\ open.count = f - e
        /\ open.tStart <= open.tEnd
    BY <1>1, <2>3 DEF OpenRecord, Holds
  <2>6. /\ g = f + 1 /\ step.seq = f + 1 /\ step.ts = events[f + 1]
        /\ f + 1 <= Len(events)
    BY <1>1, <1>3, <2>2
  <2> HIDE DEF w, c, g
  <2>7. w.count = g - e /\ w.last = g /\ w.tStart <= w.tEnd
    BY <1>1, <2>3, <2>4, <2>5, <2>6
  <2>8. w.first = e + 1
    <3>1. CASE e = f
      BY <2>4, <2>5, <2>6, <3>1
    <3>2. CASE e < f
      <4>1. open.first = e + 1
        BY <2>3, <3>2 DEF Holds
      <4>2. QED
        BY <1>1, <2>4, <2>5, <3>2, <4>1 DEF NoSeq
    <3>3. QED
      BY <1>1, <3>1, <3>2
  <2>9. ASSUME NEW n \in (e + 1)..g PROVE events[n] \in w.tStart..w.tEnd
    <3>1. CASE n = f + 1
      BY <1>1, <2>3, <2>4, <2>5, <2>6, <3>1
    <3>2. CASE n # f + 1
      <4>1. n \in (e + 1)..f
        BY <1>1, <2>6, <3>2
      <4>2. events[n] \in open.tStart..open.tEnd
        BY <2>3, <4>1 DEF Holds
      <4>3. QED
        BY <1>1, <2>3, <2>4, <2>5, <4>2
    <3>3. QED
      BY <3>1, <3>2
  <2>10. ASSUME timeout > 0, NEW n \in (e + 1)..(g - 1)
         PROVE  events[n + 1] - events[n] < timeout
    <3>1. CASE n = f
      <4>1. e < f /\ open.count > 0
        BY <1>1, <2>5, <3>1
      <4>2. ~(step.ts - open.tEnd >= timeout)
        BY <2>2, <2>10, <4>1 DEF Inactive
      <4>3. QED
        BY <1>1, <2>3, <2>5, <2>6, <3>1, <4>1, <4>2
    <3>2. CASE n # f
      <4>1. n \in (e + 1)..(f - 1)
        BY <1>1, <2>6, <3>2
      <4>2. QED
        BY <2>3, <2>10, <4>1 DEF Holds
    <3>3. QED
      BY <3>1, <3>2
  <2>11. e < g /\ g \in Nat
    BY <1>1, <2>6
  <2>12. Holds(events, timeout, w, e, g)
    BY <2>7, <2>8, <2>9, <2>10, <2>11 DEF Holds
  <2>13. Ended(closed \o Preclosed(step), open.tStart)
    BY <1>8, PreclosedChain
  <2>14. QED
    BY <1>1, <1>6, <2>1, <2>4, <2>6, <2>11, <2>12, <2>13 DEF w, g, c
<1>9. QED
  BY <1>7, <1>8

\* What has ended by one time has ended by a later one.
LEMMA EndedLater ==
    ASSUME NEW s \in Seq(WindowRecord), NEW t \in Int, NEW u \in Int, t <= u,
           Ended(s, t)
    PROVE  Ended(s, u)
<1>1. \A i \in DOMAIN s : s[i].tEnd \in Int
  <2>1. \A i \in DOMAIN s : s[i] \in WindowRecord
    OBVIOUS
  <2>2. QED
    BY <2>1 DEF WindowRecord
<1>2. QED
  BY <1>1 DEF Ended

\* A step of the fold keeps the invariant.
LEMMA FoldPartInv ==
    ASSUME PartInv, NEW step \in remaining, Fold(step)
    PROVE  PartInv'
<1>1. IInv /\ ~finished /\ timeout \in Int
  BY DEF PartInv, IInv
<1>2. IInv'
  BY <1>1, FoldIInv
<1>3. PICK e \in Nat, f \in Nat : Parts(e, f)
  BY DEF PartInv
<1> DEFINE w == Working(step)
           mid == closed \o Preclosed(step)
<1>4. PICK c \in Nat, g \in Nat :
        /\ c = ClosedTo(step, e, f) /\ g = After(step, f)
        /\ Holds(events, timeout, w, c, g)
        /\ c <= g /\ g <= Len(events)
        /\ w.tEnd = step.ts /\ w.tStart \in Int /\ w.count \in Nat
        /\ c < g => w.tEnd = events[g]
        /\ Ended(mid, w.tStart)
  BY <1>1, <1>3, WorkingHolds
<1>5. Chain(events, timeout, mid, c) /\ Ended(mid, step.ts)
  BY <1>1, <1>3, <1>4, PreclosedChain
<1>6. mid \in Seq(WindowRecord)
  BY <1>5 DEF Chain
<1>7. /\ events \in Flights /\ step.ts \in Int /\ w \in OpenRecord
      /\ Len(events) \in Nat
      /\ \A s \in remaining : s.ts \in Int
  BY <1>1, StepIsTyped, FlightIsTyped, FoldParts DEF IInv, Shape
<1>8. /\ \A n \in EventIds : EventStep(events, n) \in remaining' <=> g < n
      /\ \A s \in remaining' : s \in remaining /\ step.ts <= s.ts
  BY <1>1, <1>3, <1>4, TakesNext
<1>9. /\ open' = IF Postclosed(step) = <<>> THEN w ELSE NoWindow
      /\ closed' = mid \o Postclosed(step)
      /\ UNCHANGED <<timeout, events, finished>>
  BY DEF Fold
<1>10. timeout' \in Int /\ c \in 0..g /\ g \in 0..Len(events)
  BY <1>1, <1>4, <1>7, <1>9
<1> HIDE DEF w, mid
<1>11. CASE Postclosed(step) = <<>>
  <2>1. closed' = mid /\ open' = w
    BY <1>6, <1>9, <1>11
  <2>2. ~IsLive' => c = g
    <3>1. SUFFICES ASSUME w = NoWindow PROVE c = g
      BY <1>1, <1>9, <2>1 DEF IsLive, IsOpen
    <3>2. w.count = 0 /\ w.count = g - c
      BY <1>4, <3>1 DEF NoWindow, Holds
    <3>3. QED
      BY <1>4, <3>2
  <2>3. ASSUME NEW s \in remaining' PROVE Ended(closed', s.ts) /\ open'.tEnd <= s.ts
    <3>1. s.ts \in Int /\ step.ts <= s.ts
      BY <1>7, <1>8, <2>3
    <3>2. QED
      BY <1>4, <1>5, <1>6, <1>7, <2>1, <3>1, EndedLater
  <2>4. Parts(c, g)'
    BY <1>4, <1>5, <1>8, <1>9, <1>10, <2>1, <2>2, <2>3 DEF Parts, EventIds
  <2>5. QED
    BY <1>2, <1>4, <1>10, <2>4 DEF PartInv
<1>12. CASE Postclosed(step) # <<>>
  <2> DEFINE x == Summary(w, w.tEnd, CloseReason(w))
  <2>1. Postclosed(step) = <<x>>
    BY <1>12 DEF Postclosed, w
  <2>2. CloseReason(w) \in CloseReasons \cup {"open"} /\ w.tEnd \in Int
    BY <1>4, <1>7 DEF CloseReason, CloseReasons
  <2>3. /\ x \in WindowRecord /\ Holds(events, timeout, x, c, g)
        /\ x.tStart = w.tStart /\ x.tEnd = w.tEnd
    <3>1. w \in OpenRecord /\ c \in Nat /\ g \in Nat
      BY <1>4, <1>7
    <3>2. Holds(events, timeout, w, c, g)
      BY <1>4
    <3>3. QED
      BY <2>2, <3>1, <3>2, SummaryKeeps
  <2>4. closed' = mid \o <<x>> /\ ~IsLive'
    BY <1>9, <1>12, <2>1 DEF IsLive, IsOpen
  <2> HIDE DEF x
  <2>5. Ended(mid, x.tStart) /\ x.tEnd <= step.ts
    BY <1>4, <1>7, <2>3
  <2>6. Chain(events, timeout, mid \o <<x>>, g) /\ Ended(mid \o <<x>>, step.ts)
    BY <1>4, <1>5, <1>7, <2>3, <2>5, ChainGrows
  <2>7. mid \o <<x>> \in Seq(WindowRecord)
    BY <2>6 DEF Chain
  <2>8. ASSUME NEW s \in remaining' PROVE Ended(closed', s.ts)
    <3>1. s.ts \in Int /\ step.ts <= s.ts
      BY <1>7, <1>8, <2>8
    <3>2. QED
      BY <1>7, <2>4, <2>6, <2>7, <3>1, EndedLater
  <2>9. ~IsOpen'
    BY <1>9, <1>12 DEF IsOpen
  <2>10. g \in 0..g
    BY <1>4
  <2>11. Parts(g, g)'
    BY <1>8, <1>9, <1>10, <2>4, <2>6, <2>8, <2>9, <2>10 DEF Parts, EventIds
  <2>12. QED
    BY <1>2, <1>4, <1>10, <2>11 DEF PartInv
<1>13. QED
  BY <1>11, <1>12

\* So does the end of the stream, which closes the window still open.
LEMMA EndOfStreamPartInv ==
    ASSUME PartInv, EndOfStream
    PROVE  PartInv'
<1>1. IInv /\ ~finished /\ timeout \in Int
  BY DEF PartInv, EndOfStream
<1>2. IInv'
  BY <1>1, EndOfStreamIInv
<1>3. PICK e \in Nat, f \in Nat : Parts(e, f)
  BY DEF PartInv
<1>4. /\ remaining' = {} /\ remaining = {} /\ ~IsLive'
      /\ UNCHANGED <<timeout, events>> /\ timeout' \in Int
      /\ closed' = IF IsOpen /\ open.count > 0
                   THEN Append(closed, Summary(open, open.tEnd, "end_of_stream"))
                   ELSE closed
  BY <1>1 DEF EndOfStream, IsLive
<1>5. /\ open \in OpenRecord /\ e <= f /\ f \in 0..Len(events)
      /\ \A n \in EventIds : EventStep(events, n) \in remaining <=> f < n
      /\ Chain(events, timeout, closed, e)
  BY <1>1, <1>3 DEF IInv, Shape, Parts
<1>6. closed \in Seq(WindowRecord)
  BY <1>5 DEF Chain
<1>7. Chain(events, timeout, closed', f)
  <2>1. CASE IsOpen /\ open.count > 0
    <3> DEFINE x == Summary(open, open.tEnd, "end_of_stream")
    <3>1. Holds(events, timeout, open, e, f) /\ Ended(closed, open.tStart)
      BY <1>1, <1>3, <2>1 DEF Parts, IsLive
    <3>2. open.tEnd \in Int /\ "end_of_stream" \in CloseReasons \cup {"open"}
      BY <1>5 DEF OpenRecord, CloseReasons
    <3>3. /\ x \in WindowRecord /\ Holds(events, timeout, x, e, f)
          /\ x.tStart = open.tStart
      <4>1. open \in OpenRecord /\ e \in Nat /\ f \in Nat
        BY <1>3, <1>5
      <4>2. QED
        BY <3>1, <3>2, <4>1, SummaryKeeps
    <3>4. closed' = Append(closed, x)
      BY <1>4, <2>1
    <3> HIDE DEF x
    <3>5. closed' = closed \o <<x>>
      BY <1>6, <3>3, <3>4, AppendIsConcat
    <3>6. Ended(closed, x.tStart)
      BY <3>1, <3>3
    <3>7. QED
      BY <1>5, <3>3, <3>5, <3>6, ChainGrows
  <2>2. CASE ~(IsOpen /\ open.count > 0)
    <3>1. closed' = closed
      BY <1>4, <2>2
    <3>2. CASE ~IsOpen
      BY <1>3, <1>5, <3>1, <3>2 DEF Parts, IsLive
    <3>3. CASE IsOpen
      <4>1. Holds(events, timeout, open, e, f)
        BY <1>1, <1>3, <3>3 DEF Parts, IsLive
      <4>2. open.count = f - e /\ open.count \in Nat /\ ~(open.count > 0)
        BY <1>5, <2>2, <3>3, <4>1 DEF Holds, OpenRecord
      <4>3. e = f
        BY <1>5, <4>2
      <4>4. QED
        BY <1>5, <3>1, <4>3
    <3>4. QED
      BY <3>2, <3>3
  <2>3. QED
    BY <2>1, <2>2
<1>8. f \in 0..f
  BY <1>3
<1>9. Parts(f, f)'
  BY <1>4, <1>5, <1>7, <1>8 DEF Parts, EventIds
<1>10. QED
  BY <1>2, <1>3, <1>4, <1>9 DEF PartInv

\* At the start nothing has been folded.
LEMMA InitPartInv ==
    ASSUME Init
    PROVE  PartInv
<1>1. IInv
  BY InitIInv
<1>2. timeout \in Int /\ events \in Flights /\ remaining = Steps(events)
  BY FlightsAssumption DEF Init
<1>3. Len(events) \in Nat
  BY <1>2, FlightIsTyped
<1>4. closed = <<>> /\ ~IsOpen
  BY DEF Init, IsOpen
<1>5. \A n \in EventIds : EventStep(events, n) \in remaining /\ 0 < n
  BY <1>2, <1>3 DEF EventIds, EventStep, Steps, EventSteps
<1>6. Chain(events, timeout, closed, 0)
  BY <1>4 DEF Chain
<1>7. \A s \in remaining : Ended(closed, s.ts)
  BY <1>4 DEF Ended
<1>8. 0 \in 0..0 /\ 0 \in 0..Len(events)
  BY <1>3
<1>9. Parts(0, 0)
  BY <1>4, <1>5, <1>6, <1>7, <1>8 DEF Parts, IsLive
<1>10. QED
  BY <1>1, <1>2, <1>9 DEF PartInv

-----------------------------------------------------------------------------
(* The theorems.                                                            *)

\* The windows, the open one included, partition the events folded.
LEMMA WindowsAreChain ==
    ASSUME PartInv
    PROVE  \E f \in Nat : \E s :
            /\ Chain(events, timeout, s, f)
            /\ Windows = {s[i] : i \in DOMAIN s}
            /\ Folded = 1..f
<1>1. PICK e \in Nat, f \in Nat : Parts(e, f)
  BY DEF PartInv
<1>2. /\ events \in Flights /\ open \in OpenRecord /\ e <= f
      /\ Len(events) \in Nat /\ f <= Len(events)
  BY <1>1, FlightIsTyped DEF PartInv, IInv, Shape, Parts
<1>3. \A n \in 1..Len(events) :
        [ts |-> events[n], seq |-> n] \in remaining <=> f < n
  BY <1>1 DEF Parts, EventStep, EventIds
<1>4. Folded = 1..f
  BY <1>1, <1>2, <1>3 DEF Folded, EventIds
<1>5. Chain(events, timeout, closed, e) /\ closed \in Seq(WindowRecord)
  BY <1>1 DEF Parts, Chain
<1>6. CASE IsLive
  <2> DEFINE x == Summary(open, open.tEnd, "open")
             s == closed \o <<x>>
  <2>1. Holds(events, timeout, open, e, f) /\ Ended(closed, open.tStart)
    BY <1>1, <1>6 DEF Parts
  <2>2. open.tEnd \in Int /\ "open" \in CloseReasons \cup {"open"}
    BY <1>2 DEF OpenRecord, CloseReasons
  <2>3. /\ x \in WindowRecord /\ Holds(events, timeout, x, e, f)
        /\ x.tStart = open.tStart
    <3>1. open \in OpenRecord /\ e \in Nat /\ f \in Nat
      BY <1>1, <1>2
    <3>2. QED
      BY <2>1, <2>2, <3>1, SummaryKeeps
  <2>4. Windows = {closed[i] : i \in DOMAIN closed} \cup {x}
    BY <1>6 DEF Windows, IsLive
  <2> HIDE DEF x
  <2>5. Ended(closed, x.tStart)
    BY <2>1, <2>3
  <2>6. Chain(events, timeout, s, f)
    BY <1>2, <1>5, <2>2, <2>3, <2>5, ChainGrows
  <2>7. /\ DOMAIN s = 1..(Len(closed) + 1) /\ DOMAIN closed = 1..Len(closed)
        /\ \A i \in 1..Len(closed) : s[i] = closed[i]
        /\ s[Len(closed) + 1] = x /\ Len(closed) \in Nat
    BY <1>5, <2>3
  <2> HIDE DEF s
  <2>8. {s[i] : i \in DOMAIN s} = {closed[i] : i \in DOMAIN closed} \cup {x}
    BY <2>7
  <2>9. QED
    BY <1>1, <1>4, <2>4, <2>6, <2>8
<1>7. CASE ~IsLive
  <2>1. e = f
    BY <1>1, <1>7 DEF Parts
  <2>2. Windows = {closed[i] : i \in DOMAIN closed}
    BY <1>7 DEF Windows, IsLive
  <2>3. QED
    BY <1>1, <1>4, <1>5, <2>1, <2>2
<1>8. QED
  BY <1>6, <1>7

\* What a window of the partition says of the events it contains.
LEMMA InChain ==
    ASSUME NEW ev, NEW limit, NEW s, NEW f \in Nat, Chain(ev, limit, s, f),
           NEW i \in DOMAIN s
    PROVE  /\ s[i] \in WindowRecord
           /\ \E lo, hi \in 0..f :
                /\ Holds(ev, limit, s[i], lo, hi) /\ lo <= hi
                /\ \A n \in Nat \ {0} : Contains(s[i], n) <=> n \in (lo + 1)..hi
<1>1. s[i] \in WindowRecord
  BY DEF Chain
<1>2. PICK lo \in 0..f, hi \in 0..f : Holds(ev, limit, s[i], lo, hi)
  BY DEF Chain
<1>3. lo \in Nat /\ hi \in Nat /\ s[i].count \in Nat
  BY <1>1, <1>2 DEF WindowRecord
<1>4. lo <= hi
  BY <1>2, <1>3 DEF Holds
<1>5. \A n \in Nat \ {0} : Contains(s[i], n) <=> n \in (lo + 1)..hi
  BY <1>2, <1>3, <1>4, HoldsRange
<1>6. QED
  BY <1>1, <1>2, <1>4, <1>5

\* The chain of PartInv puts each folded event into exactly one window.
LEMMA PartInvPartitions ==
    ASSUME PartInv
    PROVE  WindowsPartitionEvents /\ QuietSplitsWindows
<1> DEFINE Shows(s, f) == /\ Chain(events, timeout, s, f)
                         /\ Windows = {s[i] : i \in DOMAIN s}
                         /\ Folded = 1..f
<1>a. PICK f \in Nat : \E s : Shows(s, f)
  BY WindowsAreChain
<1>b. PICK s : Shows(s, f)
  BY <1>a
<1>1. /\ f \in Nat /\ Chain(events, timeout, s, f)
      /\ Windows = {s[i] : i \in DOMAIN s}
      /\ Folded = 1..f
  BY <1>b
<1>2. EachEventInOneWindow
  <2>1. SUFFICES ASSUME NEW n \in 1..f
                 PROVE  Cardinality({w \in Windows : Contains(w, n)}) = 1
    BY <1>1 DEF EachEventInOneWindow
  <2>2. PICK i \in DOMAIN s : Contains(s[i], n)
    BY <1>1 DEF Chain
  <2>3. ASSUME NEW w \in Windows, Contains(w, n) PROVE w = s[i]
    <3>1. PICK j \in DOMAIN s : w = s[j]
      BY <1>1
    <3>2. i = j
      BY <1>1, <2>2, <2>3, <3>1 DEF Chain
    <3>3. QED
      BY <3>1, <3>2
  <2>4. {w \in Windows : Contains(w, n)} = {s[i]}
    BY <1>1, <2>2, <2>3
  <2>5. QED
    BY <2>4, FS_Singleton
<1>3. CountsMatchRanges
  <2>1. SUFFICES ASSUME NEW i \in DOMAIN s
                 PROVE  /\ s[i].count = Cardinality({n \in 1..f : Contains(s[i], n)})
                        /\ s[i].count = 0 <=> s[i].last = NoSeq
    BY <1>1 DEF CountsMatchRanges
  <2>2. PICK lo \in 0..f, hi \in 0..f :
            /\ Holds(events, timeout, s[i], lo, hi) /\ lo <= hi
            /\ \A n \in Nat \ {0} : Contains(s[i], n) <=> n \in (lo + 1)..hi
    BY <1>1, InChain
  <2>3. {n \in 1..f : Contains(s[i], n)} = (lo + 1)..hi
    BY <1>1, <2>2
  <2>4. Cardinality((lo + 1)..hi) = hi - lo
    <3>1. lo + 1 \in Int /\ hi \in Int
      BY <2>2
    <3>2. Cardinality((lo + 1)..hi) = IF lo + 1 > hi THEN 0 ELSE hi - (lo + 1) + 1
      BY <3>1, FS_Interval
    <3>3. QED
      BY <2>2, <3>2
  <2>5. s[i].count = hi - lo
    BY <2>2 DEF Holds
  <2>6. hi - lo = 0 <=> s[i].last = NoSeq
    BY <2>2 DEF Holds, NoSeq
  <2>7. QED
    BY <2>3, <2>4, <2>5, <2>6
<1>4. WindowsOrderedInTime
  <2>1. \A i, j \in DOMAIN closed : i < j => closed[i].tEnd <= closed[j].tStart
    BY DEF PartInv, Parts, Chain
  <2>2. ASSUME NEW i \in DOMAIN s
        PROVE  /\ s[i].tStart <= s[i].tEnd
               /\ \A n \in 1..f : Contains(s[i], n) =>
                    events[n] \in s[i].tStart..s[i].tEnd
    <3>1. PICK lo \in 0..f, hi \in 0..f :
            /\ Holds(events, timeout, s[i], lo, hi) /\ lo <= hi
            /\ \A n \in Nat \ {0} : Contains(s[i], n) <=> n \in (lo + 1)..hi
      BY <1>1, InChain
    <3>2. QED
      BY <3>1 DEF Holds
  <2>3. QED
    BY <1>1, <2>1, <2>2 DEF WindowsOrderedInTime
<1>5. QuietSplitsWindows
  <2>1. SUFFICES ASSUME NEW n \in 1..f, NEW i \in DOMAIN s, timeout > 0,
                        Contains(s[i], n), Contains(s[i], n + 1)
                 PROVE  events[n + 1] - events[n] < timeout
    BY <1>1 DEF QuietSplitsWindows
  <2>2. PICK lo \in 0..f, hi \in 0..f :
            /\ Holds(events, timeout, s[i], lo, hi) /\ lo <= hi
            /\ \A m \in Nat \ {0} : Contains(s[i], m) <=> m \in (lo + 1)..hi
    BY <1>1, InChain
  <2>3. n \in (lo + 1)..(hi - 1)
    BY <2>1, <2>2
  <2>4. QED
    BY <2>1, <2>2, <2>3 DEF Holds
<1>6. QED
  BY <1>2, <1>3, <1>4, <1>5 DEF WindowsPartitionEvents

\* Every step, and every stutter, keeps the chain.
LEMMA NextPartInv ==
    ASSUME PartInv, [Next]_vars
    PROVE  PartInv'
<1>1. CASE \E step \in remaining : Fold(step)
  BY <1>1, FoldPartInv
<1>2. CASE EndOfStream
  BY <1>2, EndOfStreamPartInv
<1>3. CASE UNCHANGED vars
  BY <1>3 DEF vars, PartInv, Parts, IInv, Shape, WindowIdsContiguous, IsOpen,
              IsLive, EventIds
<1>4. QED
  BY <1>1, <1>2, <1>3 DEF Next

\* For every policy and flight, at every step: each event folded lies in the
\* range of exactly one window, event_count is the number of the events in the
\* range, and the windows follow one another in time.
THEOREM EventsArePartitioned == Spec => []WindowsPartitionEvents
<1>1. Init => PartInv
  BY InitPartInv
<1>2. PartInv /\ [Next]_vars => PartInv'
  BY NextPartInv
<1>3. PartInv => WindowsPartitionEvents
  BY PartInvPartitions
<1>4. QED
  BY <1>1, <1>2, <1>3, PTL DEF Spec

\* And with an inactivity timeout no two events that far apart share a window.
THEOREM QuietSplits == Spec => []QuietSplitsWindows
<1>1. Init => PartInv
  BY InitPartInv
<1>2. PartInv /\ [Next]_vars => PartInv'
  BY NextPartInv
<1>3. PartInv => QuietSplitsWindows
  BY PartInvPartitions
<1>4. QED
  BY <1>1, <1>2, <1>3, PTL DEF Spec
-----------------------------------------------------------------------------
(***************************************************************************)
(* The budget.  A window that no event closed is below its budget at its    *)
(* last event; after that event, or after the budget step that opened it,   *)
(* the fold meets the next budget step of the flight at the latest when     *)
(* quiet time has earned one budget more.  The types of the windows follow  *)
(* from this order of the steps, too.                                       *)
(***************************************************************************)

(* Arithmetic.                                                              *)

\* What the integer quotient says.
LEMMA Quotient ==
    ASSUME NEW a \in Nat, NEW d \in Nat \ {0}
    PROVE  a \div d \in Nat /\ (a \div d) * d <= a /\ a < (a \div d) * d + d
  BY SMTT(30)

\* A product by a positive factor compares as the other factor does.
LEMMA Cancel ==
    ASSUME NEW x \in Int, NEW y \in Int, NEW d \in Nat \ {0}
    PROVE  (x * d < y * d => x < y) /\ (x <= y => x * d <= y * d)
  BY SMTT(30)

\* A product of integers is one.
LEMMA Product == \A x, y \in Int : x * y \in Int
  OBVIOUS

\* The difference of two products.
LEMMA Distribute ==
    ASSUME NEW x \in Int, NEW y \in Int, NEW d \in Int
    PROVE  (x - y) * d = x * d - y * d /\ (x + y) * d = x * d + y * d
  BY SMTT(30)

\* Rounding up: the first multiple of d that is not below a.
LEMMA RoundUp ==
    ASSUME NEW a \in Nat, NEW d \in Nat \ {0}
    PROVE  LET c == (a + d - 1) \div d
           IN  c \in Nat /\ a <= c * d /\ c * d < a + d
<1>1. a + d - 1 \in Nat
  OBVIOUS
<1> DEFINE c == (a + d - 1) \div d
<1>2. c \in Nat /\ c * d <= a + d - 1 /\ a + d - 1 < c * d + d
  BY <1>1, Quotient
<1> HIDE DEF c
<1>3. c * d \in Int
  BY <1>2
<1>4. QED
  BY <1>2, <1>3 DEF c

\* The parameters of the budget (WindowClosureBudgetPolicy).
LEMMA BudgetIsTyped ==
    /\ Threshold \in Nat \ {0} /\ QuietHorizon \in Nat \ {0}
    /\ BoundaryCredit \in Nat \ {0} /\ BoundaryCredit = Threshold * QuietHorizon
    /\ EventThreshold \in Int /\ EventThreshold <= Threshold
<1>1. /\ Threshold \in Nat \ {0} /\ QuietHorizon \in Nat \ {0}
      /\ EventThreshold \in Int /\ EventThreshold <= Threshold
  BY WindowPolicyAssumption DEF Threshold, QuietHorizon
<1>2. \A a, b \in Nat \ {0} : a * b \in Nat \ {0}
  BY SMTT(30)
<1>3. QED
  BY <1>1, <1>2 DEF BoundaryCredit

-----------------------------------------------------------------------------
(* Where the budget steps fall.                                             *)

\* Boundary k after event n is reached in the first millisecond at which the
\* credit of the flight is k budgets (elapsed_ms_for_budget_units_expr).
LEMMA BoundaryIs ==
    ASSUME NEW ev \in Flights, NEW n \in 1..Len(ev), NEW k \in Nat, k * Threshold > n
    PROVE  /\ BoundaryTime(ev, n, k) \in Int
           /\ k * BoundaryCredit <= n * QuietHorizon + (BoundaryTime(ev, n, k) - ev[1]) * Threshold
           /\ n * QuietHorizon + (BoundaryTime(ev, n, k) - ev[1]) * Threshold
                < k * BoundaryCredit + Threshold
<1> DEFINE T == Threshold
           Q == QuietHorizon
           a == (k * T - n) * Q
           c == ElapsedFor(k * T - n)
<1>1. T \in Nat \ {0} /\ Q \in Nat \ {0} /\ n \in Nat /\ ev[1] \in Nat
  BY BudgetIsTyped, FlightIsTyped
<1> HIDE DEF T, Q
<1>2. k * T \in Nat /\ k * T - n \in Nat
  BY <1>1 DEF T
<1>3. a \in Nat
  BY <1>1, <1>2
<1>4. a = k * (T * Q) - n * Q
  BY <1>1, <1>2, SMTT(30)
<1>5. c = (a + T - 1) \div T
  BY DEF ElapsedFor, T, Q
<1> HIDE DEF a
<1>6. c \in Nat /\ a <= c * T /\ c * T < a + T
  <2> HIDE DEF c
  <2>1. QED
    BY <1>1, <1>3, <1>5, RoundUp
<1>7. BoundaryTime(ev, n, k) = ev[1] + c
  BY DEF BoundaryTime, T
<1> HIDE DEF c
<1>8. BoundaryTime(ev, n, k) \in Int /\ BoundaryTime(ev, n, k) - ev[1] = c
  BY <1>1, <1>6, <1>7
<1>9. k * (T * Q) \in Int /\ n * Q \in Int /\ c * T \in Int
  BY <1>1, <1>6
<1>10. k * (T * Q) <= n * Q + c * T /\ n * Q + c * T < k * (T * Q) + T
  BY <1>1, <1>4, <1>6, <1>9
<1>11. QED
  BY <1>8, <1>10, BudgetIsTyped DEF T, Q

\* A boundary between two events lies after the first of them and not after
\* the second one.
LEMMA BoundaryBetween ==
    ASSUME NEW ev \in Flights, NEW n \in 1..Len(ev), NEW k \in Boundaries(ev, n)
    PROVE  /\ n + 1 \in 1..Len(ev) /\ k \in Nat /\ k * Threshold > n
           /\ n * QuietHorizon + (ev[n] - ev[1]) * Threshold < k * BoundaryCredit
           /\ k * BoundaryCredit <= n * QuietHorizon + (ev[n + 1] - ev[1]) * Threshold
           /\ ev[n] < BoundaryTime(ev, n, k) /\ BoundaryTime(ev, n, k) <= ev[n + 1]
<1> DEFINE T == Threshold
           Q == QuietHorizon
           B == BoundaryCredit
           g == n * Q + (ev[n] - ev[1]) * T
           h == n * Q + (ev[n + 1] - ev[1]) * T
           t == BoundaryTime(ev, n, k)
<1>1. /\ T \in Nat \ {0} /\ Q \in Nat \ {0} /\ B \in Nat \ {0} /\ B = T * Q
      /\ Len(ev) \in Nat
  BY BudgetIsTyped, FlightIsTyped
<1>2. n # Len(ev) /\ n + 1 \in 1..Len(ev)
  BY <1>1 DEF Boundaries
<1>3. /\ ev[1] \in Nat /\ ev[n] \in Nat /\ ev[n + 1] \in Nat
      /\ ev[1] <= ev[n] /\ ev[n] <= ev[n + 1]
  <2>1. 1 \in 1..Len(ev) /\ 1 <= n /\ n <= n + 1
    BY <1>1
  <2>2. QED
    BY <1>2, <2>1, FlightIsTyped
<1>4. k \in (g \div B) + 1 .. h \div B
  BY <1>2 DEF Boundaries, Credit, Elapsed, T, Q, B
<1> HIDE DEF T, Q, B
<1>5. g \in Nat /\ h \in Nat /\ n * Q <= g
  <2>1. ev[n] - ev[1] \in Nat /\ ev[n + 1] - ev[1] \in Nat
    BY <1>3
  <2>2. (ev[n] - ev[1]) * T \in Nat /\ (ev[n + 1] - ev[1]) * T \in Nat /\ n * Q \in Nat
    BY <1>1, <2>1
  <2>3. QED
    BY <2>2
<1> HIDE DEF g, h
<1>6. /\ g \div B \in Nat /\ g < (g \div B) * B + B
      /\ h \div B \in Nat /\ (h \div B) * B <= h
  BY <1>1, <1>5, Quotient
<1>7. k \in Nat /\ (g \div B) + 1 <= k /\ k <= h \div B
  BY <1>4, <1>6
<1>8. ((g \div B) + 1) * B = (g \div B) * B + B
  BY <1>1, <1>6, SMTT(30)
<1>9. g < k * B /\ k * B <= h
  <2>1. ((g \div B) + 1) * B <= k * B /\ k * B <= (h \div B) * B
    BY <1>1, <1>6, <1>7, Cancel
  <2>2. k * B \in Int /\ (h \div B) * B \in Int /\ (g \div B) * B \in Int
    BY <1>1, <1>6, <1>7
  <2>3. QED
    BY <1>1, <1>5, <1>6, <1>8, <2>1, <2>2
<1>10. n < k * T
  <2>1. n * Q < (k * T) * Q
    <3>1. (k * T) * Q = k * B
      BY <1>1, <1>7, SMTT(30)
    <3>2. n * Q \in Int /\ k * B \in Int
      BY <1>1, <1>7
    <3>3. QED
      BY <1>5, <1>9, <3>1, <3>2
  <2>2. n \in Int /\ k * T \in Int
    BY <1>1, <1>7
  <2>3. QED
    BY <1>1, <2>1, <2>2, Cancel
<1>11. t \in Int /\ k * B <= n * Q + (t - ev[1]) * T /\ n * Q + (t - ev[1]) * T < k * B + T
  BY <1>7, <1>10, BoundaryIs DEF T, Q, B
<1> HIDE DEF t
<1>a. /\ t - ev[1] \in Int /\ ev[n] - ev[1] \in Int /\ (ev[n + 1] - ev[1]) + 1 \in Int
      /\ ev[n + 1] - ev[1] \in Int /\ T \in Int /\ n \in Int /\ Q \in Int /\ k \in Int /\ B \in Int
  <2>1. t \in Int /\ n \in Nat
    BY <1>1, <1>11
  <2>2. QED
    BY <1>1, <1>3, <1>7, <2>1
<1>b. /\ n * Q \in Int /\ (ev[n + 1] - ev[1]) * T \in Int /\ (t - ev[1]) * T \in Int
      /\ (ev[n] - ev[1]) * T \in Int /\ k * B \in Int
  BY <1>a, Product
<1>12. ev[n] < t
  <2>1. (ev[n] - ev[1]) * T < (t - ev[1]) * T
    <3>1. n * Q + (ev[n] - ev[1]) * T < n * Q + (t - ev[1]) * T
      <4>1. n * Q + (ev[n] - ev[1]) * T < k * B
        BY <1>9 DEF g
      <4>2. QED
        BY <1>b, <1>11, <4>1
    <3>2. QED
      BY <1>b, <3>1
  <2>2. ev[n] - ev[1] \in Int /\ t - ev[1] \in Int
    BY <1>a
  <2>3. ev[n] - ev[1] < t - ev[1]
    BY <1>1, <2>1, <2>2, Cancel
  <2>4. QED
    BY <1>3, <1>11, <2>3
<1>13. t <= ev[n + 1]
  <2>1. (t - ev[1]) * T < ((ev[n + 1] - ev[1]) + 1) * T
    <3>1. ((ev[n + 1] - ev[1]) + 1) * T = (ev[n + 1] - ev[1]) * T + T
      BY <1>1, <1>3, Distribute
    <3>3. k * B <= n * Q + (ev[n + 1] - ev[1]) * T
      BY <1>9 DEF h
    <3>4. QED
      <4>1. \A x, y, z, w, u \in Int : z + x < w + u /\ w <= z + y => x < y + u
        OBVIOUS
      <4>2. PICK x, y, z, w : /\ x = (t - ev[1]) * T /\ y = (ev[n + 1] - ev[1]) * T
                              /\ z = n * Q /\ w = k * B
        OBVIOUS
      <4>3. x \in Int /\ y \in Int /\ z \in Int /\ w \in Int
        BY <1>b, <4>2
      <4>4. z + x < w + T /\ w <= z + y
        BY <1>11, <3>3, <4>2
      <4>5. x < y + T
        BY <1>a, <4>1, <4>3, <4>4
      <4>6. QED
        BY <3>1, <4>2, <4>5
  <2>2. (ev[n + 1] - ev[1]) + 1 \in Int /\ t - ev[1] \in Int
    BY <1>a
  <2>3. t - ev[1] < (ev[n + 1] - ev[1]) + 1
    BY <1>1, <2>1, <2>2, Cancel
  <2>4. QED
    BY <1>3, <1>11, <2>3
<1>14. QED
  BY <1>2, <1>7, <1>9, <1>10, <1>12, <1>13 DEF g, h, t, T, Q, B

-----------------------------------------------------------------------------
(* Which step comes after an event or a budget step at the latest.          *)

\* Quiet time that earns less than one unit over a budget is within the quiet
\* horizon, so it earns no more than the budget.
LEMMA WithinHorizon ==
    ASSUME NEW d \in Int, d * Threshold < BoundaryCredit + Threshold
    PROVE  d * Threshold <= BoundaryCredit
<1>1. /\ Threshold \in Nat \ {0} /\ QuietHorizon \in Nat
      /\ BoundaryCredit = QuietHorizon * Threshold
  <2>1. \A a, b \in Nat : a * b = b * a
    OBVIOUS
  <2>2. QED
    BY <2>1, BudgetIsTyped
<1>2. (QuietHorizon + 1) * Threshold = QuietHorizon * Threshold + Threshold
  BY <1>1, Distribute
<1>3. d < QuietHorizon + 1
  <2>1. QuietHorizon + 1 \in Int
    BY <1>1
  <2>2. QED
    BY <1>1, <1>2, <2>1, Cancel
<1>4. d <= QuietHorizon
  BY <1>1, <1>3
<1>5. QED
  BY <1>1, <1>4, Cancel

\* The step s comes after step t, and at most one budget of quiet time later.
Follows(t, s) ==
    Precedes(t, s) /\ (s.ts - t.ts) * Threshold <= BoundaryCredit

BudgetStep(ev, n, k) == [ts |-> BoundaryTime(ev, n, k), seq |-> NoSeq]

\* Every event but the last is followed by a step: by a budget step if a
\* boundary comes before the next event, else by that event.
LEMMA AfterEvent ==
    ASSUME NEW ev \in Flights, NEW n \in 1..Len(ev), n # Len(ev)
    PROVE  \E s \in Steps(ev) : Follows(EventStep(ev, n), s)
<1> DEFINE T == Threshold
           Q == QuietHorizon
           B == BoundaryCredit
           g == n * Q + (ev[n] - ev[1]) * T
           h == n * Q + (ev[n + 1] - ev[1]) * T
<1>1. /\ T \in Nat \ {0} /\ Q \in Nat \ {0} /\ B \in Nat \ {0} /\ B = T * Q
      /\ Len(ev) \in Nat
  BY BudgetIsTyped, FlightIsTyped
<1>2. n \in Nat /\ n + 1 \in 1..Len(ev) /\ 1 \in 1..Len(ev)
  BY <1>1
<1>3. /\ ev[1] \in Nat /\ ev[n] \in Nat /\ ev[n + 1] \in Nat
      /\ ev[1] <= ev[n] /\ ev[n] <= ev[n + 1]
  BY <1>2, FlightIsTyped
<1>4. Boundaries(ev, n) = (g \div B) + 1 .. h \div B
  BY DEF Boundaries, Credit, Elapsed, T, Q, B
<1> HIDE DEF T, Q, B
<1>5. g \in Nat /\ h \in Nat /\ h - g = (ev[n + 1] - ev[n]) * T
  <2>1. ev[n] - ev[1] \in Nat /\ ev[n + 1] - ev[1] \in Nat
    BY <1>3
  <2>2. (ev[n] - ev[1]) * T \in Nat /\ (ev[n + 1] - ev[1]) * T \in Nat /\ n * Q \in Nat
    BY <1>1, <1>2, <2>1
  <2>3. ((ev[n + 1] - ev[1]) - (ev[n] - ev[1])) * T
          = (ev[n + 1] - ev[1]) * T - (ev[n] - ev[1]) * T
    BY <1>1, <2>1, Distribute
  <2>4. (ev[n + 1] - ev[1]) - (ev[n] - ev[1]) = ev[n + 1] - ev[n]
    BY <1>3
  <2>5. QED
    BY <2>2, <2>3, <2>4
<1> HIDE DEF g, h
<1>6. /\ g \div B \in Nat /\ (g \div B) * B <= g
      /\ h \div B \in Nat /\ h < (h \div B) * B + B
      /\ (g \div B) * B \in Nat /\ (h \div B) * B \in Nat
  <2>1. /\ g \div B \in Nat /\ (g \div B) * B <= g
        /\ h \div B \in Nat /\ h < (h \div B) * B + B
    BY <1>1, <1>5, Quotient
  <2>2. \A x, y \in Nat : x * y \in Nat
    OBVIOUS
  <2>3. QED
    BY <1>1, <2>1, <2>2
<1>7. CASE Boundaries(ev, n) = {}
  <2> DEFINE s == EventStep(ev, n + 1)
  <2>1. s \in Steps(ev)
    BY <1>2 DEF Steps, EventSteps, EventStep
  <2>2. s.ts = ev[n + 1] /\ s.seq = n + 1
    BY DEF EventStep
  <2>3. h \div B <= g \div B
    <3>1. (g \div B) + 1 \notin (g \div B) + 1 .. h \div B
      BY <1>4, <1>7
    <3>2. QED
      BY <1>6, <3>1
  <2>4. (h \div B) * B <= (g \div B) * B
    BY <1>1, <1>6, <2>3, Cancel
  <2>5. h - g <= B
    BY <1>1, <1>5, <1>6, <2>4
  <2>6. Precedes(EventStep(ev, n), s)
    BY <1>2, <1>3, <2>2 DEF Precedes, EventStep
  <2>7. (s.ts - EventStep(ev, n).ts) * T <= B
    BY <1>5, <2>2, <2>5 DEF EventStep
  <2>8. QED
    BY <2>1, <2>6, <2>7 DEF Follows, T, B
<1>8. CASE Boundaries(ev, n) # {}
  <2> DEFINE k == (g \div B) + 1
             s == BudgetStep(ev, n, k)
             t == BoundaryTime(ev, n, k)
  <2>1. k \in Boundaries(ev, n)
    <3>1. PICK j : j \in (g \div B) + 1 .. h \div B
      BY <1>4, <1>8
    <3>2. j \in Int /\ (g \div B) + 1 <= j /\ j <= h \div B
      BY <1>6, <3>1
    <3>3. (g \div B) + 1 <= h \div B
      BY <1>6, <3>2
    <3>4. QED
      BY <1>4, <1>6, <3>3
  <2>2. s \in Steps(ev)
    BY <2>1 DEF Steps, BudgetStepsAfter, BudgetStep
  <2>3. k * B = (g \div B) * B + B
    BY <1>1, <1>6, SMTT(30)
  <2> HIDE DEF k
  <2>4. k \in Nat /\ k * T > n /\ ev[n] < t
    BY <2>1, BoundaryBetween DEF T
  <2>5. t \in Int /\ n * Q + (t - ev[1]) * T < k * B + T
    BY <2>4, BoundaryIs DEF T, Q, B
  <2> HIDE DEF t
  <2>6. (t - ev[n]) * T < B + T
    <3>1. t - ev[1] \in Int /\ ev[n] - ev[1] \in Int
      BY <1>3, <2>5
    <3>2. ((t - ev[1]) - (ev[n] - ev[1])) * T = (t - ev[1]) * T - (ev[n] - ev[1]) * T
      BY <1>1, <3>1, Distribute
    <3>3. (t - ev[1]) - (ev[n] - ev[1]) = t - ev[n]
      BY <1>3, <2>5
    <3>4. PICK x, y, z, w, q : /\ x = (t - ev[1]) * T /\ y = (ev[n] - ev[1]) * T
                               /\ z = n * Q /\ w = k * B /\ q = (g \div B) * B
      OBVIOUS
    <3>5. x \in Int /\ y \in Int /\ z \in Int /\ w \in Int /\ q \in Int
      <4>1. T \in Int /\ Q \in Int /\ B \in Int /\ n \in Int /\ k \in Int
        BY <1>1, <1>2, <2>4
      <4>2. /\ (t - ev[1]) * T \in Int /\ (ev[n] - ev[1]) * T \in Int
            /\ n * Q \in Int /\ k * B \in Int
        BY <3>1, <4>1, Product
      <4>3. QED
        BY <1>6, <3>4, <4>2
    <3>6. z + x < w + T /\ w = q + B /\ q <= z + y
      BY <1>6, <2>3, <2>5, <3>4 DEF g
    <3>7. x - y < B + T
      BY <1>1, <3>5, <3>6
    <3>8. QED
      BY <3>2, <3>3, <3>4, <3>7
  <2>7. t - ev[n] \in Int
    BY <1>3, <2>5
  <2>8. (t - ev[n]) * T <= B
    BY <2>6, <2>7, WithinHorizon DEF T, B
  <2>9. s.ts = t /\ s.seq = 0
    BY DEF BudgetStep, NoSeq, t
  <2>10. Precedes(EventStep(ev, n), s)
    BY <1>2, <1>3, <2>4, <2>9 DEF Precedes, EventStep
  <2>11. (s.ts - EventStep(ev, n).ts) * T <= B
    BY <2>8, <2>9 DEF EventStep
  <2>12. QED
    BY <2>2, <2>10, <2>11 DEF Follows, T, B
<1>9. QED
  BY <1>7, <1>8

\* Every budget step is followed by a step: by the budget step of the next
\* boundary if that comes before the next event, else by that event.
LEMMA AfterBudget ==
    ASSUME NEW ev \in Flights, NEW n \in 1..Len(ev), NEW k \in Boundaries(ev, n)
    PROVE  \E s \in Steps(ev) : Follows(BudgetStep(ev, n, k), s)
<1> DEFINE T == Threshold
           Q == QuietHorizon
           B == BoundaryCredit
           g == n * Q + (ev[n] - ev[1]) * T
           h == n * Q + (ev[n + 1] - ev[1]) * T
           t == BoundaryTime(ev, n, k)
           r == (t - ev[1]) * T
           z == n * Q
           b == k * B
<1>1. /\ T \in Nat \ {0} /\ Q \in Nat \ {0} /\ B \in Nat \ {0} /\ T <= B
      /\ Len(ev) \in Nat
  <2>1. \A x, y \in Nat \ {0} : x <= x * y
    BY SMTT(30)
  <2>2. QED
    BY <2>1, BudgetIsTyped, FlightIsTyped
<1>2. /\ n + 1 \in 1..Len(ev) /\ k \in Nat /\ k * T > n
      /\ ev[n] < t /\ t <= ev[n + 1]
  BY BoundaryBetween DEF T
<1>3. ev[1] \in Nat /\ ev[n] \in Nat /\ ev[n + 1] \in Nat /\ n \in Nat
  <2>1. 1 \in 1..Len(ev)
    BY <1>1
  <2>2. QED
    BY <1>2, <2>1, FlightIsTyped
<1>4. t \in Int /\ b <= z + r /\ z + r < b + T
  BY <1>2, BoundaryIs DEF T, Q, B
<1>5. n # Len(ev)
  BY <1>1, <1>2
<1>6. Boundaries(ev, n) = (g \div B) + 1 .. h \div B
  BY <1>5 DEF Boundaries, Credit, Elapsed, T, Q, B
<1> HIDE DEF T, Q, B, t
<1>7. z \in Int /\ r \in Int /\ b \in Int
  <2>1. t - ev[1] \in Int /\ T \in Int /\ Q \in Int /\ B \in Int /\ n \in Int /\ k \in Int
    BY <1>1, <1>2, <1>3, <1>4
  <2>2. QED
    BY <2>1, Product
<1>8. CASE k + 1 \in Boundaries(ev, n)
  <2> DEFINE s == BudgetStep(ev, n, k + 1)
             u == BoundaryTime(ev, n, k + 1)
             x == (u - ev[1]) * T
  <2>1. s \in Steps(ev)
    BY <1>8 DEF Steps, BudgetStepsAfter, BudgetStep
  <2>2. k + 1 \in Nat /\ (k + 1) * T > n
    BY <1>8, BoundaryBetween DEF T
  <2>3. u \in Int /\ (k + 1) * B <= z + x /\ z + x < (k + 1) * B + T
    BY <2>2, BoundaryIs DEF T, Q, B
  <2> HIDE DEF u
  <2>4. (k + 1) * B = b + B
    <3>1. \A i, j \in Int : (i + 1) * j = i * j + j
      BY SMTT(30)
    <3>2. k \in Int /\ B \in Int
      BY <1>1, <1>2
    <3>3. QED
      BY <3>1, <3>2
  <2>5. u - ev[1] \in Int /\ t - ev[1] \in Int /\ u - t \in Int /\ T \in Int
    <3>1. ev[1] \in Int /\ t \in Int /\ u \in Int /\ T \in Int
      BY <1>1, <1>3, <1>4, <2>3
    <3>2. QED
      BY <3>1
  <2>6. x \in Int
    BY <2>5, Product
  <2>7. (u - t) * T = x - r
    <3>1. ((u - ev[1]) - (t - ev[1])) * T = x - r
      BY <2>5, Distribute
    <3>2. (u - ev[1]) - (t - ev[1]) = u - t
      BY <1>3, <1>4, <2>3
    <3>3. QED
      BY <3>1, <3>2
  <2> HIDE DEF x, r, z, b
  <2>8. x - r < B + T /\ x - r > B - T
    BY <1>1, <1>4, <1>7, <2>3, <2>4, <2>6
  <2>9. (u - t) * T <= B
    BY <2>5, <2>7, <2>8, WithinHorizon DEF T, B
  <2>10. t < u
    <3>1. 0 * T < (u - t) * T
      BY <1>1, <1>7, <2>6, <2>7, <2>8
    <3>2. 0 < u - t
      BY <1>1, <2>5, <3>1, Cancel
    <3>3. QED
      BY <1>4, <2>3, <3>2
  <2>11. s.ts = u /\ BudgetStep(ev, n, k).ts = t
    BY DEF BudgetStep, u, t
  <2>12. QED
    BY <2>1, <2>9, <2>10, <2>11 DEF Follows, Precedes, T, B
<1>9. CASE k + 1 \notin Boundaries(ev, n)
  <2> DEFINE s == EventStep(ev, n + 1)
             y == (ev[n + 1] - ev[1]) * T
  <2>1. s \in Steps(ev)
    BY <1>2 DEF Steps, EventSteps, EventStep
  <2>2. ev[n + 1] - ev[1] \in Int /\ t - ev[1] \in Int /\ T \in Int
    BY <1>1, <1>3, <1>4
  <2>3. y \in Int /\ h = z + y
    BY <2>2, Product
  <2>4. h \in Nat /\ g \in Nat
    <3>1. ev[1] <= ev[n] /\ ev[1] <= ev[n + 1]
      <4>1. 1 \in 1..Len(ev) /\ 1 <= n /\ 1 <= n + 1
        BY <1>1, <1>3
      <4>2. QED
        BY <1>2, <4>1, FlightIsTyped
    <3>2. ev[n + 1] - ev[1] \in Nat /\ ev[n] - ev[1] \in Nat
      BY <1>3, <3>1
    <3>3. \A p, q \in Nat : p * q \in Nat
      OBVIOUS
    <3>4. y \in Nat /\ z \in Nat /\ (ev[n] - ev[1]) * T \in Nat
      BY <1>1, <1>3, <3>2, <3>3
    <3>5. QED
      BY <3>4
  <2> HIDE DEF g, h
  <2>5. h \div B \in Nat /\ h < (h \div B) * B + B /\ g \div B \in Nat
    BY <1>1, <2>4, Quotient
  <2>6. h \div B <= k
    <3>1. k \in (g \div B) + 1 .. h \div B /\ k + 1 \notin (g \div B) + 1 .. h \div B
      BY <1>6, <1>9
    <3>2. QED
      BY <1>2, <2>5, <3>1
  <2>7. (h \div B) * B <= b /\ (h \div B) * B \in Int
    BY <1>1, <1>2, <2>5, <2>6, Cancel, Product
  <2> HIDE DEF y, r, z, b
  <2>8. y - r <= B
    BY <1>1, <1>4, <1>7, <2>3, <2>4, <2>5, <2>7
  <2>9. (ev[n + 1] - t) * T = y - r
    <3>1. ((ev[n + 1] - ev[1]) - (t - ev[1])) * T = y - r
      BY <2>2, Distribute DEF y, r
    <3>2. (ev[n + 1] - ev[1]) - (t - ev[1]) = ev[n + 1] - t
      BY <1>3, <1>4
    <3>3. QED
      BY <3>1, <3>2
  <2>10. /\ s.ts = ev[n + 1] /\ s.seq = n + 1
         /\ BudgetStep(ev, n, k).ts = t /\ BudgetStep(ev, n, k).seq = 0
    BY DEF BudgetStep, EventStep, NoSeq, t
  <2>11. Precedes(BudgetStep(ev, n, k), s)
    BY <1>2, <1>3, <1>4, <2>10 DEF Precedes
  <2>12. QED
    BY <2>1, <2>8, <2>9, <2>10, <2>11 DEF Follows, T, B
<1>10. QED
  BY <1>8, <1>9

\* No step comes after the last event.
LEMMA NoneLater ==
    ASSUME NEW ev \in Flights, NEW s \in Steps(ev)
    PROVE  s.ts \in Nat /\ s.ts <= ev[Len(ev)]
<1>1. /\ Len(ev) \in Nat
      /\ \A n \in 1..Len(ev) : n \in Nat /\ n <= Len(ev) /\ Len(ev) \in 1..Len(ev)
      /\ \A n \in 1..Len(ev) : ev[n] \in Nat /\ ev[n] <= ev[Len(ev)]
  BY FlightIsTyped
<1>2. CASE s \in EventSteps(ev)
  BY <1>1, <1>2 DEF EventSteps
<1>3. CASE \E n \in 1..Len(ev) : s \in BudgetStepsAfter(ev, n)
  <2>1. PICK n \in 1..Len(ev) : s \in BudgetStepsAfter(ev, n)
    BY <1>3
  <2>2. PICK k \in Boundaries(ev, n) : s = BudgetStep(ev, n, k)
    BY <2>1 DEF BudgetStepsAfter, BudgetStep
  <2>3. /\ n + 1 \in 1..Len(ev) /\ k \in Nat /\ k * Threshold > n
        /\ ev[n] < BoundaryTime(ev, n, k) /\ BoundaryTime(ev, n, k) <= ev[n + 1]
    BY BoundaryBetween
  <2>4. BoundaryTime(ev, n, k) \in Int
    BY <2>3, BoundaryIs
  <2>5. s.ts = BoundaryTime(ev, n, k)
    BY <2>2 DEF BudgetStep
  <2>6. QED
    BY <1>1, <2>3, <2>4, <2>5
<1>4. QED
  BY <1>2, <1>3 DEF Steps

-----------------------------------------------------------------------------
(* The inductive invariant.                                                 *)

\* The steps have been folded in order.
InOrder == \A t \in Steps(events) \ remaining : \A s \in remaining : Precedes(t, s)

\* The next step comes at most one budget of quiet time after the last one.
Soon ==
    IsLive /\ remaining # {} =>
        \E s \in remaining : (s.ts - open.tEnd) * Threshold <= BoundaryCredit

Spent(w) == Credit(w.tEnd - w.tStart, w.count)

Capped(w) ==
    w.count <= Threshold /\ Spent(w) < 2 * BoundaryCredit + QuietHorizon

BudgetInv ==
    /\ PartInv
    /\ InOrder
    /\ Soon
    /\ IsLive => Spent(open) < BoundaryCredit
    /\ \A i \in DOMAIN closed : Capped(closed[i])

\* Credit is additive: events earn the quiet horizon, time the threshold.
LEMMA CreditAdds ==
    ASSUME NEW d \in Int, NEW n \in Nat, NEW gap \in Int
    PROVE  /\ Credit(d, n) \in Int
           /\ Credit(d + gap, n) = Credit(d, n) + gap * Threshold
           /\ Credit(d, n + 1) = Credit(d, n) + QuietHorizon
<1>1. n \in Int /\ 1 \in Int /\ Threshold \in Int /\ QuietHorizon \in Int
  BY BudgetIsTyped
<1>2. /\ n * QuietHorizon \in Int /\ d * Threshold \in Int /\ gap * Threshold \in Int
      /\ 1 * QuietHorizon = QuietHorizon
  BY <1>1, Product
<1>3. (d + gap) * Threshold = d * Threshold + gap * Threshold
  BY <1>1, Distribute
<1>4. (n + 1) * QuietHorizon = n * QuietHorizon + QuietHorizon
  BY <1>1, <1>2, Distribute
<1>5. QED
  BY <1>1, <1>2, <1>3, <1>4 DEF Credit

\* A window below its budget holds fewer events than the threshold.
LEMMA BelowBudget ==
    ASSUME NEW d \in Nat, NEW n \in Nat, Credit(d, n) < BoundaryCredit
    PROVE  n < Threshold
<1>1. /\ Threshold \in Nat \ {0} /\ QuietHorizon \in Nat \ {0}
      /\ BoundaryCredit = Threshold * QuietHorizon
  BY BudgetIsTyped
<1>2. d * Threshold \in Nat /\ n * QuietHorizon \in Nat
  <2>1. \A a, b \in Nat : a * b \in Nat
    OBVIOUS
  <2>2. QED
    BY <1>1, <2>1
<1>3. n * QuietHorizon < Threshold * QuietHorizon
  <2>1. Threshold * QuietHorizon \in Int
    BY <1>1, Product
  <2>2. n * QuietHorizon + d * Threshold < Threshold * QuietHorizon
    BY <1>1 DEF Credit
  <2>3. QED
    BY <1>2, <2>1, <2>2
<1>4. QED
  BY <1>1, <1>3, Cancel

\* The types of the open window, and its order in time.
LEMMA OpenIsTyped ==
    ASSUME PartInv
    PROVE  /\ events \in Flights /\ remaining \subseteq Steps(events)
           /\ open.tStart \in Int /\ open.tEnd \in Int /\ open.count \in Nat
           /\ IsLive => open.tEnd - open.tStart \in Nat
           /\ \A s \in remaining : s.ts \in Int /\ (IsOpen => open.tEnd <= s.ts)
<1>1. /\ events \in Flights /\ remaining \subseteq Steps(events)
      /\ open \in OpenRecord
  BY DEF PartInv, IInv, Shape
<1>2. open.tStart \in Int /\ open.tEnd \in Int /\ open.count \in Nat
  BY <1>1 DEF OpenRecord
<1>3. PICK e \in Nat, f \in Nat : Parts(e, f)
  BY DEF PartInv
<1>4. IsLive => open.tStart <= open.tEnd
  BY <1>3 DEF Parts, Holds
<1>5. \A s \in remaining : s.ts \in Int /\ (IsOpen => open.tEnd <= s.ts)
  BY <1>1, <1>3, StepIsTyped DEF Parts
<1>6. QED
  BY <1>1, <1>2, <1>4, <1>5

\* The step that is folded comes soon.
LEMMA StepIsSoon ==
    ASSUME BudgetInv, IsLive, NEW step \in remaining, Fold(step)
    PROVE  (step.ts - open.tEnd) * Threshold <= BoundaryCredit
<1>1. PICK s \in remaining : (s.ts - open.tEnd) * Threshold <= BoundaryCredit
  BY DEF BudgetInv, Soon
<1>2. s.ts \in Int /\ step.ts \in Int /\ open.tEnd \in Int
  BY OpenIsTyped DEF BudgetInv
<1>3. step.ts <= s.ts
  BY <1>2 DEF Fold, Precedes
<1>4. Threshold \in Nat \ {0} /\ BoundaryCredit \in Int
  BY BudgetIsTyped
<1>5. step.ts - open.tEnd \in Int /\ s.ts - open.tEnd \in Int
      /\ step.ts - open.tEnd <= s.ts - open.tEnd
  BY <1>2, <1>3
<1>6. (step.ts - open.tEnd) * Threshold <= (s.ts - open.tEnd) * Threshold
  BY <1>4, <1>5, Cancel
<1>7. (step.ts - open.tEnd) * Threshold \in Int /\ (s.ts - open.tEnd) * Threshold \in Int
  BY <1>4, <1>5, Product
<1>8. QED
  BY <1>1, <1>4, <1>6, <1>7

\* The window that a step closes before it is capped.
LEMMA PreclosedCapped ==
    ASSUME BudgetInv, ~finished, NEW step \in remaining, Fold(step)
    PROVE  Preclosed(step) = <<>> \/
             \E w : Preclosed(step) = <<w>> /\ Capped(w)
<1>1. CASE ~IsOpen
  BY <1>1 DEF Preclosed
<1>2. CASE IsOpen
  <2> DEFINE d == open.tEnd - open.tStart
             gap == step.ts - open.tEnd
  <2>1. /\ open.tStart \in Int /\ open.tEnd \in Int /\ open.count \in Nat
        /\ d \in Nat /\ step.ts \in Int /\ gap \in Int
    BY <1>2, OpenIsTyped DEF BudgetInv, IsLive
  <2>2. Credit(d, open.count) < BoundaryCredit
    BY <1>2 DEF BudgetInv, IsLive, Spent
  <2>3. gap * Threshold <= BoundaryCredit
    BY <1>2, StepIsSoon DEF IsLive
  <2>4. step.ts - open.tStart = d + gap
    BY <2>1
  <2>5. /\ BoundaryCredit \in Nat \ {0} /\ QuietHorizon \in Nat \ {0}
        /\ Threshold \in Nat \ {0} /\ gap * Threshold \in Int
    BY <2>1, BudgetIsTyped, Product
  <2> HIDE DEF d, gap
  <2>6. /\ Credit(d, open.count) \in Int
        /\ Credit(d + gap, open.count) = Credit(d, open.count) + gap * Threshold
    <3>1. d \in Int /\ open.count \in Nat /\ gap \in Int
      BY <2>1
    <3>2. QED
      BY <3>1, CreditAdds
  <2>7. open.count < Threshold
    BY <2>1, <2>2, BelowBudget
  <2>8. /\ Credit(d, open.count) < 2 * BoundaryCredit + QuietHorizon
        /\ Credit(d + gap, open.count) < 2 * BoundaryCredit + QuietHorizon
    BY <2>2, <2>3, <2>5, <2>6
  <2>9. open.count <= Threshold
    BY <2>1, <2>5, <2>7
  <2>10. ASSUME NEW reason
         PROVE  Capped(Summary(open, open.tEnd, reason))
    BY <2>8, <2>9 DEF Capped, Spent, Summary, d
  <2>11. ASSUME NEW reason
         PROVE  Capped(Summary(open, step.ts, reason))
    BY <2>4, <2>8, <2>9 DEF Capped, Spent, Summary
  <2>12. QED
    BY <1>2, <2>10, <2>11 DEF Preclosed
<1>3. QED
  BY <1>1, <1>2

\* So is the window that the step works on; one that a budget step opens has
\* spent nothing.
LEMMA WorkingCapped ==
    ASSUME BudgetInv, ~finished, NEW step \in remaining, Fold(step)
    PROVE  LET w == Working(step)
           IN  /\ Capped(w) /\ Spent(w) \in Int
               /\ IsBudgetStep(step) => Spent(w) < BoundaryCredit
<1> DEFINE w == Working(step)
<1>1. /\ step.ts \in Int /\ BoundaryCredit \in Nat \ {0} /\ QuietHorizon \in Nat \ {0}
      /\ Threshold \in Nat \ {0}
  BY OpenIsTyped, BudgetIsTyped DEF BudgetInv
<1>2. CASE ~(IsOpen /\ Preclosed(step) = <<>>)
  <2>1. w = Fresh(step)
    BY <1>2 DEF Working
  <2>2. /\ w.tStart = step.ts /\ w.tEnd = step.ts
        /\ w.count = IF IsBudgetStep(step) THEN 0 ELSE 1
    BY <2>1 DEF Fresh
  <2> HIDE DEF w
  <2>3. w.tEnd - w.tStart = 0
    BY <1>1, <2>2
  <2>4. Credit(0, 0) = 0
    BY <1>1 DEF Credit
  <2>5. Credit(0, 1) = QuietHorizon
    BY <1>1 DEF Credit
  <2>6. Spent(w) = IF IsBudgetStep(step) THEN 0 ELSE QuietHorizon
    BY <2>2, <2>3, <2>4, <2>5 DEF Spent
  <2>7. QED
    BY <1>1, <2>2, <2>6 DEF Capped, w
<1>3. CASE IsOpen /\ Preclosed(step) = <<>>
  <2> DEFINE d == open.tEnd - open.tStart
             gap == step.ts - open.tEnd
  <2>1. w = Joined(step) /\ ~IsBudgetStep(step)
    BY <1>3 DEF Working, Preclosed
  <2>2. open \in OpenRecord
    BY DEF BudgetInv, PartInv, IInv, Shape
  <2>3. /\ w.tStart = open.tStart /\ w.tEnd = step.ts /\ w.count = open.count + 1
    BY <2>1, <2>2 DEF Joined, OpenRecord
  <2>4. /\ open.tStart \in Int /\ open.tEnd \in Int /\ open.count \in Nat
        /\ d \in Nat /\ gap \in Int
    BY <1>3, OpenIsTyped DEF BudgetInv, IsLive
  <2>5. Credit(d, open.count) < BoundaryCredit
    BY <1>3 DEF BudgetInv, IsLive, Spent
  <2>6. gap * Threshold <= BoundaryCredit /\ gap * Threshold \in Int
    BY <1>1, <1>3, <2>4, StepIsSoon, Product DEF IsLive
  <2>7. w.tEnd - w.tStart = d + gap
    BY <1>1, <2>3, <2>4
  <2> HIDE DEF d, gap, w
  <2>8. /\ Credit(d, open.count) \in Int /\ d + gap \in Int
        /\ Credit(d + gap, open.count) = Credit(d, open.count) + gap * Threshold
    <3>1. d \in Int /\ open.count \in Nat /\ gap \in Int
      BY <2>4
    <3>2. d + gap \in Int
      BY <3>1
    <3>3. QED
      BY <3>1, <3>2, CreditAdds
  <2>9. Credit(d + gap, open.count + 1) = Credit(d + gap, open.count) + QuietHorizon
    BY <2>4, <2>8, CreditAdds
  <2>10. Spent(w) = Credit(d, open.count) + gap * Threshold + QuietHorizon
    BY <2>3, <2>7, <2>8, <2>9 DEF Spent
  <2>11. Spent(w) \in Int /\ Spent(w) < 2 * BoundaryCredit + QuietHorizon
    BY <1>1, <2>5, <2>6, <2>8, <2>10
  <2>12. open.count < Threshold
    BY <2>4, <2>5, BelowBudget
  <2>13. w.count <= Threshold
    BY <1>1, <2>3, <2>4, <2>12
  <2>14. QED
    BY <2>1, <2>11, <2>13 DEF Capped, w
<1>4. QED
  BY <1>2, <1>3

-----------------------------------------------------------------------------
(* The steps of the fold keep it.                                           *)

\* A step that follows the one folded is still to come.
LEMMA FollowerRemains ==
    ASSUME BudgetInv, NEW step \in remaining, Fold(step),
           NEW s \in Steps(events), Precedes(step, s)
    PROVE  s \in remaining'
<1>1. step.ts \in Int /\ step.seq \in Nat /\ s.ts \in Int /\ s.seq \in Nat
  BY OpenIsTyped, StepIsTyped DEF BudgetInv
<1>2. ~Precedes(s, step) /\ s # step
  BY <1>1 DEF Precedes
<1>3. s \in remaining
  BY <1>2 DEF BudgetInv, InOrder
<1>4. QED
  BY <1>2, <1>3 DEF Fold

\* After a fold the next step is at most one step of the grid away.
LEMMA FoldSoon ==
    ASSUME BudgetInv, NEW step \in remaining, Fold(step), remaining' # {}
    PROVE  \E s \in remaining' : (s.ts - step.ts) * Threshold <= BoundaryCredit
<1>1. /\ events \in Flights /\ step \in Steps(events) /\ remaining \subseteq Steps(events)
      /\ remaining' = remaining \ {step} /\ step.ts \in Int
  BY OpenIsTyped DEF BudgetInv, Fold
<1>2. CASE \E s \in Steps(events) : Follows(step, s)
  BY <1>2, FollowerRemains DEF Follows
<1>3. CASE IsBudgetStep(step)
  <2>1. step \notin EventSteps(events)
    BY <1>1, <1>3, FlightIsTyped DEF EventSteps, IsBudgetStep, NoSeq
  <2>2. PICK n \in 1..Len(events) : step \in BudgetStepsAfter(events, n)
    BY <1>1, <2>1 DEF Steps
  <2>3. PICK k \in Boundaries(events, n) : step = BudgetStep(events, n, k)
    BY <2>2 DEF BudgetStepsAfter, BudgetStep
  <2>4. QED
    BY <1>1, <1>2, <2>3, AfterBudget
<1>4. CASE ~IsBudgetStep(step) /\ step.seq # Len(events)
  <2>1. step.seq \in 1..Len(events) /\ step = EventStep(events, step.seq)
    BY <1>1, <1>4, StepOfEvent
  <2>2. QED
    BY <1>1, <1>2, <1>4, <2>1, AfterEvent
<1>5. CASE ~IsBudgetStep(step) /\ step.seq = Len(events)
  <2>1. step.ts = events[Len(events)]
    BY <1>1, <1>5, StepOfEvent DEF EventStep
  <2>2. PICK s \in remaining' : TRUE
    OBVIOUS
  <2>3. s.ts \in Nat /\ s.ts <= step.ts
    BY <1>1, <2>1, NoneLater
  <2>4. /\ Threshold \in Nat \ {0} /\ BoundaryCredit \in Nat /\ s.ts - step.ts \in Int
        /\ s.ts - step.ts <= 0
    BY <1>1, <2>3, BudgetIsTyped
  <2>5. (s.ts - step.ts) * Threshold <= 0 * Threshold
    BY <2>4, Cancel
  <2>6. 0 * Threshold = 0 /\ (s.ts - step.ts) * Threshold \in Int
    BY <2>4, Product
  <2>7. QED
    BY <2>4, <2>5, <2>6
<1>6. QED
  BY <1>3, <1>4, <1>5

\* Appending at most one capped window to capped windows.
LEMMA AppendCapped ==
    ASSUME NEW s, NEW t, s \in Seq(ClosedRecord), t \in Seq(ClosedRecord),
           \A i \in DOMAIN s : Capped(s[i]),
           t = <<>> \/ \E w : t = <<w>> /\ Capped(w)
    PROVE  \A i \in DOMAIN (s \o t) : Capped((s \o t)[i])
<1>1. CASE t = <<>>
  BY <1>1
<1>2. CASE \E w : t = <<w>> /\ Capped(w)
  <2>1. PICK w : t = <<w>> /\ Capped(w)
    BY <1>2
  <2>2. /\ Len(s) \in Nat /\ DOMAIN s = 1..Len(s) /\ DOMAIN (s \o t) = 1..(Len(s) + 1)
        /\ \A i \in 1..Len(s) : (s \o t)[i] = s[i]
        /\ (s \o t)[Len(s) + 1] = w
    BY <2>1
  <2>3. QED
    BY <2>1, <2>2
<1>3. QED
  BY <1>1, <1>2

\* Folding a step keeps the budget of every window.
LEMMA FoldBudgetInv ==
    ASSUME BudgetInv, NEW step \in remaining, Fold(step)
    PROVE  BudgetInv'
<1> DEFINE w == Working(step)
           pre == Preclosed(step)
           post == Postclosed(step)
<1>1. PartInv /\ IInv /\ ~finished
  BY DEF BudgetInv, PartInv, IInv
<1>2. PartInv'
  BY <1>1, FoldPartInv
<1>3. /\ remaining' = remaining \ {step}
      /\ \A s \in remaining \ {step} : Precedes(step, s)
      /\ open' = IF post = <<>> THEN w ELSE NoWindow
      /\ closed' = closed \o pre \o post
      /\ UNCHANGED <<timeout, events, finished>>
  BY DEF Fold
<1>4. InOrder'
  <2>1. ASSUME NEW t \in Steps(events) \ remaining', NEW s \in remaining'
        PROVE  Precedes(t, s)
    BY <1>3, <2>1 DEF BudgetInv, InOrder
  <2>2. QED
    BY <1>3, <2>1 DEF InOrder
<1>5. w.tEnd = step.ts
  <2>1. PICK e \in Nat, f \in Nat : Parts(e, f)
    BY <1>1 DEF PartInv
  <2>2. timeout \in Int
    BY <1>1 DEF PartInv
  <2>3. QED
    BY <1>1, <2>1, <2>2, WorkingHolds
<1>6. Capped(w) /\ Spent(w) \in Int /\ (IsBudgetStep(step) => Spent(w) < BoundaryCredit)
  BY <1>1, WorkingCapped
<1>7. Soon'
  <2>1. SUFFICES ASSUME IsLive', remaining' # {}
                 PROVE  \E s \in remaining' :
                            (s.ts - open'.tEnd) * Threshold <= BoundaryCredit
    BY DEF Soon
  <2>2. open'.tEnd = step.ts
    BY <1>3, <1>5, <2>1 DEF IsLive, IsOpen
  <2>3. QED
    BY <2>1, <2>2, FoldSoon
<1>8. IsLive' => Spent(open)' < BoundaryCredit
  <2>1. SUFFICES ASSUME IsLive' PROVE Spent(w) < BoundaryCredit
    BY <1>3 DEF Spent, IsLive, IsOpen
  <2>2. CASE IsBudgetStep(step)
    BY <1>6, <2>2
  <2>3. CASE ~IsBudgetStep(step)
    <3>1. post = <<>>
      BY <1>3, <2>1 DEF IsLive, IsOpen
    <3>2. ~ReachesThreshold(w)
      BY <2>3, <3>1 DEF Postclosed
    <3> HIDE DEF w
    <3>3. ~(Spent(w) >= EventThreshold * QuietHorizon)
      BY <3>2 DEF ReachesThreshold, Spent
    <3>4. /\ EventThreshold * QuietHorizon <= BoundaryCredit
          /\ EventThreshold * QuietHorizon \in Int /\ BoundaryCredit \in Int
      <4>1. /\ EventThreshold \in Int /\ Threshold \in Int /\ EventThreshold <= Threshold
            /\ QuietHorizon \in Nat \ {0} /\ BoundaryCredit = Threshold * QuietHorizon
        BY BudgetIsTyped
      <4>2. QED
        BY <4>1, Cancel, Product
    <3>5. QED
      BY <1>6, <3>3, <3>4
  <2>4. QED
    BY <2>2, <2>3
<1>9. \A i \in DOMAIN closed' : Capped(closed'[i])
  <2>1. pre = <<>> \/ \E x : pre = <<x>> /\ Capped(x)
    BY <1>1, PreclosedCapped
  <2>2. post = <<>> \/ \E x : post = <<x>> /\ Capped(x)
    <3>1. Capped(Summary(w, w.tEnd, CloseReason(w)))
      BY <1>6 DEF Capped, Spent, Summary
    <3>2. QED
      BY <3>1 DEF Postclosed
  <2>3. closed \in Seq(ClosedRecord) /\ pre \in Seq(ClosedRecord) /\ post \in Seq(ClosedRecord)
    <3>1. /\ pre = <<>> \/ \E x \in ClosedRecord : pre = <<x>>
          /\ post = <<>> \/ \E x \in ClosedRecord : post = <<x>>
      BY <1>1, FoldParts
    <3>2. closed \in Seq(ClosedRecord)
      BY <1>1 DEF IInv, Shape
    <3>3. /\ <<>> \in Seq(ClosedRecord)
          /\ \A x \in ClosedRecord : <<x>> \in Seq(ClosedRecord)
      OBVIOUS
    <3> HIDE DEF pre, post
    <3>4. QED
      BY <3>1, <3>2, <3>3
  <2>4. \A i \in DOMAIN closed : Capped(closed[i])
    BY DEF BudgetInv
  <2> HIDE DEF pre, post
  <2>5. closed \o pre \in Seq(ClosedRecord)
    BY <2>3
  <2>6. \A i \in DOMAIN (closed \o pre) : Capped((closed \o pre)[i])
    BY <2>1, <2>3, <2>4, AppendCapped
  <2>7. \A i \in DOMAIN (closed \o pre \o post) : Capped((closed \o pre \o post)[i])
    BY <2>2, <2>3, <2>5, <2>6, AppendCapped
  <2>8. QED
    BY <1>3, <2>7
<1>10. QED
  BY <1>2, <1>4, <1>7, <1>8, <1>9 DEF BudgetInv

\* The window still open at the end of the stream is below its budget.
LEMMA OpenCapped ==
    ASSUME BudgetInv, IsLive, NEW reason
    PROVE  Capped(Summary(open, open.tEnd, reason))
<1> DEFINE d == open.tEnd - open.tStart
<1>1. d \in Nat /\ d \in Int /\ open.count \in Nat
  BY OpenIsTyped DEF BudgetInv
<1>2. Credit(d, open.count) < BoundaryCredit
  BY DEF BudgetInv, Spent
<1> HIDE DEF d
<1>3. open.count < Threshold /\ Credit(d, open.count) \in Int
  BY <1>1, <1>2, BelowBudget, CreditAdds
<1>4. BoundaryCredit \in Nat /\ QuietHorizon \in Nat /\ Threshold \in Nat
  BY BudgetIsTyped
<1>5. open.count <= Threshold /\ Credit(d, open.count) < 2 * BoundaryCredit + QuietHorizon
  BY <1>1, <1>2, <1>3, <1>4
<1>6. QED
  BY <1>5 DEF Capped, Spent, Summary, d

\* Closing the last window keeps the budget of every window.
LEMMA EndOfStreamBudgetInv ==
    ASSUME BudgetInv, EndOfStream
    PROVE  BudgetInv'
<1>1. PartInv /\ IInv
  BY DEF BudgetInv, PartInv
<1>2. PartInv' /\ IInv'
  BY <1>1, EndOfStreamPartInv DEF PartInv
<1>3. /\ ~finished /\ finished' /\ remaining' = remaining /\ events' = events
      /\ closed' = IF IsOpen /\ open.count > 0
                   THEN Append(closed, Summary(open, open.tEnd, "end_of_stream"))
                   ELSE closed
  BY DEF EndOfStream
<1>4. InOrder' /\ Soon' /\ ~IsLive'
  BY <1>3 DEF BudgetInv, InOrder, Soon, IsLive
<1>5. \A i \in DOMAIN closed' : Capped(closed'[i])
  <2>1. CASE IsOpen /\ open.count > 0
    <3> DEFINE x == Summary(open, open.tEnd, "end_of_stream")
    <3>1. Capped(x)
      BY <1>3, <2>1, OpenCapped DEF IsLive
    <3>2. closed' = Append(closed, x) /\ closed \in Seq(ClosedRecord)
      BY <1>1, <1>3, <2>1 DEF IInv, Shape
    <3>3. \A i \in DOMAIN closed : Capped(closed[i])
      BY DEF BudgetInv
    <3> HIDE DEF x
    <3>4. /\ Len(closed) \in Nat /\ DOMAIN closed = 1..Len(closed)
          /\ DOMAIN closed' = 1..(Len(closed) + 1)
          /\ \A i \in 1..Len(closed) : closed'[i] = closed[i]
          /\ closed'[Len(closed) + 1] = x
      BY <3>2
    <3>5. QED
      BY <3>1, <3>3, <3>4
  <2>2. CASE ~(IsOpen /\ open.count > 0)
    BY <1>3, <2>2 DEF BudgetInv
  <2>3. QED
    BY <2>1, <2>2
<1>6. QED
  BY <1>2, <1>4, <1>5 DEF BudgetInv

\* A flight begins without windows.
LEMMA InitBudgetInv ==
    ASSUME Init
    PROVE  BudgetInv
<1>1. PartInv
  BY InitPartInv
<1>2. remaining = Steps(events) /\ closed = <<>> /\ ~IsLive
  BY DEF Init, IsLive, IsOpen
<1>3. QED
  BY <1>1, <1>2 DEF BudgetInv, InOrder, Soon

\* Every step, and every stutter, keeps the budget of every window.
LEMMA NextBudgetInv ==
    ASSUME BudgetInv, [Next]_vars
    PROVE  BudgetInv'
<1>1. CASE \E step \in remaining : Fold(step)
  BY <1>1, FoldBudgetInv
<1>2. CASE EndOfStream
  BY <1>2, EndOfStreamBudgetInv
<1>3. CASE UNCHANGED vars
  <2>1. PartInv'
    BY <1>3, NextPartInv DEF BudgetInv
  <2>2. QED
    BY <1>3, <2>1 DEF vars, BudgetInv, InOrder, Soon, IsLive, IsOpen, Spent
<1>4. QED
  BY <1>1, <1>2, <1>3 DEF Next

-----------------------------------------------------------------------------
(* The theorem on the budget.                                               *)

\* For every policy and flight, at every step: no window holds more events
\* than the threshold, and each ends before it has spent two budgets and one
\* event more, although budget steps fall at multiples of the budget of the
\* whole flight and not of the window.
THEOREM WindowsAreCapped == Spec => []BudgetCap
<1>1. Init => BudgetInv
  BY InitBudgetInv
<1>2. BudgetInv /\ [Next]_vars => BudgetInv'
  BY NextBudgetInv
<1>3. BudgetInv => BudgetCap
  <2>1. SUFFICES ASSUME BudgetInv, NEW w \in Windows
                 PROVE  Capped(w)
    BY DEF BudgetCap, Capped, Spent
  <2>2. CASE \E i \in DOMAIN closed : w = closed[i]
    BY <2>1, <2>2 DEF BudgetInv
  <2>3. CASE IsLive /\ w = Summary(open, open.tEnd, "open")
    BY <2>1, <2>3, OpenCapped
  <2>4. QED
    BY <2>2, <2>3 DEF Windows, IsLive
<1>4. QED
  BY <1>1, <1>2, <1>3, PTL DEF Spec

-----------------------------------------------------------------------------
(* Types.  That a window starts at a time and not before the first event    *)
(* follows from where the budget steps fall, and that its ids are those of  *)
(* events from the partition.                                               *)

TypeInv == PartInv /\ TypeOK

\* A window that holds events of the flight has their ids.
LEMMA HoldsTyped ==
    ASSUME events \in Flights, NEW w \in OpenRecord, NEW lo \in Nat, NEW hi \in Nat,
           Holds(events, timeout, w, lo, hi), lo <= hi, hi <= Len(events),
           w.win # 0, w.tStart \in Nat, NEW t \in Int, w.tEnd <= t,
           NEW R, NEW reason \in R
    PROVE  Summary(w, t, reason) \in WindowOf(R)
<1>1. Len(events) \in Nat
  BY FlightIsTyped
<1>2. /\ w.win \in Nat \ {0} /\ w.tEnd \in Int /\ w.count \in Nat
  BY DEF OpenRecord
<1>3. w.count = hi - lo /\ w.tStart <= w.tEnd
  BY DEF Holds
<1>4. t \in Nat /\ w.count \in 0..Len(events)
  BY <1>1, <1>2, <1>3
<1>5. /\ w.first \in EventIds \cup {NoSeq}
      /\ w.last \in EventIds \cup {NoSeq}
  <2>1. CASE lo = hi
    BY <2>1 DEF Holds
  <2>2. CASE lo < hi
    BY <1>1, <2>2 DEF Holds, EventIds
  <2>3. QED
    BY <2>1, <2>2
<1>6. QED
  BY <1>2, <1>4, <1>5 DEF WindowOf, Summary

\* So the open window may be closed at its end or later.
LEMMA OpenSummaryTyped ==
    ASSUME TypeInv, IsLive, NEW t \in Int, open.tEnd <= t, NEW R, NEW reason \in R
    PROVE  Summary(open, t, reason) \in WindowOf(R)
<1>1. events \in Flights /\ open \in OpenRecord
  BY DEF TypeInv, PartInv, IInv, Shape
<1>2. PICK e \in Nat, f \in Nat : Parts(e, f)
  BY DEF TypeInv, PartInv
<1>3. Holds(events, timeout, open, e, f) /\ e <= f /\ f <= Len(events)
  <2>1. Len(events) \in Nat
    BY <1>1, FlightIsTyped
  <2>2. QED
    BY <1>2, <2>1 DEF Parts
<1>4. open.win # 0 /\ open.tStart \in Nat
  BY DEF TypeInv, TypeOK, IsLive, Summary, WindowOf
<1>5. QED
  BY <1>1, <1>2, <1>3, <1>4, HoldsTyped

\* Folding a step keeps the types.
LEMMA FoldTypeOK ==
    ASSUME TypeInv, NEW step \in remaining, Fold(step)
    PROVE  TypeOK'
<1> DEFINE w == Working(step)
           pre == Preclosed(step)
           post == Postclosed(step)
<1>1. /\ PartInv /\ IInv /\ ~finished /\ timeout \in Int /\ events \in Flights
      /\ step \in Steps(events)
  BY DEF TypeInv, PartInv, IInv, Shape
<1>2. PartInv'
  BY <1>1, FoldPartInv
<1>3. /\ remaining' = remaining \ {step}
      /\ open' = IF post = <<>> THEN w ELSE NoWindow
      /\ closed' = closed \o pre \o post
      /\ nextWin' = nextWin + Len(pre) + Len(post)
      /\ UNCHANGED <<timeout, events, finished>>
  BY DEF Fold
<1>4. PICK e \in Nat, f \in Nat : Parts(e, f)
  BY <1>1 DEF PartInv
<1>5. PICK c \in Nat, g \in Nat :
        /\ Holds(events, timeout, w, c, g) /\ c <= g /\ g <= Len(events)
        /\ w.tEnd = step.ts
  BY <1>1, <1>4, WorkingHolds
<1>6. /\ w \in OpenRecord /\ w.win = nextWin + Len(pre)
      /\ pre = <<>> \/ \E x : pre = <<x>>
      /\ post = <<>> \/ \E x : post = <<x>>
  BY <1>1, FoldParts
<1>7. step.ts \in Nat
  BY <1>1, NoneLater
<1>8. w.tStart \in Nat
  <2>1. CASE IsOpen /\ Preclosed(step) = <<>>
    <3>1. w.tStart = open.tStart
      BY <2>1 DEF Working, Joined, TypeInv, PartInv, IInv, Shape, OpenRecord
    <3>2. open.tStart \in Nat
      BY <2>1 DEF TypeInv, TypeOK, Summary, WindowOf
    <3>3. QED
      BY <3>1, <3>2
  <2>2. CASE ~(IsOpen /\ Preclosed(step) = <<>>)
    BY <1>7, <2>2 DEF Working, Fresh
  <2>3. QED
    BY <2>1, <2>2
<1>9. nextWin \in Nat \ {0} /\ Len(pre) \in Nat /\ Len(post) \in Nat
  <2>1. nextWin \in Nat \ {0}
    BY DEF TypeInv, TypeOK
  <2> HIDE DEF pre, post
  <2>2. QED
    BY <1>6, <2>1
<1>10. w.win # 0 /\ nextWin' \in Nat \ {0}
  <2> HIDE DEF pre, post
  <2>1. QED
    BY <1>3, <1>6, <1>9
<1> HIDE DEF w
<1>11. ASSUME NEW R, NEW reason \in R
       PROVE  Summary(w, w.tEnd, reason) \in WindowOf(R)
  <2>1. w.tEnd \in Int /\ w.tEnd <= w.tEnd
    BY <1>5, <1>7
  <2>2. QED
    BY <1>1, <1>5, <1>6, <1>8, <1>10, <1>11, <2>1, HoldsTyped
<1>12. pre = <<>> \/ \E x \in WindowOf(CloseReasons) : pre = <<x>>
  <2>1. CASE ~IsOpen
    BY <2>1 DEF Preclosed
  <2>2. CASE IsOpen
    <3>1. IsLive /\ open.tEnd \in Int /\ open.tEnd <= open.tEnd /\ open.tEnd <= step.ts
      BY <1>1, <2>2, OpenIsTyped DEF IsLive
    <3>2. /\ "inactivity_timeout" \in CloseReasons /\ "budget_threshold" \in CloseReasons
          /\ step.ts \in Int
      BY <1>7 DEF CloseReasons
    <3>3. /\ Summary(open, open.tEnd, "inactivity_timeout") \in WindowOf(CloseReasons)
          /\ Summary(open, step.ts, "budget_threshold") \in WindowOf(CloseReasons)
      BY <3>1, <3>2, OpenSummaryTyped
    <3>4. QED
      BY <2>2, <3>3 DEF Preclosed
  <2>3. QED
    BY <2>1, <2>2
<1>13. post = <<>> \/ \E x \in WindowOf(CloseReasons) : post = <<x>>
  <2>1. CloseReason(w) \in CloseReasons
    BY DEF CloseReason, CloseReasons
  <2>2. Summary(w, w.tEnd, CloseReason(w)) \in WindowOf(CloseReasons)
    BY <1>11, <2>1
  <2>3. QED
    BY <2>2 DEF Postclosed, w
<1>14. closed' \in Seq(WindowOf(CloseReasons))
  <2>1. closed \in Seq(WindowOf(CloseReasons))
    BY DEF TypeInv, TypeOK
  <2>2. /\ <<>> \in Seq(WindowOf(CloseReasons))
        /\ \A x \in WindowOf(CloseReasons) : <<x>> \in Seq(WindowOf(CloseReasons))
    OBVIOUS
  <2> HIDE DEF pre, post
  <2>3. pre \in Seq(WindowOf(CloseReasons)) /\ post \in Seq(WindowOf(CloseReasons))
    BY <1>12, <1>13, <2>2
  <2>4. QED
    BY <1>3, <2>1, <2>3
<1>15. Summary(w, w.tEnd, "open") \in WindowOf({"open"})
  BY <1>11
<1>16. WindowOf(CloseReasons)' = WindowOf(CloseReasons) /\ WindowOf({"open"})' = WindowOf({"open"})
  BY <1>3 DEF WindowOf, EventIds
<1>17. IsOpen' => Summary(open, open.tEnd, "open")' \in WindowOf({"open"})
  BY <1>3, <1>15 DEF IsOpen, Summary
<1>18. QED
  BY <1>3, <1>10, <1>14, <1>16, <1>17 DEF TypeInv, TypeOK

\* Closing the last window keeps the types.
LEMMA EndOfStreamTypeOK ==
    ASSUME TypeInv, EndOfStream
    PROVE  TypeOK'
<1>1. /\ ~finished /\ finished' = TRUE /\ UNCHANGED <<timeout, events, remaining, nextWin, open>>
      /\ closed' = IF IsOpen /\ open.count > 0
                   THEN Append(closed, Summary(open, open.tEnd, "end_of_stream"))
                   ELSE closed
  BY DEF EndOfStream
<1>2. closed' \in Seq(WindowOf(CloseReasons))
  <2>1. closed \in Seq(WindowOf(CloseReasons))
    BY DEF TypeInv, TypeOK
  <2>2. ASSUME IsOpen
        PROVE  Summary(open, open.tEnd, "end_of_stream") \in WindowOf(CloseReasons)
    <3>1. /\ IsLive /\ open.tEnd \in Int /\ open.tEnd <= open.tEnd
          /\ "end_of_stream" \in CloseReasons
      BY <1>1, <2>2, OpenIsTyped DEF IsLive, TypeInv, CloseReasons
    <3>2. QED
      BY <3>1, OpenSummaryTyped
  <2>3. QED
    BY <1>1, <2>1, <2>2
<1>3. WindowOf(CloseReasons)' = WindowOf(CloseReasons) /\ WindowOf({"open"})' = WindowOf({"open"})
  BY <1>1 DEF WindowOf, EventIds
<1>4. QED
  BY <1>1, <1>2, <1>3 DEF TypeInv, TypeOK, IsOpen, Summary

\* Every step, and every stutter, keeps the types.
LEMMA NextTypeInv ==
    ASSUME TypeInv, [Next]_vars
    PROVE  TypeInv'
<1>1. PartInv'
  BY NextPartInv DEF TypeInv
<1>2. CASE \E step \in remaining : Fold(step)
  BY <1>1, <1>2, FoldTypeOK DEF TypeInv
<1>3. CASE EndOfStream
  BY <1>1, <1>3, EndOfStreamTypeOK DEF TypeInv
<1>4. CASE UNCHANGED vars
  BY <1>1, <1>4 DEF vars, TypeInv, TypeOK, IsOpen, Summary, WindowOf, EventIds
<1>5. QED
  BY <1>2, <1>3, <1>4 DEF Next

\* For every policy and flight the windows keep their types: ids from 1, times
\* not before time 0, event ids of the flight or null, and a reason to close.
THEOREM WindowTypes == Spec => []TypeOK
<1>1. Init => TypeInv
  <2>1. SUFFICES ASSUME Init PROVE TypeInv
    OBVIOUS
  <2>2. PartInv
    BY <2>1, InitPartInv
  <2>3. closed \in Seq(WindowOf(CloseReasons)) /\ ~IsOpen
    <3>1. closed = <<>> /\ open = NoWindow
      BY <2>1 DEF Init
    <3>2. QED
      BY <3>1 DEF IsOpen
  <2>4. /\ timeout \in InactivityTimeouts /\ events \in Flights
        /\ remaining \subseteq Steps(events)
        /\ nextWin \in Nat \ {0} /\ finished \in BOOLEAN
    <3>1. /\ timeout \in InactivityTimeouts /\ events \in Flights
          /\ remaining = Steps(events) /\ nextWin = 1 /\ finished = FALSE
      BY <2>1 DEF Init
    <3>2. remaining \subseteq Steps(events)
      BY <3>1
    <3>3. nextWin \in Nat \ {0}
      BY <3>1, SMT
    <3>4. finished \in BOOLEAN
      BY <3>1, Zenon
    <3>5. QED
      BY <3>1, <3>2, <3>3, <3>4
  <2>5. QED
    BY <2>2, <2>3, <2>4 DEF TypeInv, TypeOK
<1>2. TypeInv /\ [Next]_vars => TypeInv'
  BY NextTypeInv
<1>3. TypeInv => TypeOK
  BY DEF TypeInv
<1>4. QED
  BY <1>1, <1>2, <1>3, PTL DEF Spec
=============================================================================
