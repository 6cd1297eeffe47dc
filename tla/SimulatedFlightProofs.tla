------------------------ MODULE SimulatedFlightProofs ------------------------
(***************************************************************************)
(* Proofs about the transfers, the labels and the rows of a simulated       *)
(* flight, for every aircraft, misbehavior program, set of families, phase  *)
(* program and tick.                                                        *)
(***************************************************************************)
EXTENDS SimulatedFlight, TLAPS

-----------------------------------------------------------------------------
(* Draining a queue.                                                        *)

IsList(q) == \E S : q \in Seq(S)

\* A queue in the order of the deadlines.
Ordered(q) == \A i, j \in 1..Len(q) : i <= j => q[i].at <= q[j].at

\* What drain_due does with one transfer.
DrainOne(now, drain, t) ==
    IF IsDue(t, now) THEN [drain EXCEPT !.due = <<t>>]
    ELSE [drain EXCEPT !.rest = Append(@, t)]

Draining == INSTANCE FoldLemmas WITH Op <- LAMBDA now, drain, t : DrainOne(now, drain, t)

\* What is left of the first i transfers, and which of them is the last due.
DrainedUpTo(q, now, i, d) ==
    /\ d = [due |-> d.due, rest |-> d.rest]
    /\ IsList(d.rest)
    /\ \A a \in 1..Len(d.rest) : \E j \in 1..i : d.rest[a] = q[j] /\ ~IsDue(q[j], now)
    /\ \A j \in 1..i : ~IsDue(q[j], now) => \E a \in 1..Len(d.rest) : d.rest[a] = q[j]
    /\ Ordered(q) => Ordered(d.rest)
    /\ d.due = <<>> => \A j \in 1..i : ~IsDue(q[j], now)
    /\ d.due # <<>> => \E j \in 1..i : /\ d.due = <<q[j]>>
                                       /\ IsDue(q[j], now)
                                       /\ \A l \in (j + 1)..i : ~IsDue(q[l], now)

\* A list with one element more.
LEMMA Appended ==
    ASSUME NEW q, IsList(q), NEW t
    PROVE  /\ IsList(Append(q, t))
           /\ Len(q) \in Nat
           /\ Len(Append(q, t)) = Len(q) + 1
           /\ \A i \in 1..Len(q) : Append(q, t)[i] = q[i]
           /\ Append(q, t)[Len(q) + 1] = t
<1>1. PICK S : q \in Seq(S)
  BY DEF IsList
<1> DEFINE U == S \cup {t}
<1>2. q \in Seq(U) /\ t \in U
  BY <1>1
<1>3. Append(q, t) \in Seq(U)
  BY <1>2
<1>4. QED
  BY <1>2, <1>3 DEF IsList

\* The empty queue is a queue.
LEMMA EmptyIsList == IsList(<<>>) /\ Len(<<>>) = 0
<1>1. <<>> \in Seq({})
  OBVIOUS
<1>2. QED
  BY <1>1 DEF IsList

\* One transfer more keeps the account of the drain.
LEMMA DrainOneMore ==
    ASSUME NEW q, IsList(q), NEW now, NEW i \in Nat, i + 1 <= Len(q),
           NEW d, DrainedUpTo(q, now, i, d)
    PROVE  DrainedUpTo(q, now, i + 1, DrainOne(now, d, q[i + 1]))
<1> DEFINE t == q[i + 1]
           e == DrainOne(now, d, t)
<1>1. Len(q) \in Nat
  BY Appended
<1>2. CASE IsDue(t, now)
  <2>1. e = [due |-> <<t>>, rest |-> d.rest]
    BY <1>2 DEF DrainedUpTo, DrainOne
  <2>2. e.due = <<t>> /\ e.rest = d.rest /\ e = [due |-> e.due, rest |-> e.rest]
    BY <2>1
  <2> HIDE DEF e
  <2>3. \A a \in 1..Len(e.rest) : \E j \in 1..(i + 1) : e.rest[a] = q[j] /\ ~IsDue(q[j], now)
    BY <2>2 DEF DrainedUpTo
  <2>4. \A j \in 1..(i + 1) : ~IsDue(q[j], now) => \E a \in 1..Len(e.rest) : e.rest[a] = q[j]
    BY <1>2, <2>2 DEF DrainedUpTo
  <2>5. e.due # <<>>
    BY <2>2
  <2>6. \A l \in ((i + 1) + 1)..(i + 1) : ~IsDue(q[l], now)
    OBVIOUS
  <2>7. \E j \in 1..(i + 1) : /\ e.due = <<q[j]>>
                              /\ IsDue(q[j], now)
                              /\ \A l \in (j + 1)..(i + 1) : ~IsDue(q[l], now)
    BY <1>2, <2>2, <2>6
  <2>8. IsList(e.rest) /\ (Ordered(q) => Ordered(e.rest))
    BY <2>2 DEF DrainedUpTo
  <2>9. QED
    BY <2>2, <2>3, <2>4, <2>5, <2>7, <2>8 DEF DrainedUpTo, e
<1>3. CASE ~IsDue(t, now)
  <2> DEFINE r == d.rest
  <2>0. IsList(r)
    BY DEF DrainedUpTo
  <2>1. e = [due |-> d.due, rest |-> Append(r, t)]
    BY <1>3 DEF DrainedUpTo, DrainOne
  <2>2. e.due = d.due /\ e.rest = Append(r, t) /\ e = [due |-> e.due, rest |-> e.rest]
    BY <2>1
  <2>3. /\ IsList(e.rest)
        /\ Len(r) \in Nat
        /\ Len(e.rest) = Len(r) + 1
        /\ \A a \in 1..Len(r) : e.rest[a] = r[a]
        /\ e.rest[Len(r) + 1] = t
    BY <2>0, <2>2, Appended
  <2>4. \A a \in 1..Len(r) : \E j \in 1..i : r[a] = q[j] /\ ~IsDue(q[j], now)
    BY DEF DrainedUpTo
  <2>5. \A j \in 1..i : ~IsDue(q[j], now) => \E a \in 1..Len(r) : r[a] = q[j]
    BY DEF DrainedUpTo
  <2>6. Ordered(q) => Ordered(r)
    BY DEF DrainedUpTo
  <2>7. /\ d.due = <<>> => \A j \in 1..i : ~IsDue(q[j], now)
        /\ d.due # <<>> => \E j \in 1..i : /\ d.due = <<q[j]>>
                                           /\ IsDue(q[j], now)
                                           /\ \A l \in (j + 1)..i : ~IsDue(q[l], now)
    BY DEF DrainedUpTo
  <2> HIDE DEF e, r
  <2>8. ASSUME NEW a \in 1..Len(e.rest)
        PROVE  \E j \in 1..(i + 1) : e.rest[a] = q[j] /\ ~IsDue(q[j], now)
    <3>1. CASE a \in 1..Len(r)
      <4>1. PICK j \in 1..i : r[a] = q[j] /\ ~IsDue(q[j], now)
        BY <2>4, <3>1
      <4>2. j \in 1..(i + 1) /\ e.rest[a] = q[j]
        BY <2>3, <3>1, <4>1
      <4>3. QED
        BY <4>1, <4>2
    <3>2. CASE a = Len(r) + 1
      <4>1. i + 1 \in 1..(i + 1) /\ e.rest[a] = q[i + 1]
        BY <2>3, <3>2
      <4>2. QED
        BY <1>3, <4>1
    <3>3. QED
      BY <2>3, <3>1, <3>2
  <2>9. ASSUME NEW j \in 1..(i + 1), ~IsDue(q[j], now)
        PROVE  \E a \in 1..Len(e.rest) : e.rest[a] = q[j]
    <3>1. CASE j \in 1..i
      <4>1. PICK a \in 1..Len(r) : r[a] = q[j]
        BY <2>5, <2>9, <3>1
      <4>2. a \in 1..Len(e.rest) /\ e.rest[a] = q[j]
        BY <2>3, <4>1
      <4>3. QED
        BY <4>2
    <3>2. CASE j = i + 1
      <4>1. Len(r) + 1 \in 1..Len(e.rest)
        BY <2>3
      <4>2. QED
        BY <2>3, <3>2, <4>1
    <3>3. QED
      BY <3>1, <3>2
  <2>10. ASSUME Ordered(q) PROVE Ordered(e.rest)
    <3>1. ASSUME NEW a \in 1..Len(e.rest), NEW b \in 1..Len(e.rest), a <= b
          PROVE  e.rest[a].at <= e.rest[b].at
      <4>1. CASE b \in 1..Len(r)
        <5>1. a \in 1..Len(r)
          BY <2>3, <3>1, <4>1
        <5>2. QED
          BY <2>3, <2>6, <2>10, <3>1, <4>1, <5>1 DEF Ordered
      <4>2. CASE b = Len(r) + 1
        <5>1. PICK j \in 1..(i + 1) : e.rest[a] = q[j]
          BY <2>8
        <5>2. j \in 1..Len(q) /\ i + 1 \in 1..Len(q) /\ j <= i + 1
          BY <1>1
        <5>3. q[j].at <= q[i + 1].at
          BY <2>10, <5>2 DEF Ordered
        <5>4. QED
          BY <2>3, <4>2, <5>1, <5>3
      <4>3. QED
        BY <2>3, <4>1, <4>2
    <3>2. QED
      BY <3>1 DEF Ordered
  <2>11. ASSUME e.due = <<>>, NEW j \in 1..(i + 1) PROVE ~IsDue(q[j], now)
    <3>1. j \in 1..i \/ j = i + 1
      OBVIOUS
    <3>2. QED
      BY <1>3, <2>2, <2>7, <2>11, <3>1
  <2>12. ASSUME e.due # <<>>
         PROVE  \E j \in 1..(i + 1) : /\ e.due = <<q[j]>>
                                      /\ IsDue(q[j], now)
                                      /\ \A l \in (j + 1)..(i + 1) : ~IsDue(q[l], now)
    <3>1. PICK j \in 1..i : /\ d.due = <<q[j]>>
                            /\ IsDue(q[j], now)
                            /\ \A l \in (j + 1)..i : ~IsDue(q[l], now)
      BY <2>2, <2>7, <2>12
    <3>2. \A l \in (j + 1)..(i + 1) : l \in (j + 1)..i \/ l = i + 1
      OBVIOUS
    <3>3. \A l \in (j + 1)..(i + 1) : ~IsDue(q[l], now)
      BY <1>3, <3>1, <3>2
    <3>4. j \in 1..(i + 1)
      OBVIOUS
    <3>5. QED
      BY <2>2, <3>1, <3>3, <3>4
  <2>13. QED
    BY <2>2, <2>3, <2>8, <2>9, <2>10, <2>11, <2>12 DEF DrainedUpTo, e
<1>4. QED
  BY <1>2, <1>3

\* A drain splits a queue into the transfers that are due, of which it
\* returns the last, and the others, which stay in their order.
LEMMA DrainIs ==
    ASSUME NEW q, IsList(q), NEW now
    PROVE  DrainedUpTo(q, now, Len(q), DrainDue(q, now))
<1> DEFINE base == [due |-> <<>>, rest |-> <<>>]
<1>1. PICK S : q \in Seq(S)
  BY DEF IsList
<1>2. PICK run : /\ Draining!Runs(now, base, q, run)
                 /\ Draining!Fold(now, base, q) = run[Len(q)]
  BY <1>1, Draining!FoldRuns
<1>3. DrainDue(q, now) = Draining!Fold(now, base, q)
  BY DEF DrainDue, DrainOne, FoldLeft, MapThenFoldSet, Max,
         Draining!Fold, Draining!FoldLeft, Draining!MapThenFoldSet, Draining!Max
<1>4. /\ run[0] = base
      /\ \A i \in 1..Len(q) : run[i] = DrainOne(now, run[i - 1], q[i])
  BY <1>2 DEF Draining!Runs
<1>5. Len(q) \in Nat
  BY <1>1
<1> DEFINE T == {i \in Nat : i <= Len(q) => DrainedUpTo(q, now, i, run[i])}
<1>6. 0 \in T
  <2>1. run[0].due = <<>> /\ run[0].rest = <<>> /\ run[0] = [due |-> run[0].due, rest |-> run[0].rest]
    BY <1>4
  <2>2. 1..0 = {} /\ IsList(run[0].rest) /\ 1..Len(run[0].rest) = {}
    BY <2>1, EmptyIsList
  <2>3. QED
    BY <2>1, <2>2 DEF DrainedUpTo, Ordered
<1>7. ASSUME NEW i \in Nat, i \in T
      PROVE  i + 1 \in T
  <2>1. SUFFICES ASSUME i + 1 <= Len(q)
                 PROVE  DrainedUpTo(q, now, i + 1, run[i + 1])
    OBVIOUS
  <2>2. run[i + 1] = DrainOne(now, run[i], q[i + 1])
    <3>1. i + 1 \in 1..Len(q) /\ (i + 1) - 1 = i
      BY <1>5, <2>1
    <3>2. QED
      BY <1>4, <3>1
  <2>3. DrainedUpTo(q, now, i, run[i])
    BY <1>5, <1>7, <2>1
  <2>4. QED
    BY <2>1, <2>2, <2>3, DrainOneMore
<1>8. Nat \subseteq T
  <2> HIDE DEF T
  <2>1. QED
    BY <1>6, <1>7, Draining!Induction
<1>9. Len(q) \in T /\ Len(q) <= Len(q)
  BY <1>5, <1>8
<1>10. QED
  BY <1>2, <1>3, <1>9

-----------------------------------------------------------------------------
(* Times, lags and keys.                                                    *)

\* The times of the ticks.
LEMMA Times ==
    /\ Dt \in Int /\ Dt > 0
    /\ \A n \in Int : Time(n) \in Int /\ Time(n + 1) = Time(n) + Dt
    /\ \A m, n \in Int : m <= n => Time(m) <= Time(n)
    /\ \A n \in Nat : TickOf(Time(n)) = n
<1>1. Dt \in Int /\ Dt > 0
  BY TickAssumption
<1>2. \A n \in Int, d \in Int : n * d \in Int /\ (n + 1) * d = n * d + d
  BY SMTT(30)
<1>3. \A m, n \in Int, d \in Int : d > 0 /\ m <= n => m * d <= n * d
  BY SMTT(30)
<1>4. \A n \in Nat, d \in Int : d > 0 => (n * d) \div d = n
  BY SMTT(30)
<1>5. \A n \in Int : Time(n) \in Int /\ Time(n + 1) = Time(n) + Dt
  BY <1>1, <1>2 DEF Time
<1>6. \A m, n \in Int : m <= n => Time(m) <= Time(n)
  BY <1>1, <1>3 DEF Time
<1>7. \A n \in Nat : TickOf(Time(n)) = n
  BY <1>1, <1>4 DEF Time, TickOf
<1>8. QED
  BY <1>1, <1>5, <1>6, <1>7

\* A set of numbers up to a bound has a largest one.
LEMMA MaxIs ==
    ASSUME NEW L \in Nat, NEW T \in SUBSET (0..L), T # {}
    PROVE  Max(T) \in T /\ \A x \in T : x <= Max(T)
<1> DEFINE U == {L - x : x \in T}
<1>1. U \in SUBSET Nat /\ U # {}
  <2>1. \A x \in T : x \in 0..L /\ L - x \in Nat
    OBVIOUS
  <2>2. PICK x \in T : TRUE
    OBVIOUS
  <2>3. L - x \in U
    OBVIOUS
  <2>4. QED
    BY <2>1, <2>3
<1>2. PICK u \in U : \A v \in U : u <= v
  <2> HIDE DEF U
  <2>1. QED
    BY <1>1, Draining!LeastElement
<1>3. PICK x \in T : u = L - x
  OBVIOUS
<1>4. ASSUME NEW y \in T
      PROVE  x >= y
  <2>1. L - y \in U /\ x \in Int /\ y \in Int
    OBVIOUS
  <2> HIDE DEF U
  <2>2. L - x <= L - y
    BY <1>2, <1>3, <2>1
  <2>3. QED
    BY <2>1, <2>2
<1>5. Max(T) \in T /\ \A y \in T : Max(T) >= y
  BY <1>4 DEF Max
<1>6. \A y \in T : y \in Int
  OBVIOUS
<1>7. QED
  BY <1>5, <1>6

\* The windows of a flight.
IsProgram(windows) == \E f \in Programs : windows = f.windows

\* A subject has no context or that of one of its windows.
LEMMA ContextIs ==
    ASSUME NEW windows, IsProgram(windows), NEW id, NEW n
    PROVE  \/ ContextAt(windows, id, n) = Nominal
           \/ \E i \in DOMAIN windows : /\ windows[i].subject = id
                                         /\ ContextAt(windows, id, n) = windows[i].context
<1> DEFINE open == {i \in DOMAIN windows : IsOpen(windows[i], id, n)}
<1>1. PICK f \in Programs : windows = f.windows
  BY DEF IsProgram
<1>2. windows \in Seq(ToSet(windows))
  BY <1>1, FlightAssumption
<1>3. Len(windows) \in Nat /\ DOMAIN windows = 1..Len(windows)
  BY <1>2
<1>4. CASE open = {}
  BY <1>4 DEF ContextAt
<1>5. CASE open # {}
  <2>1. open \in SUBSET (0..Len(windows))
    BY <1>3
  <2> HIDE DEF open
  <2>2. Max(open) \in open
    BY <1>3, <1>5, <2>1, MaxIs
  <2>3. ContextAt(windows, id, n) = windows[Max(open)].context
    BY <1>5 DEF ContextAt, open
  <2>4. QED
    BY <2>2, <2>3 DEF open, IsOpen
<1>6. QED
  BY <1>4, <1>5

\* A flight up to now: [windows, seen, rows].
ContextIn(h, c, n) == ContextAt(h.windows, c.id, n)

LagIn(h, c, n) == EffectiveLag(c, ContextIn(h, c, n), Time(n))

KeyIn(h, c, n) == Key(c, ContextIn(h, c, n), Time(n))

NominalKey(c) == Key(c, Nominal, 0)

\* No window changes the key of coupling c (KeepsKeys).
Keeps(h, c) ==
    \A i \in DOMAIN h.windows :
        h.windows[i].subject = c.id =>
            h.windows[i].context.kind \in {"coupling_break", "phase_context_violation"}

\* A lag is a whole number of seconds, and part of the key.
LEMMA LagIs ==
    ASSUME NEW h, IsProgram(h.windows), NEW c \in CouplingSet, NEW n
    PROVE  /\ LagIn(h, c, n) \in Int
           /\ LagIn(h, c, n) >= 0
           /\ KeyIn(h, c, n).lag = LagIn(h, c, n)
           /\ KeyIn(h, c, n).port = c.port
           /\ NominalKey(c).port = c.port
<1> DEFINE ctx == ContextIn(h, c, n)
<1>1. c.lag \in Int
  BY FlightAssumption
<1>2. ctx # Nominal => {ctx.lag, ctx.even, ctx.odd} \subseteq Int
  <2>1. SUFFICES ASSUME ctx # Nominal
                 PROVE  {ctx.lag, ctx.even, ctx.odd} \subseteq Int
    OBVIOUS
  <2>2. PICK i \in DOMAIN h.windows : /\ h.windows[i].subject = c.id
                                      /\ ctx = h.windows[i].context
    BY <2>1, ContextIs DEF ContextIn
  <2>3. PICK f \in Programs : h.windows = f.windows
    BY DEF IsProgram
  <2>4. f.windows[i] \in ToSet(f.windows)
    BY <2>3 DEF ToSet
  <2>5. QED
    BY <2>2, <2>3, <2>4, FlightAssumption
<1> HIDE DEF ctx
<1>3. EffectiveLag(c, ctx, Time(n)) \in Int /\ EffectiveLag(c, ctx, Time(n)) >= 0
  <2> DEFINE delay == CASE IsKind(ctx, "timing_lag") -> c.lag + ctx.lag
                        [] IsKind(ctx, "timing_jitter") ->
                             c.lag + (IF Time(n) % 2 = 0 THEN ctx.even ELSE ctx.odd)
                        [] OTHER -> c.lag
  <2>1. delay \in Int
    <3>1. CASE IsKind(ctx, "timing_lag")
      <4>1. ctx.lag \in Int /\ ~IsKind(ctx, "timing_jitter")
        BY <1>2, <3>1 DEF IsKind
      <4>2. QED
        BY <1>1, <3>1, <4>1
    <3>2. CASE IsKind(ctx, "timing_jitter")
      <4>1. ctx.even \in Int /\ ctx.odd \in Int /\ ~IsKind(ctx, "timing_lag")
        BY <1>2, <3>2 DEF IsKind
      <4>2. QED
        BY <1>1, <3>2, <4>1
    <3>3. CASE ~IsKind(ctx, "timing_lag") /\ ~IsKind(ctx, "timing_jitter")
      BY <1>1, <3>3
    <3>4. QED
      BY <3>1, <3>2, <3>3
  <2>2. EffectiveLag(c, ctx, Time(n)) = AtLeastZero(delay)
    BY DEF EffectiveLag
  <2> HIDE DEF delay
  <2>3. QED
    BY <2>1, <2>2 DEF AtLeastZero
<1>4. QED
  BY <1>3 DEF LagIn, KeyIn, NominalKey, Key, ctx

\* A coupling under no window that changes its key always has the same one.
LEMMA KeyIsKept ==
    ASSUME NEW h, IsProgram(h.windows), NEW c \in CouplingSet, Keeps(h, c), NEW n
    PROVE  /\ KeyIn(h, c, n) = NominalKey(c)
           /\ LagIn(h, c, n) = AtLeastZero(c.lag)
<1> DEFINE ctx == ContextIn(h, c, n)
<1>1. \A kind \in {"timing_lag", "timing_jitter", "coupling_inversion"} : ~IsKind(ctx, kind)
  <2>1. SUFFICES ASSUME ctx # Nominal
                 PROVE  ctx.kind \in {"coupling_break", "phase_context_violation"}
    BY DEF IsKind
  <2>2. PICK i \in DOMAIN h.windows : /\ h.windows[i].subject = c.id
                                      /\ ctx = h.windows[i].context
    BY <2>1, ContextIs DEF ContextIn
  <2>3. QED
    BY <2>2 DEF Keeps
<1>2. \A kind : ~IsKind(Nominal, kind)
  BY DEF IsKind
<1> HIDE DEF ctx
<1>3. EffectiveSign(c, ctx) = c.sign /\ EffectiveSign(c, Nominal) = c.sign
  BY <1>1, <1>2 DEF EffectiveSign
<1>4. \A now : EffectiveLag(c, ctx, now) = AtLeastZero(c.lag)
  BY <1>1 DEF EffectiveLag
<1>5. EffectiveLag(c, Nominal, 0) = AtLeastZero(c.lag)
  BY <1>2 DEF EffectiveLag
<1>6. QED
  BY <1>3, <1>4, <1>5 DEF LagIn, KeyIn, NominalKey, Key, ctx

-----------------------------------------------------------------------------
(* The invariant of the ports and the queues.                               *)

\* Coupling c let the sample of tick n pass (Admitted), and t is what it sent.
Sent(h, c, n, t) ==
    /\ n \in Nat /\ n < Len(h.rows[c.source])
    /\ Admits(c, ContextIn(h, c, n), h.seen[n + 1].phase, h.seen[n + 1].modes)
    /\ Writes(c, ContextIn(h, c, n), IsActive(h.rows[c.source][n + 1]))
    /\ t = Transfer(c, ContextIn(h, c, n), Time(n), IsActive(h.rows[c.source][n + 1]))

\* Up to tick n: the windows are those of a program and no sample is newer.
UpTo(h, n) ==
    /\ IsProgram(h.windows)
    /\ \A c \in CouplingSet : Len(h.rows[c.source]) \in 0..(n + 1)

\* A transfer in the queue of key k was sent under that key, and unless a
\* window interfered it is not overdue: it is due after the last turn of its
\* coupling.  The couplings with their index in `done' have had their turn.
InQueue(h, done, now, k, t) ==
    \E j \in DOMAIN Couplings : \E n \in Nat :
        /\ Sent(h, Couplings[j], n, t)
        /\ Time(n) <= now
        /\ k = KeyIn(h, Couplings[j], n)
        /\ k.lag > 0
        /\ Keeps(h, Couplings[j]) => t.at > now - (IF j \in done THEN 0 ELSE Dt)

QueueOK(h, done, now, k, q) ==
    /\ IsList(q)
    /\ Ordered(q)
    /\ \A i \in 1..Len(q) : InQueue(h, done, now, k, q[i])

\* A port that has been written holds something sent to it, which is no longer
\* on its way; its label is that of the transfer and written in this tick.
PortOK(h, now, p, port) ==
    /\ "metadata" \in DOMAIN port
    /\ \/ port.origin = None /\ port.metadata = None
       \/ \E c \in CouplingSet : \E n \in Nat : \E t :
            /\ Sent(h, c, n, t)
            /\ c.port = p
            /\ port.at = t.at /\ port.origin = t.origin
            /\ port.at <= now
            /\ port.metadata # None =>
                  port.metadata = t.metadata /\ (Keeps(h, c) => port.at > now - Dt)

\* The couplings into port p always share one key.
Uniform(h, p) ==
    /\ \A c \in WritersOf(p) : Keeps(h, c)
    /\ \A c, d \in WritersOf(p) : NominalKey(c) = NominalKey(d)

\* The port is no newer than the queue.
Behind(port, q) == \A i \in 1..Len(q) : port.origin # None => port.origin <= q[i].origin

\* Transfer t is on its way, or something as new has arrived.
Reached(port, q, t) ==
    \/ port.origin # None /\ t.origin <= port.origin
    \/ \E i \in 1..Len(q) : q[i] = t

\* What was sent to a port is reached, in order, by the couplings that have
\* had their turn.
NothingLost(h, done, now, st) ==
    \A j \in DOMAIN Couplings :
        LET c == Couplings[j]
            port == st.ports[c.port]
            q == QueueOf(st, NominalKey(c))
        IN  Uniform(h, c.port) =>
                /\ Behind(port, q)
                /\ \A n \in Nat : \A t :
                      Sent(h, c, n, t) /\ (Time(n) < now \/ j \in done) => Reached(port, q, t)

Transferring(h, done, now, st) ==
    /\ st = [ports |-> st.ports, queues |-> st.queues]
    /\ DOMAIN st.ports = Ports
    /\ \A k : QueueOK(h, done, now, k, QueueOf(st, k))
    /\ \A p \in Ports : PortOK(h, now, p, st.ports[p])
    /\ NothingLost(h, done, now, st)

-----------------------------------------------------------------------------
(* What was sent.                                                           *)

\* A coupling of the list writes a port, and is among its writers.
LEMMA CouplingIs ==
    ASSUME NEW j \in DOMAIN Couplings
    PROVE  /\ Couplings[j] \in CouplingSet
           /\ Couplings[j].port \in Ports
           /\ Couplings[j] \in WritersOf(Couplings[j].port)
  BY DEF CouplingSet, ToSet, Ports, WritersOf

\* The time, the lag and the label of a transfer.
LEMMA SentIs ==
    ASSUME NEW h, NEW m, UpTo(h, m), m \in Nat,
           NEW c \in CouplingSet, NEW n, NEW t, Sent(h, c, n, t)
    PROVE  /\ n \in Nat /\ n <= m
           /\ Time(n) \in Int /\ Time(n) <= Time(m)
           /\ t.origin = Time(n) /\ t.origin \in Int /\ t.origin # None
           /\ t.at = Time(n) + LagIn(h, c, n) /\ t.at \in Int
           /\ LagIn(h, c, n) \in Int /\ LagIn(h, c, n) >= 0
           /\ t.value \in {None, t.origin}
           /\ t.metadata = Metadata(c, ContextIn(h, c, n)) /\ "metadata" \in DOMAIN t
<1>1. n \in Nat /\ n < Len(h.rows[c.source]) /\ Len(h.rows[c.source]) \in 0..(m + 1)
  BY DEF Sent, UpTo
<1>2. n <= m
  BY <1>1
<1>3. Time(n) \in Int /\ Time(n) <= Time(m)
  BY <1>1, <1>2, Times
<1>4. LagIn(h, c, n) \in Int /\ LagIn(h, c, n) >= 0
  BY LagIs DEF UpTo
<1>5. /\ t.origin = Time(n)
      /\ t.at = Time(n) + LagIn(h, c, n)
      /\ t.value \in {None, Time(n)}
      /\ t.metadata = Metadata(c, ContextIn(h, c, n)) /\ "metadata" \in DOMAIN t
  BY DEF Sent, Transfer, LagIn, TransferredValue
<1>6. None \notin Int
  BY FlightAssumption
<1>7. QED
  BY <1>1, <1>2, <1>3, <1>4, <1>5, <1>6

\* The times of a transfer in a queue: it arrives the lag of its key late.
LEMMA QueuedIs ==
    ASSUME NEW h, NEW m, UpTo(h, m), m \in Nat, NEW done, NEW now \in Int,
           NEW k, NEW t, InQueue(h, done, now, k, t)
    PROVE  /\ t.origin \in Int /\ t.at \in Int /\ k.lag \in Int
           /\ t.at = t.origin + k.lag /\ k.lag > 0
           /\ t.origin <= now
           /\ t.value \in {None, t.origin}
<1>1. PICK j \in DOMAIN Couplings : \E n \in Nat :
            Sent(h, Couplings[j], n, t) /\ k = KeyIn(h, Couplings[j], n) /\ k.lag > 0 /\ Time(n) <= now
  BY DEF InQueue
<1> DEFINE c == Couplings[j]
<1>2. PICK n \in Nat : Sent(h, c, n, t) /\ k = KeyIn(h, c, n) /\ k.lag > 0 /\ Time(n) <= now
  BY <1>1
<1>3. c \in CouplingSet
  BY CouplingIs
<1> HIDE DEF c
<1>4. /\ t.origin = Time(n) /\ t.origin \in Int
      /\ t.at = Time(n) + LagIn(h, c, n) /\ t.at \in Int
      /\ t.value \in {None, t.origin}
  BY <1>2, <1>3, SentIs
<1>5. k.lag = LagIn(h, c, n) /\ LagIn(h, c, n) \in Int
  BY <1>2, <1>3, LagIs DEF UpTo
<1>6. QED
  BY <1>2, <1>4, <1>5

\* The time on a port that has been written.
LEMMA WrittenIs ==
    ASSUME NEW h, NEW m, UpTo(h, m), m \in Nat, NEW now \in Int,
           NEW p, NEW port, PortOK(h, now, p, port), port.origin # None
    PROVE  port.origin \in Int /\ port.origin <= now
<1>1. PICK c \in CouplingSet : \E n \in Nat : \E t :
            Sent(h, c, n, t) /\ port.at = t.at /\ port.origin = t.origin /\ port.at <= now
  BY DEF PortOK
<1>2. PICK n \in Nat : \E t :
            Sent(h, c, n, t) /\ port.at = t.at /\ port.origin = t.origin /\ port.at <= now
  BY <1>1
<1>3. PICK t : Sent(h, c, n, t) /\ port.at = t.at /\ port.origin = t.origin /\ port.at <= now
  BY <1>2
<1>4. /\ t.origin = Time(n) /\ t.origin \in Int
      /\ t.at = Time(n) + LagIn(h, c, n) /\ t.at \in Int
      /\ LagIn(h, c, n) \in Int /\ LagIn(h, c, n) >= 0
  BY <1>3, SentIs
<1>5. QED
  BY <1>3, <1>4

\* Of a port with one key, the key of a coupling is the key of the port.
LEMMA UniformKey ==
    ASSUME NEW h, IsProgram(h.windows), NEW i \in DOMAIN Couplings, NEW j \in DOMAIN Couplings,
           Uniform(h, Couplings[i].port), Couplings[j].port = Couplings[i].port, NEW n
    PROVE  /\ Keeps(h, Couplings[j])
           /\ KeyIn(h, Couplings[j], n) = NominalKey(Couplings[i])
<1>1. /\ Couplings[i] \in WritersOf(Couplings[i].port)
      /\ Couplings[j] \in WritersOf(Couplings[i].port)
      /\ Couplings[j] \in CouplingSet
  BY CouplingIs
<1>2. /\ Keeps(h, Couplings[j])
      /\ NominalKey(Couplings[j]) = NominalKey(Couplings[i])
  BY <1>1 DEF Uniform
<1>3. QED
  BY <1>1, <1>2, KeyIsKept

-----------------------------------------------------------------------------
(* One step of a transfer.                                                  *)

\* The ports and the queues.
Shape(st) == st = [ports |-> st.ports, queues |-> st.queues] /\ DOMAIN st.ports = Ports

\* A queue is changed under its key.
LEMMA QueueChanged ==
    ASSUME NEW st, Shape(st), NEW k, NEW q
    PROVE  /\ Shape(WithQueue(st, k, q))
           /\ WithQueue(st, k, q).ports = st.ports
           /\ \A j : QueueOf(WithQueue(st, k, q), j) = IF j = k THEN q ELSE QueueOf(st, j)
<1> DEFINE queues2 == [j \in DOMAIN st.queues \cup {k} |-> IF j = k THEN q ELSE st.queues[j]]
<1>1. WithQueue(st, k, q) = [ports |-> st.ports, queues |-> queues2]
  BY DEF WithQueue, Shape
<1>2. \A j : QueueOf([ports |-> st.ports, queues |-> queues2], j)
                = IF j = k THEN q ELSE QueueOf(st, j)
  BY DEF QueueOf
<1> HIDE DEF queues2
<1>3. QED
  BY <1>1, <1>2 DEF Shape

\* A port is written.
LEMMA PortChanged ==
    ASSUME NEW st, Shape(st), NEW p \in Ports, NEW x
    PROVE  LET after == [st EXCEPT !.ports[p] = x]
           IN  /\ Shape(after)
               /\ \A o \in Ports : after.ports[o] = IF o = p THEN x ELSE st.ports[o]
               /\ \A k : QueueOf(after, k) = QueueOf(st, k)
<1> DEFINE after == [st EXCEPT !.ports[p] = x]
<1>1. after = [ports |-> [st.ports EXCEPT ![p] = x], queues |-> st.queues]
  BY DEF Shape
<1> HIDE DEF after
<1>2. after.ports = [st.ports EXCEPT ![p] = x] /\ after.queues = st.queues
  BY <1>1
<1>3. Shape(after) /\ \A o \in Ports : after.ports[o] = IF o = p THEN x ELSE st.ports[o]
  BY <1>1, <1>2 DEF Shape
<1>4. \A k : QueueOf(after, k) = QueueOf(st, k)
  BY <1>2 DEF QueueOf
<1>5. QED
  BY <1>3, <1>4 DEF after

\* All that is in a queue is still to come.
Ahead(q, now) == \A i \in 1..Len(q) : q[i].at > now

\* A drained queue is in order and holds nothing that is due.
LEMMA DrainedQueue ==
    ASSUME NEW h, NEW n \in Nat, UpTo(h, n), NEW done, NEW k, NEW q,
           QueueOK(h, done, Time(n), k, q)
    PROVE  /\ QueueOK(h, done, Time(n), k, DrainDue(q, Time(n)).rest)
           /\ Ahead(DrainDue(q, Time(n)).rest, Time(n))
<1> DEFINE now == Time(n)
           d == DrainDue(q, now)
<1>1. now \in Int
  BY Times
<1>2. IsList(q) /\ Ordered(q) /\ \A i \in 1..Len(q) : InQueue(h, done, now, k, q[i])
  BY DEF QueueOK
<1>3. DrainedUpTo(q, now, Len(q), d)
  BY <1>2, DrainIs
<1> HIDE DEF d, now
<1>4. IsList(d.rest) /\ Ordered(d.rest)
  BY <1>2, <1>3 DEF DrainedUpTo
<1>5. ASSUME NEW a \in 1..Len(d.rest)
      PROVE  InQueue(h, done, now, k, d.rest[a]) /\ d.rest[a].at > now
  <2>1. PICK j \in 1..Len(q) : d.rest[a] = q[j] /\ ~IsDue(q[j], now)
    BY <1>3 DEF DrainedUpTo
  <2>2. InQueue(h, done, now, k, q[j])
    BY <1>2
  <2>3. q[j].at \in Int
    BY <1>1, <2>2, QueuedIs
  <2>4. QED
    BY <1>1, <2>1, <2>2, <2>3 DEF IsDue
<1>6. QED
  BY <1>4, <1>5 DEF QueueOK, Ahead, d, now

\* What is drained may be written to the port of its key.
LEMMA DrainedToPort ==
    ASSUME NEW h, NEW n \in Nat, UpTo(h, n), NEW done, NEW k, NEW t,
           InQueue(h, done, Time(n), k, t), IsDue(t, Time(n))
    PROVE  PortOK(h, Time(n), k.port, t)
<1> DEFINE now == Time(n)
<1>1. now \in Int /\ Dt \in Int /\ Dt > 0
  BY Times
<1>2. PICK j \in DOMAIN Couplings : \E o \in Nat :
            /\ Sent(h, Couplings[j], o, t)
            /\ k = KeyIn(h, Couplings[j], o)
            /\ Keeps(h, Couplings[j]) => t.at > now - (IF j \in done THEN 0 ELSE Dt)
  BY DEF InQueue
<1> DEFINE c == Couplings[j]
<1>3. PICK o \in Nat :
            /\ Sent(h, c, o, t)
            /\ k = KeyIn(h, c, o)
            /\ Keeps(h, c) => t.at > now - (IF j \in done THEN 0 ELSE Dt)
  BY <1>2
<1>4. c \in CouplingSet
  BY CouplingIs
<1> HIDE DEF c, now
<1>5. k.port = c.port
  BY <1>3, <1>4, LagIs DEF UpTo
<1>6. t.at \in Int /\ t.at <= now /\ "metadata" \in DOMAIN t
  BY <1>3, <1>4, SentIs DEF IsDue, now
<1>7. Keeps(h, c) => t.at > now - Dt
  BY <1>1, <1>3, <1>6
<1>8. QED
  BY <1>3, <1>4, <1>5, <1>6, <1>7 DEF PortOK, now

\* The transfer that a drain writes is as new as the port and as all others
\* that are due, and no newer than the rest.
LEMMA DrainedInOrder ==
    ASSUME NEW h, NEW n \in Nat, UpTo(h, n), NEW done, NEW k, NEW q,
           QueueOK(h, done, Time(n), k, q), DrainDue(q, Time(n)).due # <<>>,
           NEW port, Behind(port, q), port.origin # None => port.origin \in Int
    PROVE  LET d == DrainDue(q, Time(n))
               x == d.due[1]
           IN  /\ InQueue(h, done, Time(n), k, x) /\ IsDue(x, Time(n))
               /\ Behind(x, d.rest)
               /\ \A t : t.origin \in Int /\ Reached(port, q, t) => Reached(x, d.rest, t)
<1> DEFINE now == Time(n)
           d == DrainDue(q, now)
           x == d.due[1]
<1>1. now \in Int
  BY Times
<1>2. IsList(q) /\ Ordered(q) /\ \A i \in 1..Len(q) : InQueue(h, done, now, k, q[i])
  BY DEF QueueOK
<1>3. DrainedUpTo(q, now, Len(q), d)
  BY <1>2, DrainIs
<1>4. Len(q) \in Nat
  BY <1>2, Appended
<1> HIDE DEF d, now
<1>5. PICK m \in 1..Len(q) : /\ d.due = <<q[m]>>
                             /\ IsDue(q[m], now)
                             /\ \A l \in (m + 1)..Len(q) : ~IsDue(q[l], now)
  BY <1>3 DEF DrainedUpTo, d, now
<1>6. x = q[m]
  BY <1>5
<1> HIDE DEF x
<1>7. \A i \in 1..Len(q) : /\ q[i].origin \in Int /\ q[i].at \in Int /\ k.lag \in Int
                            /\ q[i].at = q[i].origin + k.lag
  BY <1>1, <1>2, QueuedIs
<1>8. x.origin # None
  BY <1>6, <1>7, FlightAssumption
<1>9. ASSUME NEW a \in 1..Len(d.rest)
      PROVE  x.origin <= d.rest[a].origin
  <2>1. PICK j \in 1..Len(q) : d.rest[a] = q[j] /\ ~IsDue(q[j], now)
    BY <1>3 DEF DrainedUpTo
  <2>2. q[m].at <= now /\ ~(q[j].at <= now)
    BY <1>5, <2>1 DEF IsDue
  <2>3. q[m].origin <= q[j].origin
    <3>1. /\ q[m].origin \in Int /\ q[m].at = q[m].origin + k.lag
          /\ q[j].origin \in Int /\ q[j].at = q[j].origin + k.lag /\ k.lag \in Int
      BY <1>7
    <3>2. QED
      BY ONLY <1>1, <2>2, <3>1
  <2>4. QED
    BY <1>6, <2>1, <2>3
<1>10. ASSUME NEW t, t.origin \in Int, Reached(port, q, t)
       PROVE  Reached(x, d.rest, t)
  <2>1. CASE port.origin # None /\ t.origin <= port.origin
    <3>1. port.origin \in Int /\ port.origin <= q[m].origin
      BY <2>1 DEF Behind
    <3>2. t.origin <= q[m].origin
      <4>1. q[m].origin \in Int
        BY <1>7
      <4>2. QED
        BY <1>10, <2>1, <3>1, <4>1
    <3>3. QED
      BY <1>6, <1>8, <3>2 DEF Reached
  <2>2. CASE \E i \in 1..Len(q) : q[i] = t
    <3>1. PICK i \in 1..Len(q) : q[i] = t
      BY <2>2
    <3>2. CASE IsDue(q[i], now)
      <4>1. i <= m
        BY <1>4, <1>5, <3>2
      <4>2. q[i].at <= q[m].at
        BY <1>2, <4>1 DEF Ordered
      <4>3. q[i].origin <= q[m].origin
        <5>1. /\ q[m].origin \in Int /\ q[m].at = q[m].origin + k.lag
              /\ q[i].origin \in Int /\ q[i].at = q[i].origin + k.lag /\ k.lag \in Int
          BY <1>7
        <5>2. QED
          BY ONLY <4>2, <5>1
      <4>4. QED
        BY <1>6, <1>8, <3>1, <4>3 DEF Reached
    <3>3. CASE ~IsDue(q[i], now)
      <4>1. \E a \in 1..Len(d.rest) : d.rest[a] = q[i]
        BY <1>3, <3>3 DEF DrainedUpTo
      <4>2. QED
        BY <3>1, <4>1 DEF Reached
    <3>4. QED
      BY <3>2, <3>3
  <2>3. QED
    BY <1>10, <2>1, <2>2 DEF Reached
<1>11. Behind(x, d.rest)
  BY <1>9 DEF Behind
<1>12. InQueue(h, done, now, k, x) /\ IsDue(x, now)
  BY <1>2, <1>5, <1>6
<1>13. QED
  BY <1>10, <1>11, <1>12 DEF d, x, now

\* Couplings into different ports have different keys.
LEMMA OtherKey ==
    ASSUME NEW h, IsProgram(h.windows), NEW i \in DOMAIN Couplings, NEW j \in DOMAIN Couplings,
           Couplings[i].port # Couplings[j].port, NEW n
    PROVE  NominalKey(Couplings[i]) # KeyIn(h, Couplings[j], n)
<1>1. Couplings[i] \in CouplingSet /\ Couplings[j] \in CouplingSet
  BY CouplingIs
<1>2. /\ NominalKey(Couplings[i]).port = Couplings[i].port
      /\ KeyIn(h, Couplings[j], n).port = Couplings[j].port
  BY <1>1, LagIs
<1>3. QED
  BY <1>2

\* Draining the queue of a coupling keeps the invariant and leaves only what
\* is still to come.
LEMMA DrainKeeps ==
    ASSUME NEW h, NEW n \in Nat, UpTo(h, n), NEW done, NEW st,
           Transferring(h, done, Time(n), st), NEW j \in DOMAIN Couplings
    PROVE  LET k == KeyIn(h, Couplings[j], n)
               after == Drained(st, Couplings[j], k, Time(n))
           IN  Transferring(h, done, Time(n), after) /\ Ahead(QueueOf(after, k), Time(n))
<1> DEFINE now == Time(n)
           c == Couplings[j]
           p == c.port
           k == KeyIn(h, c, n)
           q == QueueOf(st, k)
           d == DrainDue(q, now)
           after == Drained(st, c, k, now)
<1>1. now \in Int
  BY Times
<1>2. /\ Shape(st)
      /\ \A o : QueueOK(h, done, now, o, QueueOf(st, o))
      /\ \A o \in Ports : PortOK(h, now, o, st.ports[o])
      /\ NothingLost(h, done, now, st)
  BY DEF Transferring, Shape
<1>3. c \in CouplingSet /\ p \in Ports
  BY CouplingIs
<1>4. k.port = p
  BY <1>3, LagIs DEF UpTo
<1>5. QueueOK(h, done, now, k, q)
  BY <1>2
<1>6. CASE d.due = <<>>
  <2>1. after = st
    BY <1>6 DEF Drained
  <2>2. IsList(q) /\ \A i \in 1..Len(q) : InQueue(h, done, now, k, q[i])
    BY <1>5 DEF QueueOK
  <2>3. DrainedUpTo(q, now, Len(q), d)
    BY <2>2, DrainIs
  <2>4. \A i \in 1..Len(q) : ~IsDue(q[i], now) /\ q[i].at \in Int
    BY <1>1, <1>6, <2>2, <2>3, QueuedIs DEF DrainedUpTo
  <2>5. Ahead(q, now)
    BY <1>1, <2>4 DEF Ahead, IsDue
  <2>6. QED
    BY <2>1, <2>5
<1>7. CASE d.due # <<>>
  <2> DEFINE x == d.due[1]
             mid == WithQueue(st, k, d.rest)
  <2>1. after = [mid EXCEPT !.ports[p] = x]
    BY <1>7 DEF Drained
  <2>2. /\ QueueOK(h, done, now, k, d.rest)
        /\ Ahead(d.rest, now)
    BY <1>5, DrainedQueue
  <2>3. /\ Shape(mid)
        /\ mid.ports = st.ports
        /\ \A o : QueueOf(mid, o) = IF o = k THEN d.rest ELSE QueueOf(st, o)
    BY <1>2, QueueChanged
  <2> HIDE DEF x, mid, d, q, k, p, after
  <2>4. /\ Shape(after)
        /\ \A o \in Ports : after.ports[o] = IF o = p THEN x ELSE st.ports[o]
        /\ \A o : QueueOf(after, o) = IF o = k THEN d.rest ELSE QueueOf(st, o)
    <3>1. Shape(mid) /\ p \in Ports
      BY <1>3, <2>3
    <3>2. /\ Shape(after)
          /\ \A o \in Ports : after.ports[o] = IF o = p THEN x ELSE mid.ports[o]
          /\ \A o : QueueOf(after, o) = QueueOf(mid, o)
      BY <2>1, <3>1, PortChanged
    <3>3. QED
      BY <2>3, <3>2
  <2>5. \A o : QueueOK(h, done, now, o, QueueOf(after, o))
    BY <1>2, <2>2, <2>4
  <2>6. InQueue(h, done, now, k, x) /\ IsDue(x, now)
    <3> DEFINE none == [origin |-> None]
    <3>1. Behind(none, q) /\ (none.origin # None => none.origin \in Int)
      BY DEF Behind
    <3> HIDE DEF none
    <3>2. QED
      BY <1>5, <1>7, <3>1, DrainedInOrder DEF d, x
  <2>7. PortOK(h, now, p, x)
    BY <1>4, <2>6, DrainedToPort
  <2>8. \A o \in Ports : PortOK(h, now, o, after.ports[o])
    BY <1>2, <2>4, <2>7
  <2>9. ASSUME NEW i \in DOMAIN Couplings, Uniform(h, Couplings[i].port)
        PROVE  LET e == Couplings[i]
                   port == after.ports[e.port]
                   r == QueueOf(after, NominalKey(e))
               IN  /\ Behind(port, r)
                   /\ \A o \in Nat : \A t :
                        Sent(h, e, o, t) /\ (Time(o) < now \/ i \in done) => Reached(port, r, t)
    <3> DEFINE e == Couplings[i]
               old == st.ports[e.port]
               s == QueueOf(st, NominalKey(e))
    <3>1. /\ Behind(old, s)
          /\ \A o \in Nat : \A t :
               Sent(h, e, o, t) /\ (Time(o) < now \/ i \in done) => Reached(old, s, t)
      BY <1>2, <2>9 DEF NothingLost
    <3>2. e \in CouplingSet /\ e.port \in Ports
      BY CouplingIs
    <3>3. CASE e.port = p
      <4>1. NominalKey(e) = k
        BY <2>9, <3>3, UniformKey DEF p, k, UpTo
      <4>2. Behind(old, q)
        BY <3>1, <4>1 DEF q
      <4>3. old.origin # None => old.origin \in Int
        BY <1>1, <1>2, <3>2, WrittenIs
      <4> HIDE DEF old, e, s
      <4>4. /\ Behind(x, d.rest)
            /\ \A t : t.origin \in Int /\ Reached(old, q, t) => Reached(x, d.rest, t)
        BY <1>5, <1>7, <4>2, <4>3, DrainedInOrder DEF d, x
      <4>5. after.ports[e.port] = x /\ QueueOf(after, NominalKey(e)) = d.rest
        BY <2>4, <3>2, <3>3, <4>1
      <4>6. s = q
        BY <4>1 DEF s, q
      <4>7. \A o \in Nat : \A t : Sent(h, e, o, t) => t.origin \in Int
        BY <3>2, SentIs
      <4>8. QED
        BY <3>1, <4>4, <4>5, <4>6, <4>7 DEF e
    <3>4. CASE e.port # p
      <4>1. NominalKey(e) # k
        BY <3>4, OtherKey DEF k, p, UpTo
      <4>2. after.ports[e.port] = old /\ QueueOf(after, NominalKey(e)) = s
        BY <2>4, <3>2, <3>4, <4>1
      <4>3. QED
        BY <3>1, <4>2
    <3>5. QED
      BY <3>3, <3>4
  <2>10. NothingLost(h, done, now, after)
    BY <2>9 DEF NothingLost
  <2>11. Transferring(h, done, now, after)
    BY <2>4, <2>5, <2>8, <2>10 DEF Transferring, Shape
  <2>12. QueueOf(after, k) = d.rest
    BY <2>4
  <2>13. QED
    BY <2>2, <2>11, <2>12 DEF after, k
<1>8. QED
  BY <1>6, <1>7

\* What coupling j does in tick n is done, when all it sent is on its way and
\* its queue holds nothing that is due.
LEMMA TurnKeeps ==
    ASSUME NEW h, NEW n \in Nat, UpTo(h, n), NEW done, NEW st,
           Transferring(h, done, Time(n), st), NEW j \in DOMAIN Couplings,
           LagIn(h, Couplings[j], n) > 0 => Ahead(QueueOf(st, KeyIn(h, Couplings[j], n)), Time(n)),
           \A t : Sent(h, Couplings[j], n, t) /\ Uniform(h, Couplings[j].port) =>
                Reached(st.ports[Couplings[j].port], QueueOf(st, NominalKey(Couplings[j])), t)
    PROVE  Transferring(h, done \cup {j}, Time(n), st)
<1> DEFINE now == Time(n)
           c == Couplings[j]
           more == done \cup {j}
<1>1. now \in Int /\ Dt \in Int /\ Dt > 0
  BY Times
<1>2. /\ Shape(st)
      /\ \A k : QueueOK(h, done, now, k, QueueOf(st, k))
      /\ \A o \in Ports : PortOK(h, now, o, st.ports[o])
      /\ NothingLost(h, done, now, st)
  BY DEF Transferring, Shape
<1>3. c \in CouplingSet
  BY CouplingIs
<1> HIDE DEF now
<1>4. ASSUME NEW k, NEW a \in 1..Len(QueueOf(st, k))
      PROVE  InQueue(h, more, now, k, QueueOf(st, k)[a])
  <2> DEFINE t == QueueOf(st, k)[a]
  <2>1. InQueue(h, done, now, k, t)
    BY <1>2 DEF QueueOK
  <2>2. PICK i \in DOMAIN Couplings : \E o \in Nat :
            /\ Sent(h, Couplings[i], o, t)
            /\ Time(o) <= now
            /\ k = KeyIn(h, Couplings[i], o)
            /\ k.lag > 0
            /\ Keeps(h, Couplings[i]) => t.at > now - (IF i \in done THEN 0 ELSE Dt)
    BY <2>1 DEF InQueue
  <2>3. PICK o \in Nat :
            /\ Sent(h, Couplings[i], o, t)
            /\ Time(o) <= now
            /\ k = KeyIn(h, Couplings[i], o)
            /\ k.lag > 0
            /\ Keeps(h, Couplings[i]) => t.at > now - (IF i \in done THEN 0 ELSE Dt)
    BY <2>2
  <2>4. t.at \in Int
    BY <1>1, <2>1, QueuedIs
  <2>5. CASE i # j
    <3>1. Keeps(h, Couplings[i]) => t.at > now - (IF i \in more THEN 0 ELSE Dt)
      BY <2>3, <2>5
    <3>2. QED
      BY <2>3, <3>1 DEF InQueue
  <2>6. CASE i = j
    <3>1. SUFFICES ASSUME Keeps(h, c) PROVE t.at > now
      <4>1. Keeps(h, c) => t.at > now - 0
        BY <1>1, <3>1, <2>4
      <4>2. Keeps(h, Couplings[i]) => t.at > now - (IF i \in more THEN 0 ELSE Dt)
        BY <2>6, <4>1
      <4>3. QED
        BY <2>3, <4>2 DEF InQueue
    <3>2. k = KeyIn(h, c, n)
      <4>1. IsProgram(h.windows)
        BY DEF UpTo
      <4> HIDE DEF c
      <4>2. KeyIn(h, c, o) = NominalKey(c) /\ KeyIn(h, c, n) = NominalKey(c)
        BY <1>3, <3>1, <4>1, KeyIsKept
      <4>3. QED
        BY <2>3, <2>6, <4>2 DEF c
    <3>3. LagIn(h, c, n) > 0
      BY <1>3, <2>3, <3>2, LagIs DEF UpTo
    <3>4. QED
      BY <3>2, <3>3 DEF Ahead, now
  <2>7. QED
    BY <2>5, <2>6
<1>5. \A k : QueueOK(h, more, now, k, QueueOf(st, k))
  BY <1>2, <1>4 DEF QueueOK
<1>6. ASSUME NEW i \in DOMAIN Couplings, Uniform(h, Couplings[i].port)
      PROVE  LET e == Couplings[i]
                 port == st.ports[e.port]
                 r == QueueOf(st, NominalKey(e))
             IN  /\ Behind(port, r)
                 /\ \A o \in Nat : \A t :
                      Sent(h, e, o, t) /\ (Time(o) < now \/ i \in more) => Reached(port, r, t)
  <2> DEFINE e == Couplings[i]
             port == st.ports[e.port]
             r == QueueOf(st, NominalKey(e))
  <2>1. /\ Behind(port, r)
        /\ \A o \in Nat : \A t :
             Sent(h, e, o, t) /\ (Time(o) < now \/ i \in done) => Reached(port, r, t)
    BY <1>2, <1>6 DEF NothingLost
  <2>2. ASSUME NEW o \in Nat, NEW t, Sent(h, e, o, t), i = j
        PROVE  Reached(port, r, t)
    <3>1. o <= n
      BY <1>3, <2>2, SentIs
    <3>2. CASE o = n
      BY <1>6, <2>2, <3>2
    <3>3. CASE o < n
      <4>1. o + 1 <= n /\ o \in Int /\ o + 1 \in Int /\ n \in Int
        BY <3>3
      <4>2. Time(o) \in Int /\ Time(o) + Dt <= now
        BY <4>1, Times DEF now
      <4>3. Time(o) < now
        BY <1>1, <4>2
      <4>4. QED
        BY <2>1, <2>2, <4>3
    <3>4. QED
      BY <3>1, <3>2, <3>3
  <2>3. QED
    BY <2>1, <2>2
<1>7. NothingLost(h, more, now, st)
  BY <1>6 DEF NothingLost
<1>8. QED
  BY <1>2, <1>5, <1>7 DEF Transferring, Shape, now

\* A transfer joins the queue of its key as the last.
LEMMA QueueKeeps ==
    ASSUME NEW h, NEW n \in Nat, UpTo(h, n), NEW done, NEW st,
           Transferring(h, done, Time(n), st), NEW j \in DOMAIN Couplings,
           NEW t, Sent(h, Couplings[j], n, t), LagIn(h, Couplings[j], n) > 0
    PROVE  LET k == KeyIn(h, Couplings[j], n)
               after == WithQueue(st, k, Append(QueueOf(st, k), t))
           IN  /\ Transferring(h, done, Time(n), after)
               /\ Ahead(QueueOf(st, k), Time(n)) => Ahead(QueueOf(after, k), Time(n))
               /\ \A port : Reached(port, QueueOf(after, k), t)
<1> DEFINE now == Time(n)
           c == Couplings[j]
           k == KeyIn(h, c, n)
           q == QueueOf(st, k)
           r == Append(q, t)
           after == WithQueue(st, k, r)
<1>1. now \in Int /\ Dt \in Int /\ Dt > 0
  BY Times
<1>2. /\ Shape(st)
      /\ \A o : QueueOK(h, done, now, o, QueueOf(st, o))
      /\ \A o \in Ports : PortOK(h, now, o, st.ports[o])
      /\ NothingLost(h, done, now, st)
  BY DEF Transferring, Shape
<1>3. c \in CouplingSet
  BY CouplingIs
<1>4. k.lag = LagIn(h, c, n)
  BY <1>3, LagIs DEF UpTo
<1>5. /\ t.origin = now /\ t.at = now + LagIn(h, c, n) /\ t.at \in Int /\ LagIn(h, c, n) \in Int
  BY <1>3, SentIs
<1>6. IsList(q) /\ Ordered(q) /\ \A i \in 1..Len(q) : InQueue(h, done, now, k, q[i])
  BY <1>2 DEF QueueOK
<1>7. /\ IsList(r)
      /\ Len(q) \in Nat
      /\ Len(r) = Len(q) + 1
      /\ \A i \in 1..Len(q) : r[i] = q[i]
      /\ r[Len(q) + 1] = t
  BY <1>6, Appended
<1> HIDE DEF r, q
<1>8. /\ Shape(after)
      /\ after.ports = st.ports
      /\ \A o : QueueOf(after, o) = IF o = k THEN r ELSE QueueOf(st, o)
  <2>1. Shape(st) /\ after = WithQueue(st, k, r)
    BY <1>2
  <2> HIDE DEF after, k
  <2>2. QED
    BY <2>1, QueueChanged
<1> HIDE DEF now, after
<1>9. \A i \in 1..Len(q) : /\ q[i].origin \in Int /\ q[i].at \in Int /\ k.lag \in Int
                            /\ q[i].at = q[i].origin + k.lag /\ q[i].origin <= now
  BY <1>1, <1>6, QueuedIs
<1>10. InQueue(h, done, now, k, t)
  <2>1. t.at > now /\ t.at > now - Dt /\ k.lag > 0 /\ now <= now /\ now - 0 = now
    BY <1>1, <1>4, <1>5
  <2>2. t.at > now - (IF j \in done THEN 0 ELSE Dt)
    BY <2>1
  <2>3. QED
    BY <2>1, <2>2 DEF InQueue, now
<1>11. \A i \in 1..Len(r) : i \in 1..Len(q) \/ i = Len(q) + 1
  BY <1>7
<1>12. QueueOK(h, done, now, k, r)
  <2>1. \A i \in 1..Len(r) : InQueue(h, done, now, k, r[i])
    BY <1>6, <1>7, <1>10, <1>11
  <2>2. ASSUME NEW a \in 1..Len(r), NEW b \in 1..Len(r), a <= b
        PROVE  r[a].at <= r[b].at
    <3>1. CASE b \in 1..Len(q)
      <4>1. a \in 1..Len(q)
        BY <1>7, <2>2, <3>1
      <4>2. QED
        BY <1>6, <1>7, <2>2, <3>1, <4>1 DEF Ordered
    <3>2. CASE b = Len(q) + 1 /\ a \in 1..Len(q)
      <4>1. q[a].at <= now + LagIn(h, c, n)
        BY <1>1, <1>4, <1>5, <1>9, <3>2
      <4>2. QED
        BY <1>5, <1>7, <3>2, <4>1
    <3>3. CASE b = Len(q) + 1 /\ a = Len(q) + 1
      BY <1>5, <1>7, <3>3
    <3>4. QED
      BY <1>11, <3>1, <3>2, <3>3
  <2>3. QED
    BY <1>7, <2>1, <2>2 DEF QueueOK, Ordered
<1>13. ASSUME NEW port
       PROVE  /\ \A u : Reached(port, q, u) => Reached(port, r, u)
              /\ Reached(port, r, t)
  <2>1. Len(q) + 1 \in 1..Len(r) /\ \A i \in 1..Len(q) : i \in 1..Len(r)
    BY <1>7
  <2>2. ASSUME NEW u, Reached(port, q, u)
        PROVE  Reached(port, r, u)
    <3>1. CASE port.origin # None /\ u.origin <= port.origin
      BY <3>1 DEF Reached
    <3>2. CASE \E i \in 1..Len(q) : q[i] = u
      <4>1. PICK i \in 1..Len(q) : q[i] = u
        BY <3>2
      <4>2. i \in 1..Len(r) /\ r[i] = u
        BY <1>7, <2>1, <4>1
      <4>3. QED
        BY <4>2 DEF Reached
    <3>3. QED
      BY <2>2, <3>1, <3>2 DEF Reached
  <2>3. Reached(port, r, t)
    BY <1>7, <2>1 DEF Reached
  <2>4. QED
    BY <2>2, <2>3
<1>14. ASSUME NEW i \in DOMAIN Couplings, Uniform(h, Couplings[i].port)
       PROVE  LET e == Couplings[i]
                  port == after.ports[e.port]
                  s == QueueOf(after, NominalKey(e))
              IN  /\ Behind(port, s)
                  /\ \A o \in Nat : \A u :
                       Sent(h, e, o, u) /\ (Time(o) < now \/ i \in done) => Reached(port, s, u)
  <2> DEFINE e == Couplings[i]
             port == st.ports[e.port]
             s == QueueOf(st, NominalKey(e))
  <2>1. /\ Behind(port, s)
        /\ \A o \in Nat : \A u :
             Sent(h, e, o, u) /\ (Time(o) < now \/ i \in done) => Reached(port, s, u)
    BY <1>2, <1>14 DEF NothingLost
  <2>2. after.ports[e.port] = port
    BY <1>8
  <2>3. CASE NominalKey(e) = k
    <3>1. s = q /\ QueueOf(after, NominalKey(e)) = r
      BY <1>8, <2>3 DEF q
    <3>2. port.origin # None => port.origin <= t.origin
      <4>1. e.port \in Ports
        BY CouplingIs
      <4>2. QED
        BY <1>1, <1>2, <1>5, <4>1, WrittenIs DEF now
    <3> HIDE DEF port, s
    <3>3. Behind(port, r)
      BY <1>7, <1>11, <2>1, <3>1, <3>2 DEF Behind
    <3>4. QED
      BY <1>13, <2>1, <2>2, <3>1, <3>3
  <2>4. CASE NominalKey(e) # k
    <3>1. QueueOf(after, NominalKey(e)) = s
      BY <1>8, <2>4
    <3>2. QED
      BY <2>1, <2>2, <3>1
  <2>5. QED
    BY <2>3, <2>4
<1>15. NothingLost(h, done, now, after)
  BY <1>14 DEF NothingLost
<1>16. \A o : QueueOK(h, done, now, o, QueueOf(after, o))
  BY <1>2, <1>8, <1>12
<1>17. Transferring(h, done, now, after)
  BY <1>2, <1>8, <1>15, <1>16 DEF Transferring, Shape
<1>18. ASSUME Ahead(q, now)
       PROVE  Ahead(r, now)
  <2>1. t.at > now
    BY <1>1, <1>4, <1>5
  <2>2. QED
    BY <1>7, <1>11, <1>18, <2>1 DEF Ahead
<1>19. QueueOf(after, k) = r
  BY <1>8
<1>20. QED
  BY <1>13, <1>17, <1>18, <1>19 DEF now, after, r, q

\* A transfer without a lag is written to the port at once.
LEMMA WriteKeeps ==
    ASSUME NEW h, NEW n \in Nat, UpTo(h, n), NEW done, NEW st,
           Transferring(h, done, Time(n), st), NEW j \in DOMAIN Couplings,
           NEW t, Sent(h, Couplings[j], n, t), ~(LagIn(h, Couplings[j], n) > 0)
    PROVE  LET after == [st EXCEPT !.ports[Couplings[j].port] = t]
           IN  /\ Transferring(h, done, Time(n), after)
               /\ \A q : Reached(after.ports[Couplings[j].port], q, t)
<1> DEFINE now == Time(n)
           c == Couplings[j]
           p == c.port
           after == [st EXCEPT !.ports[p] = t]
<1>1. now \in Int /\ Dt \in Int /\ Dt > 0
  BY Times
<1>2. /\ Shape(st)
      /\ \A o : QueueOK(h, done, now, o, QueueOf(st, o))
      /\ \A o \in Ports : PortOK(h, now, o, st.ports[o])
      /\ NothingLost(h, done, now, st)
  BY DEF Transferring, Shape
<1>3. c \in CouplingSet /\ p \in Ports
  BY CouplingIs
<1>4. /\ t.origin = now /\ t.at = now + LagIn(h, c, n) /\ t.at \in Int /\ LagIn(h, c, n) \in Int
      /\ LagIn(h, c, n) >= 0 /\ t.origin # None /\ "metadata" \in DOMAIN t
  BY <1>3, SentIs
<1>5. t.at = now
  BY <1>1, <1>4
<1>6. /\ Shape(after)
      /\ \A o \in Ports : after.ports[o] = IF o = p THEN t ELSE st.ports[o]
      /\ \A k : QueueOf(after, k) = QueueOf(st, k)
  BY <1>2, <1>3, PortChanged
<1> HIDE DEF now, after, p
<1>7. PortOK(h, now, p, t)
  <2>1. t.at <= now /\ t.at > now - Dt
    BY <1>1, <1>5
  <2>2. QED
    BY <1>3, <1>4, <2>1 DEF PortOK, p
<1>8. ASSUME NEW i \in DOMAIN Couplings, Uniform(h, Couplings[i].port)
      PROVE  LET e == Couplings[i]
                 port == after.ports[e.port]
                 s == QueueOf(after, NominalKey(e))
             IN  /\ Behind(port, s)
                 /\ \A o \in Nat : \A u :
                      Sent(h, e, o, u) /\ (Time(o) < now \/ i \in done) => Reached(port, s, u)
  <2> DEFINE e == Couplings[i]
             port == st.ports[e.port]
             s == QueueOf(st, NominalKey(e))
  <2>0. e \in CouplingSet /\ e.port \in Ports
    BY CouplingIs
  <2>1. /\ Behind(port, s)
        /\ \A o \in Nat : \A u :
             Sent(h, e, o, u) /\ (Time(o) < now \/ i \in done) => Reached(port, s, u)
    BY <1>2, <1>8 DEF NothingLost
  <2>2. QueueOf(after, NominalKey(e)) = s
    BY <1>6
  <2>3. CASE e.port = p
    <3>1. after.ports[e.port] = t
      BY <1>6, <2>0, <2>3
    <3>2. NominalKey(e) = KeyIn(h, c, n)
      BY <1>8, <2>3, UniformKey DEF p, UpTo
    <3>3. ~(NominalKey(e).lag > 0)
      BY <1>3, <3>2, LagIs DEF UpTo
    <3>4. \A a \in 1..Len(s) : InQueue(h, done, now, NominalKey(e), s[a])
      BY <1>2 DEF QueueOK
    <3> HIDE DEF s
    <3>5. \A a \in 1..Len(s) : FALSE
      BY <3>3, <3>4 DEF InQueue
    <3>6. \A o \in Nat : \A u : Sent(h, e, o, u) => u.origin <= t.origin
      BY <1>4, <2>0, SentIs DEF now
    <3>7. QED
      BY <1>4, <2>2, <3>1, <3>5, <3>6 DEF Behind, Reached
  <2>4. CASE e.port # p
    <3>1. after.ports[e.port] = port
      BY <1>6, <2>0, <2>4
    <3>2. QED
      BY <2>1, <2>2, <3>1
  <2>5. QED
    BY <2>3, <2>4
<1>9. NothingLost(h, done, now, after)
  BY <1>8 DEF NothingLost
<1>10. Transferring(h, done, now, after)
  BY <1>2, <1>6, <1>7, <1>9 DEF Transferring, Shape
<1>11. \A q : Reached(after.ports[p], q, t)
  <2>1. after.ports[p] = t
    BY <1>3, <1>6 DEF p
  <2>2. QED
    BY <1>1, <1>4, <2>1 DEF Reached
<1>12. QED
  BY <1>10, <1>11 DEF now, after, p

\* What module m does to the ports and queues in tick n of h by coupling c.
ApplyIn(h, n, st, c) ==
    Apply(st, c, ContextIn(h, c, n), Time(n), h.seen[n + 1].phase, h.seen[n + 1].modes,
          IsActive(h.rows[c.source][n + 1]))

\* A coupling has its turn.
LEMMA ApplyKeeps ==
    ASSUME NEW h, NEW n \in Nat, UpTo(h, n), NEW done, NEW st,
           Transferring(h, done, Time(n), st), NEW j \in DOMAIN Couplings,
           Len(h.rows[Couplings[j].source]) = n + 1
    PROVE  Transferring(h, done \cup {j}, Time(n), ApplyIn(h, n, st, Couplings[j]))
<1> DEFINE now == Time(n)
           c == Couplings[j]
           ctx == ContextIn(h, c, n)
           lag == LagIn(h, c, n)
           k == KeyIn(h, c, n)
           active == IsActive(h.rows[c.source][n + 1])
           t == Transfer(c, ctx, now, active)
           drained == IF lag > 0 THEN Drained(st, c, k, now) ELSE st
           passes == Admits(c, ctx, h.seen[n + 1].phase, h.seen[n + 1].modes) /\ Writes(c, ctx, active)
           after == ApplyIn(h, n, st, c)
<1>1. after = IF ~passes THEN drained
              ELSE IF lag > 0 THEN WithQueue(drained, k, Append(QueueOf(drained, k), t))
              ELSE [drained EXCEPT !.ports[c.port] = t]
  BY DEF ApplyIn, Apply, LagIn, KeyIn
<1>2. /\ passes => Sent(h, c, n, t)
      /\ \A u : Sent(h, c, n, u) => passes /\ u = t
  BY DEF Sent
<1>3. /\ Transferring(h, done, now, drained)
      /\ lag > 0 => Ahead(QueueOf(drained, k), now)
  BY DrainKeeps
<1>4. Uniform(h, c.port) => NominalKey(c) = k
  BY UniformKey DEF UpTo
<1> HIDE DEF passes, drained, t, k, lag, now, after
<1>5. CASE ~passes
  <2>1. after = drained
    BY <1>1, <1>5
  <2>2. QED
    BY <1>2, <1>3, <1>5, <2>1, TurnKeeps DEF lag, k, now, after
<1>6. CASE passes /\ lag > 0
  <2>1. after = WithQueue(drained, k, Append(QueueOf(drained, k), t))
    BY <1>1, <1>6
  <2>2. /\ Transferring(h, done, now, after)
        /\ Ahead(QueueOf(after, k), now)
        /\ \A port : Reached(port, QueueOf(after, k), t)
    BY <1>2, <1>3, <1>6, <2>1, QueueKeeps DEF lag, k, now
  <2>3. \A u : Sent(h, c, n, u) /\ Uniform(h, c.port) =>
              Reached(after.ports[c.port], QueueOf(after, NominalKey(c)), u)
    BY <1>2, <1>4, <2>2
  <2>4. QED
    BY <2>2, <2>3, TurnKeeps DEF lag, k, now, after
<1>7. CASE passes /\ ~(lag > 0)
  <2>1. after = [drained EXCEPT !.ports[c.port] = t]
    BY <1>1, <1>7
  <2>2. /\ Transferring(h, done, now, after)
        /\ \A q : Reached(after.ports[c.port], q, t)
    BY <1>2, <1>3, <1>7, <2>1, WriteKeeps DEF lag, now
  <2>3. \A u : Sent(h, c, n, u) /\ Uniform(h, c.port) =>
              Reached(after.ports[c.port], QueueOf(after, NominalKey(c)), u)
    BY <1>2, <2>2
  <2>4. QED
    BY <1>7, <2>2, <2>3, TurnKeeps DEF lag, k, now, after
<1>8. QED
  BY <1>5, <1>6, <1>7

-----------------------------------------------------------------------------
(* The labels on the ports.                                                 *)

\* A label is that of a transfer to the port by a coupling from a module that
\* has had its turn; unless a window interfered it has arrived in this tick.
LabelOK(h, done, now, p, port) ==
    port.metadata # None =>
        \E c \in WritersOf(p) : \E n \in Nat : \E t :
            /\ Sent(h, c, n, t)
            /\ port.metadata = t.metadata
            /\ \E j \in DOMAIN Couplings : j \in done /\ Couplings[j].source = c.source
            /\ Keeps(h, c) => t.at <= now /\ t.at > now - Dt

\* Coupling c is alone at its port and sends the sample of tick n at once.
AtOnce(h, c, n) ==
    /\ WritersOf(c.port) = {c}
    /\ c.lag = 0
    /\ Keeps(h, c)
    /\ \E t : Sent(h, c, n, t)

\* In tick n a port shows the label of what was sent to it at once.
Labelling(h, done, n, st) ==
    /\ \A p \in Ports : LabelOK(h, done, Time(n), p, st.ports[p])
    /\ \A j \in DOMAIN Couplings :
        LET c == Couplings[j]
        IN  j \in done /\ AtOnce(h, c, n) =>
                st.ports[c.port].metadata = Metadata(c, ContextIn(h, c, n))

\* A drain by coupling j leaves the ports alone, or writes something to the
\* port of the coupling that has a label of this tick.
DrainsTo(h, n, j, st, after) ==
    \/ \A o \in Ports : after.ports[o] = st.ports[o]
    \/ \E x : /\ \A o \in Ports : after.ports[o] = IF o = Couplings[j].port THEN x ELSE st.ports[o]
              /\ LabelOK(h, {j}, Time(n), Couplings[j].port, x)

\* What a drain writes, if it does, has the label of a transfer from the same
\* module that has just arrived.
LEMMA DrainLabels ==
    ASSUME NEW h, NEW n \in Nat, UpTo(h, n), NEW done, NEW st,
           Transferring(h, done, Time(n), st), NEW j \in DOMAIN Couplings
    PROVE  DrainsTo(h, n, j, st, Drained(st, Couplings[j], KeyIn(h, Couplings[j], n), Time(n)))
<1> DEFINE now == Time(n)
           c == Couplings[j]
           p == c.port
           k == KeyIn(h, c, n)
           q == QueueOf(st, k)
           d == DrainDue(q, now)
           x == d.due[1]
           mid == WithQueue(st, k, d.rest)
           after == Drained(st, c, k, now)
<1>1. now \in Int /\ Dt \in Int /\ Dt > 0
  BY Times
<1>2. /\ Shape(st)
      /\ \A i \in 1..Len(q) : InQueue(h, done, now, k, q[i])
      /\ IsList(q)
  BY DEF Transferring, Shape, QueueOK
<1>3. c \in CouplingSet /\ p \in Ports
  BY CouplingIs
<1>4. k.port = p /\ k.source = c.source
  BY <1>3, LagIs DEF UpTo, KeyIn, Key
<1>5. CASE d.due = <<>>
  <2>1. after = st
    BY <1>5 DEF Drained
  <2>2. QED
    BY <2>1 DEF DrainsTo
<1>6. CASE d.due # <<>>
  <2>1. after = [mid EXCEPT !.ports[p] = x]
    BY <1>6 DEF Drained
  <2>2. DrainedUpTo(q, now, Len(q), d)
    BY <1>2, DrainIs
  <2> HIDE DEF d, q, k, p, after, c, now
  <2>3. Shape(mid) /\ mid.ports = st.ports
    BY <1>2, QueueChanged
  <2> HIDE DEF x, mid
  <2>4. \A o \in Ports : after.ports[o] = IF o = p THEN x ELSE st.ports[o]
    BY <1>3, <2>1, <2>3, PortChanged
  <2>5. InQueue(h, done, now, k, x) /\ IsDue(x, now)
    <3>1. PICK i \in 1..Len(q) : d.due = <<q[i]>> /\ IsDue(q[i], now)
      BY <1>6, <2>2 DEF DrainedUpTo
    <3>2. QED
      BY <1>2, <3>1 DEF x
  <2>6. PICK i \in DOMAIN Couplings : \E o \in Nat :
            /\ Sent(h, Couplings[i], o, x)
            /\ k = KeyIn(h, Couplings[i], o)
            /\ Keeps(h, Couplings[i]) => x.at > now - (IF i \in done THEN 0 ELSE Dt)
    BY <2>5 DEF InQueue
  <2> DEFINE e == Couplings[i]
  <2>7. PICK o \in Nat :
            /\ Sent(h, e, o, x)
            /\ k = KeyIn(h, e, o)
            /\ Keeps(h, e) => x.at > now - (IF i \in done THEN 0 ELSE Dt)
    BY <2>6
  <2>8. e \in CouplingSet
    BY CouplingIs
  <2> HIDE DEF e
  <2>9. k.port = e.port /\ k.source = e.source
    BY <2>7, <2>8, LagIs DEF UpTo, KeyIn, Key
  <2>10. e \in WritersOf(p) /\ e.source = c.source
    BY <1>4, <2>8, <2>9 DEF WritersOf
  <2>11. x.at \in Int /\ x.at <= now
    BY <2>5, <2>7, <2>8, SentIs DEF IsDue
  <2>12. Keeps(h, e) => x.at <= now /\ x.at > now - Dt
    BY <1>1, <2>7, <2>11
  <2>13. LabelOK(h, {j}, now, p, x)
    BY <2>7, <2>10, <2>12 DEF LabelOK, c
  <2>14. QED
    <3>1. DrainsTo(h, n, j, st, after)
      BY <2>4, <2>13 DEF DrainsTo, now, p, c
    <3>2. QED
      BY <3>1 DEF after, k, c, now
<1>7. QED
  BY <1>5, <1>6

\* A coupling leaves true labels when it has its turn.
LEMMA ApplyLabels ==
    ASSUME NEW h, NEW n \in Nat, UpTo(h, n), NEW done, NEW st,
           Transferring(h, done, Time(n), st), Labelling(h, done, n, st),
           NEW j \in DOMAIN Couplings, Len(h.rows[Couplings[j].source]) = n + 1
    PROVE  Labelling(h, done \cup {j}, n, ApplyIn(h, n, st, Couplings[j]))
<1> DEFINE now == Time(n)
           c == Couplings[j]
           p == c.port
           ctx == ContextIn(h, c, n)
           lag == LagIn(h, c, n)
           k == KeyIn(h, c, n)
           active == IsActive(h.rows[c.source][n + 1])
           t == Transfer(c, ctx, now, active)
           drained == IF lag > 0 THEN Drained(st, c, k, now) ELSE st
           passes == Admits(c, ctx, h.seen[n + 1].phase, h.seen[n + 1].modes) /\ Writes(c, ctx, active)
           after == ApplyIn(h, n, st, c)
           more == done \cup {j}
<1>1. after = IF ~passes THEN drained
              ELSE IF lag > 0 THEN WithQueue(drained, k, Append(QueueOf(drained, k), t))
              ELSE [drained EXCEPT !.ports[p] = t]
  BY DEF ApplyIn, Apply, LagIn, KeyIn
<1>2. /\ passes => Sent(h, c, n, t)
      /\ \A u : Sent(h, c, n, u) => passes /\ u = t
  BY DEF Sent
<1>3. Transferring(h, done, now, drained)
  BY DrainKeeps
<1>4. Shape(drained)
  BY <1>3 DEF Transferring, Shape
<1>5. c \in CouplingSet /\ p \in Ports /\ c \in WritersOf(p)
  BY CouplingIs
<1>6. now \in Int /\ Dt \in Int /\ Dt > 0 /\ lag \in Int /\ lag >= 0
  <2>1. IsProgram(h.windows)
    BY DEF UpTo
  <2>2. lag \in Int /\ lag >= 0
    BY <1>5, <2>1, LagIs
  <2>3. n \in Int
    OBVIOUS
  <2> HIDE DEF lag
  <2>4. now \in Int /\ Dt \in Int /\ Dt > 0
    BY <2>3, Times
  <2>5. QED
    BY <2>2, <2>4
<1>7. t.metadata = Metadata(c, ctx) /\ (passes => t.at = now + lag)
  BY DEF Transfer, LagIn
<1>8. \/ \A o \in Ports : drained.ports[o] = st.ports[o]
      \/ /\ lag > 0
         /\ \E x : /\ \A o \in Ports : drained.ports[o] = IF o = p THEN x ELSE st.ports[o]
                   /\ LabelOK(h, {j}, now, p, x)
  <2>1. CASE lag > 0
    <3>1. drained = Drained(st, c, k, now)
      BY <2>1
    <3>2. DrainsTo(h, n, j, st, Drained(st, c, k, now))
      BY DrainLabels
    <3> HIDE DEF drained, k, lag
    <3>3. QED
      BY <2>1, <3>1, <3>2 DEF DrainsTo
  <2>2. CASE ~(lag > 0)
    <3>1. drained = st
      BY <2>2
    <3> HIDE DEF drained
    <3>2. QED
      BY <3>1
  <2>3. QED
    BY <2>1, <2>2
<1> HIDE DEF passes, drained, t, k, lag, now, after, ctx, more, p
<1>9. IF passes /\ ~(lag > 0)
      THEN \A o \in Ports : after.ports[o] = IF o = p THEN t ELSE drained.ports[o]
      ELSE \A o \in Ports : after.ports[o] = drained.ports[o]
  <2>1. CASE ~passes
    BY <1>1, <2>1
  <2>2. CASE passes /\ lag > 0
    BY <1>1, <1>4, <2>2, QueueChanged
  <2>3. CASE passes /\ ~(lag > 0)
    <3>1. after = [drained EXCEPT !.ports[p] = t]
      BY <1>1, <2>3
    <3>2. after.ports = [drained.ports EXCEPT ![p] = t]
      BY <1>4, <3>1 DEF Shape
    <3>3. \A o \in Ports : after.ports[o] = IF o = p THEN t ELSE drained.ports[o]
      BY <1>4, <3>2 DEF Shape
    <3>4. QED
      BY <2>3, <3>3
  <2>4. QED
    BY <2>1, <2>2, <2>3
<1>10. \A x : LabelOK(h, done, now, p, x) \/ LabelOK(h, {j}, now, p, x) => LabelOK(h, more, now, p, x)
  BY DEF LabelOK, more
<1>11. \A o \in Ports : \A x : LabelOK(h, done, now, o, x) => LabelOK(h, more, now, o, x)
  BY DEF LabelOK, more
<1>12. passes /\ ~(lag > 0) => LabelOK(h, {j}, now, p, t)
  <2>1. SUFFICES ASSUME passes, ~(lag > 0) PROVE LabelOK(h, {j}, now, p, t)
    OBVIOUS
  <2>2. t.at <= now /\ t.at > now - Dt
    BY <1>6, <1>7, <2>1
  <2>3. QED
    BY <1>2, <1>5, <2>1, <2>2 DEF LabelOK
<1>13. ASSUME NEW o \in Ports
       PROVE  LabelOK(h, more, now, o, after.ports[o])
  <2>1. LabelOK(h, done, now, o, st.ports[o])
    BY DEF Labelling, now
  <2>2. LabelOK(h, more, now, o, drained.ports[o])
    BY <1>8, <1>10, <1>11, <2>1
  <2>3. QED
    BY <1>9, <1>10, <1>12, <2>2
<1>14. ASSUME NEW i \in DOMAIN Couplings, i \in more, AtOnce(h, Couplings[i], n)
       PROVE  after.ports[Couplings[i].port].metadata = Metadata(Couplings[i], ContextIn(h, Couplings[i], n))
  <2> DEFINE e == Couplings[i]
  <2>1. e \in CouplingSet /\ e.port \in Ports
    BY CouplingIs
  <2>2. CASE e.port = p
    <3>1. e = c
      BY <1>5, <1>14, <2>2 DEF AtOnce
    <3>2. passes
      BY <1>2, <1>14, <3>1 DEF AtOnce
    <3>3. lag = AtLeastZero(0)
      BY <1>5, <1>14, <3>1, KeyIsKept DEF AtOnce, UpTo, lag
    <3>4. after.ports[p] = t
      BY <1>5, <1>9, <3>2, <3>3 DEF AtLeastZero
    <3>5. QED
      BY <1>7, <2>2, <3>1, <3>4 DEF ctx
  <2>3. CASE e.port # p
    <3>1. i # j
      BY <2>3 DEF p
    <3>2. i \in done
      BY <1>14, <3>1 DEF more
    <3>3. st.ports[e.port].metadata = Metadata(e, ContextIn(h, e, n))
      BY <1>14, <3>2 DEF Labelling
    <3>4. after.ports[e.port] = st.ports[e.port]
      BY <1>8, <1>9, <2>1, <2>3
    <3>5. QED
      BY <3>3, <3>4
  <2>4. QED
    BY <2>2, <2>3
<1>15. QED
  BY <1>13, <1>14 DEF Labelling, now, after, more

-----------------------------------------------------------------------------
(* The turn of a module.                                                    *)

\* What one step of the loop over the couplings does; x is [the module, the
\* windows, the tick, its phase and modes, the signal of the module].
ApplyOne(x, st, c) ==
    IF c.source # x[1] THEN st
    ELSE Apply(st, c, ContextAt(x[2], c.id, x[3]), Time(x[3]), x[4], x[5], x[6])

Applying == INSTANCE FoldLemmas WITH Op <- LAMBDA x, st, c : ApplyOne(x, st, c)

\* The whole invariant of the ports and the queues in tick n.
Carrying(h, done, n, st) == Transferring(h, done, Time(n), st) /\ Labelling(h, done, n, st)

CouplingsFrom(m) == {j \in DOMAIN Couplings : Couplings[j].source = m}

\* The loop gives the couplings of a module their turn.
LEMMA LoopKeeps ==
    ASSUME NEW h, NEW n \in Nat, UpTo(h, n), NEW done, NEW st,
           Carrying(h, done, n, st), NEW m, Len(h.rows[m]) = n + 1, NEW x,
           x = <<m, h.windows, n, h.seen[n + 1].phase, h.seen[n + 1].modes,
                 IsActive(h.rows[m][n + 1])>>
    PROVE  Carrying(h, done \cup CouplingsFrom(m), n, Applying!Fold(x, st, Couplings))
<1> DEFINE N == Len(Couplings)
           Turns(i) == done \cup {j \in 1..i : Couplings[j].source = m}
<1>1. Couplings \in Seq(CouplingSet) /\ N \in Nat /\ DOMAIN Couplings = 1..N
  BY FlightAssumption
<1>2. PICK run : /\ Applying!Runs(x, st, Couplings, run)
                 /\ Applying!Fold(x, st, Couplings) = run[N]
  BY <1>1, Applying!FoldRuns
<1>3. run[0] = st /\ \A i \in 1..N : run[i] = ApplyOne(x, run[i - 1], Couplings[i])
  BY <1>2 DEF Applying!Runs
<1> DEFINE T == {i \in Nat : i <= N => Carrying(h, Turns(i), n, run[i])}
<1>4. 0 \in T
  <2>1. Turns(0) = done
    OBVIOUS
  <2> HIDE DEF Turns
  <2>2. QED
    BY <1>3, <2>1
<1>5. ASSUME NEW i \in Nat, i \in T
      PROVE  i + 1 \in T
  <2>1. SUFFICES ASSUME i + 1 <= N
                 PROVE  Carrying(h, Turns(i + 1), n, run[i + 1])
    OBVIOUS
  <2>2. Carrying(h, Turns(i), n, run[i])
    BY <1>1, <1>5, <2>1
  <2>3. i + 1 \in DOMAIN Couplings /\ (i + 1) - 1 = i
    BY <1>1, <2>1
  <2>4. run[i + 1] = ApplyOne(x, run[i], Couplings[i + 1])
    BY <1>1, <1>3, <2>3
  <2>5. 1..(i + 1) = 1..i \cup {i + 1}
    OBVIOUS
  <2>6. CASE Couplings[i + 1].source # m
    <3>1. Turns(i + 1) = Turns(i)
      BY <2>5, <2>6
    <3>2. run[i + 1] = run[i]
      BY <2>4, <2>6 DEF ApplyOne
    <3> HIDE DEF Turns
    <3>3. QED
      BY <2>2, <3>1, <3>2
  <2>7. CASE Couplings[i + 1].source = m
    <3>1. Turns(i + 1) = Turns(i) \cup {i + 1}
      BY <2>5, <2>7
    <3>2. run[i + 1] = ApplyIn(h, n, run[i], Couplings[i + 1])
      BY <2>4, <2>7 DEF ApplyOne, ApplyIn, ContextIn
    <3>3. Len(h.rows[Couplings[i + 1].source]) = n + 1
      BY <2>7
    <3> HIDE DEF Turns
    <3>4. Carrying(h, Turns(i) \cup {i + 1}, n, ApplyIn(h, n, run[i], Couplings[i + 1]))
      <4>1. Transferring(h, Turns(i), Time(n), run[i]) /\ Labelling(h, Turns(i), n, run[i])
        BY <2>2 DEF Carrying
      <4>2. Transferring(h, Turns(i) \cup {i + 1}, Time(n), ApplyIn(h, n, run[i], Couplings[i + 1]))
        BY <2>3, <3>3, <4>1, ApplyKeeps
      <4>3. Labelling(h, Turns(i) \cup {i + 1}, n, ApplyIn(h, n, run[i], Couplings[i + 1]))
        BY <2>3, <3>3, <4>1, ApplyLabels
      <4>4. QED
        BY <4>2, <4>3 DEF Carrying
    <3>5. QED
      BY <3>1, <3>2, <3>4
  <2>8. QED
    BY <2>6, <2>7
<1>6. Nat \subseteq T
  <2> HIDE DEF T
  <2>1. QED
    BY <1>4, <1>5, Applying!Induction
<1>7. Carrying(h, Turns(N), n, run[N])
  <2> HIDE DEF Turns
  <2>1. N \in T
    <3> HIDE DEF T, N
    <3>1. QED
      BY <1>1, <1>6
  <2>2. N <= N
    BY <1>1
  <2>3. QED
    BY <2>1, <2>2
<1>8. Turns(N) = done \cup CouplingsFrom(m)
  BY <1>1 DEF CouplingsFrom
<1>9. QED
  BY <1>2, <1>7, <1>8

-----------------------------------------------------------------------------
(* The passing of time.                                                     *)

\* h2 goes on where h ends.
GoesOn(h, h2) ==
    /\ h2.windows = h.windows
    /\ \A c \in CouplingSet :
        /\ Len(h.rows[c.source]) \in Nat
        /\ Len(h2.rows[c.source]) \in Nat
        /\ Len(h.rows[c.source]) <= Len(h2.rows[c.source])
        /\ \A n \in Nat : n < Len(h.rows[c.source]) =>
              /\ h2.rows[c.source][n + 1] = h.rows[c.source][n + 1]
              /\ h2.seen[n + 1] = h.seen[n + 1]

\* What was sent stays sent.
LEMMA SentStays ==
    ASSUME NEW h, NEW h2, GoesOn(h, h2), NEW c \in CouplingSet, NEW n, NEW t
    PROVE  /\ Sent(h, c, n, t) => Sent(h2, c, n, t)
           /\ Sent(h2, c, n, t) /\ n < Len(h.rows[c.source]) => Sent(h, c, n, t)
           /\ Keeps(h2, c) <=> Keeps(h, c)
           /\ KeyIn(h2, c, n) = KeyIn(h, c, n)
<1>1. h2.windows = h.windows
  BY DEF GoesOn
<1>2. /\ Keeps(h2, c) <=> Keeps(h, c)
      /\ KeyIn(h2, c, n) = KeyIn(h, c, n)
      /\ ContextIn(h2, c, n) = ContextIn(h, c, n)
  BY <1>1 DEF Keeps, KeyIn, ContextIn
<1>3. Sent(h, c, n, t) => n < Len(h2.rows[c.source])
  BY DEF Sent, GoesOn
<1>4. n \in Nat /\ n < Len(h.rows[c.source]) =>
        h2.rows[c.source][n + 1] = h.rows[c.source][n + 1] /\ h2.seen[n + 1] = h.seen[n + 1]
  BY DEF GoesOn
<1>5. QED
  BY <1>2, <1>3, <1>4 DEF Sent

\* Samples of couplings that have not had their turn change nothing.
LEMMA GrowKeeps ==
    ASSUME NEW h, NEW h2, GoesOn(h, h2), NEW done, NEW now, NEW st,
           Transferring(h, done, now, st),
           \A j \in DOMAIN Couplings : \A n \in Nat :
                n < Len(h2.rows[Couplings[j].source]) /\ (Time(n) < now \/ j \in done) =>
                    n < Len(h.rows[Couplings[j].source])
    PROVE  Transferring(h2, done, now, st)
<1>1. ASSUME NEW k, NEW t, InQueue(h, done, now, k, t)
      PROVE  InQueue(h2, done, now, k, t)
  <2>1. PICK j \in DOMAIN Couplings : \E n \in Nat :
            /\ Sent(h, Couplings[j], n, t)
            /\ Time(n) <= now
            /\ k = KeyIn(h, Couplings[j], n)
            /\ k.lag > 0
            /\ Keeps(h, Couplings[j]) => t.at > now - (IF j \in done THEN 0 ELSE Dt)
    BY <1>1 DEF InQueue
  <2>2. Couplings[j] \in CouplingSet
    BY CouplingIs
  <2>3. QED
    BY <2>1, <2>2, SentStays DEF InQueue
<1>2. ASSUME NEW p, NEW port, PortOK(h, now, p, port)
      PROVE  PortOK(h2, now, p, port)
  BY <1>2, SentStays DEF PortOK
<1>3. \A p : Uniform(h2, p) => Uniform(h, p)
  BY SentStays DEF Uniform, WritersOf
<1>4. ASSUME NEW j \in DOMAIN Couplings, NEW n \in Nat, NEW t, Sent(h2, Couplings[j], n, t),
             Time(n) < now \/ j \in done
      PROVE  Sent(h, Couplings[j], n, t)
  <2>1. Couplings[j] \in CouplingSet
    BY CouplingIs
  <2>2. n < Len(h2.rows[Couplings[j].source])
    BY <1>4 DEF Sent
  <2>3. n < Len(h.rows[Couplings[j].source])
    BY <1>4, <2>2
  <2>4. QED
    BY <1>4, <2>1, <2>3, SentStays
<1>5. NothingLost(h2, done, now, st)
  <2>1. NothingLost(h, done, now, st)
    BY DEF Transferring
  <2>2. QED
    BY <1>3, <1>4, <2>1 DEF NothingLost
<1>6. \A k : QueueOK(h2, done, now, k, QueueOf(st, k))
  BY <1>1 DEF Transferring, QueueOK
<1>7. QED
  BY <1>2, <1>5, <1>6 DEF Transferring

\* So do the labels.
LEMMA GrowLabels ==
    ASSUME NEW h, NEW h2, GoesOn(h, h2), NEW done, NEW n, NEW st, Labelling(h, done, n, st),
           \A j \in DOMAIN Couplings :
                n < Len(h2.rows[Couplings[j].source]) /\ j \in done =>
                    n < Len(h.rows[Couplings[j].source])
    PROVE  Labelling(h2, done, n, st)
<1>1. ASSUME NEW p \in Ports
      PROVE  LabelOK(h2, done, Time(n), p, st.ports[p])
  <2>1. LabelOK(h, done, Time(n), p, st.ports[p])
    BY DEF Labelling
  <2>2. WritersOf(p) \subseteq CouplingSet
    BY DEF WritersOf
  <2>3. \A c \in CouplingSet : \A o \in Nat : \A t : Sent(h, c, o, t) => Sent(h2, c, o, t)
    BY SentStays
  <2>4. \A c \in CouplingSet : Keeps(h2, c) <=> Keeps(h, c)
    BY SentStays
  <2>5. QED
    BY <2>1, <2>2, <2>3, <2>4 DEF LabelOK
<1>2. ASSUME NEW j \in DOMAIN Couplings, j \in done, AtOnce(h2, Couplings[j], n)
      PROVE  st.ports[Couplings[j].port].metadata = Metadata(Couplings[j], ContextIn(h2, Couplings[j], n))
  <2> DEFINE c == Couplings[j]
  <2>1. c \in CouplingSet
    BY CouplingIs
  <2> HIDE DEF c
  <2>2. PICK t : Sent(h2, c, n, t)
    BY <1>2 DEF AtOnce, c
  <2>3. n < Len(h2.rows[c.source])
    BY <2>2 DEF Sent
  <2>4. Sent(h, c, n, t)
    BY <1>2, <2>1, <2>2, <2>3, SentStays DEF c
  <2>5. AtOnce(h, c, n)
    BY <1>2, <2>1, <2>4, SentStays DEF AtOnce, c
  <2>6. ContextIn(h2, c, n) = ContextIn(h, c, n)
    BY DEF GoesOn, ContextIn
  <2>7. QED
    BY <1>2, <2>5, <2>6 DEF Labelling, c
<1>3. QED
  BY <1>1, <1>2 DEF Labelling

\* When all couplings have had their turn, the next tick begins with the
\* labels taken off the ports.
LEMMA TickKeeps ==
    ASSUME NEW h, NEW n \in Nat, UpTo(h, n - 1), NEW st,
           Transferring(h, DOMAIN Couplings, Time(n - 1), st), NEW after,
           after = [ports |-> [p \in Ports |-> [st.ports[p] EXCEPT !.metadata = None]],
                    queues |-> st.queues]
    PROVE  Transferring(h, {}, Time(n), after)
<1> DEFINE now == Time(n - 1)
           next == Time(n)
<1>1. now \in Int /\ next = now + Dt /\ Dt \in Int /\ Dt > 0
  <2>1. n - 1 \in Int /\ (n - 1) + 1 = n
    OBVIOUS
  <2>2. QED
    BY <2>1, Times
<1> HIDE DEF now, next
<1>0. UpTo(h, n)
  BY DEF UpTo
<1>2. /\ Shape(after)
      /\ \A p \in Ports : /\ after.ports[p].origin = st.ports[p].origin
                           /\ after.ports[p].at = st.ports[p].at
                           /\ after.ports[p].metadata = None
                           /\ "metadata" \in DOMAIN after.ports[p]
      /\ \A k : QueueOf(after, k) = QueueOf(st, k)
  <2> DEFINE ports2 == [p \in Ports |-> [st.ports[p] EXCEPT !.metadata = None]]
  <2>1. after.ports = ports2 /\ after.queues = st.queues
    OBVIOUS
  <2>2. after = [ports |-> after.ports, queues |-> after.queues]
    OBVIOUS
  <2>3. DOMAIN ports2 = Ports
    OBVIOUS
  <2>4. \A k : QueueOf(after, k) = QueueOf(st, k)
    BY <2>1 DEF QueueOf
  <2>5. ASSUME NEW p \in Ports
        PROVE  /\ ports2[p].origin = st.ports[p].origin
               /\ ports2[p].at = st.ports[p].at
               /\ ports2[p].metadata = None
               /\ "metadata" \in DOMAIN ports2[p]
    <3>1. "metadata" \in DOMAIN st.ports[p]
      BY DEF Transferring, PortOK
    <3>2. ports2[p] = [st.ports[p] EXCEPT !.metadata = None]
      OBVIOUS
    <3> HIDE DEF ports2
    <3>3. QED
      BY <3>1, <3>2
  <2> HIDE DEF ports2
  <2>6. QED
    BY <2>1, <2>2, <2>3, <2>4, <2>5 DEF Shape
<1>3. ASSUME NEW k, NEW t, InQueue(h, DOMAIN Couplings, now, k, t)
      PROVE  InQueue(h, {}, next, k, t)
  <2>1. PICK j \in DOMAIN Couplings : \E o \in Nat :
            /\ Sent(h, Couplings[j], o, t)
            /\ Time(o) <= now
            /\ k = KeyIn(h, Couplings[j], o)
            /\ k.lag > 0
            /\ Keeps(h, Couplings[j]) => t.at > now - (IF j \in DOMAIN Couplings THEN 0 ELSE Dt)
    BY <1>3 DEF InQueue
  <2>2. PICK o \in Nat :
            /\ Sent(h, Couplings[j], o, t)
            /\ Time(o) <= now
            /\ k = KeyIn(h, Couplings[j], o)
            /\ k.lag > 0
            /\ Keeps(h, Couplings[j]) => t.at > now - 0
    BY <2>1
  <2>3. Couplings[j] \in CouplingSet
    BY CouplingIs
  <2>4. t.at \in Int /\ Time(o) \in Int
    BY <1>0, <2>2, <2>3, SentIs
  <2>5. Time(o) <= next /\ (Keeps(h, Couplings[j]) => t.at > next - Dt)
    BY <1>1, <2>2, <2>4
  <2>6. QED
    BY <2>2, <2>5 DEF InQueue
<1>4. ASSUME NEW p \in Ports
      PROVE  PortOK(h, next, p, after.ports[p])
  <2>1. PortOK(h, now, p, st.ports[p])
    BY DEF Transferring, now
  <2>2. CASE st.ports[p].origin = None
    BY <1>2, <2>2 DEF PortOK
  <2>3. CASE st.ports[p].origin # None
    <3>1. PICK c \in CouplingSet : \E o \in Nat : \E t :
              /\ Sent(h, c, o, t)
              /\ c.port = p
              /\ st.ports[p].at = t.at /\ st.ports[p].origin = t.origin
              /\ st.ports[p].at <= now
      BY <2>1, <2>3 DEF PortOK
    <3>2. PICK o \in Nat : \E t :
              /\ Sent(h, c, o, t)
              /\ c.port = p
              /\ st.ports[p].at = t.at /\ st.ports[p].origin = t.origin
              /\ st.ports[p].at <= now
      BY <3>1
    <3>3. PICK t :
              /\ Sent(h, c, o, t)
              /\ c.port = p
              /\ st.ports[p].at = t.at /\ st.ports[p].origin = t.origin
              /\ st.ports[p].at <= now
      BY <3>2
    <3>4. t.at \in Int
      BY <1>0, <3>3, SentIs
    <3>5. after.ports[p].at <= next
      BY <1>1, <1>2, <3>3, <3>4
    <3>6. QED
      BY <1>2, <3>3, <3>5 DEF PortOK
  <2>4. QED
    BY <2>2, <2>3
<1>5. ASSUME NEW i \in DOMAIN Couplings, Uniform(h, Couplings[i].port)
      PROVE  LET e == Couplings[i]
                 port == after.ports[e.port]
                 s == QueueOf(after, NominalKey(e))
             IN  /\ Behind(port, s)
                 /\ \A o \in Nat : \A u :
                      Sent(h, e, o, u) /\ (Time(o) < next \/ i \in {}) => Reached(port, s, u)
  <2> DEFINE e == Couplings[i]
             port == st.ports[e.port]
             s == QueueOf(st, NominalKey(e))
  <2>1. e.port \in Ports
    BY CouplingIs
  <2>2. /\ Behind(port, s)
        /\ \A o \in Nat : \A u :
             Sent(h, e, o, u) /\ (Time(o) < now \/ i \in DOMAIN Couplings) => Reached(port, s, u)
    BY <1>5 DEF Transferring, NothingLost, now
  <2>3. after.ports[e.port].origin = port.origin /\ QueueOf(after, NominalKey(e)) = s
    BY <1>2, <2>1
  <2> DEFINE port2 == after.ports[e.port]
             s2 == QueueOf(after, NominalKey(e))
  <2>4. port2.origin = port.origin /\ s2 = s
    BY <2>3
  <2> HIDE DEF port, s, port2, s2
  <2>5. Behind(port2, s2)
    BY <2>2, <2>4 DEF Behind
  <2>6. \A u : Reached(port, s, u) => Reached(port2, s2, u)
    BY <2>4 DEF Reached
  <2>7. \A o \in Nat : \A u : Sent(h, e, o, u) => Reached(port2, s2, u)
    BY <2>2, <2>6
  <2>8. QED
    BY <2>5, <2>7 DEF port2, s2
<1>6. NothingLost(h, {}, next, after)
  BY <1>5 DEF NothingLost
<1>7. \A k : QueueOK(h, {}, next, k, QueueOf(after, k))
  BY <1>2, <1>3 DEF Transferring, QueueOK, now
<1>8. QED
  BY <1>2, <1>4, <1>6, <1>7 DEF Transferring, Shape, next

-----------------------------------------------------------------------------
(* The inductive invariant.                                                 *)

History == [windows |-> program.windows, seen |-> seen, rows |-> rows]

Transfers == [ports |-> ports, queues |-> queues]

\* The couplings that have had their turn in this tick.
HadTurn ==
    {j \in DOMAIN Couplings :
        turn = 0 \/ \E i \in 1..(turn - 1) : Modules[i] = Couplings[j].source}

\* Between two ticks every module has the same number of rows; within a tick
\* those that have stepped have one more.
Ticking ==
    /\ program \in Programs
    /\ step \in 0..MaxSteps
    /\ turn \in 0..Len(Modules)
    /\ turn # 0 => step < MaxSteps
    /\ IsList(seen)
    /\ Len(seen) = step + (IF turn = 0 THEN 0 ELSE 1)
    /\ rows = [m \in ModuleSet |-> rows[m]]
    /\ \A i \in 1..Len(Modules) :
        /\ IsList(rows[Modules[i]])
        /\ Len(rows[Modules[i]]) = step + (IF i < turn THEN 1 ELSE 0)

IInv == Ticking /\ Carrying(History, HadTurn, Len(seen) - 1, Transfers)

\* What the invariant says of the transfers alone.
LEMMA IInvIs == IInv => Ticking /\ Transferring(History, HadTurn, Now, Transfers)
  BY DEF IInv, Carrying, Now

\* The modules of a flight are listed once each and hold the source of every coupling.
LEMMA ModulesAre ==
    /\ Len(Modules) \in Nat /\ Len(Modules) > 0
    /\ DOMAIN Modules = 1..Len(Modules)
    /\ ModuleSet = {Modules[i] : i \in 1..Len(Modules)}
    /\ \A i, j \in 1..Len(Modules) : Modules[i] = Modules[j] => i = j
    /\ \A c \in CouplingSet : \E i \in 1..Len(Modules) : c.source = Modules[i]
    /\ MaxSteps \in Nat
<1>1. Modules \in Seq(ModuleSet) /\ Modules # <<>>
  BY FlightAssumption
<1>2. Len(Modules) \in Nat /\ Len(Modules) > 0 /\ DOMAIN Modules = 1..Len(Modules)
  BY <1>1
<1>3. ModuleSet = {Modules[i] : i \in 1..Len(Modules)}
  BY <1>2 DEF ModuleSet, ToSet
<1>4. \A c \in CouplingSet : c.source \in ModuleSet
  BY FlightAssumption
<1>5. QED
  BY <1>2, <1>3, <1>4, FlightAssumption

\* In every state the rows are those of the ticks so far.
LEMMA TickingUpTo ==
    ASSUME Ticking
    PROVE  /\ IsProgram(program.windows)
           /\ step \in Nat /\ Len(seen) \in Nat
           /\ \A c \in CouplingSet : Len(rows[c.source]) \in 0..Len(seen)
<1>1. IsProgram(program.windows)
  BY DEF Ticking, IsProgram
<1>2. step \in Nat /\ Len(seen) \in Nat
  BY Appended DEF Ticking
<1>3. ASSUME NEW c \in CouplingSet
      PROVE  Len(rows[c.source]) \in 0..Len(seen)
  <2>1. PICK i \in 1..Len(Modules) : c.source = Modules[i]
    BY ModulesAre
  <2>2. /\ Len(rows[c.source]) = step + (IF i < turn THEN 1 ELSE 0)
        /\ Len(seen) = step + (IF turn = 0 THEN 0 ELSE 1)
    BY <2>1 DEF Ticking
  <2>3. CASE i < turn
    <3>1. turn # 0
      BY <2>3
    <3>2. QED
      BY <1>2, <2>2, <2>3, <3>1
  <2>4. CASE ~(i < turn)
    BY <1>2, <2>2, <2>4
  <2>5. QED
    BY <2>3, <2>4
<1>4. QED
  BY <1>1, <1>2, <1>3

\* A flight begins before its first tick, with nothing sent and no port written.
LEMMA InitIInv == Init => IInv
<1> SUFFICES ASSUME Init PROVE IInv
  OBVIOUS
<1>1. /\ program \in Programs /\ step = 0 /\ turn = 0 /\ seen = <<>>
      /\ ports = [p \in Ports |-> EmptyPort]
      /\ queues = [k \in {} |-> <<>>]
      /\ rows = [m \in ModuleSet |-> <<>>]
  BY DEF Init
<1>2. \A i \in 1..Len(Modules) : rows[Modules[i]] = <<>>
  BY <1>1, ModulesAre
<1>3. rows = [m \in ModuleSet |-> rows[m]]
  BY <1>1
<1>4. Ticking
  BY <1>1, <1>2, <1>3, EmptyIsList, ModulesAre DEF Ticking
<1> DEFINE st == Transfers
           h == History
<1>5. st = [ports |-> st.ports, queues |-> st.queues] /\ DOMAIN st.ports = Ports
  BY <1>1 DEF Transfers
<1>6. \A k : QueueOf(st, k) = <<>>
  BY <1>1 DEF Transfers, QueueOf
<1>7. \A p \in Ports : st.ports[p] = EmptyPort
  BY <1>1 DEF Transfers
<1>8. \A c \in CouplingSet, n \in Nat : \A t : ~Sent(h, c, n, t)
  <2>1. SUFFICES ASSUME NEW c \in CouplingSet, NEW n \in Nat, NEW t, Sent(h, c, n, t)
                 PROVE  FALSE
    OBVIOUS
  <2>2. h.rows[c.source] = <<>>
    BY <1>2, ModulesAre DEF History
  <2>3. n < 0
    BY <2>1, <2>2, EmptyIsList DEF Sent
  <2>4. QED
    BY <2>3
<1> HIDE DEF st, h
<1>9. \A k : QueueOK(h, HadTurn, Now, k, QueueOf(st, k))
  BY <1>6, EmptyIsList DEF QueueOK, Ordered
<1>10. \A p \in Ports : PortOK(h, Now, p, st.ports[p])
  BY <1>7 DEF PortOK, EmptyPort
<1>11. NothingLost(h, HadTurn, Now, st)
  <2>1. \A j \in DOMAIN Couplings : Couplings[j] \in CouplingSet
    BY CouplingIs
  <2>2. \A port : Behind(port, <<>>)
    BY EmptyIsList DEF Behind
  <2>3. QED
    BY <1>6, <1>8, <2>1, <2>2 DEF NothingLost
<1>12. Transferring(h, HadTurn, Now, st)
  BY <1>5, <1>9, <1>10, <1>11 DEF Transferring
<1>13. Labelling(h, HadTurn, Len(seen) - 1, st)
  <2>1. \A p \in Ports : st.ports[p].metadata = None
    BY <1>7 DEF EmptyPort
  <2>2. Len(seen) - 1 = -1
    BY <1>1, EmptyIsList
  <2>3. \A c, t : ~Sent(h, c, -1, t)
    BY DEF Sent
  <2>4. QED
    BY <2>1, <2>2, <2>3 DEF Labelling, LabelOK, AtOnce
<1>14. QED
  BY <1>4, <1>12, <1>13 DEF IInv, Carrying, Now, st, h

\* A tick begins.
LEMMA BeginIInv ==
    ASSUME IInv, BeginTick
    PROVE  IInv'
<1>1. /\ turn = 0 /\ step < MaxSteps /\ turn' = 1 /\ step' = step
      /\ program' = program /\ queues' = queues /\ rows' = rows
      /\ \E t : seen' = Append(seen, t)
      /\ ports' = [p \in Ports |-> [ports[p] EXCEPT !.metadata = None]]
  BY DEF BeginTick, ClearedPorts
<1>2. Ticking
  BY IInvIs
<1>3. step \in Nat /\ Len(seen) = step
  BY <1>1, <1>2, TickingUpTo DEF Ticking
<1>4. /\ IsList(seen') /\ Len(seen') = step + 1
      /\ \A n \in Nat : n < step => seen'[n + 1] = seen[n + 1]
  <2>1. PICK t : seen' = Append(seen, t)
    BY <1>1
  <2>2. /\ IsList(seen') /\ Len(seen') = Len(seen) + 1
        /\ \A i \in 1..Len(seen) : seen'[i] = seen[i]
    BY <1>2, <2>1, Appended DEF Ticking
  <2>3. \A n \in Nat : n < step => n + 1 \in 1..Len(seen)
    BY <1>3
  <2>4. QED
    BY <1>3, <2>2, <2>3
<1>5. \A i \in 1..Len(Modules) : /\ IsList(rows[Modules[i]])
                                 /\ Len(rows[Modules[i]]) = step
  BY <1>1, <1>2, <1>3 DEF Ticking
<1>6. Ticking'
  <2>1. /\ program' \in Programs /\ step' \in 0..MaxSteps /\ step' < MaxSteps
        /\ turn' \in 0..Len(Modules)
        /\ rows' = [m \in ModuleSet |-> rows'[m]]
    BY <1>1, <1>2, ModulesAre DEF Ticking
  <2>2. \A i \in 1..Len(Modules) : /\ IsList(rows'[Modules[i]])
                                   /\ Len(rows'[Modules[i]]) = step' + (IF i < turn' THEN 1 ELSE 0)
    BY <1>1, <1>3, <1>5
  <2>3. Len(seen') = step' + (IF turn' = 0 THEN 0 ELSE 1)
    BY <1>1, <1>4
  <2>4. QED
    BY <1>4, <2>1, <2>2, <2>3 DEF Ticking
<1> DEFINE h == History
           h2 == History'
           st == Transfers
           n == step
           after == Transfers'
<1>7. HadTurn = DOMAIN Couplings
  BY <1>1 DEF HadTurn
<1>8. Now = Time(n - 1)
  BY <1>3 DEF Now
<1>9. Transferring(h, DOMAIN Couplings, Time(n - 1), st)
  BY <1>7, <1>8, IInvIs
<1>10. \A c \in CouplingSet : Len(rows[c.source]) = step
  BY <1>5, ModulesAre
<1>11. /\ h.windows = program.windows /\ h.rows = rows /\ h.seen = seen
       /\ h2.windows = program.windows /\ h2.rows = rows /\ h2.seen = seen'
  BY <1>1 DEF History
<1>12. after = [ports |-> [p \in Ports |-> [st.ports[p] EXCEPT !.metadata = None]],
                queues |-> st.queues]
  BY <1>1 DEF Transfers
<1>13. IsProgram(program.windows)
  BY <1>2, TickingUpTo
<1> HIDE DEF h, h2, st, after
<1>14. UpTo(h2, n - 1)
  BY <1>3, <1>10, <1>11, <1>13 DEF UpTo
<1>15. GoesOn(h, h2)
  BY <1>3, <1>4, <1>10, <1>11 DEF GoesOn
<1>16. Transferring(h2, DOMAIN Couplings, Time(n - 1), st)
  BY <1>9, <1>11, <1>15, GrowKeeps
<1>17. Transferring(h2, {}, Time(n), after)
  BY <1>3, <1>12, <1>14, <1>16, TickKeeps
<1>18. HadTurn' = {}
  BY <1>1 DEF HadTurn
<1>19. Len(seen') - 1 = n
  BY <1>3, <1>4
<1>20. Labelling(h2, {}, n, after)
  <2>1. ASSUME NEW p \in Ports
        PROVE  after.ports[p].metadata = None
    <3>1. "metadata" \in DOMAIN st.ports[p]
      BY <1>9 DEF Transferring, PortOK
    <3>2. QED
      BY <1>12, <3>1
  <2>2. QED
    BY <2>1 DEF Labelling, LabelOK
<1>21. QED
  BY <1>6, <1>17, <1>18, <1>19, <1>20 DEF IInv, Carrying, h2, after

\* What the couplings of a module do is the fold of FoldLemmas.
LEMMA AppliedIs ==
    ASSUME NEW m, NEW row
    PROVE  Applied(m, row)
             = Applying!Fold(<<m, program.windows, step, Last(seen).phase, Last(seen).modes,
                               IsActive(row)>>, [ports |-> ports, queues |-> queues], Couplings)
  BY DEF Applied, ApplyOne, Context, FoldLeft, MapThenFoldSet, Max,
         Applying!Fold, Applying!FoldLeft, Applying!MapThenFoldSet, Applying!Max

\* A module steps.
LEMMA StepIInv ==
    ASSUME IInv, StepModule
    PROVE  IInv'
<1> DEFINE m == Modules[turn]
           row == Sampled(m)
           more == Applied(m, row)
           n == step
           L == Len(Modules)
<1>1. /\ turn > 0
      /\ rows' = [rows EXCEPT ![m] = Append(@, row)]
      /\ ports' = more.ports /\ queues' = more.queues
      /\ turn' = IF turn = L THEN 0 ELSE turn + 1
      /\ step' = IF turn = L THEN step + 1 ELSE step
      /\ program' = program /\ seen' = seen
  BY DEF StepModule
<1>2. Ticking
  BY IInvIs
<1>3. /\ step \in Nat /\ step < MaxSteps /\ MaxSteps \in Nat
      /\ turn \in 1..L /\ L \in Nat
      /\ Len(seen) = step + 1 /\ IsList(seen)
  BY <1>1, <1>2, TickingUpTo, ModulesAre DEF Ticking
<1> HIDE DEF row, more, L
<1>4. m \in ModuleSet
  BY <1>3, ModulesAre DEF L
<1>5. \A i \in 1..L : /\ IsList(rows[Modules[i]])
                      /\ Len(rows[Modules[i]]) = step + (IF i < turn THEN 1 ELSE 0)
  BY <1>2 DEF Ticking, L
<1>6. IsList(rows[m]) /\ Len(rows[m]) = step
  BY <1>3, <1>5
<1>7. /\ rows'[m] = Append(rows[m], row)
      /\ \A o \in ModuleSet : o # m => rows'[o] = rows[o]
      /\ rows' = [o \in ModuleSet |-> rows'[o]]
  <2>1. rows = [o \in ModuleSet |-> rows[o]]
    BY <1>2 DEF Ticking
  <2> HIDE DEF m
  <2>2. QED
    BY <1>1, <1>4, <2>1
<1>8. /\ IsList(rows'[m]) /\ Len(rows'[m]) = step + 1
      /\ rows'[m][step + 1] = row
      /\ \A i \in 1..step : rows'[m][i] = rows[m][i]
  BY <1>6, <1>7, Appended
<1>9. ASSUME NEW i \in 1..L
      PROVE  /\ IsList(rows'[Modules[i]])
             /\ Len(rows'[Modules[i]]) = step + (IF i < turn + 1 THEN 1 ELSE 0)
  <2>1. CASE i = turn
    BY <1>3, <1>8, <2>1
  <2>2. CASE i # turn
    <3>1. Modules[i] # m /\ Modules[i] \in ModuleSet
      BY <1>3, <2>2, ModulesAre DEF L
    <3>2. rows'[Modules[i]] = rows[Modules[i]]
      BY <1>7, <3>1
    <3>3. i < turn + 1 <=> i < turn
      BY <1>3, <2>2
    <3>4. QED
      BY <1>5, <3>2, <3>3
  <2>3. QED
    BY <2>1, <2>2
<1>10. Ticking'
  <2>1. CASE turn = L
    <3>1. turn' = 0 /\ step' = step + 1
      BY <1>1, <2>1
    <3>2. \A i \in 1..L : /\ IsList(rows'[Modules[i]])
                          /\ Len(rows'[Modules[i]]) = step' + (IF i < turn' THEN 1 ELSE 0)
      BY <1>3, <1>9, <2>1, <3>1
    <3>3. /\ step' \in 0..MaxSteps /\ turn' \in 0..L
          /\ Len(seen') = step' + (IF turn' = 0 THEN 0 ELSE 1)
      BY <1>1, <1>3, <3>1
    <3>4. program' \in Programs
      BY <1>1, <1>2 DEF Ticking
    <3>5. QED
      BY <1>1, <1>3, <1>7, <3>1, <3>2, <3>3, <3>4 DEF Ticking, L
  <2>2. CASE turn # L
    <3>1. turn' = turn + 1 /\ step' = step
      BY <1>1, <2>2
    <3>2. \A i \in 1..L : /\ IsList(rows'[Modules[i]])
                          /\ Len(rows'[Modules[i]]) = step' + (IF i < turn' THEN 1 ELSE 0)
      BY <1>9, <3>1
    <3>3. /\ step' \in 0..MaxSteps /\ step' < MaxSteps /\ turn' \in 0..L
          /\ Len(seen') = step' + (IF turn' = 0 THEN 0 ELSE 1)
      BY <1>1, <1>3, <2>2, <3>1
    <3>4. program' \in Programs
      BY <1>1, <1>2 DEF Ticking
    <3>5. QED
      BY <1>1, <1>3, <1>7, <3>2, <3>3, <3>4 DEF Ticking, L
  <2>3. QED
    BY <2>1, <2>2
<1> DEFINE h == History
           h2 == History'
           st == Transfers
           after == Transfers'
           x == <<m, program.windows, step, Last(seen).phase, Last(seen).modes, IsActive(row)>>
<1>11. Len(seen) - 1 = n /\ Len(seen') - 1 = n
  BY <1>1, <1>3
<1>12. Transferring(h, HadTurn, Time(n), st) /\ Labelling(h, HadTurn, n, st)
  BY <1>11 DEF IInv, Carrying
<1>13. /\ h.windows = program.windows /\ h.rows = rows /\ h.seen = seen
       /\ h2.windows = program.windows /\ h2.rows = rows' /\ h2.seen = seen
  BY <1>1 DEF History
<1>14. IsProgram(program.windows)
  BY <1>2, TickingUpTo
<1>15. Last(seen) = seen[n + 1]
  BY <1>3 DEF Last
<1>16. st = [ports |-> ports, queues |-> queues]
  BY DEF Transfers
<1>17. more = Applying!Fold(x, st, Couplings)
  BY <1>16, AppliedIs DEF more
<1>18. x = <<m, h2.windows, n, h2.seen[n + 1].phase, h2.seen[n + 1].modes,
             IsActive(h2.rows[m][n + 1])>>
  BY <1>8, <1>13, <1>15
<1> HIDE DEF h, h2, st, x
<1>19. ASSUME NEW c \in CouplingSet
       PROVE  \E i \in 1..L : /\ c.source = Modules[i]
                              /\ Len(rows[c.source]) = step + (IF i < turn THEN 1 ELSE 0)
                              /\ Len(rows'[c.source]) = step + (IF i < turn + 1 THEN 1 ELSE 0)
  BY <1>5, <1>9, ModulesAre DEF L
<1>20. ASSUME NEW c \in CouplingSet
       PROVE  /\ Len(rows[c.source]) \in Nat /\ Len(rows'[c.source]) \in 0..(n + 1)
              /\ Len(rows[c.source]) <= Len(rows'[c.source])
              /\ \A o \in Nat : o < Len(rows[c.source]) =>
                    rows'[c.source][o + 1] = rows[c.source][o + 1]
  <2>1. PICK i \in 1..L : /\ c.source = Modules[i]
                          /\ Len(rows[c.source]) = step + (IF i < turn THEN 1 ELSE 0)
                          /\ Len(rows'[c.source]) = step + (IF i < turn + 1 THEN 1 ELSE 0)
    BY <1>19
  <2>2. c.source \in ModuleSet
    BY <2>1, ModulesAre DEF L
  <2>3. \A o \in Nat : o < Len(rows[c.source]) =>
            rows'[c.source][o + 1] = rows[c.source][o + 1]
    <3>1. CASE c.source = m
      <4>1. \A o \in Nat : o < step => o + 1 \in 1..step
        BY <1>3
      <4>2. QED
        BY <1>6, <1>8, <3>1, <4>1
    <3>2. CASE c.source # m
      BY <1>7, <2>2, <3>2
    <3>3. QED
      BY <3>1, <3>2
  <2>4. /\ Len(rows[c.source]) \in Nat /\ Len(rows'[c.source]) \in 0..(n + 1)
        /\ Len(rows[c.source]) <= Len(rows'[c.source])
    BY <1>3, <2>1
  <2>5. QED
    BY <2>3, <2>4
<1>21. UpTo(h2, n)
  BY <1>13, <1>14, <1>20 DEF UpTo
<1>22. GoesOn(h, h2)
  BY <1>13, <1>20 DEF GoesOn
<1>23. ASSUME NEW j \in DOMAIN Couplings, NEW o \in Nat,
              o < Len(h2.rows[Couplings[j].source]), Time(o) < Time(n) \/ j \in HadTurn
       PROVE  o < Len(h.rows[Couplings[j].source])
  <2> DEFINE c == Couplings[j]
  <2>1. c \in CouplingSet
    BY CouplingIs
  <2>2. PICK i \in 1..L : /\ c.source = Modules[i]
                          /\ Len(rows[c.source]) = step + (IF i < turn THEN 1 ELSE 0)
                          /\ Len(rows'[c.source]) = step + (IF i < turn + 1 THEN 1 ELSE 0)
    BY <1>19, <2>1
  <2>3. o < Len(rows'[c.source])
    BY <1>13, <1>23
  <2>4. CASE j \in HadTurn
    <3>1. \E a \in 1..(turn - 1) : Modules[a] = c.source
      BY <1>3, <2>4 DEF HadTurn
    <3>2. PICK a \in 1..(turn - 1) : Modules[a] = c.source
      BY <3>1
    <3>3. a \in 1..L /\ a < turn
      BY <1>3
    <3>4. a = i
      BY <2>2, <3>2, <3>3, ModulesAre DEF L
    <3>5. QED
      BY <1>3, <1>13, <2>2, <2>3, <3>3, <3>4
  <2>5. CASE Time(o) < Time(n)
    <3>1. o < n
      <4>1. o \in Int /\ step \in Int
        BY <1>3
      <4>2. Time(o) \in Int /\ Time(step) \in Int /\ (step <= o => Time(step) <= Time(o))
        BY <4>1, Times
      <4>3. QED
        BY <2>5, <4>1, <4>2
    <3>2. QED
      BY <1>3, <1>13, <2>2, <3>1
  <2>6. QED
    BY <1>23, <2>4, <2>5
<1>24. Carrying(h2, HadTurn, n, st)
  <2>1. Transferring(h2, HadTurn, Time(n), st)
    BY <1>12, <1>22, <1>23, GrowKeeps
  <2>2. Labelling(h2, HadTurn, n, st)
    BY <1>3, <1>12, <1>22, <1>23, GrowLabels
  <2>3. QED
    BY <2>1, <2>2 DEF Carrying
<1>25. Carrying(h2, HadTurn \cup CouplingsFrom(m), n, more)
  <2>1. Len(h2.rows[m]) = n + 1
    BY <1>8, <1>13
  <2>2. QED
    BY <1>3, <1>17, <1>18, <1>21, <1>24, <2>1, LoopKeeps
<1>26. after = more
  BY <1>1, <1>25 DEF Transfers, Carrying, Transferring
<1>27. HadTurn' = HadTurn \cup CouplingsFrom(m)
  <2>1. CASE turn = L
    <3>1. HadTurn' = DOMAIN Couplings
      BY <1>1, <2>1 DEF HadTurn
    <3>2. ASSUME NEW j \in DOMAIN Couplings
          PROVE  j \in HadTurn \cup CouplingsFrom(m)
      <4>1. PICK i \in 1..L : Couplings[j].source = Modules[i]
        BY CouplingIs, ModulesAre DEF L
      <4>2. i = turn \/ i \in 1..(turn - 1)
        BY <1>3, <2>1
      <4>3. QED
        BY <4>1, <4>2 DEF HadTurn, CouplingsFrom
    <3>3. HadTurn \cup CouplingsFrom(m) \subseteq DOMAIN Couplings
      BY DEF HadTurn, CouplingsFrom
    <3>4. QED
      BY <3>1, <3>2, <3>3
  <2>2. CASE turn # L
    <3>1. turn' = turn + 1 /\ turn' # 0 /\ turn # 0 /\ 1..(turn' - 1) = 1..(turn - 1) \cup {turn}
      BY <1>1, <1>3, <2>2
    <3>2. ASSUME NEW j \in DOMAIN Couplings
          PROVE  j \in HadTurn' <=> j \in HadTurn \cup CouplingsFrom(m)
      BY <3>1 DEF HadTurn, CouplingsFrom
    <3>3. HadTurn' \subseteq DOMAIN Couplings /\ HadTurn \cup CouplingsFrom(m) \subseteq DOMAIN Couplings
      BY DEF HadTurn, CouplingsFrom
    <3>4. QED
      BY <3>2, <3>3
  <2>3. QED
    BY <2>1, <2>2
<1>28. QED
  BY <1>10, <1>11, <1>25, <1>26, <1>27 DEF IInv, h2, after

\* The invariant holds in every state.
LEMMA Invariance == Spec => []IInv
<1>1. IInv /\ UNCHANGED vars => IInv'
  BY DEF IInv, Ticking, History, Transfers, HadTurn, vars
<1>2. IInv /\ [Next]_vars => IInv'
  BY <1>1, BeginIInv, StepIInv DEF Next
<1>3. QED
  BY <1>2, InitIInv, PTL DEF Spec

-----------------------------------------------------------------------------
(* What the invariant says.                                                 *)

\* What the invariant says of a state: its history is that of the ticks so
\* far, and a sample that was sent was admitted.
LEMMA StateIs ==
    ASSUME IInv
    PROVE  /\ UpTo(History, step)
           /\ History.windows = program.windows
           /\ step \in Nat /\ Now \in Int
           /\ \A k : QueueOK(History, HadTurn, Now, k, QueueOf(Transfers, k))
           /\ \A p \in Ports : PortOK(History, Now, p, ports[p])
           /\ \A c \in CouplingSet : Keeps(History, c) <=> KeepsKeys(c)
           /\ \A c \in CouplingSet : \A n \in Nat :
                n < Len(rows[c.source]) /\ Admitted(c, n) =>
                    Sent(History, c, n, Transfer(c, Context(c.id, n), Time(n), IsActive(rows[c.source][n + 1])))
           /\ \A c \in CouplingSet : \A n, t :
                Sent(History, c, n, t) =>
                    Admitted(c, n) /\ n \in 0..(Len(seen) - 1) /\ n < Len(rows[c.source])
<1>1. Ticking
  BY IInvIs
<1>2. step \in Nat /\ Len(seen) \in Nat /\ Len(seen) <= step + 1
  BY <1>1, TickingUpTo DEF Ticking
<1>3. Len(seen) - 1 \in Int
  BY <1>2
<1>4. Now \in Int
  BY <1>3, Times DEF Now
<1>5. History.windows = program.windows /\ History.seen = seen /\ History.rows = rows
  BY DEF History
<1>6. Transfers.ports = ports
  BY DEF Transfers
<1>7. UpTo(History, step)
  <2>1. \A c \in CouplingSet : Len(rows[c.source]) \in 0..Len(seen)
    BY <1>1, TickingUpTo
  <2>2. \A c \in CouplingSet : Len(rows[c.source]) \in 0..(step + 1)
    BY <1>2, <2>1
  <2>3. QED
    BY <1>1, <1>5, <2>2, TickingUpTo DEF UpTo
<1>8. \A c \in CouplingSet : Keeps(History, c) <=> KeepsKeys(c)
  BY <1>5 DEF Keeps, KeepsKeys
<1>9. \A c, n : ContextIn(History, c, n) = Context(c.id, n)
  BY <1>5 DEF ContextIn, Context
<1>10. \A c \in CouplingSet : \A n \in Nat :
          n < Len(rows[c.source]) /\ Admitted(c, n) =>
              Sent(History, c, n, Transfer(c, Context(c.id, n), Time(n), IsActive(rows[c.source][n + 1])))
  BY <1>5, <1>9 DEF Admitted, Sent
<1>11. ASSUME NEW c \in CouplingSet, NEW n, NEW t, Sent(History, c, n, t)
       PROVE  Admitted(c, n) /\ n \in 0..(Len(seen) - 1) /\ n < Len(rows[c.source])
  <2>1. Admitted(c, n) /\ n \in Nat /\ n < Len(rows[c.source])
    BY <1>5, <1>9, <1>11 DEF Admitted, Sent
  <2>2. Len(rows[c.source]) \in 0..Len(seen)
    BY <1>1, TickingUpTo
  <2>3. QED
    BY <1>2, <2>1, <2>2
<1> HIDE DEF History
<1>12. QED
  BY <1>2, <1>4, <1>5, <1>6, <1>7, <1>8, <1>10, <1>11, IInvIs DEF Transferring

\* A queue of the state.
LEMMA QueuesAre ==
    ASSUME IInv, NEW k \in DOMAIN queues
    PROVE  QueueOK(History, HadTurn, Now, k, queues[k])
<1>1. QueueOf(Transfers, k) = queues[k]
  BY DEF QueueOf, Transfers
<1>2. QED
  BY <1>1, StateIs

\* A port that has been written.
LEMMA PortsAre ==
    ASSUME IInv, NEW p \in Ports, ports[p].origin # None
    PROVE  \E c \in WritersOf(p) : \E n \in Nat :
                /\ Admitted(c, n) /\ n \in 0..(Len(seen) - 1)
                /\ ports[p].origin = Time(n) /\ TickOf(ports[p].origin) = n
                /\ ports[p].at = Time(n) + LagIn(History, c, n) /\ ports[p].at <= Now
                /\ LagIn(History, c, n) \in Int
                /\ ports[p].metadata # None =>
                      /\ ports[p].metadata = Metadata(c, Context(c.id, n))
                      /\ KeepsKeys(c) => ports[p].at > Now - Dt
<1> DEFINE h == History
           port == ports[p]
<1>1. PortOK(h, Now, p, port) /\ UpTo(h, step) /\ step \in Nat
  BY StateIs
<1>2. PICK c \in CouplingSet : \E n \in Nat : \E t :
            /\ Sent(h, c, n, t)
            /\ c.port = p
            /\ port.at = t.at /\ port.origin = t.origin
            /\ port.at <= Now
            /\ port.metadata # None =>
                  port.metadata = t.metadata /\ (Keeps(h, c) => port.at > Now - Dt)
  BY <1>1 DEF PortOK
<1>3. PICK n \in Nat : \E t :
            /\ Sent(h, c, n, t)
            /\ c.port = p
            /\ port.at = t.at /\ port.origin = t.origin
            /\ port.at <= Now
            /\ port.metadata # None =>
                  port.metadata = t.metadata /\ (Keeps(h, c) => port.at > Now - Dt)
  BY <1>2
<1>4. PICK t :
            /\ Sent(h, c, n, t)
            /\ c.port = p
            /\ port.at = t.at /\ port.origin = t.origin
            /\ port.at <= Now
            /\ port.metadata # None =>
                  port.metadata = t.metadata /\ (Keeps(h, c) => port.at > Now - Dt)
  BY <1>3
<1>5. /\ t.origin = Time(n) /\ t.at = Time(n) + LagIn(h, c, n) /\ LagIn(h, c, n) \in Int
      /\ t.metadata = Metadata(c, ContextIn(h, c, n))
  BY <1>1, <1>4, SentIs
<1>6. ContextIn(h, c, n) = Context(c.id, n)
  BY DEF History, ContextIn, Context
<1>7. Admitted(c, n) /\ n \in 0..(Len(seen) - 1) /\ (Keeps(h, c) <=> KeepsKeys(c))
  BY <1>4, StateIs
<1>8. TickOf(Time(n)) = n
  BY Times
<1>9. c \in WritersOf(p)
  BY <1>4 DEF WritersOf
<1> HIDE DEF port, h
<1>10. /\ port.origin = Time(n) /\ TickOf(port.origin) = n
       /\ port.at = Time(n) + LagIn(h, c, n) /\ port.at <= Now
       /\ port.metadata # None =>
             /\ port.metadata = Metadata(c, Context(c.id, n))
             /\ KeepsKeys(c) => port.at > Now - Dt
  BY <1>4, <1>5, <1>6, <1>7, <1>8
<1>11. QED
  BY <1>5, <1>7, <1>9, <1>10 DEF port, h

-----------------------------------------------------------------------------
(* The rows.                                                                *)

\* The sample of tick n of module m, without its labels.
SampleIn(h, family, m, n) ==
    TickSample(family[m], ContextAt(h.windows, m, n), IF n = 0 THEN 0 ELSE h.rows[m][n].clean,
               h.seen[n + 1].targets[m], n)

\* A touched row that is not the violator's own is due to coupling c, which
\* sent the sample of tick o.
DueTo(h, m, n, c, o) ==
    LET row == h.rows[m][n + 1]
    IN  /\ c.target = m /\ Before(c, m)
        /\ row.coupling = c.id
        /\ row.window # None /\ row.window = OwnWindow(ContextIn(h, c, o))
        /\ \E t : Sent(h, c, o, t) /\ (Keeps(h, c) => t.at <= Time(n) /\ t.at > Time(n) - Dt)

\* The row of tick n is that of the sample, with the labels of the tick.
RowIs(h, family, m, n) ==
    LET row == h.rows[m][n + 1]
        own == SampleIn(h, family, m, n)
    IN  /\ row.clean = own.clean /\ row.value = own.value
        /\ own.applied => row.applied /\ row.window = ContextAt(h.windows, m, n).window
        /\ row.applied /\ ~own.applied => \E c \in CouplingSet : \E o \in 0..n : DueTo(h, m, n, c, o)
        /\ \A c \in CouplingSet :
            c.target = m /\ Before(c, m) /\ AtOnce(h, c, n) /\ ContextIn(h, c, n) # Nominal =>
                row.applied

RowInv == \A m \in ModuleSet : \A n \in Nat : n < Len(rows[m]) => RowIs(History, program.family, m, n)

\* A set of naturals that is not empty has a least one.
LEMMA MinIs ==
    ASSUME NEW T \in SUBSET Nat, T # {}
    PROVE  Min(T) \in T /\ \A x \in T : Min(T) <= x
<1>1. PICK u \in T : \A v \in T : u <= v
  BY Draining!LeastElement
<1>2. QED
  BY <1>1 DEF Min

\* The label that a module reads off its ports.
LEMMA PortMetadataIs ==
    ASSUME NEW m
    PROVE  /\ PortMetadata(m).window # None =>
                \E i \in DOMAIN Couplings :
                    /\ Couplings[i].target = m
                    /\ ports[Couplings[i].port].metadata # None
                    /\ PortMetadata(m) = ports[Couplings[i].port].metadata
           /\ \A i \in DOMAIN Couplings :
                /\ Couplings[i].target = m
                /\ ports[Couplings[i].port].metadata # None
                /\ ports[Couplings[i].port].metadata.window # None
                => PortMetadata(m).window # None
<1> DEFINE Label(i) == ports[Couplings[i].port].metadata
           labelled == {i \in DOMAIN Couplings : Couplings[i].target = m /\ Label(i) # None}
           touched == {i \in labelled : Label(i).window # None}
<1>1. PortMetadata(m) = IF touched # {} THEN Label(Min(touched))
                        ELSE IF labelled # {} THEN Label(Min(labelled))
                        ELSE [coupling |-> None, window |-> None]
  BY DEF PortMetadata
<1>2. labelled \in SUBSET Nat /\ touched \in SUBSET Nat
  <2>1. Couplings \in Seq(CouplingSet)
    BY FlightAssumption
  <2>2. DOMAIN Couplings \subseteq Nat
    BY <2>1
  <2>3. QED
    BY <2>2
<1>3. touched # {} => Min(touched) \in touched
  <2> HIDE DEF touched
  <2>1. QED
    BY <1>2, MinIs
<1>4. labelled # {} => Min(labelled) \in labelled
  <2> HIDE DEF labelled
  <2>1. QED
    BY <1>2, MinIs
<1>5. CASE touched # {}
  <2>1. PortMetadata(m) = Label(Min(touched)) /\ Label(Min(touched)).window # None
    BY <1>1, <1>3, <1>5
  <2>2. QED
    BY <1>3, <1>5, <2>1
<1>6. CASE touched = {} /\ labelled # {}
  <2>1. PortMetadata(m) = Label(Min(labelled))
    BY <1>1, <1>6
  <2>2. QED
    BY <1>4, <1>6, <2>1
<1>7. CASE touched = {} /\ labelled = {}
  <2> HIDE DEF touched, labelled
  <2>1. PortMetadata(m) = [coupling |-> None, window |-> None]
    BY <1>1, <1>7
  <2>2. PortMetadata(m).window = None
    BY <2>1
  <2>3. touched = {}
    BY <1>7
  <2> USE DEF touched, labelled
  <2>4. QED
    BY <2>2, <2>3
<1>8. QED
  BY <1>5, <1>6, <1>7

\* A step leaves the rows there are, and a new one is that of the module
\* whose turn it is.
LEMMA RowsGrow ==
    ASSUME Ticking, Next, NEW m \in ModuleSet
    PROVE  /\ program' = program
           /\ Len(rows[m]) \in Nat /\ Len(rows'[m]) \in Nat /\ Len(rows[m]) <= Len(rows'[m])
           /\ \A n \in Nat : n < Len(rows[m]) =>
                rows'[m][n + 1] = rows[m][n + 1] /\ seen'[n + 1] = seen[n + 1]
           /\ \A n \in Nat : n < Len(rows'[m]) /\ ~(n < Len(rows[m])) =>
                /\ StepModule /\ turn \in 1..Len(Modules) /\ m = Modules[turn]
                /\ n = step /\ Len(rows[m]) = n /\ Len(seen) = n + 1
                /\ rows'[m][n + 1] = Sampled(m) /\ seen' = seen
<1>1. /\ step \in Nat /\ IsList(seen) /\ Len(seen) = step + (IF turn = 0 THEN 0 ELSE 1)
      /\ turn \in 0..Len(Modules) /\ Len(Modules) \in Nat
      /\ rows = [o \in ModuleSet |-> rows[o]]
  BY TickingUpTo, ModulesAre DEF Ticking
<1>2. PICK i \in 1..Len(Modules) : m = Modules[i]
  BY ModulesAre
<1>3. IsList(rows[m]) /\ Len(rows[m]) = step + (IF i < turn THEN 1 ELSE 0)
  BY <1>2 DEF Ticking
<1>4. Len(rows[m]) \in Nat
  BY <1>1, <1>3
<1>5. CASE BeginTick
  <2>1. turn = 0 /\ program' = program /\ rows' = rows /\ \E t : seen' = Append(seen, t)
    BY <1>5 DEF BeginTick
  <2>2. PICK t : seen' = Append(seen, t)
    BY <2>1
  <2>3. \A j \in 1..Len(seen) : seen'[j] = seen[j]
    BY <1>1, <2>2, Appended
  <2>4. Len(rows[m]) = step /\ Len(seen) = step
    BY <1>1, <1>3, <2>1
  <2>5. \A n \in Nat : n < Len(rows[m]) => seen'[n + 1] = seen[n + 1]
    BY <1>1, <2>3, <2>4
  <2>6. program' = program /\ rows'[m] = rows[m]
    BY <2>1
  <2>7. QED
    BY <1>4, <2>5, <2>6
<1>6. CASE StepModule
  <2>1. /\ turn \in 1..Len(Modules) /\ program' = program /\ seen' = seen
        /\ rows' = [rows EXCEPT ![Modules[turn]] = Append(@, Sampled(Modules[turn]))]
    BY <1>1, <1>6 DEF StepModule
  <2>2. CASE m = Modules[turn]
    <3>1. i = turn
      BY <1>2, <2>1, <2>2, ModulesAre
    <3>2. Len(rows[m]) = step /\ Len(seen) = step + 1
      BY <1>1, <1>3, <2>1, <3>1
    <3>3. rows'[m] = Append(rows[m], Sampled(m))
      BY <1>1, <2>1, <2>2
    <3>4. /\ Len(rows'[m]) = step + 1
          /\ \A j \in 1..step : rows'[m][j] = rows[m][j]
          /\ rows'[m][step + 1] = Sampled(m)
      BY <1>3, <3>2, <3>3, Appended
    <3>5. \A n \in Nat : n < step => n + 1 \in 1..step
      BY <1>1
    <3>6. \A n \in Nat : n < step + 1 /\ ~(n < step) => n = step
      BY <1>1
    <3>7. QED
      BY <1>1, <1>6, <2>1, <2>2, <3>2, <3>4, <3>5, <3>6
  <2>3. CASE m # Modules[turn]
    <3>1. rows'[m] = rows[m]
      BY <1>1, <2>1, <2>3
    <3>2. program' = program /\ seen' = seen
      BY <2>1
    <3>3. QED
      BY <1>4, <3>1, <3>2
  <2>4. QED
    BY <2>2, <2>3
<1>7. QED
  BY <1>5, <1>6 DEF Next

\* The history of a flight goes on.
LEMMA HistoryGoesOn ==
    ASSUME Ticking, Next
    PROVE  GoesOn(History, History')
<1>1. /\ History.windows = program.windows /\ History.rows = rows /\ History.seen = seen
      /\ History'.windows = program'.windows /\ History'.rows = rows' /\ History'.seen = seen'
  BY DEF History
<1>2. \A c \in CouplingSet : c.source \in ModuleSet
  BY FlightAssumption
<1>3. \E m : m \in ModuleSet
  BY ModulesAre
<1> HIDE DEF History
<1>4. program' = program
  BY <1>3, RowsGrow
<1>5. QED
  BY <1>1, <1>2, <1>4, RowsGrow DEF GoesOn

\* A module before one that has made its row of a tick has made its own.
LEMMA BeforeHasRow ==
    ASSUME Ticking, NEW m \in ModuleSet, NEW c \in CouplingSet, Before(c, m),
           NEW n \in Nat, n < Len(rows[m])
    PROVE  n < Len(rows[c.source])
<1>1. PICK i, j \in 1..Len(Modules) : i < j /\ Modules[i] = c.source /\ Modules[j] = m
  BY DEF Before
<1>2. /\ Len(rows[c.source]) = step + (IF i < turn THEN 1 ELSE 0)
      /\ Len(rows[m]) = step + (IF j < turn THEN 1 ELSE 0)
  BY <1>1 DEF Ticking
<1>3. step \in Nat /\ turn \in Nat
  BY TickingUpTo, ModulesAre DEF Ticking
<1>4. QED
  BY <1>1, <1>2, <1>3

\* A row stays what it is.
LEMMA RowStays ==
    ASSUME Ticking, Next, NEW m \in ModuleSet, NEW n \in Nat, n < Len(rows[m]),
           NEW family, RowIs(History, family, m, n)
    PROVE  RowIs(History', family, m, n)
<1> DEFINE h == History
           h2 == History'
<1>1. /\ h.windows = program.windows /\ h.rows = rows /\ h.seen = seen
      /\ h2.windows = program'.windows /\ h2.rows = rows' /\ h2.seen = seen'
  BY DEF History
<1>2. GoesOn(h, h2)
  BY HistoryGoesOn
<1>3. \A c \in CouplingSet : Before(c, m) => n < Len(h.rows[c.source])
  BY <1>1, BeforeHasRow
<1>4. RowIs(h, family, m, n)
  OBVIOUS
<1> HIDE DEF h, h2
<1>5. /\ h2.windows = h.windows
      /\ h2.rows[m][n + 1] = h.rows[m][n + 1]
      /\ h2.seen[n + 1] = h.seen[n + 1]
  BY <1>1, <1>2, RowsGrow DEF GoesOn
<1>6. n # 0 => h2.rows[m][n] = h.rows[m][n]
  <2>1. SUFFICES ASSUME n # 0 PROVE h2.rows[m][n] = h.rows[m][n]
    OBVIOUS
  <2>2. n - 1 \in Nat /\ (n - 1) + 1 = n
    BY <2>1
  <2>3. n - 1 < Len(rows[m])
    BY <2>2, RowsGrow
  <2>4. rows'[m][(n - 1) + 1] = rows[m][(n - 1) + 1]
    BY <2>2, <2>3, RowsGrow
  <2>5. QED
    BY <1>1, <2>2, <2>4
<1>7. SampleIn(h2, family, m, n) = SampleIn(h, family, m, n)
  BY <1>5, <1>6 DEF SampleIn
<1>8. \A c \in CouplingSet : \A o : ContextIn(h2, c, o) = ContextIn(h, c, o)
  BY <1>5 DEF ContextIn
<1>9. ASSUME NEW c \in CouplingSet, NEW o, DueTo(h, m, n, c, o)
      PROVE  DueTo(h2, m, n, c, o)
  BY <1>2, <1>5, <1>8, <1>9, SentStays DEF DueTo
<1>10. ASSUME NEW c \in CouplingSet, Before(c, m), AtOnce(h2, c, n)
       PROVE  AtOnce(h, c, n)
  BY <1>2, <1>3, <1>10, SentStays DEF AtOnce
<1>11. QED
  BY <1>4, <1>5, <1>7, <1>8, <1>9, <1>10 DEF RowIs, h2

\* The labels of a row, from those of the sample and of the ports.
LEMMA RowLabels ==
    ASSUME NEW m, NEW sample, NEW ctx
    PROVE  LET row == Row(m, sample, ctx)
               port == PortMetadata(m)
           IN  /\ row.clean = sample.clean /\ row.value = sample.value
               /\ row.coupling = port.coupling
               /\ sample.applied => row.applied /\ row.window = OwnWindow(ctx)
               /\ row.applied /\ ~sample.applied => port.window # None /\ row.window = port.window
               /\ port.window # None => row.applied
<1> DEFINE row == Row(m, sample, ctx)
           port == PortMetadata(m)
           touched == port.window # None /\ ~sample.applied
<1>1. row = [clean |-> sample.clean, value |-> sample.value,
             applied |-> sample.applied \/ touched,
             window |-> IF touched THEN port.window ELSE OwnWindow(ctx),
             coupling |-> port.coupling]
  BY DEF Row
<1> HIDE DEF row, port, touched
<1>2. /\ row.clean = sample.clean /\ row.value = sample.value
      /\ row.coupling = port.coupling
      /\ row.window = IF touched THEN port.window ELSE OwnWindow(ctx)
  BY <1>1
<1>3. row.applied = (sample.applied \/ touched)
  BY <1>1
<1>4. sample.applied => row.applied
  BY <1>3, Zenon
<1>5. row.applied /\ ~sample.applied => touched
  BY <1>3, Zenon
<1>6. touched => row.applied
  BY <1>3, Zenon
<1>7. QED
  BY <1>2, <1>4, <1>5, <1>6 DEF row, port, touched

\* The sample of a tick, taken from the history.
LEMMA SampledIs ==
    ASSUME Ticking, NEW m \in ModuleSet, Len(rows[m]) = step, Len(seen) = step + 1
    PROVE  Sampled(m) = Row(m, SampleIn(History, program.family, m, step), Context(m, step))
<1>1. step \in Nat
  BY TickingUpTo
<1>2. PICK i \in 1..Len(Modules) : m = Modules[i]
  BY ModulesAre
<1>3. IsList(rows[m])
  BY <1>2 DEF Ticking
<1>4. rows[m] = <<>> <=> step = 0
  BY <1>3 DEF IsList
<1>5. InitialState(m) = IF step = 0 THEN 0 ELSE rows[m][step].clean
  BY <1>4 DEF InitialState, Last
<1>6. Last(seen) = seen[step + 1]
  BY DEF Last
<1>7. QED
  BY <1>5, <1>6 DEF Sampled, SampleIn, Context, History

\* The row that a step makes is labelled by the ports of that step.
LEMMA NewRow ==
    ASSUME IInv, Next, NEW m \in ModuleSet, NEW n \in Nat,
           n < Len(rows'[m]), ~(n < Len(rows[m]))
    PROVE  RowIs(History', program.family, m, n)
<1> DEFINE h == History
           h2 == History'
           family == program.family
           row == Sampled(m)
           own == SampleIn(h, family, m, n)
           ctx == ContextAt(h.windows, m, n)
           port == PortMetadata(m)
<1>1. Ticking /\ Carrying(h, HadTurn, Len(seen) - 1, Transfers)
  BY DEF IInv
<1>2. /\ turn \in 1..Len(Modules) /\ m = Modules[turn]
      /\ n = step /\ Len(rows[m]) = n /\ Len(seen) = n + 1
      /\ rows'[m][n + 1] = row /\ program' = program
      /\ seen'[n + 1] = seen[n + 1]
      /\ \A o \in Nat : o < n => rows'[m][o + 1] = rows[m][o + 1]
  BY <1>1, RowsGrow
<1>3. /\ h.windows = program.windows /\ h.rows = rows /\ h.seen = seen
      /\ h2.windows = program'.windows /\ h2.rows = rows' /\ h2.seen = seen'
  BY DEF History
<1>4. GoesOn(h, h2)
  BY <1>1, HistoryGoesOn
<1>5. Labelling(h, HadTurn, n, Transfers)
  <2>1. Len(seen) - 1 = n
    BY <1>2
  <2>2. QED
    BY <1>1, <2>1 DEF Carrying
<1>6. UpTo(h, n)
  BY <1>2, StateIs
<1>7. HadTurn = {j \in DOMAIN Couplings : \E i \in 1..(turn - 1) : Modules[i] = Couplings[j].source}
  BY <1>2 DEF HadTurn
<1>8. Transfers.ports = ports
  BY DEF Transfers
<1>9. row = Row(m, own, ctx)
  BY <1>1, <1>2, SampledIs DEF Context, History
<1>10. SampleIn(h2, family, m, n) = own
  <2>1. n # 0 => h2.rows[m][n] = h.rows[m][n]
    <3>1. SUFFICES ASSUME n # 0 PROVE rows'[m][n] = rows[m][n]
      BY <1>3
    <3>2. n - 1 \in Nat /\ n - 1 < n /\ (n - 1) + 1 = n
      BY <3>1
    <3>3. QED
      BY <1>2, <3>2
  <2> HIDE DEF h, h2
  <2>2. QED
    BY <1>2, <1>3, <2>1 DEF SampleIn
<1>11. own.applied => ctx # Nominal
  BY DEF SampleIn, TickSample
<1>12. \A c, o : ContextIn(h2, c, o) = ContextIn(h, c, o)
  BY <1>2, <1>3 DEF ContextIn
<1> HIDE DEF h, h2, family, row, own, ctx, port
<1>13. /\ row.clean = own.clean /\ row.value = own.value
       /\ row.coupling = port.coupling
       /\ own.applied => row.applied /\ row.window = OwnWindow(ctx)
       /\ row.applied /\ ~own.applied => port.window # None /\ row.window = port.window
       /\ port.window # None => row.applied
  BY <1>9, RowLabels DEF port
<1>14. own.applied => row.applied /\ row.window = ctx.window
  BY <1>11, <1>13 DEF OwnWindow
<1>15. ASSUME row.applied, ~own.applied
       PROVE  \E c \in CouplingSet : \E o \in 0..n : DueTo(h2, m, n, c, o)
  <2>1. port.window # None /\ row.window = port.window
    BY <1>13, <1>15
  <2>2. PICK i \in DOMAIN Couplings :
            /\ Couplings[i].target = m
            /\ ports[Couplings[i].port].metadata # None
            /\ port = ports[Couplings[i].port].metadata
    BY <2>1, PortMetadataIs DEF port
  <2> DEFINE p == Couplings[i].port
  <2>3. Couplings[i] \in CouplingSet /\ p \in Ports
    BY CouplingIs
  <2>4. LabelOK(h, HadTurn, Time(n), p, ports[p])
    BY <1>5, <1>8, <2>3 DEF Labelling
  <2>5. PICK c \in WritersOf(p) : \E o \in Nat : \E t :
            /\ Sent(h, c, o, t)
            /\ port = t.metadata
            /\ \E j \in DOMAIN Couplings : j \in HadTurn /\ Couplings[j].source = c.source
            /\ Keeps(h, c) => t.at <= Time(n) /\ t.at > Time(n) - Dt
    BY <2>2, <2>4 DEF LabelOK
  <2>6. PICK o \in Nat : \E t :
            /\ Sent(h, c, o, t)
            /\ port = t.metadata
            /\ \E j \in DOMAIN Couplings : j \in HadTurn /\ Couplings[j].source = c.source
            /\ Keeps(h, c) => t.at <= Time(n) /\ t.at > Time(n) - Dt
    BY <2>5
  <2>7. PICK t :
            /\ Sent(h, c, o, t)
            /\ port = t.metadata
            /\ \E j \in DOMAIN Couplings : j \in HadTurn /\ Couplings[j].source = c.source
            /\ Keeps(h, c) => t.at <= Time(n) /\ t.at > Time(n) - Dt
    BY <2>6
  <2>8. c \in CouplingSet /\ c.port = p
    BY DEF WritersOf
  <2>9. c.target = m
    BY <2>2, <2>3, <2>8, FlightAssumption
  <2>10. Before(c, m)
    <3>1. PICK k \in 1..(turn - 1) : Modules[k] = c.source
      BY <1>7, <2>7
    <3>2. k \in 1..Len(Modules) /\ k < turn
      BY <1>2, <3>1
    <3>3. QED
      BY <1>2, <3>1, <3>2 DEF Before
  <2>11. o \in 0..n /\ t.metadata = Metadata(c, ContextIn(h, c, o))
    <3>1. o <= n /\ t.metadata = Metadata(c, ContextIn(h, c, o))
      BY <1>6, <2>7, <2>8, SentIs
    <3>2. QED
      BY <3>1
  <2>12. /\ row.coupling = c.id
         /\ row.window # None /\ row.window = OwnWindow(ContextIn(h, c, o))
    BY <1>13, <2>1, <2>7, <2>11 DEF Metadata, OwnWindow
  <2>13. Sent(h2, c, o, t) /\ (Keeps(h2, c) <=> Keeps(h, c))
    BY <1>4, <2>7, <2>8, SentStays
  <2>14. h2.rows[m][n + 1] = row
    BY <1>2, <1>3
  <2> HIDE DEF p
  <2>15. DueTo(h2, m, n, c, o)
    BY <1>12, <2>7, <2>9, <2>10, <2>12, <2>13, <2>14 DEF DueTo
  <2>16. QED
    BY <2>8, <2>11, <2>15
<1>16. ASSUME NEW c \in CouplingSet, c.target = m, Before(c, m), AtOnce(h2, c, n),
              ContextIn(h2, c, n) # Nominal
       PROVE  row.applied
  <2>1. PICK k \in 1..Len(Modules), l \in 1..Len(Modules) :
            k < l /\ Modules[k] = c.source /\ Modules[l] = m
    BY <1>16 DEF Before
  <2>2. l = turn
    BY <1>2, <2>1, ModulesAre
  <2>3. k \in 1..(turn - 1) /\ n < Len(rows[c.source])
    <3>1. Len(rows[c.source]) = step + 1
      BY <1>1, <2>1, <2>2 DEF Ticking
    <3>2. QED
      BY <1>2, <2>1, <2>2, <3>1
  <2>4. AtOnce(h, c, n)
    BY <1>3, <1>4, <1>16, <2>3, SentStays DEF AtOnce
  <2>5. PICK j \in DOMAIN Couplings : Couplings[j] = c
    BY DEF CouplingSet, ToSet
  <2>6. j \in HadTurn
    BY <1>7, <2>1, <2>3, <2>5
  <2>7. ports[c.port].metadata = Metadata(c, ContextIn(h, c, n))
    BY <1>5, <1>8, <2>4, <2>5, <2>6 DEF Labelling
  <2>8. ContextIn(h, c, n) # Nominal
    BY <1>12, <1>16
  <2>9. PICK i \in DOMAIN h.windows : ContextIn(h, c, n) = h.windows[i].context
    <3>1. IsProgram(h.windows)
      BY <1>6 DEF UpTo
    <3>2. QED
      BY <2>8, <3>1, ContextIs DEF ContextIn
  <2>10. /\ h.windows[i].context.window # None
         /\ [coupling |-> c.id, window |-> h.windows[i].context.window] # None
    <3>1. program \in Programs
      BY <1>1 DEF Ticking
    <3>2. h.windows[i] \in ToSet(program.windows)
      BY <1>3 DEF ToSet
    <3>3. QED
      BY <3>1, <3>2, FlightAssumption
  <2>11. /\ ports[c.port].metadata = [coupling |-> c.id, window |-> h.windows[i].context.window]
    BY <2>7, <2>8, <2>9 DEF Metadata
  <2>12. port.window # None
    BY <1>16, <2>5, <2>10, <2>11, PortMetadataIs DEF port
  <2>13. QED
    BY <1>13, <2>12
<1>17. h2.rows[m][n + 1] = row /\ ContextAt(h2.windows, m, n) = ctx
  BY <1>2, <1>3 DEF ctx
<1>18. RowIs(h2, family, m, n)
  BY <1>10, <1>13, <1>14, <1>15, <1>16, <1>17 DEF RowIs
<1>19. QED
  BY <1>18 DEF h2, family

\* No row at first, and every step keeps the rows and labels its own.
LEMMA RowInvariance == Spec => []RowInv
<1>1. Init => RowInv
  <2>1. SUFFICES ASSUME Init, NEW m \in ModuleSet, NEW n \in Nat, n < Len(rows[m])
                 PROVE  FALSE
    BY DEF RowInv
  <2>2. Len(rows[m]) = 0
    BY <2>1, EmptyIsList DEF Init
  <2>3. QED
    BY <2>1, <2>2
<1>2. ASSUME IInv, RowInv, Next
      PROVE  RowInv'
  <2>1. Ticking
    BY <1>2 DEF IInv
  <2>2. SUFFICES ASSUME NEW m \in ModuleSet, NEW n \in Nat, n < Len(rows'[m])
                 PROVE  RowIs(History', program'.family, m, n)
    BY DEF RowInv
  <2>3. program' = program
    BY <1>2, <2>1, RowsGrow
  <2>4. CASE n < Len(rows[m])
    <3>1. RowIs(History, program.family, m, n)
      BY <1>2, <2>4 DEF RowInv
    <3>2. QED
      BY <1>2, <2>1, <2>3, <2>4, <3>1, RowStays
  <2>5. CASE ~(n < Len(rows[m]))
    BY <1>2, <2>2, <2>3, <2>5, NewRow
  <2>6. QED
    BY <2>4, <2>5
<1>3. RowInv /\ UNCHANGED vars => RowInv'
  <2>1. SUFFICES ASSUME RowInv, UNCHANGED vars PROVE RowInv'
    OBVIOUS
  <2>2. rows' = rows /\ program' = program /\ History' = History
    BY <2>1 DEF vars, History
  <2>3. SUFFICES ASSUME NEW m \in ModuleSet, NEW n \in Nat, n < Len(rows'[m])
                 PROVE  RowIs(History', program'.family, m, n)
    BY DEF RowInv
  <2>4. RowIs(History, program.family, m, n)
    BY <2>1, <2>2, <2>3 DEF RowInv
  <2> HIDE DEF History
  <2>5. QED
    BY <2>2, <2>4
<1>4. QED
  BY <1>1, <1>2, <1>3, Invariance, PTL DEF Spec

-----------------------------------------------------------------------------
(* The streams of the rows.                                                 *)

Generating == INSTANCE FoldLemmas WITH
    Op <- LAMBDA x, state, tick : Generated(x[1], state, tick.targets[x[2]])

Streaming == INSTANCE FoldLemmas WITH
    Op <- LAMBDA x, v, k : Violated(x[1], x[2], v.memory, x[3][k + 1].clean, k)

\* The run of the generator is a fold of FoldLemmas.
LEMMA CleanRunIs ==
    ASSUME NEW m, NEW n, NEW i \in 1..(n + 1)
    PROVE  CleanRun(m, n)[i]
             = Generating!Fold(<<program.family[m], m>>, Unsettled(0), SubSeq(seen, 1, i))
<1>1. CleanRun(m, n)
        = [o \in 1..(n + 1) |->
             FoldLeft(LAMBDA state, tick : Generated(program.family[m], state, tick.targets[m]),
                      Unsettled(0), SubSeq(seen, 1, o))]
  BY DEF CleanRun
<1>2. FoldLeft(LAMBDA state, tick : Generated(program.family[m], state, tick.targets[m]),
               Unsettled(0), SubSeq(seen, 1, i))
        = Generating!Fold(<<program.family[m], m>>, Unsettled(0), SubSeq(seen, 1, i))
  BY DEF FoldLeft, MapThenFoldSet, Max,
         Generating!Fold, Generating!FoldLeft, Generating!MapThenFoldSet, Generating!Max
<1>3. QED
  BY <1>1, <1>2

\* So is that of the violator.
LEMMA ObservedRunIs ==
    ASSUME NEW m, NEW n
    PROVE  ObservedRun(m, n)
             = Streaming!Fold(<<program.family[m], Context(m, n), rows[m]>>,
                              [memory |-> FreshMemory],
                              [i \in 1..(n - FirstUnder(m, n) + 1) |-> FirstUnder(m, n) + i - 1])
  BY DEF ObservedRun, FoldLeft, MapThenFoldSet, Max,
         Streaming!Fold, Streaming!FoldLeft, Streaming!MapThenFoldSet, Streaming!Max

\* The first elements of a list.
LEMMA Prefix ==
    ASSUME NEW q, IsList(q), NEW i \in 0..Len(q)
    PROVE  /\ IsList(SubSeq(q, 1, i)) /\ Len(SubSeq(q, 1, i)) = i
           /\ \A j \in 1..i : SubSeq(q, 1, i)[j] = q[j]
<1>1. PICK S : q \in Seq(S)
  BY DEF IsList
<1>2. SubSeq(q, 1, i) = [j \in 1..i |-> q[j]]
  BY <1>1
<1>3. [j \in 1..i |-> q[j]] \in Seq(S)
  BY <1>1
<1>4. QED
  BY <1>1, <1>2, <1>3 DEF IsList

\* The clean value before tick n.
CleanBefore(m, n) == IF n = 0 THEN 0 ELSE rows[m][n].clean

\* A row has the clean value that a generator which has not settled makes of
\* that before it.
LEMMA CleanStep ==
    ASSUME RowInv, NEW m \in ModuleSet, NEW n \in Nat, n < Len(rows[m])
    PROVE  rows[m][n + 1].clean
             = Generated(program.family[m], Unsettled(CleanBefore(m, n)), seen[n + 1].targets[m]).value
<1>1. RowIs(History, program.family, m, n)
  BY DEF RowInv
<1>2. rows[m][n + 1].clean = SampleIn(History, program.family, m, n).clean
  BY <1>1 DEF RowIs, History
<1>3. \A family, ctx, clean, target, tick :
          TickSample(family, ctx, clean, target, tick).clean
            = Generated(family, Unsettled(clean), target).value
  BY DEF TickSample
<1>4. QED
  BY <1>2, <1>3 DEF SampleIn, History, CleanBefore

\* The run of the generator, step by step.
LEMMA CleanRunSteps ==
    ASSUME IsList(seen), NEW m, NEW n \in Nat, n < Len(seen)
    PROVE  \E run :
              /\ run[0] = Unsettled(0)
              /\ \A i \in 1..(n + 1) :
                    /\ run[i] = Generated(program.family[m], run[i - 1], seen[i].targets[m])
                    /\ CleanRun(m, n)[i] = run[i]
<1> DEFINE x == <<program.family[m], m>>
           s(i) == SubSeq(seen, 1, i)
<1>1. Len(seen) \in Nat
  BY DEF IsList
<1>2. ASSUME NEW i \in 1..(n + 1)
      PROVE  IsList(s(i)) /\ Len(s(i)) = i /\ \A j \in 1..i : s(i)[j] = seen[j]
  <2>1. i \in 0..Len(seen)
    BY <1>1
  <2>2. QED
    BY <2>1, Prefix
<1> HIDE DEF s
<1>3. ASSUME NEW i \in 1..(n + 1)
      PROVE  \E g : Generating!Runs(x, Unsettled(0), s(i), g)
                     /\ Generating!Fold(x, Unsettled(0), s(i)) = g[i]
  <2> DEFINE q == s(i)
  <2>1. PICK S : q \in Seq(S)
    BY <1>2 DEF IsList
  <2>2. Len(q) = i
    BY <1>2
  <2> HIDE DEF q, x
  <2>3. \E g : Generating!Runs(x, Unsettled(0), q, g) /\ Generating!Fold(x, Unsettled(0), q) = g[Len(q)]
    BY <2>1, Generating!FoldRuns
  <2>4. QED
    BY <2>2, <2>3 DEF q
<1>4. n + 1 \in 1..(n + 1)
  OBVIOUS
<1>5. PICK run : Generating!Runs(x, Unsettled(0), s(n + 1), run)
  BY <1>3, <1>4
<1>6. /\ run[0] = Unsettled(0)
      /\ \A i \in 1..(n + 1) :
            run[i] = Generated(program.family[m], run[i - 1], seen[i].targets[m])
  BY <1>2, <1>4, <1>5 DEF Generating!Runs
<1>7. ASSUME NEW i \in 1..(n + 1)
      PROVE  CleanRun(m, n)[i] = run[i]
  <2>1. PICK g : Generating!Runs(x, Unsettled(0), s(i), g)
                 /\ Generating!Fold(x, Unsettled(0), s(i)) = g[i]
    BY <1>3
  <2>2. CleanRun(m, n)[i] = g[i]
    BY <2>1, CleanRunIs DEF s
  <2>3. /\ i \in Nat /\ i <= n + 1 /\ i \in 0..i /\ n + 1 \in Nat
        /\ Len(s(i)) = i /\ Len(s(n + 1)) = n + 1
        /\ \A j \in 1..i : s(i)[j] = s(n + 1)[j]
    BY <1>2, <1>4
  <2>4. i <= Len(s(i)) /\ i <= Len(s(n + 1)) /\ Len(s(i)) \in Nat /\ Len(s(n + 1)) \in Nat
    BY <2>3
  <2>5. \A j \in 0..i : g[j] = run[j]
    <3> DEFINE q == s(i)
               r == s(n + 1)
               base == Unsettled(0)
    <3>1. /\ Generating!Runs(x, base, q, g) /\ Generating!Runs(x, base, r, run)
          /\ i \in Nat /\ i <= Len(q) /\ i <= Len(r) /\ Len(q) \in Nat /\ Len(r) \in Nat
          /\ \A j \in 1..i : q[j] = r[j]
      BY <1>5, <2>1, <2>3, <2>4
    <3> HIDE DEF q, r, base, x
    <3>2. QED
      BY <3>1, Generating!RunsAgree
  <2>6. QED
    BY <2>2, <2>3, <2>5
<1>8. QED
  BY <1>6, <1>7

\* As long as it has not settled twice, a generator makes of its state what
\* one that is called anew makes of the value.
LEMMA SameUntilTrim ==
    ASSUME NEW family \in Families, NEW state, state.settled \in Nat, NEW target,
           ~(Generated(family, state, target).settled > 1)
    PROVE  Generated(family, state, target).value
             = Generated(family, Unsettled(state.value), target).value
<1> DEFINE fresh == Unsettled(state.value)
<1>1. fresh.value = state.value /\ fresh.settled = 0
  BY DEF Unsettled
<1> HIDE DEF fresh
<1>2. CASE family = "regulated"
  <2> DEFINE moved == Approached(state.value, target, ReversionTime)
             error == moved - target
             near == error \in -ControlBand(target)..ControlBand(target)
  <2>1. /\ RegulatedGenerated(state, target).settled = IF near THEN state.settled + 1 ELSE 0
        /\ RegulatedGenerated(state, target).value
             = LET settled == IF near THEN state.settled + 1 ELSE 0
               IN  CASE settled = 0 -> moved
                     [] settled = 1 -> target + (35 * error) \div 100
                     [] OTHER -> target + error \div 5 + Trim(target, settled - 1)
    BY DEF RegulatedGenerated
  <2>2. RegulatedGenerated(fresh, target).value
             = LET settled == IF near THEN 1 ELSE 0
               IN  CASE settled = 0 -> moved
                     [] settled = 1 -> target + (35 * error) \div 100
                     [] OTHER -> target + error \div 5 + Trim(target, settled - 1)
    BY <1>1 DEF RegulatedGenerated
  <2>3. Generated(family, state, target) = RegulatedGenerated(state, target)
        /\ Generated(family, fresh, target) = RegulatedGenerated(fresh, target)
    BY <1>2 DEF Generated
  <2> HIDE DEF near
  <2>4. CASE near
    <3>1. state.settled = 0
      BY <2>1, <2>3, <2>4
    <3>2. QED
      BY <2>1, <2>2, <2>3, <2>4, <3>1 DEF fresh
  <2>5. CASE ~near
    BY <2>1, <2>2, <2>3, <2>5 DEF fresh
  <2>6. QED
    BY <2>4, <2>5
<1>3. CASE family = "inertial"
  BY <1>1, <1>3 DEF Generated, InertialGenerated, fresh
<1>4. CASE family = "accumulative"
  BY <1>1, <1>4 DEF Generated, AccumulativeGenerated, fresh
<1>5. CASE family = "tracking"
  BY <1>5 DEF Generated, fresh
<1>6. CASE family = "discrete_state"
  BY <1>6 DEF Generated, fresh
<1>7. QED
  BY <1>2, <1>3, <1>4, <1>5, <1>6 DEF Families

\* The count of settled steps is a natural.
LEMMA SettledCounts ==
    ASSUME NEW family \in Families, NEW state, state.settled \in Nat, NEW target
    PROVE  Generated(family, state, target).settled \in Nat
<1>1. CASE family = "regulated"
  <2> DEFINE near == Approached(state.value, target, ReversionTime) - target
                       \in -ControlBand(target)..ControlBand(target)
  <2>1. RegulatedGenerated(state, target).settled = IF near THEN state.settled + 1 ELSE 0
    BY DEF RegulatedGenerated
  <2> HIDE DEF near
  <2>2. QED
    BY <1>1, <2>1 DEF Generated
<1>2. CASE family # "regulated"
  BY <1>2 DEF Generated, InertialGenerated, AccumulativeGenerated, TrackingGenerated,
              DiscreteStateGenerated, Unsettled, Families
<1>3. QED
  BY <1>1, <1>2

\* The rows of a module are those of ticks that were seen.
LEMMA RowsAreSeen ==
    ASSUME Ticking, NEW m \in ModuleSet
    PROVE  IsList(seen) /\ Len(rows[m]) \in Nat /\ Len(rows[m]) <= Len(seen) /\ Len(seen) \in Nat
<1>1. PICK i \in 1..Len(Modules) : m = Modules[i]
  BY ModulesAre
<1>2. /\ IsList(seen) /\ Len(seen) = step + (IF turn = 0 THEN 0 ELSE 1)
      /\ Len(rows[m]) = step + (IF i < turn THEN 1 ELSE 0)
      /\ turn \in 0..Len(Modules) /\ Len(Modules) \in Nat
  BY <1>1, ModulesAre DEF Ticking
<1>3. step \in Nat
  BY TickingUpTo
<1>4. QED
  BY <1>1, <1>2, <1>3

\* The clean column is a run of the generator that has not trimmed.
LEMMA RowsAreClean ==
    ASSUME Ticking, RowInv, NEW m \in ModuleSet, NEW n \in Nat, n < Len(rows[m]), ~Trims(m, n)
    PROVE  rows[m][n + 1].clean = CleanRun(m, n)[n + 1].value
<1> DEFINE family == program.family[m]
<1>1. IsList(seen) /\ Len(rows[m]) \in Nat /\ Len(rows[m]) <= Len(seen) /\ Len(seen) \in Nat
  BY RowsAreSeen
<1>2. family \in Families
  BY FlightAssumption DEF Ticking
<1>3. n < Len(seen)
  BY <1>1
<1>4. PICK run :
          /\ run[0] = Unsettled(0)
          /\ \A i \in 1..(n + 1) :
                /\ run[i] = Generated(program.family[m], run[i - 1], seen[i].targets[m])
                /\ CleanRun(m, n)[i] = run[i]
  BY <1>1, <1>3, CleanRunSteps
<1> DEFINE target(i) == seen[i].targets[m]
           T == {k \in Nat : k <= n + 1 => /\ run[k].settled \in Nat
                                            /\ run[k].value = CleanBefore(m, k)}
<1>5. \A i \in 1..(n + 1) : ~(run[i].settled > 1)
  BY <1>4 DEF Trims
<1>6. \A i \in 1..(n + 1) : run[i] = Generated(family, run[i - 1], target(i))
  BY <1>4
<1>7. \A k \in Nat : k <= n =>
          CleanBefore(m, k + 1) = Generated(family, Unsettled(CleanBefore(m, k)), target(k + 1)).value
  <2>1. SUFFICES ASSUME NEW k \in Nat, k <= n
                 PROVE  CleanBefore(m, k + 1)
                          = Generated(family, Unsettled(CleanBefore(m, k)), target(k + 1)).value
    OBVIOUS
  <2>2. k < Len(rows[m]) /\ k + 1 # 0
    BY <1>1, <2>1
  <2>3. rows[m][k + 1].clean = Generated(family, Unsettled(CleanBefore(m, k)), target(k + 1)).value
    BY <2>2, CleanStep
  <2>4. QED
    BY <2>2, <2>3 DEF CleanBefore
<1> HIDE DEF family, target
<1>8. 0 \in T
  BY <1>4 DEF Unsettled, CleanBefore
<1>9. ASSUME NEW k \in Nat, k \in T
      PROVE  k + 1 \in T
  <2>1. SUFFICES ASSUME k + 1 <= n + 1
                 PROVE  run[k + 1].settled \in Nat /\ run[k + 1].value = CleanBefore(m, k + 1)
    OBVIOUS
  <2>2. k + 1 \in 1..(n + 1) /\ (k + 1) - 1 = k /\ k <= n /\ k <= n + 1
    BY <2>1
  <2>3. run[k].settled \in Nat /\ run[k].value = CleanBefore(m, k)
    BY <1>9, <2>2
  <2>4. run[k + 1] = Generated(family, run[k], target(k + 1)) /\ ~(run[k + 1].settled > 1)
    BY <1>5, <1>6, <2>2
  <2>5. run[k + 1].settled \in Nat
    BY <1>2, <2>3, <2>4, SettledCounts
  <2>6. run[k + 1].value = Generated(family, Unsettled(run[k].value), target(k + 1)).value
    BY <1>2, <2>3, <2>4, SameUntilTrim
  <2>7. QED
    BY <1>7, <2>2, <2>3, <2>5, <2>6
<1> HIDE DEF T
<1>10. n + 1 \in T
  BY <1>8, <1>9, Generating!Induction
<1>11. run[n + 1].value = rows[m][n + 1].clean
  BY <1>10 DEF T, CleanBefore
<1>12. QED
  BY <1>4, <1>11

\* A first-order step goes towards its target and not past it.
LEMMA ApproachedBetween ==
    ASSUME NEW v \in Int, NEW target \in Int
    PROVE  /\ Approached(v, target, ReversionTime) \in Int
           /\ Between(Approached(v, target, ReversionTime), v, target)
<1> DEFINE e == target - v
           q == (Dt * e) \div ReversionTime
<1>1. Dt \in Int /\ ReversionTime \in Int /\ Dt > 0 /\ ReversionTime > 0 /\ e \in Int
  BY TickAssumption
<1>2. CASE Dt >= ReversionTime
  BY <1>2 DEF Approached, Between
<1>3. CASE ~(Dt >= ReversionTime)
  <2>1. \A d, r, x \in Int : 0 < d /\ d < r /\ 0 <= x =>
          /\ (d * x) \div r \in Int /\ 0 <= (d * x) \div r /\ (d * x) \div r <= x
    <3>1. SUFFICES ASSUME NEW d \in Int, NEW r \in Int, NEW x \in Int, 0 < d, d < r, 0 <= x
                   PROVE  /\ (d * x) \div r \in Int /\ 0 <= (d * x) \div r /\ (d * x) \div r <= x
      OBVIOUS
    <3>2. d * x \in Int /\ 0 <= d * x /\ d * x <= r * x /\ r * x \in Int
      BY <3>1, SMTT(30)
    <3>3. \A y \in Int : 0 <= y /\ y <= r * x => y \div r \in Int /\ 0 <= y \div r /\ y \div r <= x
      BY <3>1, SMTT(30)
    <3>4. QED
      BY <3>2, <3>3
  <2>2. \A d, r, x \in Int : 0 < d /\ d < r /\ x <= 0 =>
          /\ (d * x) \div r \in Int /\ x <= (d * x) \div r /\ (d * x) \div r <= 0
    <3>1. SUFFICES ASSUME NEW d \in Int, NEW r \in Int, NEW x \in Int, 0 < d, d < r, x <= 0
                   PROVE  /\ (d * x) \div r \in Int /\ x <= (d * x) \div r /\ (d * x) \div r <= 0
      OBVIOUS
    <3>2. d * x \in Int /\ d * x <= 0 /\ r * x <= d * x /\ r * x \in Int
      BY <3>1, SMTT(30)
    <3>3. \A y \in Int : y <= 0 /\ r * x <= y => y \div r \in Int /\ x <= y \div r /\ y \div r <= 0
      BY <3>1, SMTT(30)
    <3>4. QED
      BY <3>2, <3>3
  <2>3. q \in Int /\ (0 <= e => 0 <= q /\ q <= e) /\ (e <= 0 => e <= q /\ q <= 0)
    BY <1>1, <1>3, <2>1, <2>2
  <2>4. Approached(v, target, ReversionTime) = v + q
    BY <1>3 DEF Approached
  <2> HIDE DEF q
  <2>5. QED
    BY <2>3, <2>4 DEF Between
<1>4. QED
  BY <1>2, <1>3

\* So does the generator of a regulated parameter that has not settled yet.
LEMMA RegulatedBetween ==
    ASSUME NEW v \in Int, NEW target \in Int
    PROVE  /\ RegulatedGenerated(Unsettled(v), target).value \in Int
           /\ Between(RegulatedGenerated(Unsettled(v), target).value, v, target)
<1> DEFINE moved == Approached(v, target, ReversionTime)
           error == moved - target
           near == error \in -ControlBand(target)..ControlBand(target)
<1>1. RegulatedGenerated(Unsettled(v), target).value
        = LET settled == IF near THEN 0 + 1 ELSE 0
          IN  CASE settled = 0 -> moved
                [] settled = 1 -> target + (35 * error) \div 100
                [] OTHER -> target + error \div 5 + Trim(target, settled - 1)
  BY DEF RegulatedGenerated, Unsettled
<1>2. moved \in Int /\ Between(moved, v, target)
  BY ApproachedBetween
<1> HIDE DEF moved, near
<1>3. error \in Int
  BY <1>2
<1>4. RegulatedGenerated(Unsettled(v), target).value
        = IF near THEN target + (35 * error) \div 100 ELSE moved
  BY <1>1
<1>5. \A x \in Int : /\ (35 * x) \div 100 \in Int
                      /\ (0 <= x => 0 <= (35 * x) \div 100 /\ (35 * x) \div 100 <= x)
                      /\ (x <= 0 => x <= (35 * x) \div 100 /\ (35 * x) \div 100 <= 0)
  BY SMTT(30)
<1>6. QED
  BY <1>2, <1>3, <1>4, <1>5 DEF Between

\* What is aimed at are numbers.
Driven == \A i \in 1..Len(seen) : \A m \in ModuleSet : seen[i].targets[m] \in Int

LEMMA TargetInvariance == Spec => []Driven
<1>1. Init => Driven
  BY EmptyIsList DEF Init, Driven
<1>2. IInv /\ Driven /\ [Next]_vars => Driven'
  <2>1. ASSUME IInv, Driven, BeginTick
        PROVE  Driven'
    <3>1. PICK tick : /\ seen' = Append(seen, tick)
                      /\ tick.targets \in [ModuleSet -> Targets]
      BY <2>1 DEF BeginTick
    <3>2. \A m \in ModuleSet : tick.targets[m] \in Int
      BY <3>1, FlightAssumption
    <3>3. IsList(seen) /\ Len(seen) \in Nat
      BY <2>1, TickingUpTo DEF IInv, Ticking
    <3>4. /\ Len(seen') = Len(seen) + 1 /\ seen'[Len(seen) + 1] = tick
          /\ \A i \in 1..Len(seen) : seen'[i] = seen[i]
      BY <3>1, <3>3, Appended
    <3>5. QED
      BY <2>1, <3>2, <3>3, <3>4 DEF Driven
  <2>2. ASSUME Driven, StepModule \/ UNCHANGED vars
        PROVE  Driven'
    BY <2>2 DEF Driven, StepModule, vars
  <2>3. QED
    BY <2>1, <2>2 DEF Next
<1>3. QED
  BY <1>1, <1>2, Invariance, PTL DEF Spec

\* In a flight a regulated parameter goes towards its target in every tick.
LEMMA RegulatedRows ==
    ASSUME Ticking, RowInv, Driven, NEW m \in ModuleSet, program.family[m] = "regulated",
           NEW n \in Nat, n < Len(rows[m])
    PROVE  Between(rows[m][n + 1].clean, CleanBefore(m, n), seen[n + 1].targets[m])
<1>1. Len(rows[m]) \in Nat /\ Len(rows[m]) <= Len(seen) /\ Len(seen) \in Nat
  BY RowsAreSeen
<1>2. ASSUME NEW k \in Nat, k <= n, CleanBefore(m, k) \in Int
      PROVE  /\ CleanBefore(m, k + 1) \in Int
             /\ Between(rows[m][k + 1].clean, CleanBefore(m, k), seen[k + 1].targets[m])
  <2>1. k < Len(rows[m]) /\ k + 1 \in 1..Len(seen) /\ k + 1 # 0
    BY <1>1, <1>2
  <2>2. seen[k + 1].targets[m] \in Int
    BY <2>1 DEF Driven
  <2>3. rows[m][k + 1].clean
          = RegulatedGenerated(Unsettled(CleanBefore(m, k)), seen[k + 1].targets[m]).value
    BY <2>1, CleanStep DEF Generated
  <2>4. QED
    BY <1>2, <2>1, <2>2, <2>3, RegulatedBetween DEF CleanBefore
<1> DEFINE T == {k \in Nat : k <= n => CleanBefore(m, k) \in Int}
<1>3. 0 \in T
  BY DEF CleanBefore
<1>4. ASSUME NEW k \in Nat, k \in T
      PROVE  k + 1 \in T
  BY <1>2, <1>4
<1> HIDE DEF T
<1>5. n \in T
  BY <1>3, <1>4, Generating!Induction
<1>6. QED
  BY <1>2, <1>5 DEF T

\* A violator that needs no memory shows the same whatever it remembers.
LEMMA NoMemory ==
    ASSUME NEW family \in Families, NEW ctx, ctx.kind \in Memoryless,
           NEW memory, NEW other, NEW value, NEW tick
    PROVE  Violation(family, ctx, memory, value, tick).value
             = Violation(family, ctx, other, value, tick).value
<1>1. \A mem : InertialViolation(ctx, mem, value).value = value
  BY DEF InertialViolation, Memoryless
<1>2. \A mem : AccumulativeViolation(ctx, mem, value).value
                 = IF ctx.kind = "bias" THEN value + ctx.size ELSE value - ctx.size
  BY DEF AccumulativeViolation, Memoryless
<1>3. \A mem : RegulatedViolation(ctx, mem, value).value
                 = IF ctx.kind = "saturation" THEN Min({value, ctx.size})
                   ELSE IF ctx.kind = "tracking_degradation" THEN value \div ctx.size
                   ELSE value + ctx.size
  BY DEF RegulatedViolation, Memoryless
<1>4. \A mem : TrackingViolation(ctx, mem, value).value
                 = IF ctx.kind = "saturation" THEN Min({value, ctx.size})
                   ELSE IF ctx.kind = "tracking_degradation" THEN value \div ctx.size
                   ELSE IF ctx.kind = "offset" THEN value + ctx.size
                   ELSE value
  BY DEF TrackingViolation, Memoryless
<1>5. \A mem : DiscreteStateViolation(ctx, mem, value, tick).value
                 = IF ctx.kind = "illegal_transition" THEN ctx.size ELSE value
  BY DEF DiscreteStateViolation, Memoryless
<1>6. CASE family = "inertial"
  BY <1>1, <1>6 DEF Violation
<1>7. CASE family = "accumulative"
  BY <1>2, <1>7 DEF Violation
<1>8. CASE family = "regulated"
  BY <1>3, <1>8 DEF Violation
<1>9. CASE family = "tracking"
  BY <1>4, <1>9 DEF Violation
<1>10. CASE family = "discrete_state"
  BY <1>5, <1>10 DEF Violation
<1>11. QED
  BY <1>6, <1>7, <1>8, <1>9, <1>10 DEF Families

\* At a rate of 1 every sample is touched.
LEMMA AlwaysApplies ==
    ASSUME NEW family \in Families, NEW ctx, ctx.period = 1,
           1..MaxSteps \subseteq DOMAIN ctx.draws, \A i \in DOMAIN ctx.draws : ctx.draws[i],
           NEW memory, Len(memory.buffer) \in Nat, Len(memory.buffer) < MaxSteps
    PROVE  Applies(family, ctx, memory)
<1> DEFINE index == Len(memory.buffer)
<1>1. index \in Nat /\ index + 1 \in 1..MaxSteps
  BY FlightAssumption
<1>2. (index + 1) % 1 = 0 /\ index % 1 = 0
  <2>1. \A k \in Nat : k % 1 = 0
    OBVIOUS
  <2>2. index + 1 \in Nat
    BY <1>1
  <2> HIDE DEF index
  <2>3. QED
    BY <1>1, <2>1, <2>2
<1>3. ctx.draws[index + 1]
  BY <1>1
<1> HIDE DEF index
<1>4. CASE family = "inertial"
  BY <1>2, <1>4 DEF Applies, index
<1>5. CASE family = "tracking"
  BY <1>2, <1>5 DEF Applies, index
<1>6. CASE family # "inertial" /\ family # "tracking"
  BY <1>3, <1>6, Zenon DEF Applies, index
<1>7. QED
  BY <1>4, <1>5, <1>6

\* A violator that is run on the samples remembers every one it has got.
LEMMA Remembers ==
    ASSUME NEW x, NEW first \in Nat, NEW n \in Nat, first <= n
    PROVE  \E memory :
              /\ Len(memory.buffer) = n - first
              /\ Streaming!Fold(x, [memory |-> FreshMemory], [i \in 1..(n - first + 1) |-> first + i - 1])
                   = Violated(x[1], x[2], memory, x[3][n + 1].clean, n)
<1> DEFINE L == n - first + 1
           s == [i \in 1..L |-> first + i - 1]
           base == [memory |-> FreshMemory]
<1>1. L \in Nat /\ L > 0 /\ s \in Seq(Nat) /\ Len(s) = L
  OBVIOUS
<1>2. \A i \in 1..L : s[i] = first + i - 1
  OBVIOUS
<1> HIDE DEF s, L, base
<1>3. PICK run : Streaming!Runs(x, base, s, run) /\ Streaming!Fold(x, base, s) = run[L]
  BY <1>1, Streaming!FoldRuns
<1>4. /\ run[0] = base
      /\ \A i \in 1..L : run[i] = Violated(x[1], x[2], run[i - 1].memory, x[3][s[i] + 1].clean, s[i])
  BY <1>1, <1>3 DEF Streaming!Runs
<1> DEFINE T == {k \in Nat : k <= L =>
                    /\ "buffer" \in DOMAIN run[k].memory
                    /\ IsList(run[k].memory.buffer) /\ Len(run[k].memory.buffer) = k}
<1>5. 0 \in T
  <2>1. run[0].memory = FreshMemory
    BY <1>4 DEF base
  <2>2. QED
    BY <2>1, EmptyIsList DEF FreshMemory
<1>6. ASSUME NEW k \in Nat, k \in T
      PROVE  k + 1 \in T
  <2>1. SUFFICES ASSUME k + 1 <= L
                 PROVE  /\ "buffer" \in DOMAIN run[k + 1].memory
                        /\ IsList(run[k + 1].memory.buffer)
                        /\ Len(run[k + 1].memory.buffer) = k + 1
    OBVIOUS
  <2> DEFINE memory == run[k].memory
             value == x[3][s[k + 1] + 1].clean
             after == [memory EXCEPT !.buffer = Append(@, value)]
  <2>2. "buffer" \in DOMAIN memory /\ IsList(memory.buffer) /\ Len(memory.buffer) = k
    BY <1>1, <1>6, <2>1
  <2>3. run[k + 1] = Violated(x[1], x[2], memory, value, s[k + 1])
    <3>1. k + 1 \in 1..L /\ (k + 1) - 1 = k
      BY <1>1, <2>1
    <3>2. QED
      BY <1>4, <3>1
  <2> HIDE DEF memory, value
  <2>4. "buffer" \in DOMAIN after /\ after.buffer = Append(memory.buffer, value)
    BY <2>2
  <2>5. IsList(after.buffer) /\ Len(after.buffer) = k + 1
    BY <2>2, <2>4, Appended
  <2> HIDE DEF after
  <2>6. \/ run[k + 1].memory = after
        \/ \E kept, left : run[k + 1].memory = [after EXCEPT !.kept = kept, !.left = left]
    <3> DEFINE tick == s[k + 1]
               violation == Violation(x[1], x[2], memory, value, tick)
               left == IF "left" \in DOMAIN violation THEN violation.left ELSE 0
               forgets == ~Applies(x[1], x[2], memory)
    <3>1. Violated(x[1], x[2], memory, value, tick)
            = IF forgets THEN [memory |-> after, value |-> value, applied |-> FALSE]
              ELSE [memory |-> [after EXCEPT !.kept = violation.kept, !.left = left],
                    value |-> violation.value, applied |-> TRUE]
      BY DEF Violated, after
    <3> HIDE DEF tick, violation, left, forgets
    <3>2. CASE forgets
      BY <2>3, <3>1, <3>2 DEF tick
    <3>3. CASE ~forgets
      <4>1. run[k + 1].memory = [after EXCEPT !.kept = violation.kept, !.left = left]
        BY <2>3, <3>1, <3>3 DEF tick
      <4>2. QED
        BY <4>1, Zenon
    <3>4. QED
      BY <3>2, <3>3
  <2>7. "buffer" \in DOMAIN run[k + 1].memory /\ run[k + 1].memory.buffer = after.buffer
    BY <2>4, <2>6
  <2>8. QED
    BY <2>5, <2>7
<1> HIDE DEF T
<1>7. Nat \subseteq T
  BY <1>5, <1>6, Streaming!Induction
<1>8. L - 1 \in Nat /\ L - 1 <= L /\ L \in 1..L /\ L - 1 = n - first /\ s[L] = n
  BY <1>1, <1>2 DEF L
<1>9. Len(run[L - 1].memory.buffer) = n - first
  BY <1>7, <1>8 DEF T
<1>10. run[L] = Violated(x[1], x[2], run[L - 1].memory, x[3][n + 1].clean, n)
  BY <1>4, <1>8
<1>11. QED
  BY <1>3, <1>9, <1>10 DEF s, L, base

-----------------------------------------------------------------------------
(* The theorems.                                                            *)

\* TypeOK: queues hold transfers that take time, and only a port that has
\* been written has a label (Coupling.apply, Aircraft.step).
THEOREM FlightTypes == Spec => []TypeOK
<1>1. ASSUME IInv PROVE TypeOK
  <2>1. Ticking
    BY <1>1, IInvIs
  <2>2. /\ step \in 0..MaxSteps /\ turn \in 0..Len(Modules)
        /\ Len(seen) = step + (IF turn = 0 THEN 0 ELSE 1)
    BY <2>1 DEF Ticking
  <2>3. DOMAIN ports = Ports
    BY <1>1, IInvIs DEF Transferring, Transfers
  <2>4. ASSUME NEW t \in Queued
        PROVE  t.value \in {None, t.origin} /\ t.at > t.origin
    <3>1. PICK k \in DOMAIN queues : t \in ToSet(queues[k])
      BY DEF Queued
    <3>2. QueueOK(History, HadTurn, Now, k, queues[k])
      BY <1>1, QueuesAre
    <3>3. IsList(queues[k]) /\ \A i \in 1..Len(queues[k]) : InQueue(History, HadTurn, Now, k, queues[k][i])
      BY <3>2 DEF QueueOK
    <3>4. DOMAIN queues[k] = 1..Len(queues[k])
      BY <3>3 DEF IsList
    <3>5. InQueue(History, HadTurn, Now, k, t)
      BY <3>1, <3>3, <3>4 DEF ToSet
    <3>6. UpTo(History, step) /\ step \in Nat /\ Now \in Int
      BY <1>1, StateIs
    <3>7. /\ t.origin \in Int /\ t.at \in Int /\ k.lag \in Int
          /\ t.at = t.origin + k.lag /\ k.lag > 0
          /\ t.value \in {None, t.origin}
      BY <3>5, <3>6, QueuedIs
    <3>8. QED
      BY <3>7
  <2>5. ASSUME NEW p \in Ports, ports[p].metadata # None
        PROVE  ports[p].origin # None
    <3>1. PortOK(History, Now, p, ports[p]) /\ UpTo(History, step) /\ step \in Nat
      BY <1>1, StateIs
    <3>2. \A c \in CouplingSet : \A n, t : Sent(History, c, n, t) => t.origin # None
      BY <3>1, SentIs
    <3>3. QED
      BY <2>5, <3>1, <3>2 DEF PortOK
  <2>6. QED
    BY <2>2, <2>3, <2>4, <2>5 DEF TypeOK
<1>2. QED
  BY <1>1, Invariance, PTL

\* QueuesAreInOrder: a delayed queue is in the order of its deadlines, so
\* that the last due transfer is the newest (DelayedTransferQueue.drain_due).
THEOREM QueuesStayInOrder == Spec => []QueuesAreInOrder
<1>1. ASSUME IInv PROVE QueuesAreInOrder
  <2>1. ASSUME NEW k \in DOMAIN queues, NEW i \in 1..(Len(queues[k]) - 1)
        PROVE  queues[k][i].at <= queues[k][i + 1].at
    <3>1. QueueOK(History, HadTurn, Now, k, queues[k])
      BY <1>1, QueuesAre
    <3>2. Ordered(queues[k]) /\ Len(queues[k]) \in Nat
      BY <3>1, Appended DEF QueueOK
    <3>3. i \in 1..Len(queues[k]) /\ i + 1 \in 1..Len(queues[k]) /\ i <= i + 1
      BY <3>2
    <3>4. QED
      BY <3>2, <3>3 DEF Ordered
  <2>2. QED
    BY <2>1 DEF QueuesAreInOrder
<1>2. QED
  BY <1>1, Invariance, PTL

\* ArrivalsWereAdmitted: what is on a port was let pass by the gates and the
\* context of the tick it comes from and has waited for the lag of that tick
\* (Coupling.apply).
THEOREM ArrivalsHadPassed == Spec => []ArrivalsWereAdmitted
<1>1. ASSUME IInv PROVE ArrivalsWereAdmitted
  <2>1. ASSUME NEW p \in Ports, ports[p].origin # None
        PROVE  \E c \in CouplingSet :
                LET n == TickOf(ports[p].origin)
                IN  /\ c.port = p
                    /\ Admitted(c, n)
                    /\ ports[p].at = ports[p].origin + EffectiveLag(c, Context(c.id, n), ports[p].origin)
                    /\ ports[p].at <= Now
    <3>1. PICK c \in WritersOf(p) : \E n \in Nat :
                /\ Admitted(c, n)
                /\ ports[p].origin = Time(n) /\ TickOf(ports[p].origin) = n
                /\ ports[p].at = Time(n) + LagIn(History, c, n) /\ ports[p].at <= Now
      BY <1>1, <2>1, PortsAre
    <3>2. PICK n \in Nat :
                /\ Admitted(c, n)
                /\ ports[p].origin = Time(n) /\ TickOf(ports[p].origin) = n
                /\ ports[p].at = Time(n) + LagIn(History, c, n) /\ ports[p].at <= Now
      BY <3>1
    <3>3. LagIn(History, c, n) = EffectiveLag(c, Context(c.id, n), Time(n))
      BY DEF LagIn, ContextIn, Context, History
    <3>4. c \in CouplingSet /\ c.port = p
      BY DEF WritersOf
    <3>5. QED
      BY <3>2, <3>3, <3>4
  <2>2. QED
    BY <2>1 DEF ArrivalsWereAdmitted
<1>2. QED
  BY <1>1, Invariance, PTL

\* LabelsAreTrue: the label on a port is that of a transfer by a coupling of
\* that name under that window, written in this tick
\* (_build_transfer_metadata, _drain_due_transfers, Aircraft.step).
THEOREM LabelsStayTrue == Spec => []LabelsAreTrue
<1>1. ASSUME IInv PROVE LabelsAreTrue
  <2>1. ASSUME NEW p \in Ports, ports[p].metadata # None
        PROVE  \E c \in WritersOf(p) :
                /\ c.id = ports[p].metadata.coupling
                /\ Admitted(c, TickOf(ports[p].origin))
                /\ ports[p].metadata.window = OwnWindow(Context(c.id, TickOf(ports[p].origin)))
                /\ ports[p].at > Now - Dt \/ ~KeepsKeys(c)
    <3>1. ports[p].origin # None
      <4>1. PortOK(History, Now, p, ports[p]) /\ UpTo(History, step) /\ step \in Nat
        BY <1>1, StateIs
      <4>2. \A c \in CouplingSet : \A n, t : Sent(History, c, n, t) => t.origin # None
        BY <4>1, SentIs
      <4>3. QED
        BY <2>1, <4>1, <4>2 DEF PortOK
    <3>2. PICK c \in WritersOf(p) : \E n \in Nat :
                /\ Admitted(c, n)
                /\ TickOf(ports[p].origin) = n
                /\ ports[p].metadata # None =>
                      /\ ports[p].metadata = Metadata(c, Context(c.id, n))
                      /\ KeepsKeys(c) => ports[p].at > Now - Dt
      BY <1>1, <3>1, PortsAre
    <3>3. PICK n \in Nat :
                /\ Admitted(c, n)
                /\ TickOf(ports[p].origin) = n
                /\ ports[p].metadata # None =>
                      /\ ports[p].metadata = Metadata(c, Context(c.id, n))
                      /\ KeepsKeys(c) => ports[p].at > Now - Dt
      BY <3>2
    <3>4. Metadata(c, Context(c.id, n)).coupling = c.id
          /\ Metadata(c, Context(c.id, n)).window = OwnWindow(Context(c.id, n))
      BY DEF Metadata, OwnWindow
    <3>5. QED
      BY <2>1, <3>3, <3>4
  <2>2. QED
    BY <2>1 DEF LabelsAreTrue
<1>2. QED
  BY <1>1, Invariance, PTL

\* What is due has arrived: under a uniform port whose couplings have had
\* their turn, a sample whose lag is over is no newer than the port.
LEMMA DueHasArrived ==
    ASSUME IInv, NEW p \in Ports, Uniform(History, p),
           \A c \in WritersOf(p) : turn = 0 \/ c.source \in {Modules[i] : i \in 1..(turn - 1)},
           NEW c \in WritersOf(p), NEW n \in 0..(Len(seen) - 1), Admitted(c, n),
           Time(n) + c.lag <= Now
    PROVE  ports[p].origin # None /\ Time(n) <= ports[p].origin
<1> DEFINE h == History
           t == Transfer(c, Context(c.id, n), Time(n), IsActive(rows[c.source][n + 1]))
           k == NominalKey(c)
           q == QueueOf(Transfers, k)
<1>1. /\ UpTo(h, step) /\ step \in Nat /\ Now \in Int
      /\ QueueOK(h, HadTurn, Now, k, q)
  BY StateIs
<1>2. Ticking
  BY IInvIs
<1>3. c \in CouplingSet /\ c.port = p /\ c.lag \in Int /\ n \in Nat
  BY FlightAssumption DEF WritersOf
<1>4. \A j \in DOMAIN Couplings : Couplings[j].port = p => j \in HadTurn
  <2>1. SUFFICES ASSUME NEW j \in DOMAIN Couplings, Couplings[j].port = p
                 PROVE  j \in HadTurn
    OBVIOUS
  <2>2. Couplings[j] \in WritersOf(p)
    BY <2>1, CouplingIs
  <2>3. turn = 0 \/ Couplings[j].source \in {Modules[i] : i \in 1..(turn - 1)}
    BY <2>2
  <2>4. QED
    BY <2>3 DEF HadTurn
<1>5. n < Len(rows[c.source])
  <2>1. PICK i \in 1..Len(Modules) : c.source = Modules[i]
    BY <1>3, ModulesAre
  <2>2. turn # 0 => i < turn
    <3>1. SUFFICES ASSUME turn # 0 PROVE i < turn
      OBVIOUS
    <3>2. PICK a \in 1..(turn - 1) : c.source = Modules[a]
      BY <3>1
    <3>3. turn \in 0..Len(Modules) /\ Len(Modules) \in Nat
      BY <1>2, ModulesAre DEF Ticking
    <3>4. a \in 1..Len(Modules) /\ a < turn
      BY <3>3
    <3>5. a = i
      BY <2>1, <3>2, <3>4, ModulesAre
    <3>6. QED
      BY <3>4, <3>5
  <2>3. /\ Len(rows[c.source]) = step + (IF i < turn THEN 1 ELSE 0)
        /\ Len(seen) = step + (IF turn = 0 THEN 0 ELSE 1)
        /\ turn \in Nat
    <3>1. turn \in 0..Len(Modules) /\ Len(Modules) \in Nat
      BY <1>2, ModulesAre DEF Ticking
    <3>2. turn \in Nat
      BY <3>1
    <3>3. QED
      BY <1>2, <2>1, <3>2 DEF Ticking
  <2>4. Len(rows[c.source]) = Len(seen)
    BY <1>1, <2>2, <2>3
  <2>5. Len(seen) \in Nat
    BY <1>1, <2>3
  <2>6. QED
    BY <2>4, <2>5
<1>6. Sent(h, c, n, t)
  BY <1>3, <1>5, StateIs
<1>7. PICK j \in DOMAIN Couplings : Couplings[j] = c
  BY <1>3 DEF CouplingSet, ToSet
<1>8. Keeps(h, c) /\ \A e \in WritersOf(p) : Keeps(h, e)
  BY DEF Uniform
<1> HIDE DEF h, t, q, k
<1>9. t.at <= Now /\ t.origin = Time(n)
  <2>1. Time(n) \in Int /\ Time(n) <= Now
    <3>1. n \in Int /\ Len(seen) - 1 \in Int /\ n <= Len(seen) - 1
      BY <1>2, TickingUpTo
    <3>2. QED
      BY <3>1, Times DEF Now
  <2>2. IsProgram(h.windows)
    BY <1>1 DEF UpTo
  <2>3. LagIn(h, c, n) = AtLeastZero(c.lag)
    BY <1>3, <1>8, <2>2, KeyIsKept
  <2>4. t.at = Time(n) + LagIn(h, c, n) /\ t.origin = Time(n)
    BY <1>1, <1>3, <1>6, SentIs
  <2>5. QED
    BY <1>1, <1>3, <2>1, <2>3, <2>4 DEF AtLeastZero
<1>10. Reached(ports[p], q, t)
  <2>1. NothingLost(h, HadTurn, Now, Transfers) /\ Transfers.ports = ports
    BY IInvIs DEF Transferring, Transfers, h
  <2>2. j \in HadTurn /\ Couplings[j].port = p
    BY <1>3, <1>4, <1>7
  <2>3. Uniform(h, p)
    BY DEF h
  <2>4. \A o \in Nat : \A u : Sent(h, c, o, u) => Reached(ports[p], q, u)
    BY <1>7, <2>1, <2>2, <2>3 DEF NothingLost, q, k
  <2>5. QED
    BY <1>3, <1>6, <2>4
<1>11. ASSUME NEW i \in 1..Len(q), q[i] = t
       PROVE  FALSE
  <2>1. InQueue(h, HadTurn, Now, k, t)
    BY <1>1, <1>11 DEF QueueOK
  <2>2. PICK a \in DOMAIN Couplings : \E o \in Nat :
            /\ Sent(h, Couplings[a], o, t)
            /\ k = KeyIn(h, Couplings[a], o)
            /\ Keeps(h, Couplings[a]) => t.at > Now - (IF a \in HadTurn THEN 0 ELSE Dt)
    BY <2>1 DEF InQueue
  <2>3. PICK o \in Nat :
            /\ Sent(h, Couplings[a], o, t)
            /\ k = KeyIn(h, Couplings[a], o)
            /\ Keeps(h, Couplings[a]) => t.at > Now - (IF a \in HadTurn THEN 0 ELSE Dt)
    BY <2>2
  <2>4. Couplings[a] \in CouplingSet
    BY CouplingIs
  <2>5. Couplings[a].port = p
    <3>1. k.port = Couplings[a].port
      BY <1>1, <2>3, <2>4, LagIs DEF UpTo
    <3>2. k.port = c.port
      BY <1>1, <1>3, LagIs DEF UpTo, k
    <3>3. QED
      BY <1>3, <3>1, <3>2
  <2>6. a \in HadTurn /\ Keeps(h, Couplings[a])
    BY <1>4, <1>8, <2>5, CouplingIs
  <2>7. t.at > Now - 0
    BY <2>3, <2>6
  <2>8. t.at \in Int
    BY <1>1, <2>1, QueuedIs
  <2>9. QED
    BY <1>1, <1>9, <2>7, <2>8
<1>12. QED
  BY <1>9, <1>10, <1>11 DEF Reached

\* DelayIsExact: when no window changes the keys of the couplings into a port
\* and these have had their turn, the port holds the newest sample that one of
\* them admitted and whose lag is over, whatever their gates did in between
\* (Coupling.apply drains before it checks the gates).
THEOREM DelayStaysExact == Spec => []DelayIsExact
<1>1. ASSUME IInv PROVE DelayIsExact
  <2> DEFINE sent(p) == {n \in 0..(Len(seen) - 1) : \E c \in WritersOf(p) :
                            Admitted(c, n) /\ Time(n) + c.lag <= Now}
  <2>1. ASSUME NEW p \in Ports,
               \A c \in WritersOf(p) : KeepsKeys(c),
               \A c, d \in WritersOf(p) : Key(c, Nominal, 0) = Key(d, Nominal, 0),
               \A c \in WritersOf(p) :
                    turn = 0 \/ c.source \in {Modules[i] : i \in 1..(turn - 1)},
               sent(p) # {}
        PROVE  ports[p].origin = Time(Max(sent(p)))
    <3> DEFINE port == ports[p]
               last == Max(sent(p))
    <3>1. \A c \in WritersOf(p) : c \in CouplingSet /\ c.lag \in Int
      BY FlightAssumption DEF WritersOf
    <3>2. Uniform(History, p)
      <4>1. \A c \in WritersOf(p) : Keeps(History, c)
        BY <1>1, <2>1, <3>1, StateIs
      <4>2. QED
        BY <2>1, <4>1 DEF Uniform, NominalKey
    <3>3. Len(seen) \in Nat
      BY <1>1, TickingUpTo, IInvIs
    <3>4. last \in sent(p) /\ \A n \in sent(p) : n <= last
      <4>1. sent(p) \in SUBSET (0..Len(seen))
        BY <3>3
      <4> HIDE DEF sent
      <4>2. QED
        BY <2>1, <3>3, <4>1, MaxIs
    <3> HIDE DEF last
    <3>5. last \in 0..(Len(seen) - 1) /\ \E c \in WritersOf(p) :
                Admitted(c, last) /\ Time(last) + c.lag <= Now
      BY <3>4
    <3>6. port.origin # None /\ Time(last) <= port.origin
      BY <1>1, <2>1, <3>2, <3>5, DueHasArrived
    <3>7. PICK c \in WritersOf(p) : \E n \in Nat :
                /\ Admitted(c, n) /\ n \in 0..(Len(seen) - 1)
                /\ port.origin = Time(n)
                /\ port.at = Time(n) + LagIn(History, c, n) /\ port.at <= Now
      BY <1>1, <3>6, PortsAre
    <3>8. PICK n \in Nat :
                /\ Admitted(c, n) /\ n \in 0..(Len(seen) - 1)
                /\ port.origin = Time(n)
                /\ port.at = Time(n) + LagIn(History, c, n) /\ port.at <= Now
      BY <3>7
    <3>9. Time(n) + c.lag <= Now
      <4>1. IsProgram(History.windows) /\ Now \in Int
        BY <1>1, StateIs DEF UpTo
      <4>2. LagIn(History, c, n) = AtLeastZero(c.lag)
        BY <3>1, <3>2, <4>1, KeyIsKept DEF Uniform
      <4>3. n \in Int
        OBVIOUS
      <4>4. Time(n) \in Int
        BY <4>3, Times
      <4>5. QED
        BY <3>1, <3>8, <4>1, <4>2, <4>4 DEF AtLeastZero
    <3>10. n <= last
      <4>1. n \in sent(p)
        BY <3>8, <3>9
      <4>2. QED
        BY <3>4, <4>1
    <3>11. last <= n
      <4>1. SUFFICES ASSUME n < last PROVE FALSE
        BY <3>5
      <4>2. n \in Int /\ n + 1 \in Int /\ last \in Int /\ n + 1 <= last
        BY <3>5, <4>1
      <4>3. /\ Time(n) \in Int /\ Time(n + 1) = Time(n) + Dt /\ Dt \in Int /\ Dt > 0
            /\ Time(n + 1) <= Time(last) /\ Time(last) \in Int
        BY <4>2, Times
      <4>4. QED
        BY <3>6, <3>8, <4>3
    <3>12. n = last
      BY <3>5, <3>10, <3>11
    <3>13. QED
      BY <3>8, <3>12 DEF last
  <2>2. QED
    BY <2>1 DEF DelayIsExact
<1>2. QED
  BY <1>1, Invariance, PTL

\* RowsAreLabelled: the window on a telemetry row is the one that touched the
\* sample, and a row that a coupling has touched at once has a label
\* (iter_samples, _active_coupling_metadata_for_parameter).
THEOREM RowsStayLabelled == Spec => []RowsAreLabelled
<1>1. ASSUME IInv, RowInv PROVE RowsAreLabelled
  <2> DEFINE h == History
             row(m, n) == rows[m][n + 1]
             own(m, n) == OwnSample(m, n).applied
             into(m) == {c \in CouplingSet : c.target = m /\ Before(c, m)}
  <2>1. ASSUME NEW m \in ModuleSet, NEW n \in 0..(Len(rows[m]) - 1)
        PROVE  /\ own(m, n) => row(m, n).applied /\ row(m, n).window = Context(m, n).window
               /\ row(m, n).applied /\ ~own(m, n) =>
                    \E c \in into(m) : \E o \in 0..n :
                        /\ c.id = row(m, n).coupling
                        /\ row(m, n).window # None /\ SentUnder(c, o, row(m, n).window)
                        /\ KeepsKeys(c) =>
                              Time(o) + AtLeastZero(c.lag) \in (Time(n) - Dt + 1)..Time(n)
               /\ (\E c \in into(m) : /\ WritersOf(c.port) = {c} /\ c.lag = 0 /\ KeepsKeys(c)
                                      /\ Admitted(c, n) /\ Context(c.id, n) # Nominal)
                  => row(m, n).applied
    <3>1. Ticking /\ UpTo(h, step) /\ step \in Nat
      BY <1>1, StateIs DEF IInv
    <3>2. n \in Nat /\ n < Len(rows[m])
      <4>1. PICK i \in 1..Len(Modules) : m = Modules[i]
        BY ModulesAre
      <4>2. Len(rows[m]) \in Nat
        BY <3>1, <4>1, Appended DEF Ticking
      <4>3. QED
        BY <4>2
    <3>3. RowIs(h, program.family, m, n)
      BY <1>1, <3>2 DEF RowInv
    <3>4. /\ h.windows = program.windows /\ h.rows = rows /\ h.seen = seen
          /\ OwnSample(m, n) = SampleIn(h, program.family, m, n)
      BY DEF History, OwnSample, SampleIn, Context
    <3>5. \A c, o : ContextIn(h, c, o) = Context(c.id, o)
      BY <3>4 DEF ContextIn, Context
    <3>6. own(m, n) => row(m, n).applied /\ row(m, n).window = Context(m, n).window
      BY <3>3, <3>4 DEF RowIs, Context
    <3> HIDE DEF h
    <3>7. ASSUME row(m, n).applied, ~own(m, n)
          PROVE  \E c \in into(m) : \E o \in 0..n :
                    /\ c.id = row(m, n).coupling
                    /\ row(m, n).window # None /\ SentUnder(c, o, row(m, n).window)
                    /\ KeepsKeys(c) =>
                          Time(o) + AtLeastZero(c.lag) \in (Time(n) - Dt + 1)..Time(n)
      <4>1. PICK c \in CouplingSet, o \in 0..n : DueTo(h, m, n, c, o)
        BY <3>3, <3>4, <3>7 DEF RowIs
      <4>2. /\ c \in into(m)
            /\ c.id = row(m, n).coupling
            /\ row(m, n).window # None /\ row(m, n).window = OwnWindow(Context(c.id, o))
        BY <3>4, <3>5, <4>1 DEF DueTo
      <4>3. PICK t : Sent(h, c, o, t) /\ (Keeps(h, c) => t.at <= Time(n) /\ t.at > Time(n) - Dt)
        BY <4>1 DEF DueTo
      <4>4. Admitted(c, o) /\ o < Len(rows[c.source]) /\ (Keeps(h, c) <=> KeepsKeys(c))
        BY <1>1, <4>3, StateIs DEF h
      <4>5. SentUnder(c, o, row(m, n).window)
        BY <4>2, <4>4 DEF SentUnder
      <4>6. KeepsKeys(c) => Time(o) + AtLeastZero(c.lag) \in (Time(n) - Dt + 1)..Time(n)
        <5>1. SUFFICES ASSUME KeepsKeys(c)
                       PROVE  Time(o) + AtLeastZero(c.lag) \in (Time(n) - Dt + 1)..Time(n)
          OBVIOUS
        <5>2. IsProgram(h.windows)
          BY <3>1 DEF UpTo
        <5>3. LagIn(h, c, o) = AtLeastZero(c.lag)
          BY <4>4, <5>1, <5>2, KeyIsKept
        <5>4. t.at = Time(o) + AtLeastZero(c.lag) /\ t.at \in Int
          BY <3>1, <4>3, <5>3, SentIs
        <5>5. Time(n) \in Int /\ Dt \in Int
          BY <3>2, Times
        <5>6. t.at <= Time(n) /\ t.at > Time(n) - Dt
          BY <4>3, <4>4, <5>1
        <5>7. t.at \in (Time(n) - Dt + 1)..Time(n)
          BY <5>4, <5>5, <5>6
        <5>8. QED
          BY <5>4, <5>7
      <4>7. QED
        BY <4>2, <4>5, <4>6
    <3>8. ASSUME NEW c \in into(m), WritersOf(c.port) = {c}, c.lag = 0, KeepsKeys(c),
                 Admitted(c, n), Context(c.id, n) # Nominal
          PROVE  row(m, n).applied
      <4>1. c \in CouplingSet /\ c.target = m /\ Before(c, m)
        OBVIOUS
      <4>2. n < Len(rows[c.source])
        BY <3>1, <3>2, <4>1, BeforeHasRow
      <4>3. \E t : Sent(h, c, n, t)
        BY <1>1, <3>2, <3>8, <4>1, <4>2, StateIs DEF h
      <4>4. Keeps(h, c)
        BY <1>1, <3>8, <4>1, StateIs DEF h
      <4>5. AtOnce(h, c, n)
        BY <3>8, <4>3, <4>4 DEF AtOnce
      <4>6. QED
        BY <3>3, <3>4, <3>5, <3>8, <4>1, <4>5 DEF RowIs
    <3> HIDE DEF row, own, into
    <3>9. QED
      BY <3>6, <3>7, <3>8
  <2>2. QED
    BY <2>1 DEF RowsAreLabelled
<1>2. QED
  BY <1>1, Invariance, RowInvariance, PTL

\* RowsFollowTheStream: called anew in every tick, a generator makes the same of
\* a flight as in one run over it until that run trims, one of a regulated
\* parameter never goes past its target, and a violator without a memory makes
\* the same of a window as in one run (iter_tick_samples,
\* resolve_initial_state, violate_stream).
THEOREM RowsStayOnStream == Spec => []RowsFollowTheStream
<1>1. ASSUME IInv, RowInv, Driven PROVE RowsFollowTheStream
  <2> DEFINE row(m, n) == rows[m][n + 1]
  <2>1. ASSUME NEW m \in ModuleSet, NEW n \in 0..(Len(rows[m]) - 1)
        PROVE  /\ ~Trims(m, n) => row(m, n).clean = CleanRun(m, n)[n + 1].value
               /\ program.family[m] = "regulated" =>
                    Between(row(m, n).clean, IF n = 0 THEN 0 ELSE rows[m][n].clean,
                            seen[n + 1].targets[m])
               /\ Context(m, n) = Nominal => row(m, n).value = row(m, n).clean
               /\ /\ Context(m, n) # Nominal
                  /\ Context(m, n).kind \in Memoryless
                  /\ Context(m, n).period = 1
                  /\ \A i \in DOMAIN Context(m, n).draws : Context(m, n).draws[i]
                  => row(m, n).value = ObservedRun(m, n).value
    <3> DEFINE ctx == Context(m, n)
               family == program.family[m]
    <3>1. Ticking
      BY <1>1 DEF IInv
    <3>2. n \in Nat /\ n < Len(rows[m]) /\ n < MaxSteps
      <4>1. PICK i \in 1..Len(Modules) : m = Modules[i]
        BY ModulesAre
      <4>2. /\ Len(rows[m]) = step + (IF i < turn THEN 1 ELSE 0)
            /\ turn \in 0..Len(Modules) /\ Len(Modules) \in Nat
            /\ step \in 0..MaxSteps /\ MaxSteps \in Nat /\ (turn # 0 => step < MaxSteps)
        BY <3>1, <4>1, ModulesAre DEF Ticking
      <4>3. QED
        BY <4>1, <4>2
    <3>3. ~Trims(m, n) => row(m, n).clean = CleanRun(m, n)[n + 1].value
      BY <1>1, <3>1, <3>2, RowsAreClean
    <3>7. program.family[m] = "regulated" =>
                  Between(row(m, n).clean, IF n = 0 THEN 0 ELSE rows[m][n].clean,
                          seen[n + 1].targets[m])
      BY <1>1, <3>1, <3>2, RegulatedRows DEF CleanBefore
    <3>4. row(m, n).value = IF ctx = Nominal THEN row(m, n).clean
                            ELSE Violated(family, ctx, FreshMemory, row(m, n).clean, n).value
      <4>1. RowIs(History, program.family, m, n)
        BY <1>1, <3>2 DEF RowInv
      <4>2. /\ row(m, n).clean = SampleIn(History, program.family, m, n).clean
            /\ row(m, n).value = SampleIn(History, program.family, m, n).value
        BY <4>1 DEF RowIs, History
      <4>3. \A v, target : TickSample(family, ctx, v, target, n).value
                = IF ctx = Nominal THEN TickSample(family, ctx, v, target, n).clean
                  ELSE Violated(family, ctx, FreshMemory, TickSample(family, ctx, v, target, n).clean, n).value
        BY DEF TickSample
      <4>4. ContextAt(History.windows, m, n) = ctx
        BY DEF History, Context
      <4>5. QED
        BY <4>2, <4>3, <4>4 DEF SampleIn
    <3> HIDE DEF row, ctx, family
    <3>5. ASSUME ctx # Nominal, ctx.kind \in Memoryless, ctx.period = 1,
                 \A i \in DOMAIN ctx.draws : ctx.draws[i]
          PROVE  row(m, n).value = ObservedRun(m, n).value
      <4> DEFINE first == FirstUnder(m, n)
                 x == <<family, ctx, rows[m]>>
      <4>1. first \in 0..n
        <5> DEFINE under == {k \in 0..n : \A j \in k..n : Context(m, j) = Context(m, n)}
        <5>1. n \in under /\ under \in SUBSET Nat
          BY <3>2
        <5>2. first = Min(under)
          BY DEF FirstUnder
        <5> HIDE DEF under, first
        <5>3. first \in under
          BY <5>1, <5>2, MinIs
        <5>4. QED
          BY <5>3 DEF under
      <4>2. ObservedRun(m, n)
              = Streaming!Fold(x, [memory |-> FreshMemory], [i \in 1..(n - first + 1) |-> first + i - 1])
        BY ObservedRunIs DEF ctx, family
      <4>3. x[1] = family /\ x[2] = ctx /\ x[3][n + 1].clean = row(m, n).clean
        BY DEF row
      <4> HIDE DEF first, x
      <4>4. PICK memory :
                /\ Len(memory.buffer) = n - first
                /\ ObservedRun(m, n) = Violated(x[1], x[2], memory, x[3][n + 1].clean, n)
        <5>1. first \in Nat /\ first <= n
          BY <4>1
        <5>2. PICK memory :
                /\ Len(memory.buffer) = n - first
                /\ Streaming!Fold(x, [memory |-> FreshMemory], [i \in 1..(n - first + 1) |-> first + i - 1])
                     = Violated(x[1], x[2], memory, x[3][n + 1].clean, n)
          BY <3>2, <5>1, Remembers
        <5>3. QED
          BY <4>2, <5>2
      <4>5. ObservedRun(m, n) = Violated(family, ctx, memory, row(m, n).clean, n)
        BY <4>3, <4>4
      <4>6. family \in Families /\ 1..MaxSteps \subseteq DOMAIN ctx.draws
        <5>1. program \in Programs /\ IsProgram(program.windows)
          BY <3>1, TickingUpTo DEF Ticking
        <5>2. PICK i \in DOMAIN program.windows :
                  /\ program.windows[i].subject = m
                  /\ ctx = program.windows[i].context
          BY <3>5, <5>1, ContextIs DEF ctx, Context
        <5>3. program.windows[i] \in ToSet(program.windows)
          BY DEF ToSet
        <5>4. QED
          BY <5>1, <5>2, <5>3, FlightAssumption DEF family
      <4>7. Applies(family, ctx, memory)
        <5>1. Len(memory.buffer) \in Nat /\ Len(memory.buffer) < MaxSteps
          BY <3>2, <4>1, <4>4, ModulesAre
        <5>2. QED
          BY <3>5, <4>6, <5>1, AlwaysApplies
      <4>8. Applies(family, ctx, FreshMemory)
        <5>1. Len(FreshMemory.buffer) = 0
          BY EmptyIsList DEF FreshMemory
        <5>2. 0 < MaxSteps
          BY <3>2, ModulesAre
        <5>3. QED
          BY <3>5, <4>6, <5>1, <5>2, AlwaysApplies
      <4>9. \A mem, v : Applies(family, ctx, mem) =>
                Violated(family, ctx, mem, v, n).value = Violation(family, ctx, mem, v, n).value
        BY DEF Violated
      <4>10. QED
        BY <3>4, <3>5, <4>5, <4>6, <4>7, <4>8, <4>9, NoMemory
    <3>6. ctx = Nominal => row(m, n).value = row(m, n).clean
      BY <3>4
    <3>8. QED
      BY <3>3, <3>5, <3>6, <3>7 DEF ctx
  <2>2. QED
    BY <2>1 DEF RowsFollowTheStream
<1>2. QED
  BY <1>1, Invariance, RowInvariance, TargetInvariance, PTL
=============================================================================
