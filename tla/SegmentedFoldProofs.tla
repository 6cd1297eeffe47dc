------------------------- MODULE SegmentedFoldProofs -------------------------
(***************************************************************************)
(* Proofs about the segments of a stream and about the carry loop, for      *)
(* every policy, every set of keys and every set of streams.                *)
(***************************************************************************)
EXTENDS SegmentedFold, WellFoundedInduction, TLAPS

-----------------------------------------------------------------------------
(* Segment ids never decrease along a stream.                               *)

\* Integer division by a positive divisor is monotone: the shape shared by
\* the row id and the span id of plan.py.
LEMMA DivMonotone ==
    ASSUME NEW a \in Nat, NEW b \in Nat, NEW d \in Nat \ {0}, a <= b
    PROVE  /\ a \div d \in Nat
           /\ b \div d \in Nat
           /\ a \div d <= b \div d
<1>1. /\ a \div d \in Nat
      /\ b \div d \in Nat
  BY SMT
<1>2. a \div d <= b \div d
  BY SMT
<1>3. QED
  BY <1>1, <1>2

\* The normalised policy can always divide by its row bound
\* (normalized_max_rows_per_segment, normalized_max_span_ms).
LEMMA NormalizedPolicy ==
    /\ NormalizedMaxRows \in Nat \ {0}
    /\ NormalizedMaxSpan \in Nat
  BY PolicyAssumption DEF NormalizedMaxRows, NormalizedMaxSpan

\* Row ids are naturals that never decrease with the row number.
LEMMA RowSegmentIdMonotone ==
    ASSUME NEW m \in Nat \ {0}, NEW n \in Nat \ {0}, m <= n
    PROVE  /\ RowSegmentId(m) \in Nat
           /\ RowSegmentId(n) \in Nat
           /\ RowSegmentId(m) <= RowSegmentId(n)
<1>1. m - 1 \in Nat /\ n - 1 \in Nat /\ m - 1 <= n - 1
  OBVIOUS
<1>2. QED
  BY <1>1, DivMonotone, NormalizedPolicy DEF RowSegmentId

\* Span ids are naturals that never decrease along a stream, when the span
\* policy is on.
LEMMA SpanSegmentIdMonotone ==
    ASSUME NEW ts, IsStream(ts), NormalizedMaxSpan > 0,
           NEW m \in 1..Len(ts), NEW n \in 1..Len(ts), m <= n
    PROVE  /\ SpanSegmentId(ts, m) \in Nat
           /\ SpanSegmentId(ts, n) \in Nat
           /\ SpanSegmentId(ts, m) <= SpanSegmentId(ts, n)
<1>1. 1 \in 1..Len(ts) /\ ts[1] \in Nat /\ ts[m] \in Nat /\ ts[n] \in Nat
  BY DEF IsStream
<1>2. ts[1] <= ts[m] /\ ts[m] <= ts[n]
  BY <1>1 DEF IsStream
<1>3. ts[m] - ts[1] \in Nat /\ ts[n] - ts[1] \in Nat /\ ts[m] - ts[1] <= ts[n] - ts[1]
  BY <1>1, <1>2
<1>4. NormalizedMaxSpan \in Nat \ {0}
  BY NormalizedPolicy
<1>5. QED
  BY <1>3, <1>4, DivMonotone DEF SpanSegmentId

\* assign_segments gives every row an id, and ids never decrease along a
\* stream: processing ids in ascending order processes rows in order.
THEOREM SegmentIdMonotone ==
    ASSUME NEW ts, IsStream(ts),
           NEW m \in 1..Len(ts), NEW n \in 1..Len(ts), m <= n
    PROVE  /\ SegmentId(ts, m) \in Nat
           /\ SegmentId(ts, n) \in Nat
           /\ SegmentId(ts, m) <= SegmentId(ts, n)
<1>1. m \in Nat \ {0} /\ n \in Nat \ {0}
  BY DEF IsStream
<1>2. /\ RowSegmentId(m) \in Nat
      /\ RowSegmentId(n) \in Nat
      /\ RowSegmentId(m) <= RowSegmentId(n)
  BY <1>1, RowSegmentIdMonotone
<1>3. CASE NormalizedMaxSpan > 0
  BY <1>2, <1>3, SpanSegmentIdMonotone DEF SegmentId
<1>4. CASE ~(NormalizedMaxSpan > 0)
  BY <1>2, <1>4 DEF SegmentId
<1>5. QED
  BY <1>3, <1>4

-----------------------------------------------------------------------------
(* Type correctness.                                                        *)

\* The rows of a segment are rows of the stream (assign_segments).
LEMMA RowsInType ==
    ASSUME NEW ts, NEW s
    PROVE  RowsIn(ts, s) \subseteq 1..Len(ts)
  BY DEF RowsIn

\* The loop starts well typed.
LEMMA InitTypeOK == Init => TypeOK
  BY DEF Init, TypeOK, Rows

\* One loop iteration keeps the state well typed.
LEMMA StepTypeOK ==
    ASSUME TypeOK, NEW s \in pending, ProcessSegment(s)
    PROVE  TypeOK'
<1>1. stream' = stream /\ pending' \subseteq pending
  BY DEF ProcessSegment
<1>2. /\ stream' \in [Keys -> Streams]
      /\ pending' \subseteq CollectedIds(stream)'
  BY <1>1 DEF TypeOK
<1>3. ASSUME NEW k \in Keys
      PROVE  /\ carry'[k] \subseteq Rows(k)'
             /\ DOMAIN seen'[k] \subseteq Rows(k)'
             /\ \A n \in DOMAIN seen'[k] : seen'[k][n] \subseteq Rows(k)'
  <2>1. RowsIn(stream[k], s) \subseteq Rows(k)
    BY RowsInType DEF Rows
  <2>2. Rows(k)' = Rows(k)
    BY <1>1 DEF Rows
  <2>3. carry'[k] = CarryAfter(k, s) /\ seen'[k] = SeenAfter(k, s)
    BY DEF ProcessSegment
  <2>4. carry[k] \subseteq Rows(k) /\ DOMAIN seen[k] \subseteq Rows(k)
        /\ \A n \in DOMAIN seen[k] : seen[k][n] \subseteq Rows(k)
    BY DEF TypeOK
  <2>5. carry'[k] \subseteq Rows(k)
    BY <2>1, <2>3, <2>4 DEF CarryAfter
  <2>6. DOMAIN seen'[k] = DOMAIN seen[k] \cup RowsIn(stream[k], s)
    BY <2>3 DEF SeenAfter
  <2>7. ASSUME NEW n \in DOMAIN seen'[k]
        PROVE  seen'[k][n] \subseteq Rows(k)
    <3>1. CASE n \in RowsIn(stream[k], s)
      <4>1. seen'[k][n] = StateBefore(k, s, n)
        BY <2>3, <2>6, <3>1 DEF SeenAfter
      <4>2. QED
        BY <4>1, <2>1, <2>4 DEF StateBefore
    <3>2. CASE n \notin RowsIn(stream[k], s)
      BY <2>3, <2>4, <2>6, <3>2 DEF SeenAfter
    <3>3. QED
      BY <3>1, <3>2
  <2>8. QED
    BY <2>1, <2>2, <2>4, <2>5, <2>6, <2>7
<1>4. QED
  BY <1>2, <1>3 DEF TypeOK

\* Every reachable state of the carry loop is well typed: carried states and
\* recorded states only hold rows of their own key's stream.
THEOREM TypeCorrect == Spec => []TypeOK
<1>1. Init => TypeOK
  BY InitTypeOK
<1>2. TypeOK /\ [Next]_vars => TypeOK'
  <2>1. ASSUME TypeOK, NEW s \in pending, ProcessSegment(s)
        PROVE  TypeOK'
    BY <2>1, StepTypeOK
  <2>2. ASSUME TypeOK, UNCHANGED vars
        PROVE  TypeOK'
    BY <2>2 DEF TypeOK, vars, Rows, CollectedIds, SegmentIdsOf
  <2>3. QED
    BY <2>1, <2>2 DEF Next
<1>3. QED
  BY <1>1, <1>2, PTL DEF Spec

-----------------------------------------------------------------------------
(* The inductive invariant.  Ids are processed in ascending order, the rows *)
(* folded are those of the processed ids, and an unbroken key that still    *)
(* has rows to come has been carried without a hole.                        *)

Processed(k, n) == SegmentId(stream[k], n) \notin pending

PendingBound ==
    \A s \in pending : \A t \in CollectedIds(stream) \ pending : t < s

FoldedAreProcessed ==
    \A k \in Keys : DOMAIN seen[k] = {n \in Rows(k) : Processed(k, n)}

CarryWhole ==
    \A k \in Keys :
        Unbroken(k) /\ (\E n \in Rows(k) : ~Processed(k, n))
            => carry[k] = DOMAIN seen[k]

IInv ==
    /\ TypeOK
    /\ PendingBound
    /\ FoldedAreProcessed
    /\ CarryWhole
    /\ CarryComplete

\* A row's id is one of the ids collect_segment_ids returns.
LEMMA IdCollected ==
    ASSUME TypeOK, NEW k \in Keys, NEW n \in Rows(k)
    PROVE  SegmentId(stream[k], n) \in CollectedIds(stream)
  BY DEF TypeOK, CollectedIds, SegmentIdsOf, Rows

\* Ids are numbers.
LEMMA CollectedAreInts ==
    ASSUME TypeOK
    PROVE  \A t \in CollectedIds(stream) : t \in Int
<1>1. DOMAIN stream = Keys /\ \A k \in Keys : IsStream(stream[k])
  BY StreamsAssumption DEF TypeOK
<1>2. ASSUME NEW k \in Keys, NEW n \in 1..Len(stream[k])
      PROVE  SegmentId(stream[k], n) \in Nat
  <2>1. n <= n
    BY <1>1 DEF IsStream
  <2>2. QED
    BY <1>1, <2>1, SegmentIdMonotone
<1>3. QED
  BY <1>1, <1>2 DEF CollectedIds, SegmentIdsOf

\* The rows of lower ids and the earlier rows of the same id are together
\* the rows before a row.
LEMMA RowsBefore ==
    ASSUME NEW ts, IsStream(ts), NEW n \in 1..Len(ts)
    PROVE  {m \in 1..Len(ts) : SegmentId(ts, m) < SegmentId(ts, n)}
             \cup {m \in RowsIn(ts, SegmentId(ts, n)) : m < n} = 1..(n - 1)
<1>1. Len(ts) \in Nat
  BY DEF IsStream
<1>2. ASSUME NEW m \in 1..Len(ts), SegmentId(ts, m) < SegmentId(ts, n)
      PROVE  m < n
  <2>1. CASE n <= m
    BY <1>1, <1>2, <2>1, SegmentIdMonotone
  <2>2. QED
    BY <1>1, <2>1
<1>3. ASSUME NEW m \in 1..(n - 1)
      PROVE  /\ m \in 1..Len(ts)
             /\ m < n
             /\ \/ SegmentId(ts, m) < SegmentId(ts, n)
                \/ SegmentId(ts, m) = SegmentId(ts, n)
  <2>1. m \in 1..Len(ts) /\ m < n
    BY <1>1
  <2>2. /\ SegmentId(ts, m) \in Nat
        /\ SegmentId(ts, n) \in Nat
        /\ SegmentId(ts, m) <= SegmentId(ts, n)
    BY <1>1, <2>1, SegmentIdMonotone
  <2>3. QED
    BY <2>1, <2>2
<1>4. ASSUME NEW m \in 1..Len(ts), m < n
      PROVE  m \in 1..(n - 1)
  BY <1>1, <1>4
<1>5. QED
  BY <1>2, <1>3, <1>4 DEF RowsIn

\* Before the first iteration nothing is processed, folded or carried.
LEMMA InitIInv == Init => IInv
<1> SUFFICES ASSUME Init PROVE IInv
  OBVIOUS
<1>1. TypeOK
  BY InitTypeOK
<1>2. PendingBound
  BY DEF Init, PendingBound
<1>3. ASSUME NEW k \in Keys, NEW n \in Rows(k)
      PROVE  ~Processed(k, n)
  BY <1>1, IdCollected DEF Init, Processed
<1>4. ASSUME NEW k \in Keys
      PROVE  DOMAIN seen[k] = {} /\ carry[k] = {}
  BY DEF Init
<1>5. FoldedAreProcessed
  BY <1>3, <1>4 DEF FoldedAreProcessed
<1>6. CarryWhole /\ CarryComplete
  BY <1>4 DEF CarryWhole, CarryComplete
<1>7. QED
  BY <1>1, <1>2, <1>5, <1>6 DEF IInv

\* One loop iteration keeps the inductive invariant: rows of the smallest
\* pending id extend the prefix folded so far, and the carry with it.
LEMMA StepIInv ==
    ASSUME IInv, NEW s \in pending, ProcessSegment(s)
    PROVE  IInv'
<1>1. TypeOK'
  BY StepTypeOK DEF IInv
<1>2. /\ stream' = stream
      /\ pending' = pending \ {s}
      /\ \A t \in pending : s <= t
      /\ CollectedIds(stream)' = CollectedIds(stream)
      /\ \A k \in Keys : Rows(k)' = Rows(k) /\ (Unbroken(k)' <=> Unbroken(k))
  BY DEF ProcessSegment, Rows, Unbroken
<1>ids. \A t \in CollectedIds(stream) : t \in Nat
  <2>1. \A k \in Keys : IsStream(stream[k])
    BY StreamsAssumption DEF IInv, TypeOK
  <2>2. ASSUME NEW k \in Keys, NEW n \in 1..Len(stream[k])
        PROVE  SegmentId(stream[k], n) \in Nat
    <3>1. n <= n
      BY <2>1 DEF IsStream
    <3>2. QED
      BY <2>1, <3>1, SegmentIdMonotone
  <2>3. DOMAIN stream = Keys
    BY DEF IInv, TypeOK
  <2>4. QED
    BY <2>2, <2>3 DEF CollectedIds, SegmentIdsOf
<1>3. PendingBound'
  <2>1. ASSUME NEW t \in pending', NEW u \in CollectedIds(stream)' \ pending'
        PROVE  u < t
    <3>1. t \in pending /\ t # s /\ s <= t /\ t \in Nat /\ s \in Nat
      BY <1>2, <1>ids, <2>1 DEF IInv, TypeOK
    <3>2. CASE u = s
      BY <3>1, <3>2
    <3>3. CASE u # s
      BY <1>2, <2>1, <3>1, <3>3 DEF IInv, PendingBound
    <3>4. QED
      BY <3>2, <3>3
  <2>2. QED
    BY <2>1 DEF PendingBound
<1>4. ASSUME NEW k \in Keys
      PROVE  /\ DOMAIN seen'[k] = {n \in Rows(k) : Processed(k, n)'}
             /\ Unbroken(k) /\ (\E n \in Rows(k) : ~Processed(k, n)')
                  => carry'[k] = DOMAIN seen'[k]
             /\ Unbroken(k) => \A n \in DOMAIN seen'[k] : seen'[k][n] = 1..(n - 1)
  <2> DEFINE R == RowsIn(stream[k], s)
             Id(n) == SegmentId(stream[k], n)
  <2>1. IsStream(stream[k])
    BY StreamsAssumption DEF IInv, TypeOK
  <2>2. Rows(k) = 1..Len(stream[k])
    BY DEF Rows
  <2>3. \A n \in Rows(k) : Id(n) \in CollectedIds(stream)
    BY IdCollected DEF IInv
  <2>4. \A n \in Rows(k) : n \in R <=> Id(n) = s
    BY <2>2 DEF RowsIn
  <2>5. R \subseteq Rows(k)
    BY <2>2 DEF RowsIn
  <2>6. \A n \in Rows(k) : Processed(k, n)' <=> Processed(k, n) \/ n \in R
    BY <1>2, <2>3, <2>4 DEF Processed
  <2>7. DOMAIN seen[k] = {n \in Rows(k) : Processed(k, n)}
    BY DEF IInv, FoldedAreProcessed
  <2>8. seen'[k] = SeenAfter(k, s) /\ carry'[k] = CarryAfter(k, s)
    BY DEF ProcessSegment
  <2>9. DOMAIN seen'[k] = DOMAIN seen[k] \cup R
    BY <2>8 DEF SeenAfter
  <2>10. DOMAIN seen'[k] = {n \in Rows(k) : Processed(k, n)'}
    BY <2>5, <2>6, <2>7, <2>9
  <2>11. DOMAIN seen[k] = {n \in Rows(k) : Id(n) < s}
    <3>1. ASSUME NEW n \in Rows(k), Processed(k, n)
          PROVE  Id(n) < s
      BY <2>3, <3>1 DEF IInv, PendingBound, Processed
    <3>2. ASSUME NEW n \in Rows(k), ~Processed(k, n)
          PROVE  ~(Id(n) < s)
      BY <1>2, <1>ids, <2>3, <3>2 DEF Processed, IInv, TypeOK
    <3>3. QED
      BY <2>7, <3>1, <3>2
  <2>12. ASSUME Unbroken(k), R # {}
         PROVE  carry[k] = DOMAIN seen[k]
    <3>1. PICK n \in R : TRUE
      BY <2>12
    <3>2. n \in Rows(k) /\ ~Processed(k, n)
      BY <2>4, <2>5, <3>1 DEF Processed
    <3>3. QED
      BY <2>12, <3>2 DEF IInv, CarryWhole
  <2>13. Unbroken(k) /\ (\E n \in Rows(k) : ~Processed(k, n)')
            => carry'[k] = DOMAIN seen'[k]
    <3> SUFFICES ASSUME Unbroken(k), NEW n \in Rows(k), ~Processed(k, n)'
                 PROVE  carry'[k] = DOMAIN seen'[k]
      OBVIOUS
    <3>1. Id(n) \in pending /\ s <= Id(n)
      BY <1>2 DEF Processed
    <3>2. s \in CollectedIds(stream)
      BY DEF IInv, TypeOK
    <3>3. s \in SegmentIdsOf(stream[k])
      BY <3>1, <3>2 DEF Unbroken
    <3>4. R # {}
      BY <3>3 DEF SegmentIdsOf, RowsIn
    <3>5. QED
      BY <2>8, <2>9, <2>12, <3>4 DEF CarryAfter
  <2>14. ASSUME Unbroken(k), NEW n \in DOMAIN seen'[k]
         PROVE  seen'[k][n] = 1..(n - 1)
    <3>1. CASE n \in R
      <4>1. seen'[k][n] = carry[k] \cup {m \in R : m < n}
        BY <2>8, <2>9, <3>1 DEF SeenAfter, StateBefore
      <4>2. carry[k] = {m \in Rows(k) : Id(m) < s}
        BY <2>11, <2>12, <2>14, <3>1
      <4>3. n \in 1..Len(stream[k]) /\ Id(n) = s
        BY <2>2, <2>4, <2>5, <3>1
      <4>4. QED
        BY <2>1, <2>2, <4>1, <4>2, <4>3, RowsBefore
    <3>2. CASE n \notin R
      BY <2>8, <2>9, <2>14, <3>2 DEF SeenAfter, IInv, CarryComplete
    <3>3. QED
      BY <3>1, <3>2
  <2>15. QED
    BY <2>10, <2>13, <2>14
<1>5. FoldedAreProcessed' /\ CarryWhole' /\ CarryComplete'
  BY <1>2, <1>4 DEF FoldedAreProcessed, CarryWhole, CarryComplete
<1>6. QED
  BY <1>1, <1>3, <1>5 DEF IInv

\* The inductive invariant holds in every reachable state of the loop.
LEMMA Invariance == Spec => []IInv
<1>1. Init => IInv
  BY InitIInv
<1>2. IInv /\ [Next]_vars => IInv'
  <2>1. ASSUME IInv, NEW s \in pending, ProcessSegment(s)
        PROVE  IInv'
    BY <2>1, StepIInv
  <2>2. ASSUME IInv, UNCHANGED vars
        PROVE  IInv'
    BY <2>2 DEF IInv, TypeOK, PendingBound, FoldedAreProcessed, CarryWhole,
                CarryComplete, Processed, Unbroken, vars, Rows, CollectedIds,
                SegmentIdsOf
  <2>3. QED
    BY <2>1, <2>2 DEF Next
<1>3. QED
  BY <1>1, <1>2, PTL DEF Spec

\* Whatever the policy and the other keys do, an unbroken key's rows are each
\* folded into the state of exactly the rows before them.
THEOREM CarryIsComplete == Spec => []CarryComplete
<1>1. IInv => CarryComplete
  BY DEF IInv
<1>2. QED
  BY <1>1, Invariance, PTL

-----------------------------------------------------------------------------
(* Where no gap can arise.                                                  *)

\* With the span policy off (max_span_ms <= 0), or with consecutive rows no
\* further apart than max_span_ms, the ids of a stream have no gap.
LEMMA DenseIds ==
    ASSUME NEW ts, IsStream(ts), NEW n \in 1..(Len(ts) - 1),
           \/ NormalizedMaxSpan = 0
           \/ ts[n + 1] - ts[n] <= NormalizedMaxSpan
    PROVE  SegmentId(ts, n + 1) <= SegmentId(ts, n) + 1
<1>1. /\ Len(ts) \in Nat
      /\ n \in Nat \ {0}
      /\ 1 \in 1..Len(ts) /\ n \in 1..Len(ts) /\ n + 1 \in 1..Len(ts)
      /\ ts[1] \in Nat /\ ts[n] \in Nat /\ ts[n + 1] \in Nat
      /\ ts[1] <= ts[n] /\ ts[n] <= ts[n + 1]
  BY DEF IsStream
<1>2. RowSegmentId(n + 1) <= RowSegmentId(n) + 1
  BY <1>1, NormalizedPolicy, SMT DEF RowSegmentId
<1>3. RowSegmentId(n) \in Nat /\ RowSegmentId(n + 1) \in Nat
  BY <1>1, RowSegmentIdMonotone
<1>4. CASE NormalizedMaxSpan = 0
  BY <1>2, <1>3, <1>4 DEF SegmentId
<1>5. CASE NormalizedMaxSpan > 0 /\ ts[n + 1] - ts[n] <= NormalizedMaxSpan
  <2>1. SpanSegmentId(ts, n) \in Nat /\ SpanSegmentId(ts, n + 1) \in Nat
    BY <1>1, <1>5, SpanSegmentIdMonotone
  <2>2. SpanSegmentId(ts, n + 1) <= SpanSegmentId(ts, n) + 1
    <3> DEFINE a == ts[n] - ts[1]
               b == ts[n + 1] - ts[1]
               d == NormalizedMaxSpan
    <3>1. a \in Nat /\ b \in Nat /\ d \in Nat \ {0} /\ b <= a + d
      BY <1>1, <1>5, NormalizedPolicy
    <3>2. b \div d <= (a \div d) + 1
      <4> HIDE DEF a, b, d
      <4>1. QED
        BY <3>1, SMT
    <3>3. QED
      BY <3>2 DEF SpanSegmentId
  <2>3. QED
    BY <1>2, <1>3, <2>1, <2>2 DEF SegmentId
<1>6. QED
  BY <1>4, <1>5, NormalizedPolicy
-----------------------------------------------------------------------------
(* Broken keys too: what is carried is always the end of what is folded.    *)

\* A set of naturals that is not empty has a least element.
LEMMA NatLeast ==
    ASSUME NEW S \in SUBSET Nat, S # {}
    PROVE  \E m \in S : \A i \in S : m <= i
<1>1. PICK m \in S : \A i \in S : ~(<<i, m>> \in OpToRel(<, Nat))
  BY NatLessThanWellFounded, WFMin
<1>2. ASSUME NEW i \in S
      PROVE  m <= i
  <2>1. SUFFICES ASSUME i < m PROVE FALSE
    OBVIOUS
  <2>2. <<i, m>> \in OpToRel(<, Nat)
    BY <2>1 DEF OpToRel
  <2>3. QED
    BY <1>1, <2>2
<1>3. QED
  BY <1>2

\* A set of numbers below n that has every number between its members and n
\* is an interval that ends before n.
LEMMA UpwardClosed ==
    ASSUME NEW n \in Nat \ {0}, NEW S \in SUBSET (1..(n - 1)),
           \A i \in S : \A j \in i..(n - 1) : j \in S
    PROVE  \E m \in 1..n : S = m..(n - 1)
<1>1. CASE S = {}
  <2>1. n \in 1..n /\ n..(n - 1) = {}
    OBVIOUS
  <2>2. QED
    BY <1>1, <2>1
<1>2. CASE S # {}
  <2>1. S \subseteq Nat
    OBVIOUS
  <2>2. PICK m \in S : \A i \in S : m <= i
    BY <1>2, <2>1, NatLeast
  <2>3. m \in 1..n
    OBVIOUS
  <2>4. S = m..(n - 1)
    <3>1. S \subseteq m..(n - 1)
      BY <2>1, <2>2
    <3>2. m..(n - 1) \subseteq S
      OBVIOUS
    <3>3. QED
      BY <3>1, <3>2
  <2>5. QED
    BY <2>3, <2>4
<1>3. QED
  BY <1>1, <1>2

\* What is folded when segment s has its turn: the rows of lower ids; the
\* iteration adds those of segment s.
LEMMA StepRows ==
    ASSUME IInv, NEW s \in pending, ProcessSegment(s), NEW k \in Keys
    PROVE  /\ IsStream(stream[k])
           /\ Rows(k) = 1..Len(stream[k])
           /\ \A n \in Rows(k) : SegmentId(stream[k], n) \in Nat
           /\ s \in Nat
           /\ DOMAIN seen[k] = {n \in Rows(k) : SegmentId(stream[k], n) < s}
           /\ RowsIn(stream[k], s) = {n \in Rows(k) : SegmentId(stream[k], n) = s}
           /\ DOMAIN seen'[k] = DOMAIN seen[k] \cup RowsIn(stream[k], s)
<1>1. IsStream(stream[k]) /\ Rows(k) = 1..Len(stream[k])
  BY StreamsAssumption DEF IInv, TypeOK, Rows
<1>2. ASSUME NEW c \in Keys, NEW n \in 1..Len(stream[c])
      PROVE  SegmentId(stream[c], n) \in Nat
  <2>1. IsStream(stream[c]) /\ n <= n
    BY StreamsAssumption DEF IInv, TypeOK, IsStream
  <2>2. QED
    BY <2>1, SegmentIdMonotone
<1>3. s \in Nat
  BY <1>2 DEF IInv, TypeOK, CollectedIds, SegmentIdsOf
<1>4. ASSUME NEW n \in Rows(k)
      PROVE  n \in DOMAIN seen[k] <=> SegmentId(stream[k], n) < s
  <2>1. SegmentId(stream[k], n) \in CollectedIds(stream) /\ SegmentId(stream[k], n) \in Nat
    BY <1>1, <1>2, IdCollected DEF IInv
  <2>2. CASE Processed(k, n)
    BY <2>1, <2>2 DEF IInv, PendingBound, FoldedAreProcessed, Processed
  <2>3. CASE ~Processed(k, n)
    BY <1>3, <2>1, <2>3 DEF IInv, FoldedAreProcessed, Processed, ProcessSegment
  <2>4. QED
    BY <2>2, <2>3
<1>5. DOMAIN seen[k] \subseteq Rows(k)
  BY DEF IInv, TypeOK
<1>6. DOMAIN seen'[k] = DOMAIN seen[k] \cup RowsIn(stream[k], s)
  BY DEF ProcessSegment, SeenAfter
<1>7. QED
  BY <1>1, <1>2, <1>3, <1>4, <1>5, <1>6 DEF RowsIn

\* The carried rows of a key are folded, and with a row every later folded
\* row is carried.
CarrySuffix ==
    \A k \in Keys :
        /\ carry[k] \subseteq DOMAIN seen[k]
        /\ \A m \in carry[k] : \A n \in DOMAIN seen[k] : m <= n => n \in carry[k]

SuffixInv == IInv /\ CarrySuffix /\ NoRowFromTheFuture

\* The state a row meets is made of consecutive rows up to its own.
LEMMA StateIsInterval ==
    ASSUME SuffixInv, NEW s \in pending, ProcessSegment(s), NEW k \in Keys,
           NEW n \in RowsIn(stream[k], s)
    PROVE  \E m \in 1..n : StateBefore(k, s, n) = m..(n - 1)
<1> DEFINE S == StateBefore(k, s, n)
           Id(i) == SegmentId(stream[k], i)
<1>1. /\ IsStream(stream[k]) /\ Rows(k) = 1..Len(stream[k]) /\ Len(stream[k]) \in Nat
      /\ \A i \in Rows(k) : Id(i) \in Nat
      /\ s \in Nat
      /\ DOMAIN seen[k] = {i \in Rows(k) : Id(i) < s}
      /\ RowsIn(stream[k], s) = {i \in Rows(k) : Id(i) = s}
  BY StepRows DEF SuffixInv, IsStream
<1>2. n \in Rows(k) /\ n \in Nat \ {0} /\ Id(n) = s
  BY <1>1
<1>3. \A i, j \in Rows(k) : i <= j => Id(i) <= Id(j)
  BY <1>1, SegmentIdMonotone
<1>4. carry[k] \subseteq DOMAIN seen[k]
  BY DEF SuffixInv, CarrySuffix
<1>5. S \in SUBSET (1..(n - 1))
  <2>1. ASSUME NEW i \in S
        PROVE  i \in 1..(n - 1)
    <3>1. i \in Rows(k) /\ (Id(i) < s \/ i < n)
      BY <1>1, <1>4 DEF StateBefore
    <3>2. i < n
      BY <1>1, <1>2, <1>3, <3>1
    <3>3. QED
      BY <1>1, <1>2, <3>1, <3>2
  <2>2. QED
    BY <2>1
<1>6. ASSUME NEW i \in S, NEW j \in i..(n - 1)
      PROVE  j \in S
  <2>1. i \in 1..(n - 1) /\ j \in Rows(k) /\ i <= j /\ j < n /\ i \in Rows(k)
    BY <1>1, <1>2, <1>5
  <2>2. Id(i) <= Id(j) /\ Id(j) <= s
    BY <1>2, <1>3, <2>1
  <2>3. CASE Id(j) = s
    BY <1>1, <2>1, <2>3 DEF StateBefore
  <2>4. CASE Id(j) < s
    <3>1. j \in DOMAIN seen[k] /\ i \notin RowsIn(stream[k], s)
      BY <1>1, <2>1, <2>2, <2>4
    <3>2. i \in carry[k]
      BY <3>1 DEF StateBefore
    <3>3. j \in carry[k]
      BY <2>1, <3>1, <3>2 DEF SuffixInv, CarrySuffix
    <3>4. QED
      BY <3>3 DEF StateBefore
  <2>5. QED
    BY <1>1, <2>1, <2>2, <2>3, <2>4
<1> HIDE DEF S
<1>7. QED
  BY <1>2, <1>5, <1>6, UpwardClosed DEF S

\* One loop iteration keeps the carry a suffix and the states intervals.
LEMMA StepSuffixInv ==
    ASSUME SuffixInv, NEW s \in pending, ProcessSegment(s)
    PROVE  SuffixInv'
<1>1. IInv'
  BY StepIInv DEF SuffixInv
<1>2. ASSUME NEW k \in Keys
      PROVE  /\ carry'[k] \subseteq DOMAIN seen'[k]
             /\ \A m \in carry'[k] : \A n \in DOMAIN seen'[k] : m <= n => n \in carry'[k]
             /\ \A n \in DOMAIN seen'[k] : \E m \in 1..n : seen'[k][n] = m..(n - 1)
  <2> DEFINE R == RowsIn(stream[k], s)
             Id(i) == SegmentId(stream[k], i)
  <2>1. /\ IsStream(stream[k]) /\ Rows(k) = 1..Len(stream[k])
        /\ \A i \in Rows(k) : Id(i) \in Nat
        /\ s \in Nat
        /\ DOMAIN seen[k] = {i \in Rows(k) : Id(i) < s}
        /\ R = {i \in Rows(k) : Id(i) = s}
        /\ DOMAIN seen'[k] = DOMAIN seen[k] \cup R
    BY StepRows DEF SuffixInv
  <2>2. \A i, j \in Rows(k) : i <= j => Id(i) <= Id(j)
    BY <2>1, SegmentIdMonotone
  <2>3. seen'[k] = SeenAfter(k, s) /\ carry'[k] = CarryAfter(k, s)
    BY DEF ProcessSegment
  <2>4. /\ carry[k] \subseteq DOMAIN seen[k]
        /\ \A m \in carry[k] : \A n \in DOMAIN seen[k] : m <= n => n \in carry[k]
    BY DEF SuffixInv, CarrySuffix
  <2>5. carry'[k] \subseteq carry[k] \cup R /\ (carry'[k] # {} => carry'[k] = carry[k] \cup R)
    BY <2>3 DEF CarryAfter
  <2>6. ASSUME NEW m \in carry'[k], NEW n \in DOMAIN seen'[k], m <= n
        PROVE  n \in carry'[k]
    <3>1. carry'[k] = carry[k] \cup R
      BY <2>5, <2>6
    <3>2. CASE n \in R
      BY <3>1, <3>2
    <3>3. CASE n \notin R
      <4>1. n \in DOMAIN seen[k] /\ n \in Rows(k) /\ Id(n) < s
        BY <2>1, <2>6, <3>3
      <4>2. m \notin R
        <5>1. SUFFICES ASSUME m \in R PROVE FALSE
          OBVIOUS
        <5>2. Id(m) <= Id(n) /\ Id(m) = s
          BY <2>1, <2>2, <2>6, <4>1, <5>1
        <5>3. QED
          BY <2>1, <4>1, <5>2
      <4>3. QED
        BY <2>4, <2>6, <3>1, <4>1, <4>2
    <3>4. QED
      BY <3>2, <3>3
  <2>7. ASSUME NEW n \in DOMAIN seen'[k]
        PROVE  \E m \in 1..n : seen'[k][n] = m..(n - 1)
    <3>1. CASE n \in R
      <4>1. seen'[k][n] = StateBefore(k, s, n)
        BY <2>3, <2>7, <3>1 DEF SeenAfter
      <4>2. QED
        BY <3>1, <4>1, StateIsInterval
    <3>2. CASE n \notin R
      <4>1. n \in DOMAIN seen[k] /\ seen'[k][n] = seen[k][n]
        BY <2>1, <2>3, <2>7, <3>2 DEF SeenAfter
      <4>2. QED
        BY <4>1 DEF SuffixInv, NoRowFromTheFuture
    <3>3. QED
      BY <3>1, <3>2
  <2>8. QED
    BY <2>1, <2>4, <2>5, <2>6, <2>7
<1>3. CarrySuffix' /\ NoRowFromTheFuture'
  BY <1>2 DEF CarrySuffix, NoRowFromTheFuture
<1>4. QED
  BY <1>1, <1>3 DEF SuffixInv

\* Whatever the policy, the streams and the other keys, the state a row meets
\* has folded an unbroken stretch of rows that ends right before it: nothing
\* from later on, nothing twice, and no hole.
THEOREM NoneFromTheFuture == Spec => []NoRowFromTheFuture
<1>1. Init => SuffixInv
  <2> SUFFICES ASSUME Init PROVE SuffixInv
    OBVIOUS
  <2>1. IInv
    BY InitIInv
  <2>2. \A k \in Keys : DOMAIN seen[k] = {} /\ carry[k] = {}
    BY DEF Init
  <2>3. QED
    BY <2>1, <2>2 DEF SuffixInv, CarrySuffix, NoRowFromTheFuture
<1>2. SuffixInv /\ [Next]_vars => SuffixInv'
  <2>1. ASSUME SuffixInv, NEW s \in pending, ProcessSegment(s)
        PROVE  SuffixInv'
    BY <2>1, StepSuffixInv
  <2>2. ASSUME SuffixInv, UNCHANGED vars
        PROVE  SuffixInv'
    BY <2>2 DEF SuffixInv, CarrySuffix, NoRowFromTheFuture, IInv, TypeOK, PendingBound,
                FoldedAreProcessed, CarryWhole, CarryComplete, Processed, Unbroken, vars,
                Rows, CollectedIds, SegmentIdsOf
  <2>3. QED
    BY <2>1, <2>2 DEF Next
<1>3. SuffixInv => NoRowFromTheFuture
  BY DEF SuffixInv
<1>4. QED
  BY <1>1, <1>2, <1>3, PTL DEF Spec
-----------------------------------------------------------------------------
(* The refinement: the loop implements the fold of the streams row by row.  *)

\* What is folded of a key is a prefix of its rows.
LEMMA FoldedIsPrefix ==
    ASSUME NEW ts, IsStream(ts), NEW s \in Int
    PROVE  \E p \in 0..Len(ts) : {n \in 1..Len(ts) : SegmentId(ts, n) < s} = 1..p
<1> DEFINE Left == {n \in 1..Len(ts) : ~(SegmentId(ts, n) < s)}
<1>1. Len(ts) \in Nat
  BY DEF IsStream
<1>2. \A m, n \in 1..Len(ts) : m <= n =>
         SegmentId(ts, m) \in Nat /\ SegmentId(ts, n) \in Nat /\ SegmentId(ts, m) <= SegmentId(ts, n)
  BY SegmentIdMonotone
<1>3. Len(ts) + 1 \in Nat \ {0} /\ (Len(ts) + 1) - 1 = Len(ts)
  BY <1>1
<1>4. Left \in SUBSET (1..((Len(ts) + 1) - 1))
  BY <1>3
<1>5. ASSUME NEW i \in Left, NEW j \in i..((Len(ts) + 1) - 1)
      PROVE  j \in Left
  <2>1. i \in 1..Len(ts) /\ j \in 1..Len(ts) /\ i <= j
    BY <1>1, <1>3
  <2>2. QED
    BY <1>2, <2>1
<1>6. PICK m \in 1..(Len(ts) + 1) : Left = m..((Len(ts) + 1) - 1)
  <2> HIDE DEF Left
  <2>1. QED
    BY <1>3, <1>4, <1>5, UpwardClosed
<1>7. m - 1 \in 0..Len(ts)
  BY <1>1
<1>8. {n \in 1..Len(ts) : SegmentId(ts, n) < s} = 1..(m - 1)
  BY <1>1, <1>6
<1>9. QED
  BY <1>7, <1>8

\* The states of a key are recorded for its rows, in a function.
SeenIsFunction ==
    \A k \in Keys : seen[k] = [n \in DOMAIN seen[k] |-> seen[k][n]]

\* The rows a key carries: those folded since it last skipped a processed id.
CarryIsTail ==
    \A k \in Keys :
        carry[k] = {m \in Rows(k) :
            /\ Processed(k, m)
            /\ \A t \in CollectedIds(stream) \ pending :
                  SegmentId(stream[k], m) <= t => t \in SegmentIdsOf(stream[k])}

\* The rows before n, back to the last restart of the key.
Since(k, n) == {m \in 1..(n - 1) : \A r \in Restarts(k) : ~(m < r /\ r <= n)}

SeenIsSince ==
    \A k \in Keys : \A n \in DOMAIN seen[k] : seen[k][n] = Since(k, n)

RefinementInv == IInv /\ SeenIsFunction /\ CarryIsTail /\ SeenIsSince

\* Between two rows there is a restart just when the key skips an id of those
\* between theirs.
LEMMA RestartsAreSkips ==
    ASSUME TypeOK, NEW k \in Keys, NEW m \in Rows(k), NEW n \in Rows(k), m <= n
    PROVE  (\E r \in Restarts(k) : m < r /\ r <= n)
             <=> \E t \in CollectedIds(stream) :
                    /\ SegmentId(stream[k], m) < t /\ t < SegmentId(stream[k], n)
                    /\ t \notin SegmentIdsOf(stream[k])
<1> DEFINE Id(i) == SegmentId(stream[k], i)
<1>1. IsStream(stream[k]) /\ Rows(k) = 1..Len(stream[k]) /\ Len(stream[k]) \in Nat
  BY StreamsAssumption DEF TypeOK, Rows, IsStream
<1>2. \A i, j \in Rows(k) : i <= j => Id(i) \in Nat /\ Id(j) \in Nat /\ Id(i) <= Id(j)
  BY <1>1, SegmentIdMonotone
<1>3. \A t \in CollectedIds(stream) : t \in Int
  BY CollectedAreInts
<1>4. \A t : t \in SegmentIdsOf(stream[k]) <=> \E i \in Rows(k) : Id(i) = t
  BY <1>1 DEF SegmentIdsOf
<1> HIDE DEF Id
<1>5. ASSUME NEW r \in Restarts(k), m < r, r <= n
      PROVE  \E t \in CollectedIds(stream) :
                Id(m) < t /\ t < Id(n) /\ t \notin SegmentIdsOf(stream[k])
  <2>1. PICK t \in CollectedIds(stream) : Id(r - 1) < t /\ t < Id(r)
    BY DEF Restarts, Id
  <2>2. r \in Rows(k) /\ r - 1 \in Rows(k) /\ m <= r - 1
    BY <1>1, <1>5 DEF Restarts
  <2>3. Id(m) <= Id(r - 1) /\ Id(r) <= Id(n) /\ Id(m) \in Nat /\ Id(r - 1) \in Nat
        /\ Id(r) \in Nat /\ Id(n) \in Nat
    BY <1>2, <1>5, <2>2
  <2>4. ASSUME NEW i \in Rows(k), Id(i) = t
        PROVE  FALSE
    <3>1. CASE i <= r - 1
      <4>1. Id(i) <= Id(r - 1)
        BY <1>2, <2>2, <3>1
      <4>2. QED
        BY <1>3, <2>1, <2>3, <2>4, <4>1
    <3>2. CASE r <= i
      <4>1. Id(r) <= Id(i)
        BY <1>2, <2>2, <3>2
      <4>2. QED
        BY <1>3, <2>1, <2>3, <2>4, <4>1
    <3>3. QED
      BY <1>1, <2>2, <3>1, <3>2
  <2>5. Id(m) < t /\ t < Id(n)
    BY <1>3, <2>1, <2>3
  <2>6. QED
    BY <1>4, <2>4, <2>5
<1>6. ASSUME NEW t \in CollectedIds(stream), Id(m) < t, t < Id(n), t \notin SegmentIdsOf(stream[k])
      PROVE  \E r \in Restarts(k) : m < r /\ r <= n
  <2> DEFINE Above == {i \in Rows(k) : t < Id(i)}
  <2>1. n \in Above /\ Above \in SUBSET Nat
    BY <1>1, <1>6
  <2>2. PICK r \in Above : \A i \in Above : r <= i
    BY <2>1, NatLeast
  <2>3. r \in Rows(k) /\ t < Id(r) /\ r <= n /\ r \in Nat /\ Id(r) \in Nat /\ t \in Int
    BY <1>1, <1>2, <1>3, <2>1, <2>2
  <2>4. m < r
    <3>1. SUFFICES ASSUME r <= m PROVE FALSE
      BY <1>1, <2>3
    <3>2. Id(r) <= Id(m) /\ Id(m) \in Nat
      BY <1>2, <2>3, <3>1
    <3>3. QED
      BY <1>6, <2>3, <3>2
  <2>5. r - 1 \in Rows(k) /\ r - 1 < r /\ r > 1
    BY <1>1, <2>3, <2>4
  <2>6. ~(t < Id(r - 1)) /\ Id(r - 1) # t /\ Id(r - 1) \in Nat
    <3>1. r - 1 \notin Above
      BY <2>2, <2>3, <2>5
    <3>2. r - 1 <= r - 1
      BY <1>1, <2>5
    <3>3. QED
      BY <1>2, <1>4, <1>6, <2>5, <3>1, <3>2
  <2>7. Id(r - 1) < t
    BY <2>3, <2>6
  <2>8. r \in Restarts(k)
    BY <2>3, <2>5, <2>7 DEF Restarts, Id
  <2>9. QED
    BY <2>3, <2>4, <2>8
<1>7. QED
  BY <1>5, <1>6 DEF Id

\* One loop iteration leaves each key the rows since it last skipped an id, and
\* folds each row of the segment into the rows since its last restart.
LEMMA StepFolds ==
    ASSUME RefinementInv, NEW s \in pending, ProcessSegment(s), NEW k \in Keys
    PROVE  /\ carry'[k] = {m \in Rows(k) :
                 /\ Processed(k, m)'
                 /\ \A t \in CollectedIds(stream) \ pending' :
                       SegmentId(stream[k], m) <= t => t \in SegmentIdsOf(stream[k])}
           /\ \A n \in RowsIn(stream[k], s) : StateBefore(k, s, n) = Since(k, n)
<1> DEFINE Id(i) == SegmentId(stream[k], i)
           Ids == SegmentIdsOf(stream[k])
           R == RowsIn(stream[k], s)
           Old == CollectedIds(stream) \ pending
           Unskipped(done) == {m \in Rows(k) : Id(m) < s /\ \A t \in done : Id(m) <= t => t \in Ids}
<1>1. /\ IsStream(stream[k]) /\ Rows(k) = 1..Len(stream[k]) /\ Len(stream[k]) \in Nat
      /\ \A i \in Rows(k) : Id(i) \in Nat
      /\ s \in Nat
      /\ R = {i \in Rows(k) : Id(i) = s}
  BY StepRows DEF RefinementInv, IsStream
<1>2. \A i, j \in Rows(k) : i <= j => Id(i) <= Id(j)
  BY <1>1, SegmentIdMonotone
<1>3. /\ s \in CollectedIds(stream) /\ s \notin Old
      /\ CollectedIds(stream) \ pending' = Old \cup {s}
      /\ stream' = stream
  BY DEF RefinementInv, IInv, TypeOK, ProcessSegment
<1>4. \A t \in CollectedIds(stream) : t \in Old <=> t < s
  BY <1>1 DEF RefinementInv, IInv, PendingBound, ProcessSegment, TypeOK
<1>5. \A i \in Rows(k) : Id(i) \in CollectedIds(stream) /\ Id(i) \in Ids
  BY <1>1, IdCollected DEF RefinementInv, IInv, SegmentIdsOf
<1>6. \A i \in Rows(k) : (Processed(k, i) <=> Id(i) < s) /\ (Processed(k, i)' <=> Id(i) < s \/ Id(i) = s)
  BY <1>3, <1>4, <1>5 DEF Processed, ProcessSegment
<1>7. carry[k] = Unskipped(Old)
  BY <1>6 DEF RefinementInv, CarryIsTail
<1>8. s \in Ids <=> R # {}
  BY <1>1 DEF SegmentIdsOf
<1>9. carry'[k] = IF R = {} THEN {} ELSE carry[k] \cup R
  BY DEF ProcessSegment, CarryAfter
<1>10. \A n \in R : StateBefore(k, s, n) = carry[k] \cup {m \in R : m < n}
  BY DEF StateBefore
<1>11. \A n \in R : Since(k, n) = {m \in 1..(n - 1) : \A r \in Restarts(k) : ~(m < r /\ r <= n)}
  BY DEF Since
<1>12. \A m, n \in Rows(k) : m <= n =>
          ((\E r \in Restarts(k) : m < r /\ r <= n)
             <=> \E t \in CollectedIds(stream) : Id(m) < t /\ t < Id(n) /\ t \notin Ids)
  BY RestartsAreSkips DEF RefinementInv, IInv
<1> HIDE DEF Id, Ids, R, Old
<1>13. carry'[k] = {m \in Rows(k) : /\ Id(m) < s \/ Id(m) = s
                                    /\ \A t \in Old \cup {s} : Id(m) <= t => t \in Ids}
  <2>1. CASE R = {}
    <3>1. \A m \in Rows(k) : Id(m) < s \/ Id(m) = s => Id(m) <= s
      BY <1>1
    <3>2. QED
      BY <1>8, <1>9, <2>1, <3>1
  <2>2. CASE R # {}
    <3>1. ASSUME NEW m \in Rows(k), Id(m) = s, NEW t \in Old \cup {s}, Id(m) <= t
          PROVE  t \in Ids
      <4>1. CASE t = s
        BY <1>8, <2>2, <4>1
      <4>2. CASE t \in Old
        <5>1. t \in CollectedIds(stream) /\ t < s
          BY <1>4, <4>2 DEF Old
        <5>2. t \in Int
          BY <5>1, CollectedAreInts DEF RefinementInv, IInv
        <5>3. QED
          BY <1>1, <3>1, <5>1, <5>2
      <4>3. QED
        BY <3>1, <4>1, <4>2
    <3>2. carry'[k] = Unskipped(Old) \cup R
      BY <1>7, <1>9, <2>2
    <3>3. QED
      BY <1>1, <1>8, <2>2, <3>1, <3>2
  <2>3. QED
    BY <2>1, <2>2
<1>14. ASSUME NEW n \in R
       PROVE  carry[k] \cup {m \in R : m < n} = Since(k, n)
  <2>1. n \in Rows(k) /\ Id(n) = s /\ n \in Nat
    BY <1>1
  <2>2. ASSUME NEW m \in 1..(n - 1)
        PROVE  m \in carry[k] \cup {i \in R : i < n} <=> m \in Since(k, n)
    <3>1. m \in Rows(k) /\ m < n /\ m <= n
      BY <1>1, <2>1
    <3>2. Id(m) <= s /\ Id(m) \in Nat
      BY <1>1, <1>2, <2>1, <3>1
    <3>3. m \in Since(k, n) <=> ~\E t \in CollectedIds(stream) : Id(m) < t /\ t < s /\ t \notin Ids
      <4>1. (\E r \in Restarts(k) : m < r /\ r <= n)
              <=> \E t \in CollectedIds(stream) : Id(m) < t /\ t < s /\ t \notin Ids
        BY <1>12, <2>1, <3>1
      <4>2. m \in Since(k, n) <=> ~\E r \in Restarts(k) : m < r /\ r <= n
        BY <1>11
      <4>3. QED
        BY <4>1, <4>2
    <3>4. CASE Id(m) = s
      <4>1. m \in R /\ m < n
        BY <1>1, <3>1, <3>4
      <4>2. \A t \in CollectedIds(stream) : ~(Id(m) < t /\ t < s)
        <5>1. \A t \in CollectedIds(stream) : t \in Int
          BY CollectedAreInts DEF RefinementInv, IInv
        <5>2. QED
          BY <1>1, <3>4, <5>1
      <4>3. QED
        BY <3>3, <4>1, <4>2
    <3>5. CASE Id(m) < s
      <4>1. m \notin R
        BY <1>1, <3>5
      <4>2. m \in carry[k] <=> \A t \in Old : Id(m) <= t => t \in Ids
        BY <1>7, <3>1, <3>5
      <4>3. \A t \in CollectedIds(stream) : t \in Int
        BY CollectedAreInts DEF RefinementInv, IInv
      <4>4. (\A t \in Old : Id(m) <= t => t \in Ids)
              <=> ~\E t \in CollectedIds(stream) : Id(m) < t /\ t < s /\ t \notin Ids
        <5>1. Id(m) \in Ids
          BY <1>5, <3>1
        <5>2. \A t \in CollectedIds(stream) : Id(m) <= t <=> Id(m) < t \/ Id(m) = t
          BY <3>2, <4>3
        <5>3. \A t : t \in Old => t \in CollectedIds(stream)
          BY DEF Old
        <5>4. QED
          BY ONLY <1>4, <5>1, <5>2, <5>3
      <4>5. QED
        BY <3>3, <4>1, <4>2, <4>4
    <3>6. QED
      BY <1>1, <3>2, <3>4, <3>5
  <2>3. ASSUME NEW m \in carry[k] \cup {i \in R : i < n}
        PROVE  m \in 1..(n - 1)
    <3>1. m \in Rows(k) /\ (Id(m) < s \/ m < n)
      BY <1>1, <1>7
    <3>2. m < n
      <4>1. SUFFICES ASSUME n <= m PROVE FALSE
        BY <1>1, <2>1, <3>1
      <4>2. Id(n) <= Id(m) /\ Id(m) \in Nat
        BY <1>1, <1>2, <2>1, <3>1, <4>1
      <4>3. QED
        BY <1>1, <2>1, <3>1, <4>1, <4>2
    <3>3. QED
      BY <1>1, <2>1, <3>1, <3>2
  <2>4. Since(k, n) \subseteq 1..(n - 1)
    BY <1>11
  <2>5. QED
    BY <2>2, <2>3, <2>4
<1>15. QED
  BY <1>3, <1>6, <1>10, <1>13, <1>14 DEF Id, Ids, R

\* One loop iteration keeps the invariant of the refinement.
LEMMA StepRefinementInv ==
    ASSUME RefinementInv, NEW s \in pending, ProcessSegment(s)
    PROVE  RefinementInv'
<1>1. IInv'
  BY StepIInv DEF RefinementInv
<1>2. SeenIsFunction'
  BY DEF ProcessSegment, SeenAfter, SeenIsFunction
<1>3. stream' = stream
  BY DEF ProcessSegment
<1>4. CarryIsTail'
  BY <1>3, StepFolds DEF CarryIsTail, Rows, Processed, CollectedIds
<1>5. SeenIsSince'
  <2>1. SUFFICES ASSUME NEW k \in Keys, NEW n \in DOMAIN seen'[k]
                 PROVE  seen'[k][n] = Since(k, n)
    BY <1>3 DEF SeenIsSince, Since, Restarts, Rows, CollectedIds
  <2>2. seen'[k] = SeenAfter(k, s)
    BY DEF ProcessSegment
  <2>3. CASE n \in RowsIn(stream[k], s)
    <3>1. seen'[k][n] = StateBefore(k, s, n)
      BY <2>1, <2>2, <2>3 DEF SeenAfter
    <3>2. QED
      BY <2>3, <3>1, StepFolds
  <2>4. CASE n \notin RowsIn(stream[k], s)
    <3>1. n \in DOMAIN seen[k] /\ seen'[k][n] = seen[k][n]
      BY <2>1, <2>2, <2>4 DEF SeenAfter
    <3>2. QED
      BY <3>1 DEF RefinementInv, SeenIsSince
  <2>5. QED
    BY <2>3, <2>4
<1>6. QED
  BY <1>1, <1>2, <1>4, <1>5 DEF RefinementInv

\* One loop iteration advances every key from a prefix to a prefix.
LEMMA StepAdvances ==
    ASSUME RefinementInv, RefinementInv', NEW s \in pending, ProcessSegment(s)
    PROVE  Streamed!Next
<1>1. /\ DOMAIN seen' = Keys /\ stream' = stream
      /\ \A k \in Keys : Restarts(k)' = Restarts(k)
      /\ \A k \in Keys : \A n : Since(k, n)' = Since(k, n)
  BY DEF ProcessSegment, Restarts, Rows, CollectedIds, Since
<1>2. ASSUME NEW k \in Keys
      PROVE  \E m \in 0..Len(stream[k]) : Streamed!Advance(k, m)
  <2>1. /\ IsStream(stream[k])
        /\ Rows(k) = 1..Len(stream[k])
        /\ \A n \in Rows(k) : SegmentId(stream[k], n) \in Nat
        /\ s \in Nat
        /\ DOMAIN seen[k] = {n \in Rows(k) : SegmentId(stream[k], n) < s}
        /\ RowsIn(stream[k], s) = {n \in Rows(k) : SegmentId(stream[k], n) = s}
        /\ DOMAIN seen'[k] = DOMAIN seen[k] \cup RowsIn(stream[k], s)
    BY StepRows DEF RefinementInv
  <2>2. DOMAIN seen'[k] = {n \in 1..Len(stream[k]) : SegmentId(stream[k], n) < s + 1}
    BY <2>1
  <2>3. PICK m \in 0..Len(stream[k]) : DOMAIN seen'[k] = 1..m
    <3>1. s + 1 \in Int
      BY <2>1
    <3>2. \E m \in 0..Len(stream[k]) :
             {n \in 1..Len(stream[k]) : SegmentId(stream[k], n) < s + 1} = 1..m
      BY <2>1, <3>1, FoldedIsPrefix
    <3>3. QED
      BY <2>2, <3>2
  <2>4. seen'[k] = [n \in DOMAIN seen'[k] |-> Since(k, n)]
    BY <1>1 DEF RefinementInv, SeenIsFunction, SeenIsSince
  <2>5. \A n : Streamed!Since(k, n) = Since(k, n)
    BY DEF Streamed!Since, Since
  <2>6. DOMAIN seen[k] \subseteq 1..m
    BY <2>1, <2>3
  <2>7. seen'[k] = Streamed!Prefix(k, m)
    BY <2>3, <2>4, <2>5 DEF Streamed!Prefix
  <2>8. QED
    BY <2>6, <2>7 DEF Streamed!Advance
<1>3. QED
  BY <1>1, <1>2 DEF Streamed!Next

\* The segmented loop, with any policy, implements the fold of the stream of
\* each key row by row: rows are folded in order, once each, and the state a
\* row meets is that of an unsegmented fold which starts again exactly behind
\* the ids the key skips (carry_df).
THEOREM Refinement == Spec => ImplementsStreamFold
<1>1. Init => RefinementInv /\ Streamed!Init
  <2> SUFFICES ASSUME Init PROVE RefinementInv /\ Streamed!Init
    OBVIOUS
  <2>1. IInv
    BY InitIInv
  <2>2. \A k \in Keys : seen[k] = <<>> /\ DOMAIN seen[k] = {} /\ carry[k] = {}
    BY DEF Init
  <2>3. SeenIsFunction /\ SeenIsSince
    BY <2>2 DEF SeenIsFunction, SeenIsSince
  <2>4. CarryIsTail
    <3>1. ASSUME NEW k \in Keys, NEW n \in Rows(k)
          PROVE  ~Processed(k, n)
      BY <2>1, IdCollected DEF Init, Processed, IInv
    <3>2. QED
      BY <2>2, <3>1 DEF CarryIsTail
  <2>5. seen = [k \in Keys |-> Streamed!Prefix(k, 0)]
    <3>1. \A k \in Keys : Streamed!Prefix(k, 0) = <<>>
      BY DEF Streamed!Prefix
    <3>2. QED
      BY <3>1 DEF Init
  <2>6. QED
    BY <2>1, <2>3, <2>4, <2>5 DEF RefinementInv, Streamed!Init
<1>2. RefinementInv /\ [Next]_vars => RefinementInv'
  <2>1. ASSUME RefinementInv, NEW s \in pending, ProcessSegment(s)
        PROVE  RefinementInv'
    BY <2>1, StepRefinementInv
  <2>2. ASSUME RefinementInv, UNCHANGED vars
        PROVE  RefinementInv'
    <3>1. stream' = stream /\ pending' = pending /\ carry' = carry /\ seen' = seen
      BY <2>2 DEF vars
    <3>2. IInv'
      BY <2>2, <3>1 DEF RefinementInv, IInv, TypeOK, PendingBound, FoldedAreProcessed, CarryWhole,
                        CarryComplete, Processed, Unbroken, Rows, CollectedIds, SegmentIdsOf
    <3>3. CarryIsTail'
      BY <2>2, <3>1 DEF RefinementInv, CarryIsTail, Processed, Rows, CollectedIds
    <3>4. \A k \in Keys : \A n : Since(k, n)' = Since(k, n)
      BY <3>1 DEF Since, Restarts, Rows, CollectedIds
    <3>5. SeenIsFunction' /\ SeenIsSince'
      BY <2>2, <3>1, <3>4 DEF RefinementInv, SeenIsFunction, SeenIsSince
    <3>6. QED
      BY <3>2, <3>3, <3>5 DEF RefinementInv
  <2>3. QED
    BY <2>1, <2>2 DEF Next
<1> DEFINE mapped == [k \in Keys |-> Restarts(k)]
<1>3. RefinementInv /\ RefinementInv' /\ [Next]_vars => [Streamed!Next]_<<stream, mapped, seen>>
  <2>1. ASSUME RefinementInv, RefinementInv', NEW s \in pending, ProcessSegment(s)
        PROVE  Streamed!Next
    BY <2>1, StepAdvances
  <2>2. ASSUME UNCHANGED vars
        PROVE  UNCHANGED <<stream, mapped, seen>>
    BY <2>2 DEF vars, Restarts, Rows, CollectedIds, SegmentIdsOf
  <2>3. QED
    BY <2>1, <2>2 DEF Next
<1>4. QED
  BY <1>1, <1>2, <1>3, PTL DEF Spec, ImplementsStreamFold, Streamed!Spec
=============================================================================
