----------------------------- MODULE PhaseDecode -----------------------------
(***************************************************************************)
(* assign_phases_segmented (libs/phase/decode.py): the phases of all the    *)
(* flights of a batch, decoded segment by segment with a carry.  Unlike the *)
(* event and window kernels, which output rows in every segment, the phases *)
(* are read from the carry that is left after the last segment.             *)
(***************************************************************************)
EXTENDS SequencePlan, PhaseViterbi

CONSTANTS
    Keys,     \* the flights of the batch, by key
    Flights   \* [ts, costs]: t_end and phase_costs of each window, in order;
              \* all the windows of a flight have effective_phase_count costs,
              \* which reference inference takes from the reference flight

PhaseCount(f) == Cardinality(DOMAIN f.costs[1])

ASSUME PhaseFlightsAssumption ==
    /\ TransitionPenalty \in Int
    /\ \A f \in Flights :
          /\ IsStream(f.ts)
          /\ PhaseCount(f) \in Nat \ {0}
          /\ f.costs \in [1..Len(f.ts) -> [0..(PhaseCount(f) - 1) -> Int]]

VARIABLES
    flight,    \* [Keys -> Flights]: assignment_input_df
    pending,   \* the segment ids not decoded yet
    carry,     \* carry_df: the accumulator of a flight, Uninitialized if absent
    assigned   \* [Keys -> rows -> phase], empty until the loop has ended

vars == <<flight, pending, carry, assigned>>

Windows(k) == 1..Len(flight[k].ts)

\* _multi_phase_input; the other flights get phase 0 without a decode.
MultiPhase == {k \in Keys : PhaseCount(flight[k]) > 1}

MultiStreams == [k \in MultiPhase |-> flight[k].ts]

NothingAssigned == [k \in Keys |-> <<>>]

\* Mutant of Init: the ids are counted, and the loop runs over 0..count - 1.
InitOverCount ==
    /\ flight \in [Keys -> Flights]
    /\ pending = 0..(Cardinality(CollectedIds(MultiStreams)) - 1)
    /\ carry = [k \in Keys |-> Uninitialized]
    /\ assigned = NothingAssigned

Init ==
    /\ flight \in [Keys -> Flights]
    /\ pending = CollectedIds(MultiStreams)
    /\ carry = [k \in Keys |-> Uninitialized]
    /\ assigned = NothingAssigned

\* The costs of the windows of segment s, in order.
SegmentCosts(k, s) ==
    LET rows == RowsIn(flight[k].ts, s)
        Row(i) == CHOOSE n \in rows : Cardinality({m \in rows : m <= n}) = i
    IN  [i \in 1..Cardinality(rows) |-> flight[k].costs[Row(i)]]

\* Mutant of CarryAfter: the scores and paths of the last segment are lost.
CarryAfterRestarted(k, s) ==
    IF k \in MultiPhase /\ RowsIn(flight[k].ts, s) # {}
    THEN AdvanceWindows(Uninitialized, SegmentCosts(k, s))
    ELSE Uninitialized

\* _segment_carry keeps the flights of the current segment only.
CarryAfter(k, s) ==
    IF k \in MultiPhase /\ RowsIn(flight[k].ts, s) # {}
    THEN AdvanceWindows(carry[k], SegmentCosts(k, s))
    ELSE Uninitialized

DecodeSegment(s) ==
    /\ s \in pending
    /\ \A t \in pending : s <= t
    /\ carry' = [k \in Keys |-> CarryAfter(k, s)]
    /\ pending' = pending \ {s}
    /\ UNCHANGED <<flight, assigned>>

\* The inner join of the windows with the positions of the final path.
Joined(k, path) == [n \in Windows(k) \cap DOMAIN path |-> path[n]]

AssignedTo(k) ==
    IF k \notin MultiPhase THEN [n \in Windows(k) |-> 0]
    ELSE IF carry[k] = Uninitialized THEN <<>>
    ELSE Joined(k, FinalPath(carry[k]))

AssignPhases ==
    /\ pending = {}
    /\ assigned = NothingAssigned
    /\ assigned' = [k \in Keys |-> AssignedTo(k)]
    /\ UNCHANGED <<flight, pending, carry>>

Next == (\E s \in pending : DecodeSegment(s)) \/ AssignPhases

Spec == Init /\ [][Next]_vars
FairSpec == Spec /\ WF_vars(Next)
-----------------------------------------------------------------------------
Finished == assigned # NothingAssigned

\* The windows of flight k in segments decoded so far.
DecodedWindows(k) ==
    {n \in Windows(k) : SegmentId(flight[k].ts, n) \notin pending}

\* Flight k has windows in every segment id up to its own last one.
Unbroken(k) ==
    \A s \in CollectedIds(MultiStreams) :
        (\E n \in Windows(k) : s <= SegmentId(flight[k].ts, n))
            => RowsIn(flight[k].ts, s) # {}

TypeOK ==
    /\ flight \in [Keys -> Flights]
    /\ pending \subseteq CollectedIds(MultiStreams)
    /\ \A k \in Keys :
        /\ carry[k] # Uninitialized =>
            /\ DOMAIN carry[k].score = DOMAIN flight[k].costs[1]
            /\ DOMAIN carry[k].path = DOMAIN flight[k].costs[1]
        /\ DOMAIN assigned[k] \subseteq Windows(k)

\* While an unbroken flight still has windows to decode, its carry holds for
\* every phase the cheapest monotone path through the windows decoded so far
\* that ends in that phase, and the cost of that path.
CarryIsOptimal ==
    \A k \in MultiPhase :
        Unbroken(k) /\ carry[k] # Uninitialized =>
            LET done == SubSeq(flight[k].costs, 1, Cardinality(DecodedWindows(k)))
            IN  \A p \in DOMAIN carry[k].path :
                    /\ PathCost(done, carry[k].path[p]) = carry[k].score[p]
                    /\ carry[k].path[p] \in MonotonePaths(done)
                    /\ \A other \in MonotonePaths(done) :
                        other[Len(done)] = p =>
                            carry[k].score[p] <= PathCost(done, other)

\* The windows of an unbroken flight are assigned all or not at all, and then
\* the path of phases is optimal among all monotone paths.
AssignmentIsOptimal ==
    \A k \in MultiPhase :
        Finished /\ Unbroken(k) /\ assigned[k] # <<>> =>
            IsOptimal(flight[k].costs, assigned[k])

\* "segment tuning uses these semantics-preserving env overrides", among them
\* S3NTINEL_PHASE_SEGMENT_MAX_ROWS (scripts/README.md:251): the phases are
\* those of the decode of the whole flight, whatever the policy.
SegmentationPreservesPhases ==
    Finished => \A k \in MultiPhase : assigned[k] = Decoded(flight[k].costs)

\* The loop ends, and a flight that reaches the last segment is assigned.
LastSegmentIsAssigned ==
    \A k \in Keys :
        <>(Finished /\
            (k \in MultiPhase =>
                LET last == CHOOSE s \in CollectedIds(MultiStreams) :
                                \A t \in CollectedIds(MultiStreams) : t <= s
                IN  RowsIn(flight[k].ts, last) # {} => assigned[k] # <<>>))
=============================================================================
