------------------------ MODULE EventDetectionProofs ------------------------
(***************************************************************************)
(* Theorems of EventDetection, for all values of the constants.  Both      *)
(* detectors emit a handful of optional events per sample, so the proofs   *)
(* first say once what such an emission adds to the events of a kind       *)
(* (EmittedOnce, OnlyAdds).  EventInv then relates the state of a detector *)
(* to the samples it has read: the categorical state to the last sample,   *)
(* its run, the end of the story and the last guard; the continuous state  *)
(* to the run of the last sample, the last event of each kind and the sums *)
(* of the changes.                                                         *)
(***************************************************************************)
EXTENDS EventDetection, FiniteSetTheorems, TLAPS

Numbers == INSTANCE FoldLemmas WITH Op <- LAMBDA ctx, acc, x : acc

-----------------------------------------------------------------------------
(* What a sample adds to the events.                                        *)

\* The events of S, each once, and no two of a kind.
Emits(out, S) ==
    /\ \A i \in DOMAIN out : out[i] \in S
    /\ \A e \in S : \E i \in DOMAIN out : out[i] = e
    /\ \A i, j \in DOMAIN out : out[i].kind = out[j].kind => i = j

Opt(condition, event) == IF condition THEN <<event>> ELSE <<>>
If(condition, event) == {e \in {event} : condition}

\* An event of another kind may follow.
LEMMA OptionalEmits ==
    ASSUME NEW R, NEW out \in Seq(R), NEW event \in R, NEW condition \in BOOLEAN, NEW S,
           Emits(out, S), condition => \A e \in S : e.kind # event.kind
    PROVE  /\ out \o Opt(condition, event) \in Seq(R)
           /\ Emits(out \o Opt(condition, event), S \cup If(condition, event))
<1>1. CASE condition
  <2> DEFINE more == out \o <<event>>
  <2>1. /\ more \in Seq(R) /\ DOMAIN more = 1..(Len(out) + 1) /\ DOMAIN out = 1..Len(out)
        /\ \A i \in DOMAIN out : more[i] = out[i]
        /\ more[Len(out) + 1] = event /\ Len(out) \in Nat
    OBVIOUS
  <2> HIDE DEF more
  <2>2. If(condition, event) = {event} /\ out \o Opt(condition, event) = more
    BY <1>1 DEF If, Opt, more
  <2>3. \A i \in DOMAIN more : i \in DOMAIN out \/ i = Len(out) + 1
    BY <2>1
  <2>4. \A i \in DOMAIN more : more[i] \in S \cup {event}
    BY <2>1, <2>3 DEF Emits
  <2>5. \A e \in S \cup {event} : \E i \in DOMAIN more : more[i] = e
    BY <2>1 DEF Emits
  <2>6. \A i, j \in DOMAIN more : more[i].kind = more[j].kind => i = j
    BY <1>1, <2>1, <2>3 DEF Emits
  <2>7. QED
    BY <2>1, <2>2, <2>4, <2>5, <2>6 DEF Emits
<1>2. CASE ~condition
  <2>1. If(condition, event) = {} /\ Opt(condition, event) = <<>>
    BY <1>2 DEF If, Opt
  <2>2. out \o <<>> = out
    OBVIOUS
  <2>3. S \cup {} = S
    OBVIOUS
  <2>4. QED
    BY <2>1, <2>2, <2>3
<1>3. QED
  BY <1>1, <1>2

\* Where the events of these kinds stand.
At(es, kinds) == {i \in DOMAIN es : es[i].kind \in kinds}

\* The event at p is the only one of these kinds that is new.
NewAt(es, more, kinds, event, p) ==
    /\ p > Len(es)
    /\ p \in DOMAIN more /\ more[p] = event
    /\ At(more, kinds) = At(es, kinds) \cup {p}

\* No two kinds of S are among these.
Exclusive(S, kinds) ==
    \A x, y \in S : x.kind \in kinds /\ y.kind \in kinds => x.kind = y.kind

\* The events of out are appended.
Joins(R, es, out, more) == es \in Seq(R) /\ out \in Seq(R) /\ more = es \o out

\* Of kinds that exclude each other, what is emitted adds one event or none.
LEMMA EmittedOnce ==
    ASSUME NEW R, NEW es, NEW out, NEW more, Joins(R, es, out, more),
           NEW S, Emits(out, S), NEW kinds, Exclusive(S, kinds)
    PROVE  /\ more \in Seq(R) /\ Len(more) >= Len(es)
           /\ DOMAIN es \subseteq DOMAIN more /\ \A i \in DOMAIN es : more[i] = es[i]
           /\ \A i \in DOMAIN more : i \in DOMAIN es \/ (i > Len(es) /\ more[i] \in S)
           /\ \A e \in S : e.kind \in kinds => \E p \in Nat : NewAt(es, more, kinds, e, p)
           /\ (\A e \in S : e.kind \notin kinds) => At(more, kinds) = At(es, kinds)
<1>1. /\ more \in Seq(R) /\ Len(more) = Len(es) + Len(out)
      /\ Len(es) \in Nat /\ Len(out) \in Nat
      /\ DOMAIN more = 1..(Len(es) + Len(out)) /\ DOMAIN es = 1..Len(es)
      /\ DOMAIN out = 1..Len(out)
  BY DEF Joins
<1>2. \A i \in DOMAIN es : more[i] = es[i]
  BY DEF Joins
<1>3. \A i \in DOMAIN out : more[Len(es) + i] = out[i] /\ Len(es) + i \in DOMAIN more
  BY DEF Joins
<1>4. DOMAIN es \subseteq DOMAIN more
  BY <1>1
<1>5. \A i \in DOMAIN more : i \in DOMAIN es \/ (i > Len(es) /\ i - Len(es) \in DOMAIN out
                                                 /\ more[i] = out[i - Len(es)])
  <2> TAKE i \in DOMAIN more
  <2>1. CASE i <= Len(es)
    BY <1>1, <2>1
  <2>2. CASE i > Len(es)
    <3>1. i - Len(es) \in DOMAIN out /\ Len(es) + (i - Len(es)) = i
      BY <1>1, <2>2
    <3>2. QED
      BY <1>3, <2>2, <3>1
  <2>3. QED
    BY <1>1, <2>1, <2>2
<1>6. ASSUME NEW e \in S, e.kind \in kinds
      PROVE  \E p \in Nat : NewAt(es, more, kinds, e, p)
  <2>1. PICK k \in DOMAIN out : out[k] = e
    BY DEF Emits
  <2>2. PICK p \in DOMAIN more : p = Len(es) + k /\ more[p] = e /\ p > Len(es) /\ p \in Nat
    BY <1>1, <1>3, <2>1
  <2>3. ASSUME NEW i \in DOMAIN more, more[i].kind \in kinds, i \notin DOMAIN es
        PROVE  i = p
    <3>1. PICK j \in DOMAIN out : j = i - Len(es) /\ more[i] = out[j]
      BY <1>5, <2>3
    <3>2. out[j].kind = out[k].kind
      BY <1>6, <2>1, <2>3, <3>1 DEF Emits, Exclusive
    <3>3. j = k
      BY <3>2 DEF Emits
    <3>4. QED
      BY <1>1, <2>2, <3>1, <3>3
  <2>4. At(more, kinds) = At(es, kinds) \cup {p}
    BY <1>2, <1>4, <1>6, <2>2, <2>3 DEF At
  <2>5. QED
    BY <2>2, <2>4 DEF NewAt
<1>7. ASSUME \A e \in S : e.kind \notin kinds
      PROVE  At(more, kinds) = At(es, kinds)
  <2>1. \A i \in DOMAIN more : more[i].kind \in kinds => i \in DOMAIN es
    BY <1>5, <1>7 DEF Emits
  <2>2. QED
    BY <1>2, <1>4, <2>1 DEF At
<1>8. \A i \in DOMAIN more : i \in DOMAIN es \/ (i > Len(es) /\ more[i] \in S)
  <2>1. \A j \in DOMAIN out : out[j] \in S
    BY DEF Emits
  <2>2. QED
    BY <1>5, <2>1
<1>9. QED
  BY <1>1, <1>2, <1>4, <1>6, <1>7, <1>8

-----------------------------------------------------------------------------
(* The events of a categorical sample.                                      *)

Values == States \cup {Null}
CategoricalKinds == {"state_enter", "state_exit", "dropped", "dwell_bucket", "transition",
                     "dwell_violation", "illegal_transition", "dwell_guard"}
CategoricalEvent ==
    [kind : CategoricalKinds, from : Values, to : Values, dwell : Nat, at : Nat]

Moved(kind, v, ts) == Categorical!Event(kind, lastState, v, Categorical!Dwell(ts), ts)

\* The events of a sample, as a set.
CategoricalEmitted(v, ts) ==
    (((((((If(Categorical!Enters(v) /\ EmitStateEnter,
              Categorical!Event("state_enter", Null, v, 0, ts))
      \cup If(Categorical!Drops(v) /\ EmitStateExit /\ lastState # Null,
              Categorical!Event("state_exit", lastState, Null, 0, ts)))
      \cup If(Categorical!Drops(v), Categorical!Event("dropped", lastState, Null, 0, ts)))
      \cup If(Categorical!Moves(v) /\ EmitStateExit, Moved("state_exit", v, ts)))
      \cup If(Categorical!Moves(v) /\ EmitDwellBucket, Moved("dwell_bucket", v, ts)))
      \cup If(Categorical!Moves(v), Moved("transition", v, ts)))
      \cup If(Categorical!Moves(v) /\ MinDwellMs > 0 /\ Categorical!Dwell(ts) < MinDwellMs,
              Moved("dwell_violation", v, ts)))
      \cup If(Categorical!Moves(v) /\ <<lastState, v>> \in IllegalTransitions,
              Moved("illegal_transition", v, ts)))
      \cup If(Categorical!GuardDue(v, ts), Moved("dwell_guard", v, ts))

\* They are what the detector emits.
LEMMA CategoricalEmits ==
    ASSUME NEW v \in Values, NEW ts \in Nat, lastState \in Values,
           Categorical!Dwell(ts) \in Nat
    PROVE  /\ Categorical!Emitted(v, ts) \in Seq(CategoricalEvent)
           /\ Emits(Categorical!Emitted(v, ts), CategoricalEmitted(v, ts))
<1> DEFINE R == CategoricalEvent
           c1 == Categorical!Enters(v) /\ EmitStateEnter
           e1 == Categorical!Event("state_enter", Null, v, 0, ts)
           c2 == Categorical!Drops(v) /\ EmitStateExit /\ lastState # Null
           e2 == Categorical!Event("state_exit", lastState, Null, 0, ts)
           c3 == Categorical!Drops(v)
           e3 == Categorical!Event("dropped", lastState, Null, 0, ts)
           c4 == Categorical!Moves(v) /\ EmitStateExit
           e4 == Moved("state_exit", v, ts)
           c5 == Categorical!Moves(v) /\ EmitDwellBucket
           e5 == Moved("dwell_bucket", v, ts)
           c6 == Categorical!Moves(v)
           e6 == Moved("transition", v, ts)
           c7 == Categorical!Moves(v) /\ MinDwellMs > 0 /\ Categorical!Dwell(ts) < MinDwellMs
           e7 == Moved("dwell_violation", v, ts)
           c8 == Categorical!Moves(v) /\ <<lastState, v>> \in IllegalTransitions
           e8 == Moved("illegal_transition", v, ts)
           c9 == Categorical!GuardDue(v, ts)
           e9 == Moved("dwell_guard", v, ts)
           s1 == If(c1, e1)
           s2 == s1 \cup If(c2, e2)
           s3 == s2 \cup If(c3, e3)
           s4 == s3 \cup If(c4, e4)
           s5 == s4 \cup If(c5, e5)
           s6 == s5 \cup If(c6, e6)
           s7 == s6 \cup If(c7, e7)
           s8 == s7 \cup If(c8, e8)
           s9 == s8 \cup If(c9, e9)
<1>1. /\ e1 \in R /\ e2 \in R /\ e3 \in R
      /\ e1.kind = "state_enter" /\ e2.kind = "state_exit" /\ e3.kind = "dropped"
  BY DEF Categorical!Event, CategoricalEvent, CategoricalKinds, Values
<1>2. \A kind \in CategoricalKinds : Moved(kind, v, ts) \in R /\ Moved(kind, v, ts).kind = kind
  BY DEF Moved, Categorical!Event, CategoricalEvent, Values
<1>3. /\ e4 \in R /\ e5 \in R /\ e6 \in R /\ e7 \in R /\ e8 \in R /\ e9 \in R
      /\ e4.kind = "state_exit" /\ e5.kind = "dwell_bucket" /\ e6.kind = "transition"
      /\ e7.kind = "dwell_violation" /\ e8.kind = "illegal_transition"
      /\ e9.kind = "dwell_guard"
  BY <1>2 DEF CategoricalKinds
<1>4. /\ c1 \in BOOLEAN /\ c2 \in BOOLEAN /\ c3 \in BOOLEAN /\ c4 \in BOOLEAN /\ c5 \in BOOLEAN
      /\ c6 \in BOOLEAN /\ c7 \in BOOLEAN /\ c8 \in BOOLEAN /\ c9 \in BOOLEAN
  BY DEF Categorical!Enters, Categorical!Drops, Categorical!Moves, Categorical!GuardDue
<1>5. ~(c2 /\ c4)
  BY DEF Categorical!Drops, Categorical!Moves
<1>6. Categorical!Emitted(v, ts) =
          (((((((Opt(c1, e1) \o Opt(c2, e2)) \o Opt(c3, e3)) \o Opt(c4, e4)) \o Opt(c5, e5))
            \o Opt(c6, e6)) \o Opt(c7, e7)) \o Opt(c8, e8)) \o Opt(c9, e9)
  BY DEF Categorical!Emitted, Categorical!Optional, Opt, Moved
<1>7. s9 = CategoricalEmitted(v, ts)
  BY DEF CategoricalEmitted
<1> HIDE DEF c1, c2, c3, c4, c5, c6, c7, c8, c9, e1, e2, e3, e4, e5, e6, e7, e8, e9, R
<1> DEFINE o1 == Opt(c1, e1)
           o2 == o1 \o Opt(c2, e2)
           o3 == o2 \o Opt(c3, e3)
           o4 == o3 \o Opt(c4, e4)
           o5 == o4 \o Opt(c5, e5)
           o6 == o5 \o Opt(c6, e6)
           o7 == o6 \o Opt(c7, e7)
           o8 == o7 \o Opt(c8, e8)
           o9 == o8 \o Opt(c9, e9)
<1>10. o9 = Categorical!Emitted(v, ts)
  BY <1>6
<1>11. o1 \in Seq(R) /\ Emits(o1, s1)
  BY <1>1, <1>4 DEF Opt, If, Emits
<1>12. \A e \in s1 : e.kind = "state_enter"
  BY <1>1 DEF If
<1> HIDE DEF o1, s1
<1>13. o2 \in Seq(R) /\ Emits(o2, s2)
  BY <1>1, <1>4, <1>11, <1>12, OptionalEmits
<1>14. \A e \in s2 : e.kind = "state_enter" \/ (e.kind = "state_exit" /\ c2)
  BY <1>1, <1>12 DEF If
<1> HIDE DEF o2, s2
<1>15. o3 \in Seq(R) /\ Emits(o3, s3)
  BY <1>1, <1>4, <1>13, <1>14, OptionalEmits
<1>16. \A e \in s3 : e.kind \in {"state_enter", "dropped"} \/ (e.kind = "state_exit" /\ c2)
  BY <1>1, <1>14 DEF If
<1> HIDE DEF o3, s3
<1>17. o4 \in Seq(R) /\ Emits(o4, s4)
  BY <1>3, <1>4, <1>5, <1>15, <1>16, OptionalEmits
<1>18. \A e \in s4 : e.kind \in {"state_enter", "dropped", "state_exit"}
  BY <1>3, <1>16 DEF If
<1> HIDE DEF o4, s4
<1>19. o5 \in Seq(R) /\ Emits(o5, s5)
  BY <1>3, <1>4, <1>17, <1>18, OptionalEmits
<1>20. \A e \in s5 : e.kind \in {"state_enter", "dropped", "state_exit", "dwell_bucket"}
  BY <1>3, <1>18 DEF If
<1> HIDE DEF o5, s5
<1>21. o6 \in Seq(R) /\ Emits(o6, s6)
  BY <1>3, <1>4, <1>19, <1>20, OptionalEmits
<1>22. \A e \in s6 :
          e.kind \in {"state_enter", "dropped", "state_exit", "dwell_bucket", "transition"}
  BY <1>3, <1>20 DEF If
<1> HIDE DEF o6, s6
<1>23. o7 \in Seq(R) /\ Emits(o7, s7)
  BY <1>3, <1>4, <1>21, <1>22, OptionalEmits
<1>24. \A e \in s7 : e.kind \in {"state_enter", "dropped", "state_exit", "dwell_bucket",
                                  "transition", "dwell_violation"}
  BY <1>3, <1>22 DEF If
<1> HIDE DEF o7, s7
<1>25. o8 \in Seq(R) /\ Emits(o8, s8)
  BY <1>3, <1>4, <1>23, <1>24, OptionalEmits
<1>26. \A e \in s8 : e.kind \in {"state_enter", "dropped", "state_exit", "dwell_bucket",
                                  "transition", "dwell_violation", "illegal_transition"}
  BY <1>3, <1>24 DEF If
<1> HIDE DEF o8, s8
<1>27. o9 \in Seq(R) /\ Emits(o9, s9)
  BY <1>3, <1>4, <1>25, <1>26, OptionalEmits
<1>28. QED
  BY <1>7, <1>10, <1>27 DEF R

\* Of these kinds S has event, if the condition holds, and no other.
Only(S, kinds, condition, event) ==
    /\ condition => event \in S /\ event.kind \in kinds
    /\ \A e \in S : e.kind \in kinds => condition /\ e = event

\* One event of these kinds is added, if the condition holds, and no other.
Adds(es, more, kinds, condition, event) ==
    /\ condition => \E p \in Nat : NewAt(es, more, kinds, event, p)
    /\ ~condition => At(more, kinds) = At(es, kinds)

\* The only events of these kinds are the ones added.
LEMMA OnlyAdds ==
    ASSUME NEW R, NEW es, NEW out, NEW more, Joins(R, es, out, more),
           NEW S, Emits(out, S), NEW kinds, NEW condition, NEW event,
           Only(S, kinds, condition, event)
    PROVE  Adds(es, more, kinds, condition, event)
<1>1. Exclusive(S, kinds)
  BY DEF Only, Exclusive
<1>2. \A e \in S : e.kind \in kinds => \E p \in Nat : NewAt(es, more, kinds, e, p)
  BY <1>1, EmittedOnce
<1>3. (\A e \in S : e.kind \notin kinds) => At(more, kinds) = At(es, kinds)
  BY <1>1, EmittedOnce
<1>4. condition => \E p \in Nat : NewAt(es, more, kinds, event, p)
  BY <1>2 DEF Only
<1>5. ~condition => \A e \in S : e.kind \notin kinds
  BY DEF Only
<1>6. QED
  BY <1>3, <1>4, <1>5 DEF Adds

\* Which events of which kinds a sample of value v at ts has.
LEMMA CategoricalOnly ==
    ASSUME NEW v \in Values, NEW ts, NEW S, S = CategoricalEmitted(v, ts)
    PROVE  /\ Only(S, {"transition"}, Categorical!Moves(v), Moved("transition", v, ts))
           /\ Only(S, {"state_enter"}, Categorical!Enters(v) /\ EmitStateEnter,
                   Categorical!Event("state_enter", Null, v, 0, ts))
           /\ Only(S, {"dropped"}, Categorical!Drops(v),
                   Categorical!Event("dropped", lastState, Null, 0, ts))
           /\ Only(S, {"dwell_guard"}, Categorical!GuardDue(v, ts), Moved("dwell_guard", v, ts))
           /\ EmitStateExit => \E e :
                Only(S, {"state_exit"}, (Categorical!Drops(v) /\ lastState # Null)
                                            \/ Categorical!Moves(v), e)
<1> DEFINE Ev(kind, from, dwell) == Categorical!Event(kind, from, v, dwell, ts)
<1>1. \A e : e \in S <=>
         \/ Categorical!Enters(v) /\ EmitStateEnter
              /\ e = Categorical!Event("state_enter", Null, v, 0, ts)
         \/ Categorical!Drops(v) /\ EmitStateExit /\ lastState # Null
              /\ e = Categorical!Event("state_exit", lastState, Null, 0, ts)
         \/ Categorical!Drops(v) /\ e = Categorical!Event("dropped", lastState, Null, 0, ts)
         \/ Categorical!Moves(v) /\ EmitStateExit /\ e = Moved("state_exit", v, ts)
         \/ Categorical!Moves(v) /\ EmitDwellBucket /\ e = Moved("dwell_bucket", v, ts)
         \/ Categorical!Moves(v) /\ e = Moved("transition", v, ts)
         \/ Categorical!Moves(v) /\ MinDwellMs > 0 /\ Categorical!Dwell(ts) < MinDwellMs
              /\ e = Moved("dwell_violation", v, ts)
         \/ Categorical!Moves(v) /\ <<lastState, v>> \in IllegalTransitions
              /\ e = Moved("illegal_transition", v, ts)
         \/ Categorical!GuardDue(v, ts) /\ e = Moved("dwell_guard", v, ts)
  BY DEF CategoricalEmitted, If
<1>2. \A kind : Moved(kind, v, ts).kind = kind
  BY DEF Moved, Categorical!Event
<1>3. \A kind, from, to : Categorical!Event(kind, from, to, 0, ts).kind = kind
  BY DEF Categorical!Event
<1>4. ~(Categorical!Drops(v) /\ Categorical!Moves(v))
  BY DEF Categorical!Drops, Categorical!Moves
<1> HIDE DEF Ev
<1>5. Only(S, {"transition"}, Categorical!Moves(v), Moved("transition", v, ts))
  BY <1>1, <1>2, <1>3 DEF Only
<1>6. Only(S, {"state_enter"}, Categorical!Enters(v) /\ EmitStateEnter,
           Categorical!Event("state_enter", Null, v, 0, ts))
  BY <1>1, <1>2, <1>3 DEF Only
<1>7. Only(S, {"dropped"}, Categorical!Drops(v),
           Categorical!Event("dropped", lastState, Null, 0, ts))
  BY <1>1, <1>2, <1>3 DEF Only
<1>8. Only(S, {"dwell_guard"}, Categorical!GuardDue(v, ts), Moved("dwell_guard", v, ts))
  BY <1>1, <1>2, <1>3 DEF Only
<1>9. ASSUME EmitStateExit
      PROVE  \E e : Only(S, {"state_exit"}, (Categorical!Drops(v) /\ lastState # Null)
                                                \/ Categorical!Moves(v), e)
  <2> DEFINE e1 == Categorical!Event("state_exit", lastState, Null, 0, ts)
             e2 == Moved("state_exit", v, ts)
             e == IF Categorical!Moves(v) THEN e2 ELSE e1
  <2>1. e1.kind = "state_exit" /\ e2.kind = "state_exit"
    BY <1>2, <1>3
  <2>2. Categorical!Moves(v) => e = e2 /\ e2 \in S
    BY <1>1, <1>9
  <2>3. Categorical!Drops(v) /\ lastState # Null => e = e1 /\ e1 \in S
    BY <1>1, <1>4, <1>9
  <2>4. \A x \in S : x.kind = "state_exit" =>
           (Categorical!Moves(v) /\ x = e2) \/ (Categorical!Drops(v) /\ lastState # Null /\ x = e1)
    <3> HIDE DEF e, e1, e2
    <3>1. \A x \in S : x = e1 \/ x = e2 \/ x.kind # "state_exit"
      BY <1>1, <1>2, <1>3 DEF e1, e2
    <3>2. QED
      BY <1>1, <1>2, <1>3 DEF e1, e2
  <2> HIDE DEF e, e1, e2
  <2>5. Only(S, {"state_exit"}, (Categorical!Drops(v) /\ lastState # Null)
                                    \/ Categorical!Moves(v), e)
    BY <1>4, <2>1, <2>2, <2>3, <2>4 DEF Only, e
  <2>6. QED
    BY <2>5
<1>10. QED
  BY <1>5, <1>6, <1>7, <1>8, <1>9

\* A sample has a story to tell if its value is not that of the sample before it.
Tells(v) == Categorical!Enters(v) \/ Categorical!Drops(v) \/ Categorical!Moves(v)

\* It is told by one event, from the last state to the value.
LEMMA StoryOnly ==
    ASSUME NEW v \in Values, NEW ts, NEW S, S = CategoricalEmitted(v, ts), EmitStateEnter
    PROVE  \E e : /\ Only(S, Categorical!Story, Tells(v), e)
                  /\ e.to = v
                  /\ e.from = IF Categorical!Enters(v) THEN Null ELSE lastState
                  /\ Tells(v) => (e.kind = "dropped" <=> v = Null)
<1> DEFINE e1 == Categorical!Event("state_enter", Null, v, 0, ts)
           e2 == Categorical!Event("dropped", lastState, v, 0, ts)
           e3 == Moved("transition", v, ts)
           e == IF Categorical!Enters(v) THEN e1
                ELSE IF Categorical!Drops(v) THEN e2 ELSE e3
<1>1. /\ e1.kind = "state_enter" /\ e1.from = Null /\ e1.to = v
      /\ e2.kind = "dropped" /\ e2.from = lastState /\ e2.to = v
      /\ e3.kind = "transition" /\ e3.from = lastState /\ e3.to = v
  BY DEF Moved, Categorical!Event
<1>2. /\ Categorical!Drops(v) => v = Null
      /\ Categorical!Enters(v) => v # Null
      /\ Categorical!Moves(v) => v # Null /\ ~Categorical!Enters(v)
  BY DEF Categorical!Drops, Categorical!Enters, Categorical!Moves
<1>3. /\ Only(S, {"transition"}, Categorical!Moves(v), e3)
      /\ Only(S, {"state_enter"}, Categorical!Enters(v) /\ EmitStateEnter, e1)
  BY CategoricalOnly
<1>4. Only(S, {"dropped"}, Categorical!Drops(v),
           Categorical!Event("dropped", lastState, Null, 0, ts))
  BY CategoricalOnly
<1>5. Categorical!Drops(v) => e2 = Categorical!Event("dropped", lastState, Null, 0, ts)
  BY <1>2
<1> HIDE DEF e1, e2, e3
<1>6. /\ Categorical!Enters(v) => e = e1 /\ e1 \in S
      /\ Categorical!Drops(v) => e = e2 /\ e2 \in S
      /\ Categorical!Moves(v) => e = e3 /\ e3 \in S
  BY <1>2, <1>3, <1>4, <1>5 DEF Only
<1>7. ASSUME NEW x \in S, x.kind \in Categorical!Story
      PROVE  Tells(v) /\ x = e
  <2>1. CASE x.kind = "state_enter"
    BY <1>3, <1>6, <2>1 DEF Only, Tells
  <2>2. CASE x.kind = "transition"
    BY <1>3, <1>6, <2>2 DEF Only, Tells
  <2>3. CASE x.kind = "dropped"
    BY <1>4, <1>5, <1>6, <2>3 DEF Only, Tells
  <2>4. QED
    BY <1>7, <2>1, <2>2, <2>3 DEF Categorical!Story
<1>8. Tells(v) => e \in S /\ e.kind \in Categorical!Story
  BY <1>1, <1>6 DEF Tells, Categorical!Story
<1>9. Only(S, Categorical!Story, Tells(v), e)
  BY <1>7, <1>8 DEF Only
<1>10. e.to = v /\ e.from = IF Categorical!Enters(v) THEN Null ELSE lastState
  BY <1>1
<1>11. Tells(v) => (e.kind = "dropped" <=> v = Null)
  BY <1>1, <1>2, <1>6 DEF Tells
<1> HIDE DEF e
<1>12. QED
  BY <1>9, <1>10, <1>11

-----------------------------------------------------------------------------
(* Runs of equal samples.                                                   *)

\* A set of the first numbers that is not empty has a greatest.
LEMMA GreatestElement ==
    ASSUME NEW n \in Nat, NEW T \in SUBSET (1..n), T # {}
    PROVE  \E m \in T : \A k \in T : k <= m
<1> DEFINE U == {k \in Nat : k <= n /\ n - k \in T}
<1>1. PICK m \in T : TRUE
  OBVIOUS
<1>2. n - m \in U
  <2>1. m \in 1..n
    BY <1>1
  <2>2. n - m \in Nat /\ n - m <= n /\ n - (n - m) = m
    BY <2>1
  <2>3. QED
    BY <1>1, <2>2
<1>3. PICK u \in U : \A k \in U : u <= k
  BY <1>2, Numbers!LeastElement
<1>4. n - u \in T /\ u \in Nat
  BY <1>3
<1>5. ASSUME NEW k \in T
      PROVE  k <= n - u
  <2>1. k \in 1..n
    OBVIOUS
  <2>2. n - k \in Nat /\ n - k <= n /\ n - (n - k) = k
    BY <2>1
  <2>3. n - k \in U
    BY <2>2
  <2>4. u <= n - k
    BY <1>3, <2>3
  <2>5. QED
    BY <1>4, <2>1, <2>4
<1>6. QED
  BY <1>4, <1>5

Starts(ss, m) == m = 1 \/ ss[m - 1].value # ss[m].value

\* m is where the run of sample n begins.
Begins(ss, n, m) == Starts(ss, m) /\ \A i \in (m + 1)..n : ~Starts(ss, i)
RunAt(ss, n) == CHOOSE m \in 1..n : Begins(ss, n, m)

\* There is one such sample.
LEMMA RunAtIs ==
    ASSUME NEW ss, NEW n \in Nat \ {0}
    PROVE  /\ RunAt(ss, n) \in 1..n /\ Begins(ss, n, RunAt(ss, n))
           /\ \A m \in 1..n : Begins(ss, n, m) => RunAt(ss, n) = m
<1> DEFINE T == {m \in 1..n : Starts(ss, m)}
<1>1. T \in SUBSET (1..n) /\ 1 \in T
  BY DEF Starts
<1>2. PICK m \in T : \A k \in T : k <= m
  BY <1>1, GreatestElement
<1>3. m \in 1..n /\ Starts(ss, m)
  BY <1>2
<1>4. ASSUME NEW i \in (m + 1)..n, Starts(ss, i)
      PROVE  FALSE
  <2>1. i \in 1..n /\ i > m
    BY <1>3
  <2>2. i \in T
    BY <1>4, <2>1
  <2>3. QED
    BY <1>2, <1>3, <2>1, <2>2
<1>5. Begins(ss, n, m)
  BY <1>3, <1>4 DEF Begins
<1>6. \E k \in 1..n : Begins(ss, n, k)
  BY <1>3, <1>5
<1>7. RunAt(ss, n) \in 1..n /\ Begins(ss, n, RunAt(ss, n))
  BY <1>6 DEF RunAt
<1>8. ASSUME NEW j \in 1..n, NEW k \in 1..n, Begins(ss, n, j), Begins(ss, n, k)
      PROVE  j = k
  <2>1. ~(j < k)
    <3>1. j < k => k \in (j + 1)..n
      OBVIOUS
    <3>2. QED
      BY <1>8, <3>1 DEF Begins
  <2>2. ~(k < j)
    <3>1. k < j => j \in (k + 1)..n
      OBVIOUS
    <3>2. QED
      BY <1>8, <3>1 DEF Begins
  <2>3. QED
    BY <2>1, <2>2
<1>9. QED
  BY <1>7, <1>8

\* A sample more is a run of its own, or goes on with the last one.
LEMMA RunAtMore ==
    ASSUME NEW ss, NEW more, NEW n \in Nat \ {0}, \A i \in 1..n : more[i] = ss[i]
    PROVE  /\ RunAt(more, n) = RunAt(ss, n)
           /\ RunAt(more, n + 1) = IF more[n + 1].value = more[n].value
                                   THEN RunAt(ss, n) ELSE n + 1
<1>1. \A m \in 1..n : Starts(more, m) <=> Starts(ss, m)
  <2> TAKE m \in 1..n
  <2>1. m # 1 => m - 1 \in 1..n
    OBVIOUS
  <2>2. QED
    BY <2>1 DEF Starts
<1>2. PICK m : m = RunAt(ss, n)
  OBVIOUS
<1>3. m \in 1..n /\ Begins(ss, n, m)
  BY <1>2, RunAtIs
<1>4. \A i \in (m + 1)..n : i \in 1..n
  BY <1>3
<1>5. Begins(more, n, m)
  BY <1>1, <1>3, <1>4 DEF Begins
<1>6. RunAt(more, n) = m
  BY <1>3, <1>5, RunAtIs
<1>7. n + 1 \in Nat \ {0} /\ m \in 1..(n + 1) /\ n + 1 \in 1..(n + 1) /\ (n + 1) - 1 = n
  BY <1>3
<1>8. Starts(more, n + 1) <=> more[n + 1].value # more[n].value
  BY <1>7 DEF Starts
<1>9. CASE more[n + 1].value = more[n].value
  <2>1. \A i \in (m + 1)..(n + 1) : i \in (m + 1)..n \/ i = n + 1
    BY <1>3
  <2>2. Begins(more, n + 1, m)
    BY <1>5, <1>8, <1>9, <2>1 DEF Begins
  <2>3. RunAt(more, n + 1) = m
    BY <1>7, <2>2, RunAtIs
  <2>4. QED
    BY <1>2, <1>6, <1>9, <2>3
<1>10. CASE more[n + 1].value # more[n].value
  <2>1. (n + 1 + 1)..(n + 1) = {}
    OBVIOUS
  <2>2. Begins(more, n + 1, n + 1)
    BY <1>8, <1>10, <2>1 DEF Begins
  <2>3. RunAt(more, n + 1) = n + 1
    BY <1>7, <2>2, RunAtIs
  <2>4. QED
    BY <1>2, <1>6, <1>10, <2>3
<1>11. QED
  BY <1>9, <1>10

\* It is the sample that the reference takes.
LEMMA SinceIs ==
    ASSUME NEW n
    PROVE  Categorical!RunSince(n) = samples[RunAt(samples, n)].ts
  BY DEF Categorical!RunSince, Categorical!RunStart, Categorical!Value, RunAt, Begins, Starts

-----------------------------------------------------------------------------
(* A sample of the categorical detector.                                    *)

CategoricalSample == [ts : Nat, value : Values]

\* The state is that of the last sample.
CategoricalIs ==
    /\ samples \in Seq(CategoricalSample) /\ events \in Seq(CategoricalEvent)
    /\ \A i, j \in DOMAIN samples : i <= j => samples[i].ts <= samples[j].ts
    /\ lastDwellGuardTs \in Nat \cup {Null} /\ missing \in BOOLEAN
    /\ samples = <<>> => lastState = Null /\ lastStateTs = Null /\ lastDwellGuardTs = Null
                            /\ ~missing /\ events = <<>>
    /\ samples # <<>> =>
          /\ lastState = samples[Len(samples)].value
          /\ lastStateTs \in Nat /\ lastStateTs <= samples[Len(samples)].ts
          /\ missing <=> lastState = Null
          /\ lastState # Null => lastStateTs = samples[RunAt(samples, Len(samples))].ts

\* What a sample of value v at ts finds.
Meets(v, ts) ==
    /\ v \in Values /\ ts \in Nat /\ Categorical!Now \in Nat /\ Categorical!Now <= ts
    /\ Categorical!Sample(v, ts)

\* A step of the detector meets a sample.
LEMMA NextMeets ==
    ASSUME CategoricalIs, Categorical!Next
    PROVE  \E v, ts : Meets(v, ts)
<1>1. PICK v \in Values, dt \in Steps : Categorical!Sample(v, Categorical!Now + dt)
  BY DEF Categorical!Next, Values
<1>2. dt \in Nat
  BY CategoricalAssumption
<1>3. Categorical!Now \in Nat
  <2>1. CASE samples = <<>>
    BY <2>1 DEF Categorical!Now
  <2>2. CASE samples # <<>>
    <3>1. Categorical!Now = samples[Len(samples)].ts /\ Len(samples) \in DOMAIN samples
      BY <2>2 DEF Categorical!Now, Categorical!Last, CategoricalIs
    <3>2. samples[Len(samples)] \in CategoricalSample
      BY <3>1 DEF CategoricalIs
    <3>3. QED
      BY <3>1, <3>2 DEF CategoricalSample
  <2>3. QED
    BY <2>1, <2>2
<1>4. Categorical!Now + dt \in Nat /\ Categorical!Now <= Categorical!Now + dt
  BY <1>2, <1>3
<1>5. QED
  BY <1>1, <1>3, <1>4 DEF Meets

\* The samples are those before and one more.
LEMMA SamplesMore ==
    ASSUME CategoricalIs, NEW v, NEW ts, Meets(v, ts)
    PROVE  /\ samples' \in Seq(CategoricalSample) /\ Len(samples) \in Nat
           /\ Len(samples') = Len(samples) + 1
           /\ DOMAIN samples = 1..Len(samples) /\ DOMAIN samples' = 1..(Len(samples) + 1)
           /\ \A i \in 1..Len(samples) : samples'[i] = samples[i]
           /\ samples'[Len(samples) + 1].ts = ts /\ samples'[Len(samples) + 1].value = v
<1>1. samples' = Append(samples, [ts |-> ts, value |-> v])
  BY DEF Meets, Categorical!Sample
<1>2. [ts |-> ts, value |-> v] \in CategoricalSample /\ samples \in Seq(CategoricalSample)
  BY DEF Meets, CategoricalSample, CategoricalIs
<1>3. QED
  BY <1>1, <1>2

\* Nothing has been read after ts.
LEMMA NowIsLast ==
    ASSUME CategoricalIs, NEW v, NEW ts, Meets(v, ts)
    PROVE  /\ \A i \in DOMAIN samples : samples[i].ts \in Nat /\ samples[i].ts <= ts
                                          /\ samples[i].value \in Values
           /\ samples # <<>> => lastStateTs \in Nat /\ lastStateTs <= ts /\ lastStateTs # Null
           /\ Categorical!Dwell(ts) \in Nat
           /\ lastState \in Values
           /\ samples # <<>> => Len(samples) \in DOMAIN samples
                                  /\ Categorical!Now = samples[Len(samples)].ts
<1>1. samples \in Seq(CategoricalSample) /\ ts \in Nat /\ Categorical!Now <= ts
  BY DEF CategoricalIs, Meets
<1>2. ASSUME samples # <<>>
      PROVE  Len(samples) \in DOMAIN samples /\ Categorical!Now = samples[Len(samples)].ts
  BY <1>1, <1>2 DEF Categorical!Now, Categorical!Last
<1>3. ASSUME NEW i \in DOMAIN samples
      PROVE  samples[i].ts \in Nat /\ samples[i].ts <= ts /\ samples[i].value \in Values
  <2>1. samples # <<>> /\ i <= Len(samples)
    BY <1>1
  <2>2. samples[i].ts <= samples[Len(samples)].ts
    BY <1>2, <2>1 DEF CategoricalIs
  <2>3. samples[i] \in CategoricalSample /\ samples[Len(samples)] \in CategoricalSample
    BY <1>1, <1>2, <2>1
  <2>4. QED
    BY <1>1, <1>2, <2>1, <2>2, <2>3 DEF CategoricalSample
<1>4. ASSUME samples # <<>>
      PROVE  lastStateTs \in Nat /\ lastStateTs <= ts /\ lastStateTs # Null
  <2>1. lastStateTs \in Nat /\ lastStateTs <= samples[Len(samples)].ts
    BY <1>4 DEF CategoricalIs
  <2>2. QED
    BY <1>1, <1>2, <1>3, <1>4, <2>1, CategoricalAssumption
<1>5. Categorical!Dwell(ts) \in Nat
  <2>1. CASE samples = <<>>
    BY <2>1 DEF CategoricalIs, Categorical!Dwell
  <2>2. CASE samples # <<>>
    BY <1>1, <1>4, <2>2 DEF Categorical!Dwell
  <2>3. QED
    BY <2>1, <2>2
<1>6. lastState \in Values
  BY <1>2, <1>3 DEF CategoricalIs, Values
<1>7. QED
  BY <1>2, <1>3, <1>4, <1>5, <1>6

\* The events are those before and what the sample emits.
LEMMA EventsMore ==
    ASSUME CategoricalIs, NEW v, NEW ts, Meets(v, ts)
    PROVE  /\ Joins(CategoricalEvent, events, Categorical!Emitted(v, ts), events')
           /\ Emits(Categorical!Emitted(v, ts), CategoricalEmitted(v, ts))
           /\ events' \in Seq(CategoricalEvent)
<1>1. v \in Values /\ ts \in Nat /\ events' = events \o Categorical!Emitted(v, ts)
  BY DEF Meets, Categorical!Sample
<1>2. lastState \in Values /\ Categorical!Dwell(ts) \in Nat
  BY NowIsLast
<1>3. /\ Categorical!Emitted(v, ts) \in Seq(CategoricalEvent)
      /\ Emits(Categorical!Emitted(v, ts), CategoricalEmitted(v, ts))
  BY <1>1, <1>2, CategoricalEmits
<1>4. events \in Seq(CategoricalEvent)
  BY DEF CategoricalIs
<1>5. QED
  BY <1>1, <1>3, <1>4 DEF Joins

\* Where the run of the sample read begins.
LEMMA RunMore ==
    ASSUME CategoricalIs, NEW v, NEW ts, Meets(v, ts)
    PROVE  /\ \A n \in DOMAIN samples : RunAt(samples', n) = RunAt(samples, n)
           /\ RunAt(samples', Len(samples) + 1) =
                IF samples # <<>> /\ v = lastState THEN RunAt(samples, Len(samples))
                ELSE Len(samples) + 1
<1>1. /\ Len(samples) \in Nat /\ DOMAIN samples = 1..Len(samples)
      /\ \A i \in 1..Len(samples) : samples'[i] = samples[i]
      /\ samples'[Len(samples) + 1].value = v
      /\ samples \in Seq(CategoricalSample)
  BY SamplesMore DEF CategoricalIs
<1>2. ASSUME NEW n \in DOMAIN samples
      PROVE  RunAt(samples', n) = RunAt(samples, n)
  <2>1. n \in Nat \ {0} /\ \A i \in 1..n : samples'[i] = samples[i]
    BY <1>1
  <2>2. QED
    BY <2>1, RunAtMore
<1>3. CASE samples = <<>>
  <2>1. Len(samples) + 1 = 1
    BY <1>3
  <2>2. 1 \in Nat \ {0}
    OBVIOUS
  <2>3. RunAt(samples', 1) \in 1..1
    BY <2>2, RunAtIs
  <2>4. QED
    BY <1>2, <1>3, <2>1, <2>3
<1>4. CASE samples # <<>>
  <2>1. Len(samples) \in Nat \ {0} /\ Len(samples) \in 1..Len(samples)
    BY <1>1, <1>4
  <2>2. samples'[Len(samples)].value = lastState
    BY <1>1, <1>4, <2>1 DEF CategoricalIs
  <2>3. PICK n \in Nat \ {0} : n = Len(samples)
    BY <2>1
  <2>4. \A i \in 1..n : samples'[i] = samples[i]
    BY <1>1, <2>3
  <2>5. RunAt(samples', n + 1) =
          IF samples'[n + 1].value = samples'[n].value THEN RunAt(samples, n) ELSE n + 1
    BY <2>4, RunAtMore
  <2>6. samples'[n + 1].value = v /\ samples'[n].value = lastState
    BY <1>1, <2>2, <2>3
  <2>7. RunAt(samples', n + 1) = IF v = lastState THEN RunAt(samples, n) ELSE n + 1
    BY <2>5, <2>6
  <2>8. QED
    BY <1>2, <1>4, <2>3, <2>7
<1>5. QED
  BY <1>3, <1>4

\* The state after a sample is that of the sample.
LEMMA CategoricalStep ==
    ASSUME CategoricalIs, NEW v, NEW ts, Meets(v, ts)
    PROVE  CategoricalIs'
<1> DEFINE n == Len(samples)
<1>1. /\ samples' \in Seq(CategoricalSample) /\ n \in Nat /\ Len(samples') = n + 1
      /\ DOMAIN samples = 1..n /\ DOMAIN samples' = 1..(n + 1)
      /\ \A i \in 1..n : samples'[i] = samples[i]
      /\ samples'[n + 1].ts = ts /\ samples'[n + 1].value = v
  BY SamplesMore
<1>2. /\ \A i \in 1..n : samples[i].ts \in Nat /\ samples[i].ts <= ts
      /\ samples # <<>> => lastStateTs \in Nat /\ lastStateTs <= ts /\ lastStateTs # Null
      /\ ts \in Nat /\ v \in Values
  BY <1>1, NowIsLast DEF Meets
<1>3. events' \in Seq(CategoricalEvent)
  BY EventsMore
<1>4. samples' # <<>>
  BY <1>1
<1>5. /\ lastState' = v /\ lastStateTs' = Categorical!StateTsAfter(v, ts)
      /\ lastDwellGuardTs' = Categorical!GuardTsAfter(v, ts) /\ missing' = (v = Null)
  BY DEF Meets, Categorical!Sample, Categorical!StateAfter
<1>6. ASSUME NEW i \in DOMAIN samples', NEW j \in DOMAIN samples', i <= j
      PROVE  samples'[i].ts <= samples'[j].ts
  <2>1. CASE j = n + 1
    <3>1. i = n + 1 \/ i \in 1..n
      BY <1>1
    <3>2. QED
      BY <1>1, <1>2, <2>1, <3>1
  <2>2. CASE j # n + 1
    <3>1. i \in 1..n /\ j \in 1..n
      BY <1>1, <1>6, <2>2
    <3>2. samples[i].ts <= samples[j].ts
      BY <1>1, <1>6, <3>1 DEF CategoricalIs
    <3>3. QED
      BY <1>1, <3>1, <3>2
  <2>3. QED
    BY <2>1, <2>2
<1>7. lastDwellGuardTs' \in Nat \cup {Null} /\ missing' \in BOOLEAN
  BY <1>2, <1>5 DEF Categorical!GuardTsAfter, CategoricalIs
<1>8. lastState' = samples'[Len(samples')].value /\ (missing' <=> lastState' = Null)
  BY <1>1, <1>5
<1>9. lastStateTs' \in Nat /\ lastStateTs' <= samples'[Len(samples')].ts
  <2>1. CASE samples = <<>>
    <3>1. v = Null \/ Categorical!Enters(v)
      BY <2>1 DEF Categorical!Enters, CategoricalIs
    <3>2. QED
      BY <1>1, <1>2, <1>5, <3>1 DEF Categorical!StateTsAfter
  <2>2. CASE samples # <<>>
    BY <1>1, <1>2, <1>5, <2>2 DEF Categorical!StateTsAfter
  <2>3. QED
    BY <2>1, <2>2
<1>10. ASSUME lastState' # Null
       PROVE  lastStateTs' = samples'[RunAt(samples', Len(samples'))].ts
  <2>1. v # Null
    BY <1>5, <1>10
  <2>2. RunAt(samples', n + 1) =
          IF samples # <<>> /\ v = lastState THEN RunAt(samples, n) ELSE n + 1
    BY RunMore
  <2>3. CASE samples # <<>> /\ v = lastState
    <3>1. lastStateTs' = lastStateTs
      BY <1>5, <2>1, <2>3
         DEF Categorical!StateTsAfter, Categorical!Enters, Categorical!Moves, CategoricalIs
    <3>2. lastStateTs = samples[RunAt(samples, n)].ts
      BY <2>1, <2>3 DEF CategoricalIs
    <3>3. n \in Nat \ {0}
      BY <1>1, <2>3 DEF CategoricalIs
    <3>4. RunAt(samples, n) \in 1..n
      BY <3>3, RunAtIs
    <3>5. QED
      BY <1>1, <2>2, <2>3, <3>1, <3>2, <3>4
  <2>4. CASE ~(samples # <<>> /\ v = lastState)
    <3>1. Categorical!Enters(v) \/ Categorical!Moves(v)
      BY <2>1, <2>4 DEF Categorical!Enters, Categorical!Moves, CategoricalIs
    <3>2. QED
      BY <1>1, <1>5, <2>2, <2>4, <3>1 DEF Categorical!StateTsAfter
  <2>5. QED
    BY <2>3, <2>4
<1> HIDE DEF n
<1>11. QED
  BY <1>1, <1>3, <1>4, <1>6, <1>7, <1>8, <1>9, <1>10 DEF CategoricalIs

\* The events before a sample stay, and those of the sample come after them.
LEMMA EventsStay ==
    ASSUME CategoricalIs, NEW v, NEW ts, Meets(v, ts)
    PROVE  /\ DOMAIN events = 1..Len(events) /\ Len(events) \in Nat
           /\ DOMAIN events \subseteq DOMAIN events'
           /\ \A i \in DOMAIN events : events'[i] = events[i]
           /\ \A i \in DOMAIN events' : i \in Nat
<1>1. /\ Joins(CategoricalEvent, events, Categorical!Emitted(v, ts), events')
      /\ Emits(Categorical!Emitted(v, ts), CategoricalEmitted(v, ts))
      /\ events' \in Seq(CategoricalEvent)
  BY EventsMore
<1>2. events \in Seq(CategoricalEvent)
  BY DEF CategoricalIs
<1>3. Exclusive(CategoricalEmitted(v, ts), {})
  BY DEF Exclusive
<1>4. DOMAIN events \subseteq DOMAIN events' /\ \A i \in DOMAIN events : events'[i] = events[i]
  BY <1>1, <1>3, EmittedOnce
<1>5. QED
  BY <1>1, <1>2, <1>4

\* An event of these kinds is added, if the condition holds.
LEMMA EventsAdd ==
    ASSUME CategoricalIs, NEW v, NEW ts, Meets(v, ts), NEW kinds, NEW condition, NEW event,
           Only(CategoricalEmitted(v, ts), kinds, condition, event)
    PROVE  Adds(events, events', kinds, condition, event)
  BY EventsMore, OnlyAdds

\* These are the events that the properties speak of.
LEMMA OfKindIsAt ==
    ASSUME NEW kinds
    PROVE  Categorical!OfKind(kinds) = At(events, kinds)
  BY DEF Categorical!OfKind, At

-----------------------------------------------------------------------------
(* The story of the events.                                                 *)

\* i and j are one after the other among the indices of T.
Neighbours(T, i, j) == i < j /\ (i + 1)..(j - 1) \cap T = {}

Connected(es) ==
    \A i, j \in At(es, Categorical!Story) :
        Neighbours(At(es, Categorical!Story), i, j) =>
            es[j].from = es[i].to /\ ~(es[i].kind = "dropped" /\ es[j].kind = "dropped")

\* The last event of the story leads to the last state.
LeadsTo(es, v) ==
    \A i \in At(es, Categorical!Story) :
        (\A j \in At(es, Categorical!Story) : j <= i) =>
            es[i].to = v /\ (es[i].kind = "dropped" <=> v = Null)

StoryIs == EmitStateEnter => Connected(events) /\ LeadsTo(events, lastState)

\* The invariant is the property, with the end of the story.
LEMMA StoryIsIt ==
    StoryIs => Categorical!StoryIsConnected
  BY OfKindIsAt DEF StoryIs, Connected, Neighbours, Categorical!StoryIsConnected

\* A sample goes on with the story from the last state.
LEMMA StoryStep ==
    ASSUME CategoricalIs, StoryIs, NEW v, NEW ts, Meets(v, ts)
    PROVE  StoryIs'
<1>1. SUFFICES ASSUME EmitStateEnter
               PROVE  Connected(events') /\ LeadsTo(events', v)
  BY DEF StoryIs, Meets, Categorical!Sample, Categorical!StateAfter
<1> DEFINE T == At(events, Categorical!Story)
           U == At(events', Categorical!Story)
<1>2. /\ DOMAIN events = 1..Len(events) /\ Len(events) \in Nat
      /\ DOMAIN events \subseteq DOMAIN events'
      /\ \A i \in DOMAIN events : events'[i] = events[i]
      /\ \A i \in DOMAIN events' : i \in Nat
  BY EventsStay
<1>3. v \in Values
  BY DEF Meets
<1>4. PICK e : /\ Only(CategoricalEmitted(v, ts), Categorical!Story, Tells(v), e)
               /\ e.to = v
               /\ e.from = IF Categorical!Enters(v) THEN Null ELSE lastState
               /\ Tells(v) => (e.kind = "dropped" <=> v = Null)
  BY <1>1, <1>3, StoryOnly
<1>5. Adds(events, events', Categorical!Story, Tells(v), e)
  BY <1>4, EventsAdd
<1>6. Connected(events) /\ LeadsTo(events, lastState)
  BY <1>1 DEF StoryIs
<1>7. \A i \in T : i \in DOMAIN events /\ i \in Nat /\ i <= Len(events) /\ events'[i] = events[i]
  BY <1>2 DEF At
<1>8. (samples = <<>> => lastState = Null /\ ~missing /\ events = <<>>)
      /\ (samples # <<>> => (missing <=> lastState = Null))
  BY DEF CategoricalIs
<1>9. CASE ~Tells(v)
  <2>1. U = T
    BY <1>5, <1>9 DEF Adds
  <2>2. v = lastState
    BY <1>8, <1>9
       DEF Tells, Categorical!Enters, Categorical!Drops, Categorical!Moves
  <2>3. QED
    BY <1>6, <1>7, <2>1, <2>2 DEF Connected, LeadsTo
<1>10. CASE Tells(v)
  <2>1. PICK p \in Nat : NewAt(events, events', Categorical!Story, e, p)
    BY <1>5, <1>10 DEF Adds
  <2>2. p > Len(events) /\ events'[p] = e /\ U = T \cup {p}
    BY <2>1 DEF NewAt
  <2>3. e.from = lastState
    BY <1>4, <1>8 DEF Categorical!Enters
  <2>4. ~(e.kind = "dropped" /\ samples # <<>> /\ lastState = Null)
    BY <1>4, <1>8, <1>10
       DEF Tells, Categorical!Enters, Categorical!Drops, Categorical!Moves
  <2>5. ASSUME NEW i \in U, NEW j \in U, Neighbours(U, i, j)
        PROVE  /\ events'[j].from = events'[i].to
               /\ ~(events'[i].kind = "dropped" /\ events'[j].kind = "dropped")
    <3>1. i < j /\ (i + 1)..(j - 1) \cap U = {}
      BY <2>5 DEF Neighbours
    <3>2. i \in T
      BY <1>7, <2>2, <3>1
    <3>3. CASE j = p
      <4>1. \A k \in T : k <= i
        <5>1. SUFFICES ASSUME NEW k \in T, k > i PROVE FALSE
          BY <1>7, <3>2
        <5>2. k \in (i + 1)..(j - 1)
          BY <1>2, <1>7, <2>2, <3>2, <3>3, <5>1
        <5>3. QED
          BY <2>2, <3>1, <5>2
      <4>2. events[i].to = lastState /\ (events[i].kind = "dropped" <=> lastState = Null)
        BY <1>6, <3>2, <4>1 DEF LeadsTo
      <4>3. samples # <<>>
        BY <1>2, <1>7, <1>8, <3>2
      <4>4. QED
        BY <1>7, <2>2, <2>3, <2>4, <3>2, <3>3, <4>2, <4>3
    <3>4. CASE j # p
      <4>1. j \in T
        BY <2>2, <3>4
      <4>2. Neighbours(T, i, j)
        BY <2>2, <3>1 DEF Neighbours
      <4>3. QED
        BY <1>6, <1>7, <3>2, <4>1, <4>2 DEF Connected
    <3>5. QED
      BY <3>3, <3>4
  <2>6. Connected(events')
    BY <2>5 DEF Connected
  <2>7. ASSUME NEW i \in U, \A j \in U : j <= i
        PROVE  events'[i].to = v /\ (events'[i].kind = "dropped" <=> v = Null)
    <3>1. p <= i
      BY <2>2, <2>7
    <3>2. i = p
      BY <1>2, <1>7, <2>2, <3>1
    <3>3. QED
      BY <1>4, <1>10, <2>2, <3>2
  <2>8. LeadsTo(events', v)
    BY <2>7 DEF LeadsTo
  <2>9. QED
    BY <2>6, <2>8
<1>11. QED
  BY <1>9, <1>10

-----------------------------------------------------------------------------
(* The changes of the samples.                                              *)

ChangesOf(ss, from, to) ==
    {n \in DOMAIN ss : Starts(ss, n) /\ ss[n].value \in to
                         /\ (IF n = 1 THEN Null ELSE ss[n - 1].value) \in from}

\* The sample of value v is a change from one of from to one of to.
IsChange(v, from, to) == (samples = <<>> \/ v # lastState) /\ v \in to /\ lastState \in from

\* A sample is a change, or leaves the changes as they are.
LEMMA ChangesMore ==
    ASSUME CategoricalIs, NEW v, NEW ts, Meets(v, ts), NEW from, NEW to
    PROVE  /\ IsFiniteSet(ChangesOf(samples, from, to))
           /\ ChangesOf(samples', from, to) = ChangesOf(samples, from, to)
                \cup (IF IsChange(v, from, to) THEN {Len(samples) + 1} ELSE {})
           /\ Len(samples) + 1 \notin ChangesOf(samples, from, to)
<1> DEFINE n == Len(samples)
<1>1. /\ n \in Nat /\ DOMAIN samples = 1..n /\ DOMAIN samples' = 1..(n + 1)
      /\ \A i \in 1..n : samples'[i] = samples[i]
      /\ samples'[n + 1].value = v
      /\ samples \in Seq(CategoricalSample)
  BY SamplesMore DEF CategoricalIs
<1>2. IsFiniteSet(ChangesOf(samples, from, to))
  <2>1. IsFiniteSet(1..n)
    BY <1>1, FS_Interval
  <2>2. ChangesOf(samples, from, to) \subseteq 1..n
    BY <1>1 DEF ChangesOf
  <2>3. QED
    BY <2>1, <2>2, FS_Subset
<1>3. n + 1 \notin ChangesOf(samples, from, to)
  BY <1>1 DEF ChangesOf
<1>4. ASSUME NEW i \in 1..n
      PROVE  i \in ChangesOf(samples', from, to) <=> i \in ChangesOf(samples, from, to)
  <2>1. i # 1 => i - 1 \in 1..n
    BY <1>1
  <2>2. i \in 1..(n + 1)
    BY <1>1
  <2>3. Starts(samples', i) <=> Starts(samples, i)
    BY <1>1, <2>1 DEF Starts
  <2>4. (IF i = 1 THEN Null ELSE samples'[i - 1].value)
          = (IF i = 1 THEN Null ELSE samples[i - 1].value)
    BY <1>1, <2>1
  <2>5. samples'[i].value = samples[i].value
    BY <1>1
  <2>6. QED
    BY <1>1, <2>2, <2>3, <2>4, <2>5 DEF ChangesOf
<1>5. n + 1 \in ChangesOf(samples', from, to) <=> IsChange(v, from, to)
  <2>1. n + 1 \in DOMAIN samples' /\ (n + 1) - 1 = n
    BY <1>1
  <2>2. CASE samples = <<>>
    <3>1. n + 1 = 1 /\ lastState = Null
      BY <2>2 DEF CategoricalIs
    <3>2. QED
      BY <1>1, <2>1, <2>2, <3>1 DEF ChangesOf, IsChange, Starts
  <2>3. CASE samples # <<>>
    <3>1. n # 0 /\ lastState = samples[n].value
      BY <2>3, <1>1 DEF CategoricalIs
    <3>2. n \in 1..n /\ n + 1 # 1
      BY <1>1, <3>1
    <3>3. samples'[n].value = lastState
      BY <1>1, <3>1, <3>2
    <3>4. Starts(samples', n + 1) <=> v # lastState
      BY <1>1, <2>1, <3>2, <3>3 DEF Starts
    <3>5. QED
      BY <1>1, <2>1, <2>3, <3>2, <3>3, <3>4 DEF ChangesOf, IsChange
  <2>4. QED
    BY <2>2, <2>3
<1>6. \A i \in ChangesOf(samples', from, to) : i \in 1..n \/ i = n + 1
  BY <1>1 DEF ChangesOf
<1>7. \A i \in ChangesOf(samples, from, to) : i \in 1..n
  BY <1>1 DEF ChangesOf
<1> HIDE DEF n
<1>8. QED
  BY <1>2, <1>3, <1>4, <1>5, <1>6, <1>7 DEF n

\* There are as many events of these kinds as changes.
Counted(kinds, from, to) ==
    /\ IsFiniteSet(At(events, kinds))
    /\ Cardinality(At(events, kinds)) = Cardinality(ChangesOf(samples, from, to))

\* Events and changes are counted together.
LEMMA CountedStep ==
    ASSUME CategoricalIs, NEW v, NEW ts, Meets(v, ts), NEW kinds, NEW from, NEW to,
           Counted(kinds, from, to), NEW event,
           Adds(events, events', kinds, IsChange(v, from, to), event)
    PROVE  Counted(kinds, from, to)'
<1> DEFINE C == ChangesOf(samples, from, to)
           D == ChangesOf(samples', from, to)
           n == Len(samples) + 1
<1>1. /\ IsFiniteSet(C) /\ n \notin C
      /\ D = C \cup (IF IsChange(v, from, to) THEN {n} ELSE {})
  BY ChangesMore
<1>2. IsFiniteSet(At(events, kinds)) /\ Cardinality(At(events, kinds)) = Cardinality(C)
  BY DEF Counted
<1> HIDE DEF C, D, n
<1>3. CASE ~IsChange(v, from, to)
  <2>1. D = C /\ At(events', kinds) = At(events, kinds)
    BY <1>1, <1>3 DEF Adds
  <2>2. QED
    BY <1>2, <2>1 DEF Counted, D
<1>4. CASE IsChange(v, from, to)
  <2>1. PICK p \in Nat : NewAt(events, events', kinds, event, p)
    BY <1>4 DEF Adds
  <2>2. p \notin At(events, kinds) /\ At(events', kinds) = At(events, kinds) \cup {p}
    BY <2>1, EventsStay DEF NewAt, At
  <2>3. /\ IsFiniteSet(At(events', kinds))
        /\ Cardinality(At(events', kinds)) = Cardinality(At(events, kinds)) + 1
    BY <1>2, <2>2, FS_AddElement
  <2>4. Cardinality(D) = Cardinality(C) + 1
    BY <1>1, <1>4, FS_AddElement
  <2>5. QED
    BY <1>2, <2>3, <2>4 DEF Counted, D
<1>5. QED
  BY <1>3, <1>4

\* The counts of EveryChangeIsReported.
ChangesAre ==
    /\ Counted({"transition"}, States, States)
    /\ EmitStateEnter => Counted({"state_enter"}, {Null}, States)
    /\ Counted({"dropped"}, Values, {Null})
    /\ EmitStateExit => Counted({"state_exit"}, States, Values)

\* The invariant is the property.
LEMMA ChangesAreThem ==
    ChangesAre => Categorical!EveryChangeIsReported
<1>1. \A S : Categorical!Cardinality(S) = Cardinality(S)
  BY DEF Categorical!Cardinality, Cardinality
<1>2. \A from, to : Categorical!Changes(from, to) = ChangesOf(samples, from, to)
  BY DEF Categorical!Changes, Categorical!RunStart, Categorical!Value, ChangesOf, Starts
<1>3. \A kinds : Categorical!OfKind(kinds) = At(events, kinds)
  BY OfKindIsAt
<1>4. QED
  BY <1>1, <1>2, <1>3 DEF ChangesAre, Counted, Categorical!EveryChangeIsReported, Values

\* A sample is reported if it is a change.
LEMMA ChangesStep ==
    ASSUME CategoricalIs, ChangesAre, NEW v, NEW ts, Meets(v, ts)
    PROVE  ChangesAre'
<1>1. v \in Values /\ lastState \in Values /\ Null \notin States
  BY NowIsLast, CategoricalAssumption DEF Meets
<1>2. /\ samples = <<>> => lastState = Null /\ ~missing
      /\ samples # <<>> => (missing <=> lastState = Null)
      /\ missing \in BOOLEAN
  BY DEF CategoricalIs
<1> DEFINE S == CategoricalEmitted(v, ts)
<1>3. /\ Only(S, {"transition"}, Categorical!Moves(v), Moved("transition", v, ts))
      /\ Only(S, {"state_enter"}, Categorical!Enters(v) /\ EmitStateEnter,
              Categorical!Event("state_enter", Null, v, 0, ts))
      /\ Only(S, {"dropped"}, Categorical!Drops(v),
              Categorical!Event("dropped", lastState, Null, 0, ts))
      /\ EmitStateExit => \E e :
            Only(S, {"state_exit"}, (Categorical!Drops(v) /\ lastState # Null)
                                        \/ Categorical!Moves(v), e)
  BY <1>1, CategoricalOnly
<1> HIDE DEF S
<1>4. Counted({"transition"}, States, States)'
  <2>1. Categorical!Moves(v) = IsChange(v, States, States)
    BY <1>1, <1>2 DEF Categorical!Moves, IsChange, Values
  <2>2. \E e : Adds(events, events', {"transition"}, IsChange(v, States, States), e)
    BY <1>3, <2>1, EventsAdd DEF S
  <2>3. Counted({"transition"}, States, States)
    BY DEF ChangesAre
  <2>4. QED
    BY <2>2, <2>3, CountedStep
<1>5. ASSUME EmitStateEnter
      PROVE  Counted({"state_enter"}, {Null}, States)'
  <2>1. (Categorical!Enters(v) /\ EmitStateEnter) = IsChange(v, {Null}, States)
    BY <1>1, <1>2, <1>5 DEF Categorical!Enters, IsChange, Values
  <2>2. \E e : Adds(events, events', {"state_enter"}, IsChange(v, {Null}, States), e)
    BY <1>3, <2>1, EventsAdd DEF S
  <2>3. Counted({"state_enter"}, {Null}, States)
    BY <1>5 DEF ChangesAre
  <2>4. QED
    BY <2>2, <2>3, CountedStep
<1>6. Counted({"dropped"}, Values, {Null})'
  <2>1. Categorical!Drops(v) = IsChange(v, Values, {Null})
    BY <1>1, <1>2 DEF Categorical!Drops, IsChange, Values
  <2>2. \E e : Adds(events, events', {"dropped"}, IsChange(v, Values, {Null}), e)
    BY <1>3, <2>1, EventsAdd DEF S
  <2>3. Counted({"dropped"}, Values, {Null})
    BY DEF ChangesAre
  <2>4. QED
    BY <2>2, <2>3, CountedStep
<1>7. ASSUME EmitStateExit
      PROVE  Counted({"state_exit"}, States, Values)'
  <2>1. ((Categorical!Drops(v) /\ lastState # Null) \/ Categorical!Moves(v))
           = IsChange(v, States, Values)
    BY <1>1, <1>2 DEF Categorical!Drops, Categorical!Moves, IsChange, Values
  <2>2. \E e : Adds(events, events', {"state_exit"}, IsChange(v, States, Values), e)
    BY <1>3, <1>7, <2>1, EventsAdd DEF S
  <2>3. Counted({"state_exit"}, States, Values)
    BY <1>7 DEF ChangesAre
  <2>4. QED
    BY <2>2, <2>3, CountedStep
<1>8. QED
  BY <1>4, <1>5, <1>6, <1>7 DEF ChangesAre, Values

-----------------------------------------------------------------------------
(* The dwells that the events report.                                       *)

Dwells == {"transition", "dwell_guard"}

\* Event e reports the run that sample n ends or goes on with.
Reports(ss, e, n) ==
    /\ ss[n].ts = e.at /\ n > 1
    /\ ss[n - 1].value = e.from /\ ss[n].value = e.to
    /\ e.dwell = ss[n].ts - ss[RunAt(ss, n - 1)].ts

DwellsAre ==
    \A i \in DOMAIN events :
        events[i].kind \in Dwells => \E n \in DOMAIN samples : Reports(samples, events[i], n)

\* The invariant is the property.
LEMMA DwellsAreIt ==
    DwellsAre => Categorical!DwellIsRunLength
  BY SinceIs DEF DwellsAre, Dwells, Reports, Categorical!DwellIsRunLength, Categorical!Value

\* A new event is one of the sample's.
LEMMA EventsNew ==
    ASSUME CategoricalIs, NEW v, NEW ts, Meets(v, ts), NEW i \in DOMAIN events'
    PROVE  i \in DOMAIN events \/ events'[i] \in CategoricalEmitted(v, ts)
<1>1. Exclusive(CategoricalEmitted(v, ts), {})
  BY DEF Exclusive
<1>2. QED
  BY <1>1, EventsMore, EmittedOnce

\* A sample reports the run before it, and the earlier reports stay true.
LEMMA DwellsStep ==
    ASSUME CategoricalIs, DwellsAre, NEW v, NEW ts, Meets(v, ts)
    PROVE  DwellsAre'
<1> DEFINE n == Len(samples)
<1>1. /\ n \in Nat /\ DOMAIN samples = 1..n /\ DOMAIN samples' = 1..(n + 1)
      /\ \A i \in 1..n : samples'[i] = samples[i]
      /\ samples'[n + 1].ts = ts /\ samples'[n + 1].value = v
  BY SamplesMore
<1>2. \A k \in DOMAIN samples : RunAt(samples', k) = RunAt(samples, k)
  BY RunMore
<1>3. \A k \in 1..n : RunAt(samples, k) \in 1..n
  <2> TAKE k \in 1..n
  <2>1. k \in Nat \ {0} /\ k <= n
    BY <1>1
  <2>2. RunAt(samples, k) \in 1..k
    BY <2>1, RunAtIs
  <2>3. QED
    BY <1>1, <2>1, <2>2
<1>4. SUFFICES ASSUME NEW i \in DOMAIN events', events'[i].kind \in Dwells
               PROVE  \E k \in DOMAIN samples' : Reports(samples', events'[i], k)
  BY DEF DwellsAre
<1>5. CASE i \in DOMAIN events
  <2>1. events'[i] = events[i]
    BY <1>5, EventsStay
  <2>2. PICK k \in DOMAIN samples : Reports(samples, events[i], k)
    BY <1>4, <1>5, <2>1 DEF DwellsAre
  <2>3. k \in 1..n /\ k > 1 /\ k - 1 \in 1..n
    BY <1>1, <2>2 DEF Reports
  <2>4. /\ samples'[k] = samples[k] /\ samples'[k - 1] = samples[k - 1]
        /\ samples'[RunAt(samples', k - 1)] = samples[RunAt(samples, k - 1)]
    BY <1>1, <1>2, <1>3, <2>3
  <2>5. Reports(samples', events'[i], k)
    BY <2>1, <2>2, <2>4 DEF Reports
  <2>6. QED
    BY <1>1, <2>3, <2>5
<1>6. CASE i \notin DOMAIN events
  <2>1. events'[i] \in CategoricalEmitted(v, ts)
    BY <1>6, EventsNew
  <2>2. v \in Values
    BY DEF Meets
  <2>3. /\ events'[i] = Moved(events'[i].kind, v, ts)
        /\ Categorical!Moves(v) \/ Categorical!GuardDue(v, ts)
    <3>1. /\ Only(CategoricalEmitted(v, ts), {"transition"}, Categorical!Moves(v),
                  Moved("transition", v, ts))
          /\ Only(CategoricalEmitted(v, ts), {"dwell_guard"}, Categorical!GuardDue(v, ts),
                  Moved("dwell_guard", v, ts))
      BY <2>2, CategoricalOnly
    <3>2. QED
      BY <1>4, <2>1, <3>1 DEF Only, Dwells
  <2>4. lastState # Null
    BY <2>3 DEF Categorical!Moves, Categorical!GuardDue, Categorical!Stays
  <2>5. samples # <<>> /\ lastState = samples[n].value
        /\ lastStateTs = samples[RunAt(samples, n)].ts /\ lastStateTs # Null
    BY <2>4, NowIsLast DEF CategoricalIs
  <2>6. n \in 1..n /\ n + 1 > 1 /\ (n + 1) - 1 = n /\ n + 1 \in DOMAIN samples'
    BY <1>1, <2>5 DEF CategoricalIs
  <2>7. events'[i].at = ts /\ events'[i].from = lastState /\ events'[i].to = v
        /\ events'[i].dwell = ts - lastStateTs
    BY <2>3, <2>5 DEF Moved, Categorical!Event, Categorical!Dwell
  <2>8. samples'[n].value = lastState
        /\ samples'[RunAt(samples', n)].ts = lastStateTs
    BY <1>1, <1>2, <1>3, <2>5, <2>6
  <2>9. Reports(samples', events'[i], n + 1)
    BY <1>1, <2>6, <2>7, <2>8 DEF Reports
  <2>10. QED
    BY <2>6, <2>9
<1>7. QED
  BY <1>5, <1>6

-----------------------------------------------------------------------------
(* The guards of the dwells.                                                *)

Guards == At(events, {"dwell_guard"})

\* No guard is ahead of the last one, or of the dwell if that has none yet.
GuardsAre ==
    /\ \A i, j \in Guards : i < j => events[j].at - events[i].at >= MaxDwellMs
    /\ \A i \in Guards : events[i].at \in Nat /\ events[i].at <= Categorical!Now
    /\ lastState # Null =>
        /\ lastDwellGuardTs = Null => \A i \in Guards : events[i].at <= lastStateTs
        /\ lastDwellGuardTs # Null =>
              /\ \A i \in Guards : events[i].at <= lastDwellGuardTs
              /\ \E i \in Guards : events[i].at = lastDwellGuardTs
              /\ lastStateTs <= lastDwellGuardTs
        /\ MaxDwellMs > 0 =>
              \/ Categorical!Now - lastStateTs < MaxDwellMs
              \/ lastDwellGuardTs # Null /\ Categorical!Now - lastDwellGuardTs < MaxDwellMs

\* The invariant is the property, with the time of the last guard.
LEMMA GuardsAreIt ==
    CategoricalIs /\ GuardsAre => Categorical!GuardsAreSpaced
<1>1. SUFFICES ASSUME CategoricalIs, GuardsAre PROVE Categorical!GuardsAreSpaced
  OBVIOUS
<1>2. Categorical!OfKind({"dwell_guard"}) = Guards
  BY OfKindIsAt DEF Guards
<1>3. \A i, j \in Guards : i < j => events[j].at - events[i].at >= MaxDwellMs
  BY <1>1 DEF GuardsAre
<1>4. ASSUME MaxDwellMs > 0, samples # <<>>, lastState # Null
      PROVE  \/ Categorical!Now - Categorical!RunSince(Len(samples)) < MaxDwellMs
             \/ \E i \in Guards : /\ events[i].at >= Categorical!RunSince(Len(samples))
                                  /\ Categorical!Now - events[i].at < MaxDwellMs
  <2>1. Categorical!RunSince(Len(samples)) = lastStateTs
    BY <1>1, <1>4, SinceIs DEF CategoricalIs
  <2>2. CASE Categorical!Now - lastStateTs < MaxDwellMs
    BY <2>1, <2>2
  <2>3. CASE lastDwellGuardTs # Null /\ Categorical!Now - lastDwellGuardTs < MaxDwellMs
    <3>1. PICK i \in Guards : events[i].at = lastDwellGuardTs
      BY <1>1, <1>4, <2>3 DEF GuardsAre
    <3>2. lastStateTs <= lastDwellGuardTs
      BY <1>1, <1>4, <2>3 DEF GuardsAre
    <3>3. lastStateTs \in Nat /\ lastDwellGuardTs \in Nat
      BY <1>1, <1>4, <2>3 DEF CategoricalIs
    <3>4. events[i].at >= lastStateTs
      BY <3>1, <3>2, <3>3
    <3>5. QED
      BY <2>1, <2>3, <3>1, <3>4
  <2>4. QED
    BY <1>1, <1>4, <2>2, <2>3 DEF GuardsAre
<1>5. QED
  BY <1>2, <1>3, <1>4 DEF Categorical!GuardsAreSpaced

\* A sample keeps the guards apart and reports one that is due.
LEMMA GuardsStep ==
    ASSUME CategoricalIs, GuardsAre, NEW v, NEW ts, Meets(v, ts)
    PROVE  GuardsAre'
<1>1. ts \in Nat /\ v \in Values /\ Categorical!Now \in Nat /\ Categorical!Now <= ts
  BY DEF Meets
<1>2. Categorical!Now' = ts
  <2>1. /\ samples' \in Seq(CategoricalSample) /\ Len(samples) \in Nat
        /\ Len(samples') = Len(samples) + 1 /\ samples'[Len(samples) + 1].ts = ts
    BY SamplesMore
  <2>2. samples' # <<>>
    BY <2>1
  <2>3. QED
    BY <2>1, <2>2 DEF Categorical!Now, Categorical!Last
<1>3. /\ lastState' = v /\ lastStateTs' = Categorical!StateTsAfter(v, ts)
      /\ lastDwellGuardTs' = Categorical!GuardTsAfter(v, ts)
  BY DEF Meets, Categorical!Sample, Categorical!StateAfter
<1>4. /\ samples # <<>> => lastStateTs \in Nat /\ lastStateTs <= ts /\ lastStateTs # Null
      /\ samples = <<>> => lastState = Null
      /\ lastDwellGuardTs \in Nat \cup {Null}
      /\ MaxDwellMs \in Nat /\ Null \notin Nat
  BY NowIsLast, CategoricalAssumption DEF CategoricalIs
<1>5. ASSUME NEW i \in Guards
      PROVE  /\ i \in DOMAIN events /\ events'[i] = events[i] /\ i \in Nat /\ i <= Len(events)
             /\ events[i].at \in Nat /\ events[i].at <= ts
  <2>1. i \in DOMAIN events /\ events[i].at \in Nat /\ events[i].at <= Categorical!Now
    BY DEF GuardsAre, Guards, At
  <2>2. events'[i] = events[i] /\ i \in Nat /\ i <= Len(events)
    BY <2>1, EventsStay
  <2>3. QED
    BY <1>1, <2>1, <2>2
<1>6. \A i, j \in Guards : i < j => events'[j].at - events'[i].at >= MaxDwellMs
  BY <1>5 DEF GuardsAre
<1>7. PICK e : /\ Only(CategoricalEmitted(v, ts), {"dwell_guard"}, Categorical!GuardDue(v, ts), e)
               /\ e = Moved("dwell_guard", v, ts)
  BY <1>1, CategoricalOnly
<1>8. Adds(events, events', {"dwell_guard"}, Categorical!GuardDue(v, ts), e)
  BY <1>7, EventsAdd
<1>9. CASE Categorical!GuardDue(v, ts)
  <2>1. PICK p \in Nat : NewAt(events, events', {"dwell_guard"}, e, p)
    BY <1>8, <1>9 DEF Adds
  <2>2. p > Len(events) /\ events'[p] = e /\ Guards' = Guards \cup {p}
    BY <2>1 DEF NewAt, Guards
  <2>3. events'[p].at = ts
    BY <1>7, <2>2 DEF Moved, Categorical!Event
  <2>4. /\ v # Null /\ v = lastState /\ ~missing /\ MaxDwellMs > 0
        /\ Categorical!Dwell(ts) >= MaxDwellMs
        /\ lastDwellGuardTs = Null \/ ts - lastDwellGuardTs >= MaxDwellMs
    BY <1>9 DEF Categorical!GuardDue, Categorical!Stays
  <2>5. lastStateTs \in Nat /\ lastStateTs <= ts /\ ts - lastStateTs >= MaxDwellMs
    BY <1>4, <2>4 DEF Categorical!Dwell
  <2>6. ASSUME NEW i \in Guards
        PROVE  ts - events[i].at >= MaxDwellMs
    <3>1. CASE lastDwellGuardTs = Null
      <4>1. events[i].at <= lastStateTs
        BY <2>4, <3>1 DEF GuardsAre
      <4>2. QED
        BY <1>1, <1>4, <1>5, <2>5, <4>1
    <3>2. CASE lastDwellGuardTs # Null
      <4>1. events[i].at <= lastDwellGuardTs /\ lastDwellGuardTs \in Nat
        BY <1>4, <2>4, <3>2 DEF GuardsAre
      <4>2. ts - lastDwellGuardTs >= MaxDwellMs
        BY <2>4, <3>2
      <4>3. QED
        BY <1>1, <1>4, <1>5, <4>1, <4>2
    <3>3. QED
      BY <3>1, <3>2
  <2>7. \A i, j \in Guards' : i < j => events'[j].at - events'[i].at >= MaxDwellMs
    <3> TAKE i, j \in Guards'
    <3>1. SUFFICES ASSUME i < j PROVE events'[j].at - events'[i].at >= MaxDwellMs
      OBVIOUS
    <3>3. Len(events) \in Nat
      BY EventsStay
    <3>4. i \in Guards
      BY <1>5, <2>2, <3>1, <3>3
    <3>5. CASE j = p
      BY <1>5, <2>3, <2>6, <3>4, <3>5
    <3>6. CASE j # p
      BY <1>6, <2>2, <3>1, <3>4, <3>6
    <3>7. QED
      BY <3>5, <3>6
  <2>8. \A i \in Guards' : events'[i].at \in Nat /\ events'[i].at <= ts
    BY <1>1, <1>5, <2>2, <2>3
  <2>9. lastStateTs' = lastStateTs /\ lastDwellGuardTs' = ts
    BY <1>3, <1>9, <2>4
       DEF Categorical!StateTsAfter, Categorical!GuardTsAfter, Categorical!Enters, Categorical!Moves
  <2>10. \E i \in Guards' : events'[i].at = ts
    BY <2>2, <2>3
  <2>11. ts # Null /\ ts - ts < MaxDwellMs
    BY <1>1, <1>4, <2>4
  <2>12. QED
    BY <1>2, <1>3, <2>5, <2>7, <2>8, <2>9, <2>10, <2>11 DEF GuardsAre
<1>10. CASE ~Categorical!GuardDue(v, ts)
  <2>1. Guards' = Guards
    BY <1>8, <1>10 DEF Adds, Guards
  <2>2. /\ \A i, j \in Guards' : i < j => events'[j].at - events'[i].at >= MaxDwellMs
        /\ \A i \in Guards' : events'[i].at \in Nat /\ events'[i].at <= Categorical!Now'
    BY <1>2, <1>5, <1>6, <2>1
  <2>3. CASE v = Null
    BY <1>3, <2>2, <2>3 DEF GuardsAre
  <2>4. CASE v # Null /\ ~Categorical!Stays(v)
    <3>1. Categorical!Enters(v) \/ Categorical!Moves(v)
      BY <2>4 DEF Categorical!Enters, Categorical!Moves, Categorical!Stays
    <3>2. lastStateTs' = ts /\ lastDwellGuardTs' = Null
      BY <1>3, <2>4, <3>1 DEF Categorical!StateTsAfter, Categorical!GuardTsAfter
    <3>3. MaxDwellMs > 0 => ts - ts < MaxDwellMs
      BY <1>1, <1>4
    <3>4. QED
      BY <1>2, <2>2, <3>2, <3>3 DEF GuardsAre
  <2>5. CASE v # Null /\ Categorical!Stays(v)
    <3>1. lastStateTs' = lastStateTs /\ lastDwellGuardTs' = lastDwellGuardTs /\ v = lastState
      BY <1>3, <1>10, <2>5
         DEF Categorical!StateTsAfter, Categorical!GuardTsAfter, Categorical!Enters,
             Categorical!Moves, Categorical!Stays
    <3>2. MaxDwellMs > 0 =>
             \/ ts - lastStateTs < MaxDwellMs
             \/ lastDwellGuardTs # Null /\ ts - lastDwellGuardTs < MaxDwellMs
      BY <1>1, <1>4, <1>10, <2>5, <3>1 DEF Categorical!GuardDue, Categorical!Dwell
    <3>3. \A i \in Guards : events'[i] = events[i]
      BY <1>5
    <3>4. QED
      BY <1>2, <1>3, <2>1, <2>2, <2>5, <3>1, <3>2, <3>3 DEF GuardsAre
  <2>6. QED
    BY <2>3, <2>4, <2>5
<1>11. QED
  BY <1>9, <1>10

-----------------------------------------------------------------------------
(* The events of a continuous sample.                                       *)

Slopes == {"slope_positive", "slope_negative"}
ContinuousKinds == Slopes \cup {"switch", "drift_guard", "extrema", "oscillation"}
Candidates == {"switch", "oscillation", "extrema"}
Reasons == {"", "run_start", "run_strengthen", "abs_change", "max_gap"}
ContinuousEvent == [kind : ContinuousKinds, at : Nat, reason : Reasons, amount : Nat]

Told(kind, reason, amount) ==
    [kind |-> kind, at |-> Len(samples) + 1, reason |-> reason, amount |-> amount]

\* The event of a slope run with the sample in it, and that of a drift guard.
SlopeTold(x) ==
    LET run == Continuous!RunWith(x)
    IN  Told(IF x.sign > 0 THEN "slope_positive" ELSE "slope_negative",
             IF run.emitted THEN "run_strengthen" ELSE "run_start", run.peak)
DriftTold(x) ==
    Told("drift_guard", IF Continuous!DriftByChange(x) THEN "abs_change" ELSE "max_gap",
         Continuous!CumAbs(x))

\* The events of a sample, as a set.
ContinuousEmitted(x, n) ==
    (((If(Continuous!SlopeEmit(Continuous!RunWith(x)), SlopeTold(x))
      \cup If(Continuous!SpacedEmit("switch", x, n), Told("switch", "", x.raw)))
      \cup If(Continuous!DriftEmit(x, n), DriftTold(x)))
      \cup If("extrema" \in x.candidates, Told("extrema", "", x.raw)))
      \cup If(Continuous!SpacedEmit("oscillation", x, n), Told("oscillation", "", x.raw))

\* They are what the detector emits.
LEMMA ContinuousEmits ==
    ASSUME NEW x \in Inputs, NEW n, Len(samples) \in Nat, Continuous!RunWith(x).peak \in Nat,
           Continuous!CumAbs(x) \in Nat
    PROVE  /\ Continuous!Emitted(x, n) \in Seq(ContinuousEvent)
           /\ Emits(Continuous!Emitted(x, n), ContinuousEmitted(x, n))
<1> DEFINE R == ContinuousEvent
           c1 == Continuous!SlopeEmit(Continuous!RunWith(x))
           e1 == SlopeTold(x)
           c2 == Continuous!SpacedEmit("switch", x, n)
           e2 == Told("switch", "", x.raw)
           c3 == Continuous!DriftEmit(x, n)
           e3 == DriftTold(x)
           c4 == "extrema" \in x.candidates
           e4 == Told("extrema", "", x.raw)
           c5 == Continuous!SpacedEmit("oscillation", x, n)
           e5 == Told("oscillation", "", x.raw)
           s1 == If(c1, e1)
           s2 == s1 \cup If(c2, e2)
           s3 == s2 \cup If(c3, e3)
           s4 == s3 \cup If(c4, e4)
           s5 == s4 \cup If(c5, e5)
<1>1. x.raw \in Nat
  BY ContinuousAssumption
<1>2. ASSUME NEW kind \in ContinuousKinds, NEW amount \in Nat, NEW reason \in Reasons
      PROVE  Told(kind, reason, amount) \in R
  <2>1. PICK at \in Nat : at = Len(samples) + 1
    OBVIOUS
  <2>2. Told(kind, reason, amount)
          = [kind |-> kind, at |-> at, reason |-> reason, amount |-> amount]
    BY <2>1 DEF Told
  <2>3. QED
    BY <2>2 DEF ContinuousEvent
<1>3. /\ e1 \in R /\ e1.kind \in Slopes /\ e2 \in R /\ e2.kind = "switch"
      /\ e3 \in R /\ e3.kind = "drift_guard" /\ e4 \in R /\ e4.kind = "extrema"
      /\ e5 \in R /\ e5.kind = "oscillation"
  <2>1. /\ e1.kind \in Slopes /\ e2.kind = "switch" /\ e3.kind = "drift_guard"
        /\ e4.kind = "extrema" /\ e5.kind = "oscillation"
    BY DEF Told, SlopeTold, DriftTold, Slopes
  <2>2. e1 \in R
    <3>1. /\ (IF x.sign > 0 THEN "slope_positive" ELSE "slope_negative") \in ContinuousKinds
          /\ (IF Continuous!RunWith(x).emitted THEN "run_strengthen" ELSE "run_start")
                \in Reasons
      BY DEF ContinuousKinds, Slopes, Reasons
    <3> HIDE DEF R
    <3>2. QED
      BY <1>2, <3>1 DEF SlopeTold
  <2>3. e3 \in R
    <3>1. /\ "drift_guard" \in ContinuousKinds
          /\ (IF Continuous!DriftByChange(x) THEN "abs_change" ELSE "max_gap")
                \in Reasons
      BY DEF ContinuousKinds, Reasons
    <3> HIDE DEF R
    <3>2. QED
      BY <1>2, <3>1 DEF DriftTold
  <2>4. e2 \in R /\ e4 \in R /\ e5 \in R
    <3>1. {"switch", "extrema", "oscillation"} \subseteq ContinuousKinds /\ "" \in Reasons
      BY DEF ContinuousKinds, Reasons
    <3> HIDE DEF R
    <3>2. QED
      BY <1>1, <1>2, <3>1
  <2>5. QED
    BY <2>1, <2>2, <2>3, <2>4
<1>4. /\ c1 \in BOOLEAN /\ c2 \in BOOLEAN /\ c3 \in BOOLEAN /\ c4 \in BOOLEAN /\ c5 \in BOOLEAN
  BY DEF Continuous!SlopeEmit, Continuous!SpacedEmit, Continuous!DriftEmit
<1>6. Continuous!Emitted(x, n) =
          (((Opt(c1, e1) \o Opt(c2, e2)) \o Opt(c3, e3)) \o Opt(c4, e4)) \o Opt(c5, e5)
  BY DEF Continuous!Emitted, Continuous!Optional, Opt, Told, SlopeTold, DriftTold
<1>7. s5 = ContinuousEmitted(x, n)
  BY DEF ContinuousEmitted
<1> HIDE DEF c1, c2, c3, c4, c5, e1, e2, e3, e4, e5, R
<1> DEFINE o1 == Opt(c1, e1)
           o2 == o1 \o Opt(c2, e2)
           o3 == o2 \o Opt(c3, e3)
           o4 == o3 \o Opt(c4, e4)
           o5 == o4 \o Opt(c5, e5)
<1>10. o5 = Continuous!Emitted(x, n)
  BY <1>6
<1>11. o1 \in Seq(R) /\ Emits(o1, s1)
  BY <1>3, <1>4 DEF Opt, If, Emits
<1>12. \A e \in s1 : e.kind \in Slopes
  BY <1>3 DEF If
<1> HIDE DEF o1, s1
<1>13. o2 \in Seq(R) /\ Emits(o2, s2)
  BY <1>3, <1>4, <1>11, <1>12, OptionalEmits DEF Slopes
<1>14. \A e \in s2 : e.kind \in Slopes \cup {"switch"}
  BY <1>3, <1>12 DEF If
<1> HIDE DEF o2, s2
<1>15. o3 \in Seq(R) /\ Emits(o3, s3)
  BY <1>3, <1>4, <1>13, <1>14, OptionalEmits DEF Slopes
<1>16. \A e \in s3 : e.kind \in Slopes \cup {"switch", "drift_guard"}
  BY <1>3, <1>14 DEF If
<1> HIDE DEF o3, s3
<1>17. o4 \in Seq(R) /\ Emits(o4, s4)
  BY <1>3, <1>4, <1>15, <1>16, OptionalEmits DEF Slopes
<1>18. \A e \in s4 : e.kind \in Slopes \cup {"switch", "drift_guard", "extrema"}
  BY <1>3, <1>16 DEF If
<1> HIDE DEF o4, s4
<1>19. o5 \in Seq(R) /\ Emits(o5, s5)
  BY <1>3, <1>4, <1>17, <1>18, OptionalEmits DEF Slopes
<1>20. QED
  BY <1>7, <1>10, <1>19 DEF R

\* Which events of which kinds a sample has.
LEMMA ContinuousOnly ==
    ASSUME NEW x, NEW n
    PROVE  /\ Only(ContinuousEmitted(x, n), Slopes,
                   Continuous!SlopeEmit(Continuous!RunWith(x)), SlopeTold(x))
           /\ \A kind \in Continuous!Spaced :
                 Only(ContinuousEmitted(x, n), {kind}, Continuous!SpacedEmit(kind, x, n),
                      Told(kind, "", x.raw))
           /\ Only(ContinuousEmitted(x, n), {"drift_guard"}, Continuous!DriftEmit(x, n),
                   DriftTold(x))
<1> DEFINE S == ContinuousEmitted(x, n)
<1>1. \A e : e \in S <=>
         \/ Continuous!SlopeEmit(Continuous!RunWith(x)) /\ e = SlopeTold(x)
         \/ Continuous!SpacedEmit("switch", x, n) /\ e = Told("switch", "", x.raw)
         \/ Continuous!DriftEmit(x, n) /\ e = DriftTold(x)
         \/ "extrema" \in x.candidates /\ e = Told("extrema", "", x.raw)
         \/ Continuous!SpacedEmit("oscillation", x, n) /\ e = Told("oscillation", "", x.raw)
  BY DEF ContinuousEmitted, If
<1>2. /\ \A kind : Told(kind, "", x.raw).kind = kind
      /\ SlopeTold(x).kind \in Slopes /\ DriftTold(x).kind = "drift_guard"
  BY DEF Told, SlopeTold, DriftTold, Slopes
<1> HIDE DEF S
<1>3. Only(S, Slopes, Continuous!SlopeEmit(Continuous!RunWith(x)), SlopeTold(x))
  BY <1>1, <1>2 DEF Only, Slopes
<1>4. Only(S, {"drift_guard"}, Continuous!DriftEmit(x, n), DriftTold(x))
  BY <1>1, <1>2 DEF Only, Slopes
<1>5. /\ Only(S, {"switch"}, Continuous!SpacedEmit("switch", x, n), Told("switch", "", x.raw))
      /\ Only(S, {"oscillation"}, Continuous!SpacedEmit("oscillation", x, n),
              Told("oscillation", "", x.raw))
  <2>1. /\ Told("switch", "", x.raw).kind = "switch"
        /\ Told("extrema", "", x.raw).kind = "extrema"
        /\ Told("oscillation", "", x.raw).kind = "oscillation"
    BY <1>2
  <2>2. \A e \in S : \/ e.kind \in Slopes \/ e.kind \in {"drift_guard", "extrema"}
                     \/ Continuous!SpacedEmit("switch", x, n) /\ e = Told("switch", "", x.raw)
                     \/ Continuous!SpacedEmit("oscillation", x, n)
                          /\ e = Told("oscillation", "", x.raw)
    BY <1>1, <1>2, <2>1
  <2>3. /\ Continuous!SpacedEmit("switch", x, n) => Told("switch", "", x.raw) \in S
        /\ Continuous!SpacedEmit("oscillation", x, n) => Told("oscillation", "", x.raw) \in S
    BY <1>1
  <2>4. QED
    BY <2>1, <2>2, <2>3 DEF Only, Slopes
<1>6. \A kind \in Continuous!Spaced :
        Only(S, {kind}, Continuous!SpacedEmit(kind, x, n), Told(kind, "", x.raw))
  BY <1>5 DEF Continuous!Spaced
<1>7. QED
  BY <1>3, <1>4, <1>6 DEF S

-----------------------------------------------------------------------------
(* A sample of the continuous detector.                                     *)

ContinuousSample ==
    [sign : {-1, 0, 1}, delta : Nat, raw : Nat, candidates : SUBSET Candidates, index : Nat]
SlopeRun ==
    [sign : {-1, 0, 1}, length : Nat, peak : Nat, emitted : BOOLEAN, lastEmittedPeak : Nat]

\* Samples have increasing indices, and events stand at samples.
ContinuousIs ==
    /\ samples \in Seq(ContinuousSample) /\ events \in Seq(ContinuousEvent)
    /\ \A i \in DOMAIN samples : samples[i].index >= 1
    /\ \A i, j \in DOMAIN samples : i < j => samples[i].index < samples[j].index
    /\ \A i \in DOMAIN events : events[i].at \in DOMAIN samples
    /\ driftGuardCumAbs \in Nat
    /\ slopeRun \in SlopeRun

\* What a sample x with index n finds.
Takes(x, n) ==
    /\ x \in Inputs /\ n \in Nat
    /\ Continuous!LastIndex \in Nat /\ Continuous!LastIndex < n
    /\ Continuous!Sample(x, n)

\* The last index is that of the last sample, and no index is beyond it.
LEMMA LastIndexIs ==
    ASSUME ContinuousIs
    PROVE  /\ Continuous!LastIndex \in Nat
           /\ samples = <<>> => Continuous!LastIndex = 0
           /\ samples # <<>> => Len(samples) \in DOMAIN samples
                                  /\ Continuous!LastIndex = samples[Len(samples)].index
           /\ \A i \in DOMAIN samples : samples[i].index \in 1..Continuous!LastIndex
<1>1. samples \in Seq(ContinuousSample)
  BY DEF ContinuousIs
<1>2. \A i \in DOMAIN samples : samples[i].index \in Nat /\ samples[i].index >= 1
  <2> TAKE i \in DOMAIN samples
  <2>1. samples[i] \in ContinuousSample
    BY <1>1
  <2>2. samples[i].index \in Nat
    BY <2>1 DEF ContinuousSample
  <2>3. QED
    BY <2>2 DEF ContinuousIs
<1>3. CASE samples = <<>>
  BY <1>3 DEF Continuous!LastIndex
<1>4. CASE samples # <<>>
  <2>1. Len(samples) \in DOMAIN samples /\ Continuous!LastIndex = samples[Len(samples)].index
    BY <1>1, <1>4 DEF Continuous!LastIndex, Continuous!Last
  <2>2. \A i \in DOMAIN samples : i = Len(samples) \/ i < Len(samples)
    BY <1>1
  <2>3. \A i \in DOMAIN samples : samples[i].index <= samples[Len(samples)].index
    BY <1>2, <2>1, <2>2 DEF ContinuousIs
  <2>4. QED
    BY <1>2, <1>4, <2>1, <2>3
<1>5. QED
  BY <1>3, <1>4

\* A step of the detector takes a sample.
LEMMA NextTakes ==
    ASSUME ContinuousIs, Continuous!Next
    PROVE  \E x, n : Takes(x, n)
<1>1. MaxRows \in Nat /\ Continuous!LastIndex \in Nat
  BY ContinuousAssumption, LastIndexIs
<1>2. PICK x \in Inputs, n \in (Continuous!LastIndex + 1)..MaxRows : Continuous!Sample(x, n)
  BY DEF Continuous!Next
<1>3. n \in Nat /\ Continuous!LastIndex < n
  BY <1>1
<1>4. QED
  BY <1>1, <1>2, <1>3 DEF Takes

\* The samples are those before and one more.
LEMMA SamplesGrow ==
    ASSUME ContinuousIs, NEW x, NEW n, Takes(x, n)
    PROVE  /\ samples' \in Seq(ContinuousSample) /\ Len(samples) \in Nat
           /\ Len(samples') = Len(samples) + 1
           /\ DOMAIN samples = 1..Len(samples) /\ DOMAIN samples' = 1..(Len(samples) + 1)
           /\ \A i \in 1..Len(samples) : samples'[i] = samples[i]
           /\ samples'[Len(samples) + 1]
                = [sign |-> x.sign, delta |-> x.delta, raw |-> x.raw,
                   candidates |-> x.candidates, index |-> n]
<1> DEFINE y == [sign |-> x.sign, delta |-> x.delta, raw |-> x.raw,
                 candidates |-> x.candidates, index |-> n]
<1>1. samples' = Append(samples, y) /\ x \in Inputs /\ n \in Nat
  BY DEF Takes, Continuous!Sample
<1>2. y \in ContinuousSample
  BY <1>1, ContinuousAssumption DEF ContinuousSample, Candidates
<1>3. samples \in Seq(ContinuousSample)
  BY DEF ContinuousIs
<1> HIDE DEF y
<1>4. QED
  BY <1>1, <1>2, <1>3 DEF y

\* The run with the sample in it.
LEMMA RunWithIs ==
    ASSUME ContinuousIs, NEW x \in Inputs
    PROVE  /\ Continuous!RunWith(x) \in SlopeRun
           /\ Continuous!EmittedRun(Continuous!RunWith(x)) \in SlopeRun
           /\ Continuous!CumAbs(x) \in Nat
<1>1. x.sign \in {-1, 0, 1} /\ x.delta \in Nat /\ x.raw \in Nat
  BY ContinuousAssumption
<1>2. slopeRun \in SlopeRun /\ driftGuardCumAbs \in Nat
  BY DEF ContinuousIs
<1>3. Continuous!RunWith(x) \in SlopeRun
  <2>1. PICK sign, emitted, last, peak, length :
          /\ slopeRun = [sign |-> sign, length |-> length, peak |-> peak,
                         emitted |-> emitted, lastEmittedPeak |-> last]
          /\ length \in Nat /\ peak \in Nat /\ emitted \in BOOLEAN /\ last \in Nat
    BY <1>2 DEF SlopeRun
  <2>2. CASE x.sign = 0
    BY <2>2 DEF Continuous!RunWith, Continuous!NoRun, SlopeRun
  <2>3. CASE x.sign # 0 /\ x.sign # slopeRun.sign
    <3>1. Continuous!RunWith(x) = [sign |-> x.sign, length |-> 1, peak |-> x.delta,
                                   emitted |-> FALSE, lastEmittedPeak |-> 0]
      BY <2>3 DEF Continuous!RunWith, Continuous!NoRun
    <3>2. QED
      BY <1>1, <3>1 DEF SlopeRun
  <2>4. CASE x.sign # 0 /\ x.sign = slopeRun.sign
    <3> DEFINE r == [sign |-> sign, length |-> length, peak |-> peak,
                     emitted |-> emitted, lastEmittedPeak |-> last]
    <3>1. slopeRun.sign = sign
      BY <2>1
    <3>2. Continuous!RunWith(x)
            = [r EXCEPT !.length = @ + 1, !.peak = Continuous!Larger(@, x.delta)]
      BY <2>1, <2>4 DEF Continuous!RunWith
    <3>3. Continuous!RunWith(x)
            = [sign |-> x.sign, length |-> length + 1, peak |-> Continuous!Larger(peak, x.delta),
               emitted |-> emitted, lastEmittedPeak |-> last]
      BY <2>4, <3>1, <3>2
    <3>4. length + 1 \in Nat /\ Continuous!Larger(peak, x.delta) \in Nat
      BY <1>1, <2>1 DEF Continuous!Larger
    <3>5. QED
      BY <1>1, <2>1, <3>3, <3>4 DEF SlopeRun
  <2>5. QED
    BY <2>2, <2>3, <2>4
<1>4. PICK run \in SlopeRun : run = Continuous!RunWith(x)
  BY <1>3
<1>5. Continuous!EmittedRun(run) \in SlopeRun
  BY DEF Continuous!EmittedRun, SlopeRun
<1>6. Continuous!CumAbs(x) \in Nat
  BY <1>1, <1>2 DEF Continuous!CumAbs
<1>7. QED
  BY <1>3, <1>4, <1>5, <1>6

\* The events are those before and what the sample emits.
LEMMA EventsGrow ==
    ASSUME ContinuousIs, NEW x, NEW n, Takes(x, n)
    PROVE  /\ Joins(ContinuousEvent, events, Continuous!Emitted(x, n), events')
           /\ Emits(Continuous!Emitted(x, n), ContinuousEmitted(x, n))
           /\ DOMAIN events = 1..Len(events) /\ Len(events) \in Nat
           /\ events' \in Seq(ContinuousEvent) /\ DOMAIN events \subseteq DOMAIN events'
           /\ \A i \in DOMAIN events : events'[i] = events[i]
           /\ \A i \in DOMAIN events' : i \in Nat /\ events'[i] \in ContinuousEvent
                /\ (i \in DOMAIN events \/ events'[i] \in ContinuousEmitted(x, n))
<1>1. /\ x \in Inputs /\ events' = events \o Continuous!Emitted(x, n)
      /\ events \in Seq(ContinuousEvent) /\ Len(samples) \in Nat
  BY SamplesGrow DEF Takes, Continuous!Sample, ContinuousIs
<1>2. Continuous!RunWith(x) \in SlopeRun /\ Continuous!CumAbs(x) \in Nat
  BY <1>1, RunWithIs
<1>3. Continuous!RunWith(x).peak \in Nat
  BY <1>2 DEF SlopeRun
<1>4. /\ Continuous!Emitted(x, n) \in Seq(ContinuousEvent)
      /\ Emits(Continuous!Emitted(x, n), ContinuousEmitted(x, n))
  BY <1>1, <1>2, <1>3, ContinuousEmits
<1>5. Joins(ContinuousEvent, events, Continuous!Emitted(x, n), events')
  BY <1>1, <1>4 DEF Joins
<1>6. Exclusive(ContinuousEmitted(x, n), {})
  BY DEF Exclusive
<1>7. /\ events' \in Seq(ContinuousEvent) /\ DOMAIN events \subseteq DOMAIN events'
      /\ \A i \in DOMAIN events : events'[i] = events[i]
      /\ \A i \in DOMAIN events' : i \in DOMAIN events \/ events'[i] \in ContinuousEmitted(x, n)
  BY <1>4, <1>5, <1>6, EmittedOnce
<1>8. \A i \in DOMAIN events' : i \in Nat /\ events'[i] \in ContinuousEvent
  BY <1>7
<1>9. QED
  BY <1>1, <1>4, <1>5, <1>7, <1>8

\* The events of a sample stand at it.
LEMMA TakenAt ==
    ASSUME NEW x, NEW n, NEW e \in ContinuousEmitted(x, n)
    PROVE  e.at = Len(samples) + 1
<1>1. \A kind, reason, amount : Told(kind, reason, amount).at = Len(samples) + 1
  BY DEF Told
<1>2. \E kind, reason, amount : e = Told(kind, reason, amount)
  BY DEF ContinuousEmitted, If, SlopeTold, DriftTold
<1>3. QED
  BY <1>1, <1>2

\* Samples and events stay in order.
LEMMA ContinuousStep ==
    ASSUME ContinuousIs, NEW x, NEW n, Takes(x, n)
    PROVE  ContinuousIs'
<1> DEFINE m == Len(samples)
<1>1. /\ samples' \in Seq(ContinuousSample) /\ m \in Nat
      /\ DOMAIN samples = 1..m /\ DOMAIN samples' = 1..(m + 1)
      /\ \A i \in 1..m : samples'[i] = samples[i]
      /\ samples'[m + 1].index = n
  <2>1. \A y : y = [sign |-> x.sign, delta |-> x.delta, raw |-> x.raw,
                   candidates |-> x.candidates, index |-> n] => y.index = n
    OBVIOUS
  <2>2. QED
    BY <2>1, SamplesGrow
<1>2. /\ x \in Inputs /\ n \in Nat /\ Continuous!LastIndex \in Nat /\ Continuous!LastIndex < n
      /\ \A i \in DOMAIN samples : samples[i].index \in 1..Continuous!LastIndex
  BY LastIndexIs DEF Takes
<1>3. \A i \in DOMAIN samples' : samples'[i].index >= 1
  <2> TAKE i \in DOMAIN samples'
  <2>1. CASE i \in 1..m
    BY <1>1, <1>2, <2>1
  <2>2. CASE i = m + 1
    BY <1>1, <1>2, <2>2
  <2>3. QED
    BY <1>1, <2>1, <2>2
<1>4. \A i, j \in DOMAIN samples' : i < j => samples'[i].index < samples'[j].index
  <2> TAKE i, j \in DOMAIN samples'
  <2>1. SUFFICES ASSUME i < j PROVE samples'[i].index < samples'[j].index
    OBVIOUS
  <2>2. i \in 1..m
    BY <1>1, <2>1
  <2>3. CASE j \in 1..m
    BY <1>1, <2>1, <2>2, <2>3 DEF ContinuousIs
  <2>4. CASE j = m + 1
    BY <1>1, <1>2, <2>2, <2>4
  <2>5. QED
    BY <1>1, <2>3, <2>4
<1>5. events' \in Seq(ContinuousEvent)
  BY EventsGrow
<1>6. \A i \in DOMAIN events' : events'[i].at \in DOMAIN samples'
  <2> TAKE i \in DOMAIN events'
  <2>1. CASE i \in DOMAIN events
    <3>1. events'[i] = events[i] /\ events[i].at \in DOMAIN samples
      BY <2>1, EventsGrow DEF ContinuousIs
    <3>2. QED
      BY <1>1, <3>1
  <2>2. CASE events'[i] \in ContinuousEmitted(x, n)
    <3>1. events'[i].at = m + 1
      BY <2>2, TakenAt
    <3>2. QED
      BY <1>1, <3>1
  <2>3. QED
    BY <2>1, <2>2, EventsGrow
<1>7. driftGuardCumAbs' \in Nat /\ slopeRun' \in SlopeRun
  BY <1>2, RunWithIs DEF Takes, Continuous!Sample, Continuous!CumAbsAfter
<1>8. QED
  BY <1>1, <1>3, <1>4, <1>5, <1>6, <1>7 DEF ContinuousIs

\* The samples at which events of these kinds stand.
AtSamples(es, kinds) == {es[i].at : i \in At(es, kinds)}

\* These are the samples that the properties speak of.
LEMMA AtSamplesIs ==
    ASSUME NEW kinds
    PROVE  Continuous!EmittedAt(kinds) = AtSamples(events, kinds)
  BY DEF Continuous!EmittedAt, Continuous!OfKind, AtSamples, At

\* The sample read is one of them, if the condition holds.
Grows(kinds, condition) ==
    /\ AtSamples(events', kinds)
         = AtSamples(events, kinds) \cup (IF condition THEN {Len(samples) + 1} ELSE {})
    /\ \A m \in AtSamples(events, kinds) : m \in 1..Len(samples)

\* The events of a sample of these kinds are at it.
LEMMA AtSamplesGrow ==
    ASSUME ContinuousIs, NEW x, NEW n, Takes(x, n), NEW kinds, NEW condition, NEW event,
           Only(ContinuousEmitted(x, n), kinds, condition, event)
    PROVE  Adds(events, events', kinds, condition, event) /\ Grows(kinds, condition)
<1>1. Adds(events, events', kinds, condition, event)
  BY EventsGrow, OnlyAdds
<1>2. \A i \in At(events, kinds) : i \in DOMAIN events /\ events'[i] = events[i]
  BY EventsGrow DEF At
<1>3. \A m \in AtSamples(events, kinds) : m \in 1..Len(samples)
  <2>1. DOMAIN samples = 1..Len(samples)
    BY DEF ContinuousIs
  <2>2. QED
    BY <1>2, <2>1 DEF AtSamples, ContinuousIs
<1>4. CASE condition
  <2>1. PICK p \in Nat : NewAt(events, events', kinds, event, p)
    BY <1>1, <1>4 DEF Adds
  <2>2. event \in ContinuousEmitted(x, n)
    BY <1>4 DEF Only
  <2>3. event.at = Len(samples) + 1
    BY <2>2, TakenAt
  <2>4. At(events', kinds) = At(events, kinds) \cup {p} /\ events'[p].at = Len(samples) + 1
    BY <2>1, <2>3 DEF NewAt
  <2>5. AtSamples(events', kinds) = AtSamples(events, kinds) \cup {Len(samples) + 1}
    BY <1>2, <2>4 DEF AtSamples
  <2>6. QED
    BY <1>1, <1>3, <1>4, <2>5 DEF Grows
<1>5. CASE ~condition
  <2>1. At(events', kinds) = At(events, kinds)
    BY <1>1, <1>5 DEF Adds
  <2>2. AtSamples(events', kinds) = AtSamples(events, kinds)
    BY <1>2, <2>1 DEF AtSamples
  <2>3. QED
    BY <1>1, <1>3, <1>5, <2>2 DEF Grows
<1>6. QED
  BY <1>4, <1>5

-----------------------------------------------------------------------------
(* Switches and oscillations.                                               *)

\* last is the index of the last sample of E, the samples of a kind's events.
IsLast(ss, E, last) ==
    \/ last = Continuous!LongAgo /\ E = {}
    \/ \E m \in E : ss[m].index = last /\ \A k \in E : k <= m

\* Sample n is to have an event of the kind.
Calls(ss, E, kind, n) ==
    /\ kind \in ss[n].candidates
    /\ \A m \in E : m < n => ss[n].index - ss[m].index >= Refractory[kind]

SpacedIs ==
    \A kind \in Continuous!Spaced :
        /\ IsLast(samples, AtSamples(events, {kind}), lastIndex[kind])
        /\ \A n \in DOMAIN samples :
              n \in AtSamples(events, {kind})
                <=> Calls(samples, AtSamples(events, {kind}), kind, n)

\* A first candidate is never too close to the start.
RefractoryFits == \A kind \in Continuous!Spaced : Refractory[kind] <= 1 - Continuous!LongAgo

\* The invariant is the property, with the index of the last event of a kind.
LEMMA SpacedIsIt ==
    SpacedIs => Continuous!CandidatesAreSpaced
<1>1. \A kind : Continuous!EmittedAt({kind}) = AtSamples(events, {kind})
  BY AtSamplesIs
<1>2. QED
  BY <1>1 DEF SpacedIs, Calls, Continuous!CandidatesAreSpaced

\* A sample keeps the distances: the last event of the kind is the closest.
LEMMA SpacedStep ==
    ASSUME ContinuousIs, SpacedIs, RefractoryFits, NEW x, NEW n, Takes(x, n)
    PROVE  SpacedIs'
<1> DEFINE L == Len(samples)
<1>1. lastIndex' = [kind \in Continuous!Spaced |->
                      IF Continuous!SpacedEmit(kind, x, n) THEN n ELSE lastIndex[kind]]
  BY DEF Takes, Continuous!Sample
<1>2. ASSUME NEW kind \in Continuous!Spaced
      PROVE  /\ IsLast(samples', AtSamples(events', {kind}), lastIndex'[kind])
             /\ \A k \in DOMAIN samples' :
                   k \in AtSamples(events', {kind})
                     <=> Calls(samples', AtSamples(events', {kind}), kind, k)
  <2> DEFINE E == AtSamples(events, {kind})
             F == AtSamples(events', {kind})
             emit == Continuous!SpacedEmit(kind, x, n)
             last == lastIndex[kind]
             r == Refractory[kind]
  <2>1. F = E \cup (IF emit THEN {L + 1} ELSE {}) /\ \A m \in E : m \in 1..L
    <3>1. Only(ContinuousEmitted(x, n), {kind}, emit, Told(kind, "", x.raw))
      BY ContinuousOnly
    <3>2. Grows({kind}, emit)
      BY <3>1, AtSamplesGrow
    <3>3. QED
      BY <3>2 DEF Grows
  <2>2. /\ L \in Nat /\ DOMAIN samples = 1..L /\ DOMAIN samples' = 1..(L + 1)
        /\ \A i \in 1..L : samples'[i] = samples[i]
        /\ samples'[L + 1].index = n /\ samples'[L + 1].candidates = x.candidates
    <3>1. \A y : y = [sign |-> x.sign, delta |-> x.delta, raw |-> x.raw,
                      candidates |-> x.candidates, index |-> n]
                    => y.index = n /\ y.candidates = x.candidates
      OBVIOUS
    <3>2. QED
      BY <3>1, SamplesGrow
  <2>3. /\ \A i \in 1..L : samples[i].index \in Nat /\ samples[i].index >= 1
                             /\ samples[i].index < n
        /\ n \in Nat /\ n >= 1
    <3>1. /\ \A i \in 1..L : samples[i].index \in 1..Continuous!LastIndex
          /\ Continuous!LastIndex \in Nat /\ n \in Nat /\ Continuous!LastIndex < n
      BY <2>2, LastIndexIs DEF Takes
    <3>2. QED
      BY <3>1
  <2>4. \A i, j \in 1..L : i < j => samples[i].index < samples[j].index
    BY <2>2 DEF ContinuousIs
  <2>5. r \in Nat /\ r <= 1 - Continuous!LongAgo
    BY ContinuousAssumption DEF RefractoryFits, Continuous!Spaced
  <2>6. IsLast(samples, E, last)
    BY DEF SpacedIs
  <2>7. \A k \in 1..L : k \in E <=> Calls(samples, E, kind, k)
    BY <2>2 DEF SpacedIs
  <2>8. emit <=> kind \in x.candidates /\ n - last >= r
    BY DEF Continuous!SpacedEmit
  <2>9. lastIndex'[kind] = IF emit THEN n ELSE last
    BY <1>1
  <2> HIDE DEF E, F, emit, last, r, L
  <2>10. n - last >= r <=> \A m \in E : n - samples[m].index >= r
    <3>1. CASE last = Continuous!LongAgo /\ E = {}
      BY <2>3, <2>5, <3>1 DEF Continuous!LongAgo
    <3>2. CASE \E m \in E : samples[m].index = last /\ \A k \in E : k <= m
      <4>1. PICK m \in E : samples[m].index = last /\ \A k \in E : k <= m
        BY <3>2
      <4>2. \A k \in E : samples[k].index \in Nat /\ samples[k].index <= last
        <5> TAKE k \in E
        <5>1. k \in 1..L /\ m \in 1..L /\ (k = m \/ k < m)
          BY <2>1, <2>2, <4>1
        <5>2. QED
          BY <2>3, <2>4, <4>1, <5>1
      <4>3. last \in Nat
        BY <4>1, <4>2
      <4>4. QED
        BY <2>3, <2>5, <4>1, <4>2, <4>3
    <3>3. QED
      BY <2>6, <3>1, <3>2 DEF IsLast
  <2>11. emit <=> kind \in x.candidates /\ \A m \in E : n - samples[m].index >= r
    BY <2>8, <2>10
  <2>12. \A m \in E : m < L + 1 /\ m \in Nat
    BY <2>1, <2>2
  <2>13. \A m \in F : m \in E \/ m = L + 1
    BY <2>1
  <2>14. \A m \in E : m \in F /\ samples'[m] = samples[m]
    BY <2>1, <2>2
  <2>15. ASSUME NEW k \in 1..L
         PROVE  k \in F <=> Calls(samples', F, kind, k)
    <3>1. k \in F <=> k \in E
      BY <2>1, <2>2
    <3>2. samples'[k] = samples[k]
      BY <2>2
    <3>3. \A m \in F : m < k => m \in E
      BY <2>2, <2>13
    <3>4. Calls(samples', F, kind, k) <=> Calls(samples, E, kind, k)
      BY <2>14, <3>2, <3>3 DEF Calls
    <3>5. QED
      BY <2>7, <3>1, <3>4
  <2>16. L + 1 \in F <=> Calls(samples', F, kind, L + 1)
    <3>1. L + 1 \in F <=> emit
      BY <2>1, <2>2, <2>12
    <3>2. \A m \in F : m < L + 1 <=> m \in E
      BY <2>2, <2>12, <2>13
    <3>3. Calls(samples', F, kind, L + 1)
            <=> kind \in x.candidates /\ \A m \in E : n - samples[m].index >= r
      BY <2>2, <2>14, <3>2 DEF Calls, r
    <3>4. QED
      BY <2>11, <3>1, <3>3
  <2>17. \A k \in DOMAIN samples' : k \in F <=> Calls(samples', F, kind, k)
    BY <2>2, <2>15, <2>16
  <2>18. IsLast(samples', F, lastIndex'[kind])
    <3>1. CASE emit
      <4>1. L + 1 \in F /\ \A k \in F : k <= L + 1
        BY <2>1, <2>2, <2>12, <2>13, <3>1
      <4>2. QED
        BY <2>2, <2>9, <3>1, <4>1 DEF IsLast
    <3>2. CASE ~emit
      <4>1. F = E
        BY <2>1, <3>2
      <4>2. QED
        BY <2>6, <2>9, <2>14, <3>2, <4>1 DEF IsLast
    <3>3. QED
      BY <3>1, <3>2
  <2>19. QED
    BY <2>17, <2>18 DEF F
<1>3. QED
  BY <1>2 DEF SpacedIs

-----------------------------------------------------------------------------
(* The drift guard's distance.                                              *)

GuardIndices == {0} \cup {samples[n].index : n \in AtSamples(events, {"drift_guard"})}

DriftIs ==
    /\ lastDriftGuardIndex \in GuardIndices
    /\ \A k \in GuardIndices : k \in Nat /\ k <= lastDriftGuardIndex
    /\ GuardAbsChange > 0 => driftGuardCumAbs < GuardAbsChange
    /\ GuardMaxGap > 0 => Continuous!LastIndex - lastDriftGuardIndex < GuardMaxGap

\* The index of the last guard is the greatest of the indices of guards.
LEMMA DriftIsIt ==
    DriftIs => Continuous!DriftIsGuarded
<1>1. SUFFICES ASSUME DriftIs PROVE Continuous!DriftIsGuarded
  OBVIOUS
<1>2. Continuous!EmittedAt({"drift_guard"}) = AtSamples(events, {"drift_guard"})
  BY AtSamplesIs
<1>3. Continuous!Max(GuardIndices) = lastDriftGuardIndex
  <2>1. lastDriftGuardIndex \in GuardIndices /\ \A k \in GuardIndices : lastDriftGuardIndex >= k
    BY <1>1 DEF DriftIs
  <2>2. \A m \in GuardIndices : (\A k \in GuardIndices : m >= k) => m = lastDriftGuardIndex
    BY <1>1, <2>1 DEF DriftIs
  <2>3. QED
    BY <2>1, <2>2, Zenon DEF Continuous!Max
<1>4. QED
  BY <1>1, <1>2, <1>3 DEF DriftIs, Continuous!DriftIsGuarded, GuardIndices

\* A sample reaches neither limit without a guard.
LEMMA DriftStep ==
    ASSUME ContinuousIs, DriftIs, NEW x, NEW n, Takes(x, n)
    PROVE  DriftIs'
<1> DEFINE L == Len(samples)
           E == AtSamples(events, {"drift_guard"})
           F == AtSamples(events', {"drift_guard"})
           emit == Continuous!DriftEmit(x, n)
<1>1. F = E \cup (IF emit THEN {L + 1} ELSE {}) /\ \A m \in E : m \in 1..L
  <2>1. Only(ContinuousEmitted(x, n), {"drift_guard"}, emit, DriftTold(x))
    BY ContinuousOnly
  <2>2. Grows({"drift_guard"}, emit)
    BY <2>1, AtSamplesGrow
  <2>3. QED
    BY <2>2 DEF Grows
<1>2. /\ L \in Nat /\ DOMAIN samples = 1..L
      /\ \A i \in 1..L : samples'[i] = samples[i]
      /\ samples'[L + 1].index = n
      /\ samples' \in Seq(ContinuousSample) /\ Len(samples') = L + 1
  <2>1. \A y : y = [sign |-> x.sign, delta |-> x.delta, raw |-> x.raw,
                    candidates |-> x.candidates, index |-> n] => y.index = n
    OBVIOUS
  <2>2. QED
    BY <2>1, SamplesGrow
<1>3. Continuous!LastIndex' = n
  BY <1>2 DEF Continuous!LastIndex, Continuous!Last
<1>4. /\ x \in Inputs /\ n \in Nat /\ Continuous!LastIndex \in Nat /\ Continuous!LastIndex < n
      /\ driftGuardCumAbs' = Continuous!CumAbsAfter(x, n)
      /\ lastDriftGuardIndex' = Continuous!GuardIndexAfter(x, n)
  BY DEF Takes, Continuous!Sample
<1>5. Continuous!CumAbs(x) \in Nat /\ GuardAbsChange \in Nat /\ GuardMaxGap \in Nat
  BY <1>4, RunWithIs, ContinuousAssumption
<1>6. \A k \in GuardIndices : k \in Nat /\ k < n
  BY <1>1, <1>2, <1>4, LastIndexIs DEF GuardIndices
<1>7. /\ \A m \in E : samples'[m] = samples[m]
      /\ lastDriftGuardIndex \in Nat /\ lastDriftGuardIndex \in GuardIndices
      /\ \A k \in GuardIndices : k <= lastDriftGuardIndex
  BY <1>1, <1>2 DEF DriftIs
<1>8. CASE emit
  <2>1. F = E \cup {L + 1}
    BY <1>1, <1>8
  <2>2. GuardIndices' = GuardIndices \cup {n}
    BY <1>2, <1>7, <2>1 DEF GuardIndices
  <2>3. driftGuardCumAbs' = 0 /\ lastDriftGuardIndex' = n
    BY <1>4, <1>8 DEF Continuous!CumAbsAfter, Continuous!GuardIndexAfter
  <2>4. \A k \in GuardIndices' : k \in Nat /\ k <= n
    BY <1>4, <1>6, <2>2
  <2>5. (GuardAbsChange > 0 => 0 < GuardAbsChange) /\ (GuardMaxGap > 0 => n - n < GuardMaxGap)
    BY <1>4, <1>5
  <2>6. QED
    BY <1>3, <2>2, <2>3, <2>4, <2>5 DEF DriftIs
<1>9. CASE ~emit
  <2>1. F = E
    BY <1>1, <1>9
  <2>2. GuardIndices' = GuardIndices
    BY <1>7, <2>1 DEF GuardIndices
  <2>3. driftGuardCumAbs' = Continuous!CumAbs(x) /\ lastDriftGuardIndex' = lastDriftGuardIndex
    BY <1>4, <1>9 DEF Continuous!CumAbsAfter, Continuous!GuardIndexAfter
  <2>4. /\ GuardAbsChange > 0 => Continuous!CumAbs(x) < GuardAbsChange
        /\ GuardMaxGap > 0 => n - lastDriftGuardIndex < GuardMaxGap
    BY <1>4, <1>5, <1>7, <1>9
       DEF Continuous!DriftEmit, Continuous!DriftByChange, Continuous!DriftByGap
  <2>5. QED
    BY <1>3, <1>6, <1>7, <2>2, <2>3, <2>4 DEF DriftIs
<1>10. QED
  BY <1>8, <1>9

-----------------------------------------------------------------------------
(* The sums of the drift.                                                   *)

Weight(e) == IF e.kind = "drift_guard" THEN e.amount ELSE 0

Amounts == INSTANCE FoldLemmas
    WITH Op <- LAMBDA ctx, sum, e : sum + IF e.kind = "drift_guard" THEN e.amount ELSE 0
Raws == INSTANCE FoldLemmas WITH Op <- LAMBDA ctx, sum, x : sum + x.raw

\* What the guards among these events report, and what these samples change.
Reported(es) == Amounts!Fold(0, 0, es)
Changed(ss) == Raws!Fold(0, 0, ss)

\* f[i] is the sum of the first i of them.
ReportedTo(es, f) == f[0] = 0 /\ \A i \in 1..Len(es) : f[i] = f[i - 1] + Weight(es[i])
ChangedTo(ss, f) == f[0] = 0 /\ \A i \in 1..Len(ss) : f[i] = f[i - 1] + ss[i].raw

\* The amounts reported are the end of their partial sums.
LEMMA ReportedIs ==
    ASSUME NEW es \in Seq(ContinuousEvent)
    PROVE  \E f : ReportedTo(es, f) /\ Reported(es) = f[Len(es)]
<1>1. PICK f : Amounts!Runs(0, 0, es, f) /\ Reported(es) = f[Len(es)]
  BY Amounts!FoldRuns DEF Reported
<1>2. QED
  BY <1>1 DEF Amounts!Runs, ReportedTo, Weight

\* The changes of the samples are the end of their partial sums.
LEMMA ChangedIs ==
    ASSUME NEW ss \in Seq(ContinuousSample)
    PROVE  \E f : ChangedTo(ss, f) /\ Changed(ss) = f[Len(ss)]
<1>1. PICK f : Raws!Runs(0, 0, ss, f) /\ Changed(ss) = f[Len(ss)]
  BY Raws!FoldRuns DEF Changed
<1>2. QED
  BY <1>1 DEF Raws!Runs, ChangedTo

\* A sum is a number.
LEMMA ReportedNat ==
    ASSUME NEW es \in Seq(ContinuousEvent), NEW f, ReportedTo(es, f)
    PROVE  \A i \in 0..Len(es) : f[i] \in Nat
<1> DEFINE T == {i \in Nat : i <= Len(es) => f[i] \in Nat}
<1>1. 0 \in T
  BY DEF ReportedTo
<1>2. ASSUME NEW i \in Nat, i \in T
      PROVE  i + 1 \in T
  <2>1. SUFFICES ASSUME i + 1 <= Len(es) PROVE f[i + 1] \in Nat
    OBVIOUS
  <2>2. i + 1 \in 1..Len(es) /\ (i + 1) - 1 = i /\ f[i] \in Nat
    BY <1>2, <2>1
  <2>3. es[i + 1] \in ContinuousEvent
    BY <2>2
  <2>4. Weight(es[i + 1]) \in Nat
    BY <2>3 DEF Weight, ContinuousEvent
  <2>5. f[i + 1] = f[i] + Weight(es[i + 1])
    BY <2>2 DEF ReportedTo
  <2>6. QED
    BY <2>2, <2>4, <2>5
<1> HIDE DEF T
<1>3. Nat \subseteq T
  BY <1>1, <1>2, Numbers!Induction
<1>4. QED
  BY <1>3 DEF T

\* So is a sum of changes.
LEMMA ChangedNat ==
    ASSUME NEW ss \in Seq(ContinuousSample), NEW f, ChangedTo(ss, f)
    PROVE  \A i \in 0..Len(ss) : f[i] \in Nat
<1> DEFINE T == {i \in Nat : i <= Len(ss) => f[i] \in Nat}
<1>1. 0 \in T
  BY DEF ChangedTo
<1>2. ASSUME NEW i \in Nat, i \in T
      PROVE  i + 1 \in T
  <2>1. SUFFICES ASSUME i + 1 <= Len(ss) PROVE f[i + 1] \in Nat
    OBVIOUS
  <2>2. i + 1 \in 1..Len(ss) /\ (i + 1) - 1 = i /\ f[i] \in Nat
    BY <1>2, <2>1
  <2>3. ss[i + 1] \in ContinuousSample
    BY <2>2
  <2>4. ss[i + 1].raw \in Nat
    BY <2>3 DEF ContinuousSample
  <2>5. f[i + 1] = f[i] + ss[i + 1].raw
    BY <2>2 DEF ChangedTo
  <2>6. QED
    BY <2>2, <2>4, <2>5
<1> HIDE DEF T
<1>3. Nat \subseteq T
  BY <1>1, <1>2, Numbers!Induction
<1>4. QED
  BY <1>3 DEF T

\* Sums along two sequences agree as far as the sequences do.
LEMMA ReportedAgree ==
    ASSUME NEW es \in Seq(ContinuousEvent), NEW more \in Seq(ContinuousEvent),
           DOMAIN es \subseteq DOMAIN more, \A i \in DOMAIN es : more[i] = es[i],
           NEW f, NEW g, ReportedTo(es, f), ReportedTo(more, g)
    PROVE  f[Len(es)] = g[Len(es)]
<1>1. Amounts!Runs(0, 0, es, f) /\ Amounts!Runs(0, 0, more, g)
  BY DEF ReportedTo, Amounts!Runs, Weight
<1>2. PICK n \in Nat : n = Len(es)
  OBVIOUS
<1>3. n <= Len(es) /\ n <= Len(more) /\ Len(es) \in Nat /\ Len(more) \in Nat
      /\ \A i \in 1..n : es[i] = more[i]
  BY <1>2
<1>4. \A i \in 0..n : f[i] = g[i]
  BY <1>1, <1>3, Amounts!RunsAgree
<1>5. QED
  BY <1>2, <1>4

\* The same for the changes of the samples.
LEMMA ChangedAgree ==
    ASSUME NEW ss \in Seq(ContinuousSample), NEW more \in Seq(ContinuousSample),
           Len(ss) <= Len(more), \A i \in 1..Len(ss) : more[i] = ss[i],
           NEW f, NEW g, ChangedTo(ss, f), ChangedTo(more, g)
    PROVE  f[Len(ss)] = g[Len(ss)]
<1>1. Raws!Runs(0, 0, ss, f) /\ Raws!Runs(0, 0, more, g)
  BY DEF ChangedTo, Raws!Runs
<1>2. PICK n \in Nat : n = Len(ss)
  OBVIOUS
<1>3. n <= Len(ss) /\ n <= Len(more) /\ Len(ss) \in Nat /\ Len(more) \in Nat
      /\ \A i \in 1..n : ss[i] = more[i]
  BY <1>2
<1>4. \A i \in 0..n : f[i] = g[i]
  BY <1>1, <1>3, Raws!RunsAgree
<1>5. QED
  BY <1>2, <1>4

\* One guard more adds its amount.
LEMMA ReportedMore ==
    ASSUME NEW es \in Seq(ContinuousEvent), NEW more \in Seq(ContinuousEvent),
           DOMAIN es \subseteq DOMAIN more, \A i \in DOMAIN es : more[i] = es[i],
           NEW condition, NEW event, event.kind = "drift_guard", event.amount \in Nat,
           Adds(es, more, {"drift_guard"}, condition, event)
    PROVE  Reported(more) = Reported(es) + (IF condition THEN event.amount ELSE 0)
<1>1. PICK f : ReportedTo(es, f) /\ Reported(es) = f[Len(es)]
  BY ReportedIs
<1>2. PICK g : ReportedTo(more, g) /\ Reported(more) = g[Len(more)]
  BY ReportedIs
<1> DEFINE L == Len(es)
           M == Len(more)
<1>3. L \in Nat /\ M \in Nat /\ L <= M /\ DOMAIN es = 1..L /\ DOMAIN more = 1..M
  OBVIOUS
<1>4. f[L] = g[L] /\ f[L] \in Nat
  <2>1. f[L] = g[L]
    BY <1>1, <1>2, ReportedAgree
  <2>2. \A i \in 0..Len(es) : f[i] \in Nat
    BY <1>1, ReportedNat
  <2>3. QED
    BY <1>3, <2>1, <2>2
<1>5. PICK p \in Nat : IF condition THEN NewAt(es, more, {"drift_guard"}, event, p) ELSE p = 0
  BY DEF Adds
<1>6. \A i \in 1..M : i > L => Weight(more[i]) = IF condition /\ i = p THEN event.amount ELSE 0
  <2> TAKE i \in 1..M
  <2>1. SUFFICES ASSUME i > L
                 PROVE  Weight(more[i]) = IF condition /\ i = p THEN event.amount ELSE 0
    OBVIOUS
  <2>2. i \in DOMAIN more /\ i \notin At(es, {"drift_guard"})
    BY <1>3, <2>1 DEF At
  <2>3. CASE condition
    <3>1. more[p] = event /\ At(more, {"drift_guard"}) = At(es, {"drift_guard"}) \cup {p}
      BY <1>5, <2>3 DEF NewAt
    <3>2. i = p \/ more[i].kind # "drift_guard"
      BY <2>2, <3>1 DEF At
    <3>3. i = p => more[i].kind = "drift_guard"
      BY <3>1
    <3>4. QED
      BY <2>3, <3>1, <3>2, <3>3 DEF Weight
  <2>4. CASE ~condition
    <3>1. At(more, {"drift_guard"}) = At(es, {"drift_guard"})
      BY <2>4 DEF Adds
    <3>2. more[i].kind # "drift_guard"
      BY <2>2, <3>1 DEF At
    <3>3. QED
      BY <2>4, <3>2 DEF Weight
  <2>5. QED
    BY <2>3, <2>4
<1>7. condition => p \in 1..M /\ p > L
  BY <1>3, <1>5 DEF NewAt
<1> DEFINE T == {k \in Nat : L + k <= M =>
                    g[L + k] = f[L] + (IF condition /\ p <= L + k THEN event.amount ELSE 0)}
<1> HIDE DEF L, M
<1>8. 0 \in T
  BY <1>3, <1>4, <1>7
<1>9. ASSUME NEW k \in Nat, k \in T
      PROVE  k + 1 \in T
  <2>1. SUFFICES ASSUME L + (k + 1) <= M
                 PROVE  g[L + (k + 1)]
                          = f[L] + (IF condition /\ p <= L + (k + 1) THEN event.amount ELSE 0)
    OBVIOUS
  <2>2. PICK j \in Nat : j = L + k
    BY <1>3
  <2>3. L + (k + 1) = j + 1 /\ j + 1 \in 1..M /\ (j + 1) - 1 = j /\ j + 1 > L /\ j <= M
    BY <1>3, <2>1, <2>2
  <2>4. g[j + 1] = g[j] + Weight(more[j + 1])
    BY <1>2, <2>3 DEF ReportedTo, M
  <2>5. g[j] = f[L] + (IF condition /\ p <= j THEN event.amount ELSE 0)
    BY <1>9, <2>2, <2>3
  <2>6. Weight(more[j + 1]) = IF condition /\ j + 1 = p THEN event.amount ELSE 0
    BY <1>6, <2>3
  <2>7. g[j + 1] = f[L] + (IF condition /\ p <= j + 1 THEN event.amount ELSE 0)
    BY <1>4, <2>4, <2>5, <2>6
  <2>8. QED
    BY <2>3, <2>7
<1> HIDE DEF T
<1>10. Nat \subseteq T
  BY <1>8, <1>9, Numbers!Induction
<1>11. g[M] = f[L] + (IF condition THEN event.amount ELSE 0)
  <2>1. PICK k \in Nat : L + k = M
    <3>1. M - L \in Nat /\ L + (M - L) = M
      BY <1>3
    <3>2. QED
      BY <3>1
  <2>2. k \in T
    BY <1>10
  <2>3. g[M] = f[L] + (IF condition /\ p <= M THEN event.amount ELSE 0)
    BY <1>3, <2>1, <2>2 DEF T
  <2>4. condition => p <= M
    BY <1>3, <1>7
  <2>5. QED
    BY <2>3, <2>4
<1>12. QED
  BY <1>1, <1>2, <1>11 DEF L, M

SumsAre == driftGuardCumAbs + Reported(events) = Changed(samples)

\* The invariant is the property, with the folds as instances of Fold.
LEMMA SumsAreIt ==
    SumsAre <=> Continuous!DriftAccountsForAll
  BY DEF SumsAre, Continuous!DriftAccountsForAll, Reported, Changed,
         Continuous!FoldLeft, Continuous!MapThenFoldSet, Continuous!Max,
         Amounts!Fold, Amounts!FoldLeft, Amounts!MapThenFoldSet, Amounts!Max,
         Raws!Fold, Raws!FoldLeft, Raws!MapThenFoldSet, Raws!Max

\* A sample adds its change to the pending one, and a guard takes it all.
LEMMA SumsStep ==
    ASSUME ContinuousIs, SumsAre, NEW x, NEW n, Takes(x, n)
    PROVE  SumsAre'
<1> DEFINE L == Len(samples)
<1>1. /\ samples \in Seq(ContinuousSample) /\ samples' \in Seq(ContinuousSample)
      /\ L \in Nat /\ Len(samples') = L + 1
      /\ \A i \in 1..L : samples'[i] = samples[i]
      /\ samples'[L + 1].raw = x.raw
  <2>1. \A y : y = [sign |-> x.sign, delta |-> x.delta, raw |-> x.raw,
                    candidates |-> x.candidates, index |-> n] => y.raw = x.raw
    OBVIOUS
  <2>2. QED
    BY <2>1, SamplesGrow DEF ContinuousIs
<1>2. x \in Inputs /\ x.raw \in Nat /\ driftGuardCumAbs \in Nat
  BY ContinuousAssumption DEF Takes, ContinuousIs
<1>3. Changed(samples') = Changed(samples) + x.raw /\ Changed(samples) \in Nat
  <2>1. PICK f : ChangedTo(samples, f) /\ Changed(samples) = f[L]
    BY <1>1, ChangedIs
  <2>2. PICK ss \in Seq(ContinuousSample) : ss = samples'
    BY <1>1
  <2>3. PICK g : ChangedTo(ss, g) /\ Changed(ss) = g[Len(ss)]
    BY ChangedIs
  <2>4. f[L] = g[L]
    BY <1>1, <2>1, <2>2, <2>3, ChangedAgree
  <2>5. f[L] \in Nat
    <3>1. \A i \in 0..Len(samples) : f[i] \in Nat
      BY <1>1, <2>1, ChangedNat
    <3>2. QED
      BY <1>1, <3>1
  <2>6. g[L + 1] = g[L] + x.raw
    <3>1. L + 1 \in 1..Len(ss) /\ (L + 1) - 1 = L
      BY <1>1, <2>2
    <3>2. g[L + 1] = g[L] + ss[L + 1].raw
      BY <2>3, <3>1 DEF ChangedTo
    <3>3. QED
      BY <1>1, <2>2, <3>2
  <2>7. QED
    BY <1>1, <2>1, <2>2, <2>3, <2>4, <2>5, <2>6
<1>4. /\ events \in Seq(ContinuousEvent) /\ events' \in Seq(ContinuousEvent)
      /\ DOMAIN events \subseteq DOMAIN events' /\ \A i \in DOMAIN events : events'[i] = events[i]
  BY EventsGrow DEF ContinuousIs
<1>5. PICK e : e = DriftTold(x) /\ e.kind = "drift_guard" /\ e.amount = Continuous!CumAbs(x)
  <2>1. \A kind, reason, amount : Told(kind, reason, amount).kind = kind
                                     /\ Told(kind, reason, amount).amount = amount
    BY DEF Told
  <2>2. DriftTold(x).kind = "drift_guard" /\ DriftTold(x).amount = Continuous!CumAbs(x)
    BY <2>1 DEF DriftTold
  <2>3. QED
    BY <2>2
<1>6. Continuous!CumAbs(x) = driftGuardCumAbs + x.raw
  BY DEF Continuous!CumAbs
<1>7. Adds(events, events', {"drift_guard"}, Continuous!DriftEmit(x, n), e)
  BY <1>5, ContinuousOnly, AtSamplesGrow
<1>8. PICK es, more, c : es = events /\ more = events' /\ c = Continuous!DriftEmit(x, n)
                           /\ c \in BOOLEAN
  BY DEF Continuous!DriftEmit
<1>9. Reported(more) = Reported(es) + (IF c THEN e.amount ELSE 0)
  <2>1. Adds(es, more, {"drift_guard"}, c, e) /\ e.kind = "drift_guard" /\ e.amount \in Nat
    BY <1>2, <1>5, <1>6, <1>7, <1>8
  <2>2. /\ es \in Seq(ContinuousEvent) /\ more \in Seq(ContinuousEvent)
        /\ DOMAIN es \subseteq DOMAIN more /\ \A i \in DOMAIN es : more[i] = es[i]
    BY <1>4, <1>8
  <2>3. QED
    BY <2>1, <2>2, ReportedMore
<1>10. Reported(es) \in Nat
  <2>1. PICK f : ReportedTo(es, f) /\ Reported(es) = f[Len(es)]
    BY <1>4, <1>8, ReportedIs
  <2>2. \A i \in 0..Len(es) : f[i] \in Nat
    BY <1>4, <1>8, <2>1, ReportedNat
  <2>3. Len(es) \in 0..Len(es)
    BY <1>4, <1>8
  <2>4. QED
    BY <2>1, <2>2, <2>3
<1>11. driftGuardCumAbs' = IF c THEN 0 ELSE Continuous!CumAbs(x)
  BY <1>8 DEF Takes, Continuous!Sample, Continuous!CumAbsAfter
<1>12. QED
  BY <1>2, <1>3, <1>5, <1>6, <1>8, <1>9, <1>10, <1>11 DEF SumsAre

-----------------------------------------------------------------------------
(* Runs of samples of one sign.                                             *)

\* m is where the run of the sign of sample n begins.
Opens(ss, n, m) ==
    /\ \A i \in m..n : ss[i].sign = ss[n].sign
    /\ m = 1 \/ ss[m - 1].sign # ss[n].sign
FirstAt(ss, n) == CHOOSE m \in 1..n : Opens(ss, n, m)

\* There is one such sample.
LEMMA FirstAtIs ==
    ASSUME NEW ss, NEW n \in Nat \ {0}
    PROVE  /\ FirstAt(ss, n) \in 1..n /\ Opens(ss, n, FirstAt(ss, n))
           /\ \A m \in 1..n : Opens(ss, n, m) => FirstAt(ss, n) = m
<1> DEFINE T == {m \in 1..n : \A i \in m..n : ss[i].sign = ss[n].sign}
<1>1. n \in T /\ T \in SUBSET Nat
  <2>1. \A i \in n..n : i = n
    OBVIOUS
  <2>2. QED
    BY <2>1
<1>2. PICK m \in T : \A k \in T : m <= k
  BY <1>1, Numbers!LeastElement
<1>3. m \in 1..n /\ \A i \in m..n : ss[i].sign = ss[n].sign
  BY <1>2
<1>4. m = 1 \/ ss[m - 1].sign # ss[n].sign
  <2>1. SUFFICES ASSUME m # 1, ss[m - 1].sign = ss[n].sign PROVE FALSE
    OBVIOUS
  <2>2. m - 1 \in 1..n /\ \A i \in (m - 1)..n : i = m - 1 \/ i \in m..n
    BY <1>3, <2>1
  <2>3. \A i \in (m - 1)..n : ss[i].sign = ss[n].sign
    BY <1>3, <2>1, <2>2
  <2>4. m - 1 \in T
    BY <2>2, <2>3
  <2>5. QED
    BY <1>2, <1>3, <2>4
<1>5. Opens(ss, n, m)
  BY <1>3, <1>4 DEF Opens
<1>6. FirstAt(ss, n) \in 1..n /\ Opens(ss, n, FirstAt(ss, n))
  BY <1>3, <1>5 DEF FirstAt
<1>7. ASSUME NEW j \in 1..n, NEW k \in 1..n, Opens(ss, n, j), Opens(ss, n, k)
      PROVE  ~(j < k)
  <2>1. SUFFICES ASSUME j < k PROVE FALSE
    OBVIOUS
  <2>2. k # 1 /\ k - 1 \in j..n
    BY <2>1
  <2>3. QED
    BY <1>7, <2>2 DEF Opens
<1>8. \A j, k \in 1..n : Opens(ss, n, j) /\ Opens(ss, n, k) => j = k
  <2> TAKE j, k \in 1..n
  <2>1. SUFFICES ASSUME Opens(ss, n, j), Opens(ss, n, k) PROVE j = k
    OBVIOUS
  <2>2. ~(j < k) /\ ~(k < j)
    BY <1>7, <2>1
  <2>3. QED
    BY <2>2
<1>9. QED
  BY <1>6, <1>8

\* A sample more is a run of its own, or goes on with the last one.
LEMMA FirstAtMore ==
    ASSUME NEW ss, NEW more, NEW n \in Nat \ {0}, \A i \in 1..n : more[i] = ss[i]
    PROVE  /\ FirstAt(more, n) = FirstAt(ss, n)
           /\ FirstAt(more, n + 1) = IF more[n + 1].sign = more[n].sign
                                     THEN FirstAt(ss, n) ELSE n + 1
<1>1. PICK m \in 1..n : m = FirstAt(ss, n) /\ Opens(ss, n, m)
  BY FirstAtIs
<1>2. \A i \in m..n : i \in 1..n
  OBVIOUS
<1>3. m # 1 => m - 1 \in 1..n
  OBVIOUS
<1>4. n \in 1..n
  OBVIOUS
<1>5. Opens(more, n, m)
  BY <1>1, <1>2, <1>3, <1>4 DEF Opens
<1>6. FirstAt(more, n) = m
  BY <1>5, FirstAtIs
<1>7. n + 1 \in Nat \ {0} /\ m \in 1..(n + 1) /\ n + 1 \in 1..(n + 1) /\ (n + 1) - 1 = n
  OBVIOUS
<1>8. CASE more[n + 1].sign = more[n].sign
  <2>1. \A i \in m..(n + 1) : i \in m..n \/ i = n + 1
    OBVIOUS
  <2>2. Opens(more, n + 1, m)
    BY <1>5, <1>8, <2>1 DEF Opens
  <2>3. FirstAt(more, n + 1) = m
    BY <1>7, <2>2, FirstAtIs
  <2>4. QED
    BY <1>1, <1>6, <1>8, <2>3
<1>9. CASE more[n + 1].sign # more[n].sign
  <2>1. \A i \in (n + 1)..(n + 1) : i = n + 1
    OBVIOUS
  <2>2. Opens(more, n + 1, n + 1)
    BY <1>7, <1>9, <2>1 DEF Opens
  <2>3. FirstAt(more, n + 1) = n + 1
    BY <1>7, <2>2, FirstAtIs
  <2>4. QED
    BY <1>1, <1>6, <1>9, <2>3
<1>10. QED
  BY <1>8, <1>9

\* p is the greatest |delta| from sample k to sample n.
Peak(ss, k, n, p) ==
    (\E i \in k..n : ss[i].delta = p) /\ \A i \in k..n : ss[i].delta \in Nat /\ ss[i].delta <= p

PeakAt(ss, n) == Continuous!Max({ss[i].delta : i \in FirstAt(ss, n)..n})

\* It is what the reference takes.
LEMMA PeakIs ==
    ASSUME NEW ss, NEW n, NEW p, Peak(ss, FirstAt(ss, n), n, p)
    PROVE  PeakAt(ss, n) = p
<1> DEFINE D == {ss[i].delta : i \in FirstAt(ss, n)..n}
<1>1. p \in D /\ \A d \in D : d \in Nat /\ d <= p
  BY DEF Peak
<1> HIDE DEF D
<1>2. p \in D /\ \A d \in D : p >= d
  BY <1>1
<1>3. \A q \in D : (\A d \in D : q >= d) => q = p
  BY <1>1
<1>4. Continuous!Max(D) = p
  BY <1>2, <1>3, Zenon DEF Continuous!Max
<1>5. QED
  BY <1>4 DEF PeakAt, D

\* The slope events of the run of sample n, and those of them before it.
OfRun(es, ss, n) == {i \in At(es, Slopes) : es[i].at >= FirstAt(ss, n)}
EarlierAt(es, ss, n) == {i \in At(es, Slopes) : es[i].at >= FirstAt(ss, n) /\ es[i].at < n}

DueAt(es, ss, n) ==
    /\ ss[n].sign # 0
    /\ n - FirstAt(ss, n) + 1 >= MinPersistence
    /\ \A i \in EarlierAt(es, ss, n) : ReemitDen * PeakAt(ss, n) >= es[i].amount * ReemitNum

\* run is that of sample n, and what es has told of it.
RunIs(es, ss, n, run) ==
    /\ run.sign = ss[n].sign
    /\ run.length = n - FirstAt(ss, n) + 1
    /\ Peak(ss, FirstAt(ss, n), n, run.peak) /\ run.peak > 0
    /\ run.lastEmittedPeak <= run.peak
    /\ run.emitted => /\ \E i \in OfRun(es, ss, n) : es[i].amount = run.lastEmittedPeak
                      /\ \A i \in OfRun(es, ss, n) : es[i].amount <= run.lastEmittedPeak
                      /\ run.lastEmittedPeak > 0
    /\ ~run.emitted => OfRun(es, ss, n) = {} /\ run.lastEmittedPeak = 0

SlopesAre ==
    /\ \A n \in DOMAIN samples :
          n \in AtSamples(events, Slopes) <=> DueAt(events, samples, n)
    /\ IF samples # <<>> /\ samples[Len(samples)].sign # 0
       THEN RunIs(events, samples, Len(samples), slopeRun)
       ELSE slopeRun = Continuous!NoRun

\* The invariant is the property, with the state of the run.
LEMMA SlopesAreIt ==
    ASSUME ContinuousIs, SlopesAre
    PROVE  Continuous!SlopesFollowRuns
<1>1. \A n : Continuous!Due(n) = DueAt(events, samples, n)
  BY DEF Continuous!Due, DueAt, Continuous!RunFirst, FirstAt, Opens, Continuous!PeakUpTo, PeakAt,
         Continuous!Earlier, EarlierAt, Continuous!OfKind, Continuous!Slopes, At, Slopes
<1>2. Continuous!EmittedAt(Continuous!Slopes) = AtSamples(events, Slopes)
  BY AtSamplesIs DEF Continuous!Slopes, Slopes
<1>3. AtSamples(events, Slopes) \subseteq DOMAIN samples
  BY DEF AtSamples, At, ContinuousIs
<1>4. QED
  BY <1>1, <1>2, <1>3 DEF SlopesAre, Continuous!SlopesFollowRuns

\* A product grows with a factor.
LEMMA Times ==
    ASSUME NEW a \in Nat, NEW b \in Nat, NEW c \in Nat, a <= b
    PROVE  a * c <= b * c
<1>1. PICK d \in Nat : b = a + d
  <2>1. b - a \in Nat /\ b = a + (b - a)
    OBVIOUS
  <2>2. QED
    BY <2>1
<1>2. b * c = a * c + d * c
  BY <1>1
<1>3. d * c \in Nat /\ a * c \in Nat
  OBVIOUS
<1>4. QED
  BY <1>2, <1>3

\* The fields of a sample read.
LEMMA TakenIs ==
    ASSUME ContinuousIs, NEW x, NEW n, Takes(x, n)
    PROVE  /\ samples'[Len(samples) + 1].sign = x.sign
           /\ samples'[Len(samples) + 1].delta = x.delta
           /\ x.sign \in {-1, 0, 1} /\ x.delta \in Nat /\ (x.sign # 0 => x.delta > 0)
<1>1. \A y : y = [sign |-> x.sign, delta |-> x.delta, raw |-> x.raw,
                  candidates |-> x.candidates, index |-> n]
                => y.sign = x.sign /\ y.delta = x.delta
  OBVIOUS
<1>2. x \in Inputs
  BY DEF Takes
<1>3. QED
  BY <1>1, <1>2, SamplesGrow, ContinuousAssumption

\* Where the run of the sample read begins.
LEMMA FirstGrows ==
    ASSUME ContinuousIs, NEW x, NEW n, Takes(x, n)
    PROVE  /\ \A k \in DOMAIN samples : FirstAt(samples', k) = FirstAt(samples, k)
                                          /\ FirstAt(samples, k) \in 1..k
           /\ FirstAt(samples', Len(samples) + 1) =
                IF samples # <<>> /\ x.sign = samples[Len(samples)].sign
                THEN FirstAt(samples, Len(samples)) ELSE Len(samples) + 1
<1>1. /\ Len(samples) \in Nat /\ DOMAIN samples = 1..Len(samples)
      /\ \A i \in 1..Len(samples) : samples'[i] = samples[i]
      /\ samples'[Len(samples) + 1].sign = x.sign
      /\ samples \in Seq(ContinuousSample)
  BY SamplesGrow, TakenIs DEF ContinuousIs
<1>2. ASSUME NEW k \in DOMAIN samples
      PROVE  FirstAt(samples', k) = FirstAt(samples, k) /\ FirstAt(samples, k) \in 1..k
  <2>1. k \in Nat \ {0} /\ \A i \in 1..k : samples'[i] = samples[i]
    BY <1>1
  <2>2. QED
    BY <2>1, FirstAtMore, FirstAtIs
<1>3. CASE samples = <<>>
  <2>1. Len(samples) + 1 = 1
    BY <1>3
  <2>2. 1 \in Nat \ {0}
    OBVIOUS
  <2>3. FirstAt(samples', 1) \in 1..1
    BY <2>2, FirstAtIs
  <2>4. QED
    BY <1>2, <1>3, <2>1, <2>3
<1>4. CASE samples # <<>>
  <2>1. PICK m \in Nat \ {0} : m = Len(samples)
    <3>1. Len(samples) \in Nat \ {0}
      BY <1>1, <1>4
    <3>2. QED
      BY <3>1
  <2>2. \A i \in 1..m : samples'[i] = samples[i]
    BY <1>1, <2>1
  <2>3. FirstAt(samples', m + 1) =
          IF samples'[m + 1].sign = samples'[m].sign THEN FirstAt(samples, m) ELSE m + 1
    BY <2>2, FirstAtMore
  <2>4. samples'[m + 1].sign = x.sign /\ samples'[m].sign = samples[m].sign
    BY <1>1, <2>1
  <2>5. FirstAt(samples', m + 1) =
          IF x.sign = samples[m].sign THEN FirstAt(samples, m) ELSE m + 1
    BY <2>3, <2>4
  <2>6. QED
    BY <1>2, <1>4, <2>1, <2>5
<1>5. QED
  BY <1>3, <1>4

\* The run with the sample in it is that of the sample.
LEMMA RunWithSample ==
    ASSUME ContinuousIs, SlopesAre, NEW x, NEW n, Takes(x, n), x.sign # 0
    PROVE  RunIs(events, samples', Len(samples) + 1, Continuous!RunWith(x))
<1> DEFINE L == Len(samples)
<1>1. /\ L \in Nat /\ DOMAIN samples = 1..L
      /\ \A i \in 1..L : samples'[i] = samples[i]
      /\ samples'[L + 1].sign = x.sign /\ samples'[L + 1].delta = x.delta
      /\ x.delta \in Nat /\ x.delta > 0 /\ x.sign \in {-1, 0, 1}
  BY SamplesGrow, TakenIs
<1>2. slopeRun \in SlopeRun
  BY DEF ContinuousIs
<1>3. PICK F : F = FirstAt(samples', L + 1)
  OBVIOUS
<1>4. CASE samples # <<>> /\ x.sign = samples[L].sign
  <2>1. L \in 1..L /\ RunIs(events, samples, L, slopeRun)
    BY <1>1, <1>4 DEF SlopesAre, ContinuousIs
  <2>2. F = FirstAt(samples, L) /\ F \in 1..L
    BY <1>1, <1>3, <1>4, <2>1, FirstGrows
  <2>3. PICK sign, emitted, last, peak, length :
          /\ slopeRun = [sign |-> sign, length |-> length, peak |-> peak,
                         emitted |-> emitted, lastEmittedPeak |-> last]
          /\ length \in Nat /\ peak \in Nat /\ emitted \in BOOLEAN /\ last \in Nat
    BY <1>2 DEF SlopeRun
  <2>4. /\ sign = samples[L].sign /\ length = L - F + 1 /\ Peak(samples, F, L, peak)
        /\ peak > 0 /\ last <= peak
        /\ emitted => /\ \E i \in OfRun(events, samples, L) : events[i].amount = last
                      /\ \A i \in OfRun(events, samples, L) : events[i].amount <= last
                      /\ last > 0
        /\ ~emitted => OfRun(events, samples, L) = {} /\ last = 0
    BY <2>1, <2>2, <2>3 DEF RunIs
  <2>5. PICK q : q = Continuous!Larger(peak, x.delta)
    OBVIOUS
  <2>6. q \in Nat /\ q >= peak /\ q >= x.delta /\ (q = peak \/ q = x.delta)
    BY <1>1, <2>3, <2>5 DEF Continuous!Larger
  <2>7. PICK run : run = [sign |-> x.sign, length |-> length + 1, peak |-> q,
                          emitted |-> emitted, lastEmittedPeak |-> last]
    OBVIOUS
  <2>8. Continuous!RunWith(x) = run
    <3> DEFINE r == [sign |-> sign, length |-> length, peak |-> peak,
                     emitted |-> emitted, lastEmittedPeak |-> last]
    <3>1. slopeRun.sign = x.sign
      BY <1>4, <2>3, <2>4
    <3>2. Continuous!RunWith(x)
            = [r EXCEPT !.length = @ + 1, !.peak = Continuous!Larger(@, x.delta)]
      BY <2>3, <3>1 DEF Continuous!RunWith
    <3>3. sign = x.sign
      BY <1>4, <2>4
    <3>4. QED
      BY <2>5, <2>7, <3>2, <3>3
  <2>9. Peak(samples', F, L + 1, q)
    <3>1. \A i \in F..(L + 1) : i \in F..L \/ i = L + 1
      BY <1>1, <2>2
    <3>2. \A i \in F..L : i \in F..(L + 1) /\ samples'[i] = samples[i]
      BY <1>1, <2>2
    <3>3. L + 1 \in F..(L + 1)
      BY <1>1, <2>2
    <3>4. \A i \in F..L : samples'[i].delta \in Nat /\ samples'[i].delta <= q
      <4> TAKE i \in F..L
      <4>1. samples[i].delta \in Nat /\ samples[i].delta <= peak
        BY <2>4 DEF Peak
      <4>2. QED
        BY <2>3, <2>6, <3>2, <4>1
    <3>5. \A i \in F..(L + 1) : samples'[i].delta \in Nat /\ samples'[i].delta <= q
      BY <1>1, <2>6, <3>1, <3>4
    <3>6. \E i \in F..(L + 1) : samples'[i].delta = q
      <4>1. PICK i \in F..L : samples[i].delta = peak
        BY <2>4 DEF Peak
      <4>2. CASE q = peak
        BY <3>2, <4>1, <4>2
      <4>3. CASE q = x.delta
        BY <1>1, <3>3, <4>3
      <4>4. QED
        BY <2>6, <4>2, <4>3
    <3>7. QED
      BY <3>5, <3>6 DEF Peak
  <2>10. OfRun(events, samples', L + 1) = OfRun(events, samples, L)
    BY <1>3, <2>2 DEF OfRun
  <2>11. /\ run.sign = x.sign /\ run.length = length + 1 /\ run.peak = q
         /\ run.emitted = emitted /\ run.lastEmittedPeak = last
    BY <2>7
  <2>12. length + 1 = (L + 1) - F + 1 /\ q > 0 /\ last <= q
    BY <1>1, <2>2, <2>3, <2>4, <2>6
  <2>13. RunIs(events, samples', L + 1, run)
    BY <1>1, <1>3, <2>4, <2>9, <2>10, <2>11, <2>12 DEF RunIs
  <2>14. QED
    BY <2>8, <2>13
<1>5. CASE ~(samples # <<>> /\ x.sign = samples[L].sign)
  <2>1. F = L + 1
    BY <1>3, <1>5, FirstGrows
  <2>2. slopeRun.sign # x.sign
    BY <1>5 DEF SlopesAre, RunIs, Continuous!NoRun
  <2>3. PICK run : run = Continuous!RunWith(x)
    OBVIOUS
  <2>4. /\ run.sign = x.sign /\ run.length = 1 /\ run.peak = x.delta
        /\ run.emitted = FALSE /\ run.lastEmittedPeak = 0
    <3>1. run = [Continuous!NoRun EXCEPT !.sign = x.sign, !.length = 1, !.peak = x.delta]
      BY <2>2, <2>3 DEF Continuous!RunWith
    <3>2. QED
      BY <3>1 DEF Continuous!NoRun
  <2>5. \A i \in (L + 1)..(L + 1) : i = L + 1
    BY <1>1
  <2>6. L + 1 \in (L + 1)..(L + 1)
    BY <1>1
  <2>7. Peak(samples', L + 1, L + 1, x.delta)
    BY <1>1, <2>5, <2>6 DEF Peak
  <2>8. OfRun(events, samples', L + 1) = {}
    <3>1. \A i \in At(events, Slopes) : events[i].at \in 1..L
      BY <1>1 DEF At, ContinuousIs
    <3>2. \A i \in At(events, Slopes) : ~(events[i].at >= L + 1)
      BY <1>1, <3>1
    <3>3. QED
      BY <1>3, <2>1, <3>2 DEF OfRun
  <2>9. 1 = (L + 1) - (L + 1) + 1
    BY <1>1
  <2>10. RunIs(events, samples', L + 1, run)
    BY <1>1, <1>3, <2>1, <2>4, <2>7, <2>8, <2>9 DEF RunIs
  <2>11. QED
    BY <2>3, <2>10
<1>6. QED
  BY <1>4, <1>5

\* It is reported if it is due.
LEMMA EmitIsDue ==
    ASSUME ContinuousIs, SlopesAre, NEW x, NEW n, Takes(x, n)
    PROVE  Continuous!SlopeEmit(Continuous!RunWith(x))
             <=> DueAt(events', samples', Len(samples) + 1)
<1> DEFINE L == Len(samples)
<1>1. samples'[L + 1].sign = x.sign /\ L \in Nat /\ x.sign \in {-1, 0, 1}
  BY SamplesGrow, TakenIs
<1>2. CASE x.sign = 0
  <2>1. Continuous!RunWith(x).sign = 0
    BY <1>2 DEF Continuous!RunWith, Continuous!NoRun
  <2>2. QED
    BY <1>1, <1>2, <2>1 DEF Continuous!SlopeEmit, DueAt
<1>3. CASE x.sign # 0
  <2>1. PICK run : run = Continuous!RunWith(x) /\ run \in SlopeRun
    BY RunWithIs DEF Takes
  <2>2. RunIs(events, samples', L + 1, run)
    BY <1>3, <2>1, RunWithSample
  <2>3. /\ run.peak \in Nat /\ run.lastEmittedPeak \in Nat /\ run.emitted \in BOOLEAN
        /\ run.length \in Nat
    BY <2>1 DEF SlopeRun
  <2>4. PICK R : R = OfRun(events, samples', L + 1)
    OBVIOUS
  <2>5. /\ run.sign = x.sign /\ run.length = (L + 1) - FirstAt(samples', L + 1) + 1
        /\ Peak(samples', FirstAt(samples', L + 1), L + 1, run.peak)
        /\ run.emitted => /\ \E i \in R : events[i].amount = run.lastEmittedPeak
                          /\ \A i \in R : events[i].amount <= run.lastEmittedPeak
        /\ ~run.emitted => R = {}
    BY <1>1, <2>2, <2>4 DEF RunIs
  <2>6. PeakAt(samples', L + 1) = run.peak
    BY <2>5, PeakIs
  <2>7. \A i \in At(events, Slopes) : i \in DOMAIN events /\ events[i].at < L + 1
                                        /\ events[i].amount \in Nat
    <3> TAKE i \in At(events, Slopes)
    <3>1. i \in DOMAIN events /\ events[i].at \in DOMAIN samples /\ DOMAIN samples = 1..L
          /\ events \in Seq(ContinuousEvent)
      BY SamplesGrow DEF At, ContinuousIs
    <3>2. events[i] \in ContinuousEvent
      BY <3>1
    <3>3. events[i].amount \in Nat
      BY <3>2 DEF ContinuousEvent
    <3>4. QED
      BY <1>1, <3>1, <3>3
  <2>8. EarlierAt(events', samples', L + 1) = R
    <3>1. \A i \in At(events', Slopes) : i \in At(events, Slopes) \/ ~(events'[i].at < L + 1)
      <4> TAKE i \in At(events', Slopes)
      <4>1. i \in DOMAIN events' /\ events'[i].kind \in Slopes
        BY DEF At
      <4>2. CASE i \in DOMAIN events
        BY <4>1, <4>2, EventsGrow DEF At
      <4>3. CASE events'[i] \in ContinuousEmitted(x, n)
        <5>1. events'[i].at = L + 1
          BY <4>3, TakenAt
        <5>2. QED
          BY <1>1, <5>1
      <4>4. QED
        BY <4>1, <4>2, <4>3, EventsGrow
    <3>2. \A i \in At(events, Slopes) : i \in At(events', Slopes) /\ events'[i] = events[i]
      BY EventsGrow DEF At
    <3>3. QED
      BY <2>4, <2>7, <3>1, <3>2 DEF EarlierAt, OfRun
  <2>9. \A i \in R : events'[i].amount = events[i].amount /\ events[i].amount \in Nat
    BY <2>4, <2>7, EventsGrow DEF OfRun
  <2>10. ReemitNum \in Nat /\ ReemitDen \in Nat
    BY ContinuousAssumption
  <2>11. (run.emitted => ReemitDen * run.peak >= run.lastEmittedPeak * ReemitNum)
           <=> \A i \in R : ReemitDen * run.peak >= events[i].amount * ReemitNum
    <3>1. CASE ~run.emitted
      BY <2>5, <3>1
    <3>2. CASE run.emitted
      <4>1. PICK j \in R : events[j].amount = run.lastEmittedPeak
        BY <2>5, <3>2
      <4>2. \A i \in R : events[i].amount * ReemitNum <= run.lastEmittedPeak * ReemitNum
        <5> TAKE i \in R
        <5>1. events[i].amount <= run.lastEmittedPeak /\ events[i].amount \in Nat
          BY <2>5, <2>9, <3>2
        <5>2. QED
          BY <2>3, <2>10, <5>1, Times
      <4>3. PICK p \in Nat : p = ReemitDen * run.peak
        BY <2>3, <2>10
      <4>4. PICK q \in Nat : q = run.lastEmittedPeak * ReemitNum
        BY <2>3, <2>10
      <4>5. \A i \in R : events[i].amount * ReemitNum \in Nat
        BY <2>9, <2>10
      <4>6. (p >= q) <=> \A i \in R : p >= events[i].amount * ReemitNum
        BY <4>1, <4>2, <4>4, <4>5
      <4>7. QED
        BY <3>2, <4>3, <4>4, <4>6
    <3>3. QED
      BY <3>1, <3>2
  <2>12. DueAt(events', samples', L + 1) <=>
           run.length >= MinPersistence
             /\ \A i \in R : ReemitDen * run.peak >= events[i].amount * ReemitNum
    BY <1>1, <1>3, <2>5, <2>6, <2>8, <2>9 DEF DueAt
  <2>13. Continuous!SlopeEmit(run) <=>
           run.length >= MinPersistence
             /\ (run.emitted => ReemitDen * run.peak >= run.lastEmittedPeak * ReemitNum)
    BY <1>3, <2>5 DEF Continuous!SlopeEmit
  <2>14. QED
    BY <2>1, <2>11, <2>12, <2>13
<1>4. QED
  BY <1>2, <1>3

\* What is due at the samples before stays.
LEMMA DueStays ==
    ASSUME ContinuousIs, NEW x, NEW n, Takes(x, n), NEW k \in DOMAIN samples
    PROVE  DueAt(events', samples', k) <=> DueAt(events, samples, k)
<1> DEFINE L == Len(samples)
<1>1. /\ L \in Nat /\ DOMAIN samples = 1..L
      /\ \A i \in 1..L : samples'[i] = samples[i]
  BY SamplesGrow
<1>2. PICK F : F = FirstAt(samples, k) /\ F = FirstAt(samples', k) /\ F \in 1..k
  BY FirstGrows
<1>3. \A i \in F..k : samples'[i] = samples[i]
  BY <1>1, <1>2
<1>4. PeakAt(samples', k) = PeakAt(samples, k)
  <2>1. {samples'[i].delta : i \in F..k} = {samples[i].delta : i \in F..k}
    BY <1>3
  <2>2. QED
    BY <1>2, <2>1 DEF PeakAt
<1>5. \A i \in At(events', Slopes) : i \in At(events, Slopes) \/ ~(events'[i].at < k)
  <2> TAKE i \in At(events', Slopes)
  <2>1. i \in DOMAIN events' /\ events'[i].kind \in Slopes
    BY DEF At
  <2>2. CASE i \in DOMAIN events
    BY <2>1, <2>2, EventsGrow DEF At
  <2>3. CASE events'[i] \in ContinuousEmitted(x, n)
    <3>1. events'[i].at = L + 1
      BY <2>3, TakenAt
    <3>2. QED
      BY <1>1, <3>1
  <2>4. QED
    BY <2>1, <2>2, <2>3, EventsGrow
<1>6. \A i \in At(events, Slopes) : i \in At(events', Slopes) /\ events'[i] = events[i]
  BY EventsGrow DEF At
<1>7. EarlierAt(events', samples', k) = EarlierAt(events, samples, k)
  BY <1>2, <1>5, <1>6 DEF EarlierAt
<1>8. \A i \in EarlierAt(events, samples, k) : events'[i] = events[i]
  BY <1>6 DEF EarlierAt
<1>9. samples'[k] = samples[k]
  BY <1>1
<1>10. QED
  BY <1>2, <1>4, <1>7, <1>8, <1>9 DEF DueAt

\* The run of the sample read, after it has been emitted or not.
LEMMA RunGrows ==
    ASSUME ContinuousIs, SlopesAre, NEW x, NEW n, Takes(x, n), x.sign # 0
    PROVE  RunIs(events', samples', Len(samples) + 1, slopeRun')
<1> DEFINE L == Len(samples)
<1>1. PICK run : run = Continuous!RunWith(x) /\ run \in SlopeRun
  BY RunWithIs DEF Takes
<1>2. RunIs(events, samples', L + 1, run)
  BY <1>1, RunWithSample
<1>3. slopeRun' = IF Continuous!SlopeEmit(run) THEN Continuous!EmittedRun(run) ELSE run
  BY <1>1 DEF Takes, Continuous!Sample
<1>4. L \in Nat
  BY SamplesGrow
<1>5. PICK F : F = FirstAt(samples', L + 1) /\ F \in 1..(L + 1)
  <2>1. L + 1 \in Nat \ {0}
    BY <1>4
  <2>2. \A ss : FirstAt(ss, L + 1) \in 1..(L + 1)
    BY <2>1, FirstAtIs
  <2>3. QED
    BY <2>2
<1>6. Only(ContinuousEmitted(x, n), Slopes, Continuous!SlopeEmit(run), SlopeTold(x))
  BY <1>1, ContinuousOnly
<1>7. Adds(events, events', Slopes, Continuous!SlopeEmit(run), SlopeTold(x))
  BY <1>6, AtSamplesGrow
<1>8. \A i \in At(events, Slopes) : events'[i] = events[i]
  BY EventsGrow DEF At
<1>9. run.peak \in Nat /\ run.lastEmittedPeak \in Nat /\ run.emitted \in BOOLEAN
  BY <1>1 DEF SlopeRun
<1>10. PICK R : R = OfRun(events, samples', L + 1)
  OBVIOUS
<1>11. /\ run.peak > 0 /\ run.lastEmittedPeak <= run.peak
       /\ run.emitted => \A i \in R : events[i].amount <= run.lastEmittedPeak
       /\ ~run.emitted => R = {}
  BY <1>2, <1>10 DEF RunIs
<1>12. \A i \in R : events[i].amount \in Nat /\ events'[i] = events[i]
  <2> TAKE i \in R
  <2>1. i \in At(events, Slopes) /\ i \in DOMAIN events /\ events \in Seq(ContinuousEvent)
    BY <1>10 DEF OfRun, At, ContinuousIs
  <2>2. events[i] \in ContinuousEvent
    BY <2>1
  <2>3. QED
    BY <1>8, <2>1, <2>2 DEF ContinuousEvent
<1>13. CASE ~Continuous!SlopeEmit(run)
  <2>1. At(events', Slopes) = At(events, Slopes)
    BY <1>7, <1>13 DEF Adds
  <2>2. OfRun(events', samples', L + 1) = R
    BY <1>8, <1>10, <2>1 DEF OfRun
  <2>3. slopeRun' = run
    BY <1>3, <1>13
  <2>4. RunIs(events', samples', L + 1, run)
    BY <1>2, <1>10, <1>12, <2>2 DEF RunIs
  <2>5. QED
    BY <2>3, <2>4
<1>14. CASE Continuous!SlopeEmit(run)
  <2>1. PICK p \in Nat : NewAt(events, events', Slopes, SlopeTold(x), p)
    BY <1>7, <1>14 DEF Adds
  <2>2. events'[p].at = L + 1 /\ events'[p].amount = run.peak
    <3>1. \A kind, reason, amount : Told(kind, reason, amount).at = L + 1
                                      /\ Told(kind, reason, amount).amount = amount
      BY DEF Told
    <3>2. SlopeTold(x).at = L + 1 /\ SlopeTold(x).amount = run.peak
      BY <1>1, <3>1 DEF SlopeTold
    <3>3. QED
      BY <2>1, <3>2 DEF NewAt
  <2>3. At(events', Slopes) = At(events, Slopes) \cup {p}
    BY <2>1 DEF NewAt
  <2>4. L + 1 >= F
    BY <1>4, <1>5
  <2>5. OfRun(events', samples', L + 1) = R \cup {p}
    BY <1>5, <1>8, <1>10, <2>2, <2>3, <2>4 DEF OfRun
  <2>6. PICK after : after = slopeRun'
    OBVIOUS
  <2>7. after = [run EXCEPT !.emitted = TRUE, !.lastEmittedPeak = run.peak]
    BY <1>3, <1>14, <2>6 DEF Continuous!EmittedRun
  <2>8. /\ after.sign = run.sign /\ after.length = run.length /\ after.peak = run.peak
        /\ after.emitted = TRUE /\ after.lastEmittedPeak = run.peak
    BY <1>1, <2>7 DEF SlopeRun
  <2>9. \A i \in R : events'[i].amount <= run.peak
    BY <1>9, <1>11, <1>12
  <2>10. \A i \in R \cup {p} : events'[i].amount <= run.peak
    BY <1>9, <2>2, <2>9
  <2>11. RunIs(events', samples', L + 1, after)
    BY <1>2, <1>9, <1>11, <2>2, <2>5, <2>8, <2>10 DEF RunIs
  <2>12. QED
    BY <2>6, <2>11
<1>15. QED
  BY <1>13, <1>14

\* A sample is reported if its run is due, and the state is that of its run.
LEMMA SlopesStep ==
    ASSUME ContinuousIs, SlopesAre, NEW x, NEW n, Takes(x, n)
    PROVE  SlopesAre'
<1> DEFINE L == Len(samples)
<1>1. /\ L \in Nat /\ DOMAIN samples = 1..L /\ DOMAIN samples' = 1..(L + 1)
      /\ samples' \in Seq(ContinuousSample) /\ Len(samples') = L + 1
      /\ samples'[L + 1].sign = x.sign
  BY SamplesGrow, TakenIs
<1>2. samples' # <<>>
  BY <1>1
<1>3. PICK c : c = Continuous!SlopeEmit(Continuous!RunWith(x)) /\ c \in BOOLEAN
  BY DEF Continuous!SlopeEmit
<1>4. /\ AtSamples(events', Slopes) = AtSamples(events, Slopes) \cup (IF c THEN {L + 1} ELSE {})
      /\ \A m \in AtSamples(events, Slopes) : m \in 1..L
  <2>1. Only(ContinuousEmitted(x, n), Slopes, Continuous!SlopeEmit(Continuous!RunWith(x)),
             SlopeTold(x))
    BY ContinuousOnly
  <2>2. Grows(Slopes, Continuous!SlopeEmit(Continuous!RunWith(x)))
    BY <2>1, AtSamplesGrow
  <2>3. QED
    BY <1>3, <2>2 DEF Grows
<1>5. ASSUME NEW k \in DOMAIN samples'
      PROVE  k \in AtSamples(events', Slopes) <=> DueAt(events', samples', k)
  <2>1. CASE k \in 1..L
    <3>1. k \in AtSamples(events', Slopes) <=> k \in AtSamples(events, Slopes)
      BY <1>1, <1>4, <2>1
    <3>2. QED
      BY <1>1, <2>1, <3>1, DueStays DEF SlopesAre
  <2>2. CASE k = L + 1
    <3>1. k \in AtSamples(events', Slopes) <=> c
      BY <1>1, <1>4, <2>2
    <3>2. c <=> DueAt(events', samples', L + 1)
      BY <1>3, EmitIsDue
    <3>3. QED
      BY <2>2, <3>1, <3>2
  <2>3. QED
    BY <1>1, <2>1, <2>2
<1>6. CASE x.sign = 0
  <2>1. Continuous!RunWith(x) = Continuous!NoRun
    BY <1>6 DEF Continuous!RunWith
  <2>2. ~Continuous!SlopeEmit(Continuous!RunWith(x))
    BY <2>1 DEF Continuous!SlopeEmit, Continuous!NoRun
  <2>3. slopeRun' = Continuous!NoRun
    BY <2>1, <2>2 DEF Takes, Continuous!Sample
  <2>4. QED
    BY <1>1, <1>5, <1>6, <2>3 DEF SlopesAre
<1>7. CASE x.sign # 0
  <2>1. RunIs(events', samples', L + 1, slopeRun')
    BY <1>7, RunGrows
  <2>2. QED
    BY <1>1, <1>2, <1>5, <1>7, <2>1 DEF SlopesAre
<1>8. QED
  BY <1>6, <1>7

-----------------------------------------------------------------------------
(* The inductive invariant.                                                 *)

IndicesAre ==
    lastIndex \in [Continuous!Spaced -> {Continuous!LongAgo} \cup (1..Continuous!LastIndex)]

CategoricalInv == CategoricalIs /\ StoryIs /\ ChangesAre /\ DwellsAre /\ GuardsAre
ContinuousInv ==
    ContinuousIs /\ SlopesAre /\ (RefractoryFits => SpacedIs) /\ IndicesAre /\ DriftIs /\ SumsAre

EventInv ==
    /\ datatype \in ParameterDataType
    /\ IsCategorical => CategoricalInv /\ slopeRun = Continuous!NoRun
    /\ IsContinuous => ContinuousInv /\ lastState = Null

\* Without events there are none of any kind.
LEMMA NoEvents ==
    ASSUME events = <<>>, NEW kinds
    PROVE  At(events, kinds) = {} /\ AtSamples(events, kinds) = {}
<1>1. DOMAIN events = {}
  OBVIOUS
<1>2. At(events, kinds) = {}
  BY <1>1 DEF At
<1>3. QED
  BY <1>2 DEF AtSamples

\* The categorical detector starts in the invariant.
LEMMA CategoricalInit ==
    Categorical!Init => CategoricalInv
<1>1. SUFFICES ASSUME Categorical!Init PROVE CategoricalInv
  OBVIOUS
<1>2. /\ samples = <<>> /\ events = <<>> /\ lastState = Null /\ lastStateTs = Null
      /\ lastDwellGuardTs = Null /\ missing = FALSE
  BY <1>1 DEF Categorical!Init
<1>3. DOMAIN samples = {} /\ DOMAIN events = {}
  BY <1>2
<1>4. \A kinds : At(events, kinds) = {}
  BY <1>2, NoEvents
<1>5. CategoricalIs
  <2>1. samples \in Seq(CategoricalSample) /\ events \in Seq(CategoricalEvent)
    BY <1>2
  <2>2. \A i, j \in DOMAIN samples : i <= j => samples[i].ts <= samples[j].ts
    BY <1>3
  <2>3. QED
    BY <1>2, <2>1, <2>2 DEF CategoricalIs
<1>6. StoryIs
  BY <1>4 DEF StoryIs, Connected, LeadsTo
<1>7. \A kinds, from, to : Counted(kinds, from, to)
  <2>1. \A from, to : ChangesOf(samples, from, to) = {}
    BY <1>3 DEF ChangesOf
  <2>2. IsFiniteSet({})
    BY FS_EmptySet
  <2>3. QED
    BY <1>4, <2>1, <2>2 DEF Counted
<1>8. ChangesAre
  BY <1>7 DEF ChangesAre
<1>9. DwellsAre
  BY <1>3 DEF DwellsAre
<1>10. GuardsAre
  BY <1>2, <1>4 DEF GuardsAre, Guards
<1>11. QED
  BY <1>5, <1>6, <1>8, <1>9, <1>10 DEF CategoricalInv

\* The continuous detector starts in the invariant.
LEMMA ContinuousInit ==
    Continuous!Init => ContinuousInv
<1>1. SUFFICES ASSUME Continuous!Init PROVE ContinuousInv
  OBVIOUS
<1>2. /\ samples = <<>> /\ events = <<>> /\ slopeRun = Continuous!NoRun
      /\ lastIndex = [kind \in Continuous!Spaced |-> Continuous!LongAgo]
      /\ lastDriftGuardIndex = 0 /\ driftGuardCumAbs = 0
  BY <1>1 DEF Continuous!Init
<1>3. DOMAIN samples = {} /\ DOMAIN events = {}
      /\ samples \in Seq(ContinuousSample) /\ events \in Seq(ContinuousEvent)
  BY <1>2
<1>4. \A kinds : AtSamples(events, kinds) = {}
  BY <1>2, NoEvents
<1>5. Continuous!LastIndex = 0
  BY <1>2 DEF Continuous!LastIndex
<1>6. ContinuousIs
  BY <1>2, <1>3 DEF ContinuousIs, SlopeRun, Continuous!NoRun
<1>7. SlopesAre
  BY <1>2, <1>3 DEF SlopesAre
<1>8. SpacedIs
  BY <1>2, <1>3, <1>4 DEF SpacedIs, IsLast
<1>9. IndicesAre
  BY <1>2 DEF IndicesAre
<1>10. DriftIs
  <2>1. GuardIndices = {0}
    BY <1>4 DEF GuardIndices
  <2>2. GuardAbsChange \in Nat /\ GuardMaxGap \in Nat
    BY ContinuousAssumption
  <2>3. QED
    BY <1>2, <1>5, <2>1, <2>2 DEF DriftIs
<1>11. SumsAre
  <2>1. Len(events) = 0 /\ Len(samples) = 0
    BY <1>2
  <2>2. Reported(events) = 0
    BY <1>3, <2>1, ReportedIs DEF ReportedTo
  <2>3. Changed(samples) = 0
    BY <1>3, <2>1, ChangedIs DEF ChangedTo
  <2>4. QED
    BY <1>2, <2>2, <2>3 DEF SumsAre
<1>12. QED
  BY <1>6, <1>7, <1>8, <1>9, <1>10, <1>11 DEF ContinuousInv

\* The stage starts in the invariant.
LEMMA EventInit ==
    Init => EventInv
<1>1. SUFFICES ASSUME Init PROVE EventInv
  OBVIOUS
<1>2. CategoricalInv /\ ContinuousInv /\ datatype \in Datatypes
  BY <1>1, CategoricalInit, ContinuousInit DEF Init
<1>3. slopeRun = Continuous!NoRun /\ lastState = Null
  BY <1>1 DEF Init, Categorical!Init, Continuous!Init
<1>4. QED
  BY <1>2, <1>3, DatatypesAssumption DEF EventInv

\* A sample keeps the invariant of the categorical detector.
LEMMA CategoricalNext ==
    CategoricalInv /\ Categorical!Next => CategoricalInv'
<1>1. SUFFICES ASSUME CategoricalInv, Categorical!Next PROVE CategoricalInv'
  OBVIOUS
<1>2. CategoricalIs /\ StoryIs /\ ChangesAre /\ DwellsAre /\ GuardsAre
  BY <1>1 DEF CategoricalInv
<1>3. PICK v, ts : Meets(v, ts)
  BY <1>1, <1>2, NextMeets
<1>4. CategoricalIs' /\ StoryIs' /\ ChangesAre'
  BY <1>2, <1>3, CategoricalStep, StoryStep, ChangesStep
<1>5. DwellsAre' /\ GuardsAre'
  BY <1>2, <1>3, DwellsStep, GuardsStep
<1>6. QED
  BY <1>4, <1>5 DEF CategoricalInv

\* The index of the last event of a kind is that of a row read.
LEMMA IndicesStep ==
    ASSUME ContinuousIs, IndicesAre, NEW x, NEW n, Takes(x, n)
    PROVE  IndicesAre'
<1>1. lastIndex' = [kind \in Continuous!Spaced |->
                      IF Continuous!SpacedEmit(kind, x, n) THEN n ELSE lastIndex[kind]]
  BY DEF Takes, Continuous!Sample
<1>2. /\ n \in Nat /\ Continuous!LastIndex \in Nat /\ Continuous!LastIndex < n
      /\ Continuous!LastIndex' = n
  <2>1. \A y : y = [sign |-> x.sign, delta |-> x.delta, raw |-> x.raw,
                    candidates |-> x.candidates, index |-> n] => y.index = n
    OBVIOUS
  <2>2. /\ samples' \in Seq(ContinuousSample) /\ Len(samples) \in Nat
        /\ Len(samples') = Len(samples) + 1 /\ samples'[Len(samples) + 1].index = n
    BY <2>1, SamplesGrow
  <2>3. Continuous!LastIndex' = n
    BY <2>2 DEF Continuous!LastIndex, Continuous!Last
  <2>4. QED
    BY <2>3 DEF Takes
<1>3. n \in 1..n /\ 1..Continuous!LastIndex \subseteq 1..n
  BY <1>2
<1>4. \A kind \in Continuous!Spaced :
        lastIndex[kind] \in {Continuous!LongAgo} \cup (1..Continuous!LastIndex)
  BY DEF IndicesAre
<1>5. lastIndex' \in [Continuous!Spaced -> {Continuous!LongAgo} \cup (1..n)]
  BY <1>1, <1>3, <1>4
<1>6. QED
  BY <1>2, <1>5 DEF IndicesAre

\* A sample keeps the invariant of the continuous detector.
LEMMA ContinuousNext ==
    ContinuousInv /\ Continuous!Next => ContinuousInv'
<1>1. SUFFICES ASSUME ContinuousInv, Continuous!Next PROVE ContinuousInv'
  OBVIOUS
<1>2. /\ ContinuousIs /\ SlopesAre /\ (RefractoryFits => SpacedIs) /\ IndicesAre /\ DriftIs
      /\ SumsAre
  BY <1>1 DEF ContinuousInv
<1>3. PICK x, n : Takes(x, n)
  BY <1>1, <1>2, NextTakes
<1>4. ContinuousIs' /\ SlopesAre' /\ IndicesAre'
  BY <1>2, <1>3, ContinuousStep, SlopesStep, IndicesStep
<1>5. DriftIs' /\ SumsAre'
  BY <1>2, <1>3, DriftStep, SumsStep
<1>6. RefractoryFits => SpacedIs'
  BY <1>2, <1>3, SpacedStep
<1>7. RefractoryFits' <=> RefractoryFits
  BY DEF RefractoryFits, Continuous!Spaced, Continuous!LongAgo
<1>8. QED
  BY <1>4, <1>5, <1>6, <1>7 DEF ContinuousInv

\* So does a step that leaves the state of the detector alone.
LEMMA CategoricalStutters ==
    CategoricalInv /\ UNCHANGED <<samples, events, categoricalState>> => CategoricalInv'
<1>1. SUFFICES ASSUME CategoricalInv, UNCHANGED <<samples, events, categoricalState>>
               PROVE  CategoricalInv'
  OBVIOUS
<1>2. /\ samples' = samples /\ events' = events /\ lastState' = lastState
      /\ lastStateTs' = lastStateTs /\ lastDwellGuardTs' = lastDwellGuardTs
      /\ missing' = missing
  BY <1>1 DEF categoricalState
<1>3. CategoricalIs' /\ StoryIs'
  BY <1>1, <1>2 DEF CategoricalInv, CategoricalIs, StoryIs
<1>4. ChangesAre' /\ DwellsAre'
  BY <1>1, <1>2 DEF CategoricalInv, ChangesAre, Counted, DwellsAre
<1>5. GuardsAre'
  BY <1>1, <1>2 DEF CategoricalInv, GuardsAre, Guards, Categorical!Now
<1>6. QED
  BY <1>3, <1>4, <1>5 DEF CategoricalInv

\* The same for the continuous detector.
LEMMA ContinuousStutters ==
    ContinuousInv /\ UNCHANGED <<samples, events, continuousState>> => ContinuousInv'
<1>1. SUFFICES ASSUME ContinuousInv, UNCHANGED <<samples, events, continuousState>>
               PROVE  ContinuousInv'
  OBVIOUS
<1>2. /\ samples' = samples /\ events' = events /\ lastIndex' = lastIndex
      /\ lastDriftGuardIndex' = lastDriftGuardIndex /\ driftGuardCumAbs' = driftGuardCumAbs
      /\ slopeRun' = slopeRun
  BY <1>1 DEF continuousState
<1>3. ContinuousIs' /\ SlopesAre'
  BY <1>1, <1>2 DEF ContinuousInv, ContinuousIs, SlopesAre
<1>4. (RefractoryFits => SpacedIs)' /\ IndicesAre'
  BY <1>1, <1>2 DEF ContinuousInv, RefractoryFits, SpacedIs, IndicesAre, Continuous!LastIndex
<1>5. DriftIs' /\ SumsAre'
  BY <1>1, <1>2 DEF ContinuousInv, DriftIs, GuardIndices, SumsAre, Continuous!LastIndex
<1>6. QED
  BY <1>3, <1>4, <1>5 DEF ContinuousInv

\* A row keeps the invariant of the detector it is sent to.
LEMMA EventNext ==
    EventInv /\ [Next]_vars => EventInv'
<1>1. SUFFICES ASSUME EventInv, [Next]_vars PROVE EventInv'
  OBVIOUS
<1>2. datatype' = datatype
  BY <1>1 DEF Next, DetectCategorical, DetectContinuous, vars
<1>3. (IsCategorical' <=> IsCategorical) /\ (IsContinuous' <=> IsContinuous)
      /\ ~(IsCategorical /\ IsContinuous)
  BY <1>2 DEF IsCategorical, IsContinuous
<1>4. CASE DetectCategorical
  <2>1. CategoricalInv /\ slopeRun = Continuous!NoRun
    BY <1>1, <1>4 DEF DetectCategorical, EventInv
  <2>2. CategoricalInv'
    BY <1>4, <2>1, CategoricalNext DEF DetectCategorical
  <2>3. slopeRun' = slopeRun
    BY <1>4 DEF DetectCategorical, continuousState
  <2>4. QED
    BY <1>1, <1>2, <1>3, <1>4, <2>1, <2>2, <2>3 DEF EventInv, DetectCategorical, Continuous!NoRun
<1>5. CASE DetectContinuous
  <2>1. ContinuousInv /\ lastState = Null
    BY <1>1, <1>5 DEF DetectContinuous, EventInv
  <2>2. ContinuousInv'
    BY <1>5, <2>1, ContinuousNext DEF DetectContinuous
  <2>3. lastState' = lastState
    BY <1>5 DEF DetectContinuous, categoricalState
  <2>4. QED
    BY <1>1, <1>2, <1>3, <1>5, <2>1, <2>2, <2>3 DEF EventInv, DetectContinuous
<1>6. CASE UNCHANGED vars
  <2>1. UNCHANGED <<samples, events, categoricalState>>
        /\ UNCHANGED <<samples, events, continuousState>>
    BY <1>6 DEF vars
  <2>2. slopeRun' = slopeRun /\ lastState' = lastState
    BY <2>1 DEF categoricalState, continuousState
  <2>3. CategoricalInv => CategoricalInv'
    BY <2>1, CategoricalStutters
  <2>4. ContinuousInv => ContinuousInv'
    BY <2>1, ContinuousStutters
  <2>5. QED
    BY <1>1, <1>2, <1>3, <2>2, <2>3, <2>4 DEF EventInv, Continuous!NoRun
<1>7. QED
  BY <1>1, <1>4, <1>5, <1>6 DEF Next

\* The invariant holds in every state.
LEMMA EventInvariant ==
    Spec => []EventInv
  BY EventInit, EventNext, PTL DEF Spec

-----------------------------------------------------------------------------
(* The theorems.                                                            *)

\* The invariant has the types of the categorical state.
LEMMA CategoricalTypes ==
    CategoricalInv => Categorical!TypeOK
<1>1. SUFFICES ASSUME CategoricalIs PROVE Categorical!TypeOK
  BY DEF CategoricalInv
<1>2. CASE samples = <<>>
  BY <1>1, <1>2 DEF CategoricalIs, Categorical!TypeOK
<1>3. CASE samples # <<>>
  <2>1. Len(samples) \in DOMAIN samples /\ samples \in Seq(CategoricalSample)
    BY <1>1, <1>3 DEF CategoricalIs
  <2>2. samples[Len(samples)] \in CategoricalSample
    BY <2>1
  <2>3. lastState \in States \cup {Null}
    BY <1>1, <1>3, <2>2 DEF CategoricalIs, CategoricalSample, Values
  <2>4. lastStateTs \in Nat /\ lastStateTs # Null
    BY <1>1, <1>3, CategoricalAssumption DEF CategoricalIs
  <2>5. lastDwellGuardTs \in Nat \cup {Null} /\ missing \in BOOLEAN
        /\ (lastState # Null => ~missing)
    BY <1>1, <1>3 DEF CategoricalIs
  <2>6. QED
    BY <2>3, <2>4, <2>5 DEF Categorical!TypeOK
<1>4. QED
  BY <1>2, <1>3

\* The invariant has the types of the continuous state.
LEMMA ContinuousTypes ==
    ContinuousInv => Continuous!TypeOK
<1>1. SUFFICES ASSUME ContinuousIs, SlopesAre, IndicesAre, DriftIs PROVE Continuous!TypeOK
  BY DEF ContinuousInv
<1>2. lastDriftGuardIndex \in 0..Continuous!LastIndex
  <2>1. Continuous!LastIndex \in Nat
        /\ \A i \in DOMAIN samples : samples[i].index \in 1..Continuous!LastIndex
    BY <1>1, LastIndexIs
  <2>2. AtSamples(events, {"drift_guard"}) \subseteq DOMAIN samples
    BY <1>1 DEF AtSamples, At, ContinuousIs
  <2>3. \A k \in GuardIndices : k \in 0..Continuous!LastIndex
    BY <2>1, <2>2 DEF GuardIndices
  <2>4. QED
    BY <1>1, <2>3 DEF DriftIs
<1>3. /\ slopeRun.sign \in {-1, 0, 1} /\ slopeRun.length \in 0..Len(samples)
      /\ slopeRun.emitted <=> slopeRun.lastEmittedPeak > 0
      /\ slopeRun.lastEmittedPeak <= slopeRun.peak
  <2>1. /\ slopeRun.sign \in {-1, 0, 1} /\ slopeRun.length \in Nat
        /\ slopeRun.lastEmittedPeak \in Nat /\ slopeRun.emitted \in BOOLEAN
    BY <1>1 DEF ContinuousIs, SlopeRun
  <2>2. Len(samples) \in Nat
    BY <1>1 DEF ContinuousIs
  <2>3. CASE samples # <<>> /\ samples[Len(samples)].sign # 0
    <3>1. RunIs(events, samples, Len(samples), slopeRun)
      BY <1>1, <2>3 DEF SlopesAre
    <3>2. PICK n \in Nat \ {0} : n = Len(samples)
      <4>1. Len(samples) \in Nat \ {0}
        BY <1>1, <2>3 DEF ContinuousIs
      <4>2. QED
        BY <4>1
    <3>3. FirstAt(samples, n) \in 1..n
      BY FirstAtIs
    <3>4. slopeRun.length = n - FirstAt(samples, n) + 1
      BY <3>1, <3>2 DEF RunIs
    <3>5. slopeRun.length \in 0..n
      BY <3>3, <3>4
    <3>6. slopeRun.lastEmittedPeak <= slopeRun.peak
          /\ (slopeRun.emitted <=> slopeRun.lastEmittedPeak > 0)
      BY <2>1, <3>1 DEF RunIs
    <3>7. QED
      BY <2>1, <3>2, <3>5, <3>6
  <2>4. CASE ~(samples # <<>> /\ samples[Len(samples)].sign # 0)
    <3>1. slopeRun = Continuous!NoRun
      BY <1>1, <2>4 DEF SlopesAre
    <3>2. QED
      BY <2>2, <3>1 DEF Continuous!NoRun
  <2>5. QED
    BY <2>3, <2>4
<1>4. QED
  BY <1>1, <1>2, <1>3 DEF Continuous!TypeOK, ContinuousIs, IndicesAre

\* The state of each detector is one its sequence can be in.
THEOREM EventTypes == Spec => []TypeOK
<1>1. EventInv => TypeOK
  BY CategoricalTypes, ContinuousTypes DEF EventInv, TypeOK
<1>2. QED
  BY <1>1, EventInvariant, PTL

\* The enters, transitions and drops of a value tell one connected story
\* (append_detected_events in libs/events/categorical.py).
THEOREM StoryStaysConnected == Spec => []StoryIsConnected
<1>1. EventInv => StoryIsConnected
  BY StoryIsIt DEF EventInv, CategoricalInv, StoryIsConnected
<1>2. QED
  BY <1>1, EventInvariant, PTL

\* Every change of a categorical value has its events, and there are no others.
THEOREM ChangesStayReported == Spec => []EveryChangeIsReported
<1>1. EventInv => EveryChangeIsReported
  BY ChangesAreThem DEF EventInv, CategoricalInv, EveryChangeIsReported
<1>2. QED
  BY <1>1, EventInvariant, PTL

\* A dwell that is reported is the length of the run before it, missing
\* stretches and guards in between or not, and no dwell goes on without a guard.
THEOREM DwellsStayExact == Spec => []DwellsAreExact
<1>1. EventInv => DwellsAreExact
  BY DwellsAreIt, GuardsAreIt DEF EventInv, CategoricalInv, DwellsAreExact
<1>2. QED
  BY <1>1, EventInvariant, PTL

\* The slope, switch and oscillation events are those that the samples call
\* for, if the first candidate of a kind is not held back by LongAgo.
THEOREM CandidatesStayReported ==
    ASSUME RefractoryFits
    PROVE  Spec => []CandidatesAreReported
<1>1. EventInv => CandidatesAreReported
  BY SlopesAreIt, SpacedIsIt DEF EventInv, ContinuousInv, CandidatesAreReported
<1>2. QED
  BY <1>1, EventInvariant, PTL

\* The guards and the pending change account for every change once, and no
\* sample leaves the change or the distance at its limit.
THEOREM DriftStaysReported == Spec => []DriftIsReported
<1>1. EventInv => DriftIsReported
  BY SumsAreIt, DriftIsIt DEF EventInv, ContinuousInv, DriftIsReported
<1>2. QED
  BY <1>1, EventInvariant, PTL
=============================================================================
