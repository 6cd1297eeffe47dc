------------------------------ MODULE FoldLemmas ------------------------------
(***************************************************************************)
(* Induction over data, stated once for every fold of the models.  The      *)
(* kernels of the program are folds (F.aggregate over the steps of a        *)
(* segment, a loop over the couplings of a module), written with FoldLeft.  *)
(* A proof about one instantiates Op with what it does to one element (ctx  *)
(* stands for all that the steps of the fold share) and gets from FoldRuns  *)
(* the values after each element.  Induction is over sets of numbers.       *)
(***************************************************************************)
EXTENDS SequencesExt, WellFoundedInduction, TLAPS

CONSTANT Op(_, _, _)

Fold(ctx, base, seq) == FoldLeft(LAMBDA a, x : Op(ctx, a, x), base, seq)

\* A run of the fold: run[i] is its value after the first i elements.
Runs(ctx, base, seq, run) ==
    /\ run[0] = base
    /\ \A i \in 1..Len(seq) : run[i] = Op(ctx, run[i - 1], seq[i])

-----------------------------------------------------------------------------
(* Induction.                                                               *)

\* A set of naturals that is not empty has a least element.
LEMMA LeastElement ==
    ASSUME NEW T \in SUBSET Nat, T # {}
    PROVE  \E n \in T : \A m \in T : n <= m
<1>1. PICK n \in T : \A m \in T : ~(<<m, n>> \in OpToRel(<, Nat))
  BY NatLessThanWellFounded, WFMin
<1>2. ASSUME NEW m \in T
      PROVE  n <= m
  <2>1. SUFFICES ASSUME m < n PROVE FALSE
    OBVIOUS
  <2>2. <<m, n>> \in OpToRel(<, Nat)
    BY <2>1 DEF OpToRel
  <2>3. QED
    BY <1>1, <2>2
<1>3. QED
  BY <1>2

\* A set that has 0 and the successor of each of its naturals has all of them.
LEMMA Induction ==
    ASSUME NEW T, 0 \in T, \A n \in Nat : n \in T => n + 1 \in T
    PROVE  Nat \subseteq T
<1> DEFINE U == Nat \ T
<1>1. SUFFICES ASSUME U # {} PROVE FALSE
  OBVIOUS
<1>2. PICK n \in U : \A m \in U : n <= m
  BY <1>1, LeastElement
<1>3. n # 0
  OBVIOUS
<1>4. n - 1 \in Nat /\ n - 1 \notin U
  BY <1>2, <1>3
<1>5. QED
  BY <1>4

-----------------------------------------------------------------------------
(* What FoldLeft computes.                                                  *)

\* iter is the recursive function of MapThenFoldSet for the first n elements.
Iterates(ctx, base, seq, iter, n) ==
    iter = [s \in SUBSET (1..n) |->
              IF s = {} THEN base
              ELSE Op(ctx, iter[s \ {Max(s)}], seq[Max(s)])]

\* The largest element of a set of the first numbers.
LEMMA LastIsMax ==
    ASSUME NEW n \in Nat, NEW s \in SUBSET (1..(n + 1)), n + 1 \in s
    PROVE  Max(s) = n + 1
<1>1. n + 1 \in s /\ \A y \in s : n + 1 >= y
  OBVIOUS
<1>2. \A x \in s : (\A y \in s : x >= y) => x = n + 1
  OBVIOUS
<1>3. QED
  BY <1>1, <1>2, Zenon DEF Max

\* The recursion of MapThenFoldSet, which takes the last element off, defines
\* a function for a sequence of any length.
LEMMA IterationExists ==
    ASSUME NEW ctx, NEW base, NEW seq, NEW n \in Nat
    PROVE  \E iter : Iterates(ctx, base, seq, iter, n)
<1> DEFINE T == {k \in Nat : \E iter : Iterates(ctx, base, seq, iter, k)}
<1>1. 0 \in T
  <2> DEFINE g == [s \in SUBSET (1..0) |-> base]
  <2>1. SUBSET (1..0) = {{}}
    OBVIOUS
  <2>2. Iterates(ctx, base, seq, g, 0)
    BY <2>1 DEF Iterates
  <2>3. QED
    BY <2>2
<1>2. ASSUME NEW k \in Nat, k \in T
      PROVE  k + 1 \in T
  <2>1. PICK g : Iterates(ctx, base, seq, g, k)
    BY <1>2
  <2> DEFINE h == [s \in SUBSET (1..(k + 1)) |->
                     IF k + 1 \in s THEN Op(ctx, g[s \ {k + 1}], seq[k + 1]) ELSE g[s]]
  <2>2. ASSUME NEW s \in SUBSET (1..(k + 1))
        PROVE  h[s] = IF s = {} THEN base ELSE Op(ctx, h[s \ {Max(s)}], seq[Max(s)])
    <3>1. CASE k + 1 \in s
      <4>1. Max(s) = k + 1
        BY <3>1, LastIsMax
      <4>2. h[s \ {k + 1}] = g[s \ {k + 1}]
        OBVIOUS
      <4>3. h[s] = Op(ctx, g[s \ {k + 1}], seq[k + 1])
        BY <3>1
      <4>4. QED
        BY <4>1, <4>2, <4>3, <3>1
    <3>2. CASE k + 1 \notin s
      <4>1. s \in SUBSET (1..k)
        BY <3>2
      <4>2. h[s] = g[s]
        BY <3>2
      <4>3. g[s] = IF s = {} THEN base ELSE Op(ctx, g[s \ {Max(s)}], seq[Max(s)])
        BY <2>1, <4>1 DEF Iterates
      <4>4. h[s \ {Max(s)}] = g[s \ {Max(s)}]
        BY <3>2
      <4>5. QED
        BY <4>2, <4>3, <4>4
    <3>3. QED
      BY <3>1, <3>2
  <2>3. h = [s \in SUBSET (1..(k + 1)) |->
              IF s = {} THEN base ELSE Op(ctx, h[s \ {Max(s)}], seq[Max(s)])]
    <3> HIDE DEF h
    <3>1. \A s \in SUBSET (1..(k + 1)) :
              h[s] = IF s = {} THEN base ELSE Op(ctx, h[s \ {Max(s)}], seq[Max(s)])
      BY <2>2
    <3>2. h = [s \in SUBSET (1..(k + 1)) |-> h[s]]
      BY DEF h
    <3>3. QED
      BY <3>1, <3>2
  <2>4. Iterates(ctx, base, seq, h, k + 1)
    BY <2>3 DEF Iterates
  <2>5. QED
    BY <2>4
<1>3. Nat \subseteq T
  <2> HIDE DEF T
  <2>1. QED
    BY <1>1, <1>2, Induction
<1>4. QED
  BY <1>3

\* A fold is the value of that function at all the elements.
LEMMA FoldIterates ==
    ASSUME NEW ctx, NEW base, NEW seq, NEW n \in Nat, DOMAIN seq = 1..n
    PROVE  \E iter : Iterates(ctx, base, seq, iter, n) /\ Fold(ctx, base, seq) = iter[1..n]
<1> DEFINE it == CHOOSE iter : Iterates(ctx, base, seq, iter, n)
<1>1. Fold(ctx, base, seq) = it[1..n]
  BY DEF Fold, FoldLeft, MapThenFoldSet, Iterates
<1>2. Iterates(ctx, base, seq, it, n)
  BY IterationExists
<1>3. QED
  BY <1>1, <1>2

\* A fold is the end of a run of Op along the sequence, first element first.
THEOREM FoldRuns ==
    \A ctx, base : \A S : \A seq \in Seq(S) :
        \E run : Runs(ctx, base, seq, run) /\ Fold(ctx, base, seq) = run[Len(seq)]
<1>1. SUFFICES ASSUME NEW ctx, NEW base, NEW S, NEW seq \in Seq(S)
               PROVE  \E run : /\ Runs(ctx, base, seq, run)
                               /\ Fold(ctx, base, seq) = run[Len(seq)]
  OBVIOUS
<1> DEFINE n == Len(seq)
<1>2. n \in Nat /\ DOMAIN seq = 1..n
  OBVIOUS
<1> HIDE DEF n
<1>3. PICK iter : Iterates(ctx, base, seq, iter, n) /\ Fold(ctx, base, seq) = iter[1..n]
  BY <1>2, FoldIterates
<1> DEFINE run == [i \in 0..n |-> iter[1..i]]
<1>4. run[0] = base
  <2>1. 1..0 = {} /\ {} \in SUBSET (1..n)
    OBVIOUS
  <2>2. iter[{}] = base
    BY <1>3, <2>1 DEF Iterates
  <2>3. QED
    BY <1>2, <2>1, <2>2
<1>5. ASSUME NEW i \in 1..n
      PROVE  run[i] = Op(ctx, run[i - 1], seq[i])
  <2>1. 1..i \in SUBSET (1..n) /\ 1..i # {}
    BY <1>2
  <2>2. i - 1 \in Nat /\ (1..i) \in SUBSET (1..((i - 1) + 1)) /\ (i - 1) + 1 \in 1..i
    BY <1>2
  <2>3. Max(1..i) = (i - 1) + 1
    BY <2>2, LastIsMax
  <2>4. (1..i) \ {i} = 1..(i - 1)
    BY <1>2
  <2>5. iter[1..i] = Op(ctx, iter[(1..i) \ {Max(1..i)}], seq[Max(1..i)])
    BY <1>3, <2>1 DEF Iterates
  <2>6. QED
    BY <1>2, <2>2, <2>3, <2>4, <2>5
<1>6. run[n] = iter[1..n]
  BY <1>2
<1>7. QED
  BY <1>3, <1>4, <1>5, <1>6 DEF Runs, n

\* The runs along two sequences agree as far as the sequences do.
LEMMA RunsAgree ==
    ASSUME NEW ctx, NEW base, NEW s, NEW t, NEW n \in Nat, NEW f, NEW g,
           n <= Len(s), n <= Len(t), Len(s) \in Nat, Len(t) \in Nat,
           \A i \in 1..n : s[i] = t[i], Runs(ctx, base, s, f), Runs(ctx, base, t, g)
    PROVE  \A i \in 0..n : f[i] = g[i]
<1> DEFINE T == {i \in Nat : i <= n => f[i] = g[i]}
<1>1. 0 \in T
  BY DEF Runs
<1>2. ASSUME NEW i \in Nat, i \in T
      PROVE  i + 1 \in T
  <2>1. SUFFICES ASSUME i + 1 <= n PROVE f[i + 1] = g[i + 1]
    OBVIOUS
  <2>2. i + 1 \in 1..n /\ i + 1 \in 1..Len(s) /\ i + 1 \in 1..Len(t) /\ (i + 1) - 1 = i
    BY <2>1
  <2>3. f[i] = g[i] /\ s[i + 1] = t[i + 1]
    BY <1>2, <2>2
  <2>4. f[i + 1] = Op(ctx, f[i], s[i + 1]) /\ g[i + 1] = Op(ctx, g[i], t[i + 1])
    BY <2>2 DEF Runs
  <2>5. QED
    BY <2>3, <2>4
<1> HIDE DEF T
<1>3. Nat \subseteq T
  BY <1>1, <1>2, Induction
<1>4. QED
  BY <1>3 DEF T
=============================================================================
