-------------------------- MODULE HierarchyFitProofs --------------------------
(***************************************************************************)
(* Proofs about the fit of the hierarchy, for every component graph and     *)
(* every setting.  At each level, whatever the order of the edges, the      *)
(* links stay a forest and its trees are the partition that the edges call  *)
(* for: the walk of a find ends at one root, compression leaves every root  *)
(* where it was, and a link moves the nodes of one tree, and no others, to  *)
(* the root of another.  Hence a finished level is grouped by the connected *)
(* components of its edges, the evidence is what the modules were formed    *)
(* of, and the hierarchy is the one the pandas builder computes.            *)
(***************************************************************************)
EXTENDS HierarchyFit, FiniteSetTheorems, WellFoundedInduction, TLAPS

\* The invariant of a forest: ranks climb along the links, up to a bound.
Forest(nodes, links, ranks) ==
    /\ links \in [nodes -> nodes]
    /\ ranks \in [nodes -> Nat]
    /\ \A x \in nodes : links[x] # x => ranks[x] < ranks[links[x]]
    /\ \E bound \in Nat : \A x \in nodes : ranks[x] <= bound

-----------------------------------------------------------------------------
(* The nodes of a walk.                                                     *)

\* The walk from x starts at x, follows the links, and visits nothing that a
\* closed set with x leaves out.
LEMMA WalkIsClosed ==
    ASSUME NEW nodes, NEW links \in [nodes -> nodes], NEW x \in nodes
    PROVE  /\ Ancestors(links, x) \subseteq nodes
           /\ x \in Ancestors(links, x)
           /\ \A y \in Ancestors(links, x) : links[y] \in Ancestors(links, x)
           /\ \A S \in SUBSET nodes :
                x \in S /\ IsClosed(links, S) => Ancestors(links, x) \subseteq S
<1>1. DOMAIN links = nodes
  OBVIOUS
<1>2. \A y \in Ancestors(links, x) : links[y] \in Ancestors(links, x)
  <2>1. SUFFICES ASSUME NEW y \in Ancestors(links, x)
                 PROVE  links[y] \in Ancestors(links, x)
    OBVIOUS
  <2>2. y \in nodes /\ links[y] \in nodes
    BY <2>1, <1>1 DEF Ancestors
  <2>3. ASSUME NEW S \in SUBSET nodes, x \in S, IsClosed(links, S)
        PROVE  links[y] \in S
    BY <2>1, <2>3, <1>1 DEF Ancestors, IsClosed
  <2>4. QED
    BY <2>2, <2>3, <1>1 DEF Ancestors
<1>3. QED
  BY <1>1, <1>2 DEF Ancestors

\* The walk from x is x and the walk from its parent; that of a root is short.
LEMMA WalkStep ==
    ASSUME NEW nodes, NEW links \in [nodes -> nodes], NEW x \in nodes
    PROVE  /\ Ancestors(links, x) \subseteq {x} \cup Ancestors(links, links[x])
           /\ Ancestors(links, links[x]) \subseteq Ancestors(links, x)
           /\ links[x] = x => Ancestors(links, x) = {x}
<1>1. links[x] \in nodes
  OBVIOUS
<1> DEFINE U == {x} \cup Ancestors(links, links[x])
<1>2. U \in SUBSET nodes /\ x \in U /\ IsClosed(links, U)
  BY <1>1, WalkIsClosed DEF IsClosed
<1>3. Ancestors(links, x) \subseteq U
  BY <1>2, WalkIsClosed
<1>4. /\ Ancestors(links, x) \in SUBSET nodes
      /\ links[x] \in Ancestors(links, x)
      /\ IsClosed(links, Ancestors(links, x))
  BY WalkIsClosed DEF IsClosed
<1>5. Ancestors(links, links[x]) \subseteq Ancestors(links, x)
  BY <1>1, <1>4, WalkIsClosed
<1>6. ASSUME links[x] = x PROVE Ancestors(links, x) = {x}
  <2>1. {x} \in SUBSET nodes /\ x \in {x} /\ IsClosed(links, {x})
    BY <1>6 DEF IsClosed
  <2>2. QED
    BY <2>1, WalkIsClosed
<1>7. QED
  BY <1>3, <1>5, <1>6

\* A walk reaches a root: one of its nodes has the highest rank.
LEMMA WalkHasRoot ==
    ASSUME NEW nodes, NEW links, NEW ranks, Forest(nodes, links, ranks),
           NEW x \in nodes
    PROVE  \E r \in Ancestors(links, x) : links[r] = r
<1>1. links \in [nodes -> nodes] /\ ranks \in [nodes -> Nat]
  BY DEF Forest
<1>2. PICK bound \in Nat : \A y \in nodes : ranks[y] <= bound
  BY DEF Forest
<1> DEFINE Heights == {bound - ranks[y] : y \in Ancestors(links, x)}
<1>3. Ancestors(links, x) \subseteq nodes /\ x \in Ancestors(links, x)
  BY <1>1, WalkIsClosed
<1>4. Heights \subseteq Nat /\ Heights # {}
  BY <1>1, <1>2, <1>3
<1>5. PICK h \in Heights : \A g \in Heights : ~(<<g, h>> \in OpToRel(<, Nat))
  BY <1>4, NatLessThanWellFounded, WFMin
<1>6. PICK r \in Ancestors(links, x) : h = bound - ranks[r]
  BY <1>5
<1>7. links[r] = r
  <2>1. SUFFICES ASSUME links[r] # r PROVE FALSE
    OBVIOUS
  <2>2. links[r] \in Ancestors(links, x)
    BY <1>1, <1>6, WalkIsClosed
  <2>3. r \in nodes /\ links[r] \in nodes
    BY <1>3, <1>6, <2>2
  <2>4. ranks[r] < ranks[links[r]]
    BY <2>1, <2>3 DEF Forest
  <2>5. bound - ranks[links[r]] \in Heights
    BY <2>2
  <2>6. bound - ranks[links[r]] < h
    BY <1>1, <1>2, <1>6, <2>3, <2>4
  <2>7. <<bound - ranks[links[r]], h>> \in OpToRel(<, Nat)
    BY <1>4, <2>5, <2>6 DEF OpToRel
  <2>8. QED
    BY <1>5, <2>5, <2>7
<1>8. QED
  BY <1>6, <1>7

\* No walk visits two roots: each of its nodes walks to the first of them.
LEMMA WalkHasOneRoot ==
    ASSUME NEW nodes, NEW links \in [nodes -> nodes], NEW x \in nodes,
           NEW r \in Ancestors(links, x), links[r] = r,
           NEW s \in Ancestors(links, x), links[s] = s
    PROVE  r = s
<1> DEFINE V == {y \in Ancestors(links, x) : r \in Ancestors(links, y)}
<1>1. V \in SUBSET nodes /\ x \in V
  BY WalkIsClosed
<1>2. ASSUME NEW y \in V PROVE links[y] \in V
  <2>1. y \in nodes /\ links[y] \in Ancestors(links, x)
    BY <1>1, WalkIsClosed
  <2>2. r \in {y} \cup Ancestors(links, links[y])
    BY <2>1, WalkStep
  <2>3. CASE r = y
    BY <2>3, <1>2
  <2>4. CASE r # y
    BY <2>1, <2>2, <2>4
  <2>5. QED
    BY <2>3, <2>4
<1>3. IsClosed(links, V)
  BY <1>2 DEF IsClosed
<1>4. s \in V
  BY <1>1, <1>3, WalkIsClosed
<1>5. s \in nodes /\ Ancestors(links, s) = {s}
  BY <1>1, <1>4, WalkStep
<1>6. QED
  BY <1>4, <1>5

-----------------------------------------------------------------------------
(* What find returns.                                                       *)

\* Root is the root that the walk visits.
LEMMA RootIs ==
    ASSUME NEW nodes, NEW links \in [nodes -> nodes], NEW x \in nodes,
           NEW r \in Ancestors(links, x), links[r] = r
    PROVE  Root(links, x) = r
  BY WalkHasOneRoot DEF Root

\* It is a root, the same one for a node and its parent.
LEMMA FindEnds ==
    ASSUME NEW nodes, NEW links, NEW ranks, Forest(nodes, links, ranks),
           NEW x \in nodes
    PROVE  /\ Root(links, x) \in nodes
           /\ Root(links, x) \in Ancestors(links, x)
           /\ links[Root(links, x)] = Root(links, x)
           /\ Root(links, links[x]) = Root(links, x)
           /\ links[x] = x => Root(links, x) = x
<1>1. links \in [nodes -> nodes] /\ links[x] \in nodes
  BY DEF Forest
<1>2. PICK r \in Ancestors(links, x) : links[r] = r
  BY WalkHasRoot
<1>3. Root(links, x) = r
  BY <1>1, <1>2, RootIs
<1>4. r \in nodes
  BY <1>1, <1>2, WalkIsClosed
<1>5. PICK s \in Ancestors(links, links[x]) : links[s] = s
  BY <1>1, WalkHasRoot
<1>6. s \in Ancestors(links, x) /\ Root(links, links[x]) = s
  BY <1>1, <1>5, WalkStep, RootIs
<1>7. s = r
  BY <1>1, <1>2, <1>5, <1>6, WalkHasOneRoot
<1>8. links[x] = x => x \in Ancestors(links, x)
  BY <1>1, WalkIsClosed
<1>9. links[x] = x => Root(links, x) = x
  BY <1>1, <1>8, RootIs
<1>10. QED
  BY <1>2, <1>3, <1>4, <1>6, <1>7, <1>9

\* A function that is constant along the links and keeps the roots is Root.
LEMMA RootBy ==
    ASSUME NEW nodes, NEW links, NEW ranks, Forest(nodes, links, ranks),
           NEW R, \A y \in nodes : R[links[y]] = R[y],
           \A y \in nodes : links[y] = y => R[y] = y,
           NEW x \in nodes
    PROVE  Root(links, x) = R[x]
<1> DEFINE S == {y \in nodes : R[y] = R[x]}
<1>1. links \in [nodes -> nodes]
  BY DEF Forest
<1>2. S \in SUBSET nodes /\ x \in S /\ IsClosed(links, S)
  BY <1>1 DEF IsClosed
<1>3. Root(links, x) \in S
  BY <1>1, <1>2, WalkIsClosed, FindEnds
<1>4. R[Root(links, x)] = Root(links, x)
  BY FindEnds
<1>5. QED
  BY <1>3, <1>4

\* All the nodes of a walk have its root.
LEMMA WalkSharesRoot ==
    ASSUME NEW nodes, NEW links, NEW ranks, Forest(nodes, links, ranks),
           NEW x \in nodes, NEW y \in Ancestors(links, x)
    PROVE  y \in nodes /\ Root(links, y) = Root(links, x)
<1> DEFINE S == {z \in nodes : Root(links, z) = Root(links, x)}
<1>1. links \in [nodes -> nodes]
  BY DEF Forest
<1>2. IsClosed(links, S)
  BY <1>1, FindEnds DEF IsClosed
<1>3. QED
  BY <1>1, <1>2, WalkIsClosed

\* A root ranks above the other nodes of its tree.
LEMMA RootRanksHighest ==
    ASSUME NEW nodes, NEW links, NEW ranks, Forest(nodes, links, ranks),
           NEW x \in nodes, x # Root(links, x)
    PROVE  ranks[x] < ranks[Root(links, x)]
<1>1. /\ links \in [nodes -> nodes] /\ ranks \in [nodes -> Nat]
      /\ \A z \in nodes : links[z] # z => ranks[z] < ranks[links[z]]
  BY DEF Forest
<1>2. links[x] # x /\ links[x] \in nodes
  BY <1>1, FindEnds
<1> DEFINE S == {z \in nodes : ranks[links[x]] <= ranks[z]}
<1>3. S \in SUBSET nodes /\ links[x] \in S
  BY <1>1, <1>2
<1>4. ASSUME NEW z \in S PROVE links[z] \in S
  <2>1. z \in nodes /\ links[z] \in nodes
    BY <1>1
  <2>2. ranks[z] <= ranks[links[z]]
    BY <1>1, <2>1
  <2>3. QED
    BY <1>1, <1>2, <1>4, <2>1, <2>2
<1>5. IsClosed(links, S)
  BY <1>4 DEF IsClosed
<1>6. Root(links, links[x]) \in S
  BY <1>1, <1>2, <1>3, <1>5, WalkIsClosed, FindEnds
<1>7. Root(links, x) \in S
  BY <1>6, FindEnds
<1>8. ranks[x] < ranks[links[x]]
  BY <1>1, <1>2
<1>9. QED
  BY <1>1, <1>2, <1>7, <1>8

-----------------------------------------------------------------------------
(* What a find and a union do to the trees.                                 *)

\* A level starts as a forest in which every node is its own root.
LEMMA AloneIsForest ==
    ASSUME NEW nodes
    PROVE  /\ Forest(nodes, Alone(nodes), Flat(nodes))
           /\ \A x \in nodes : Root(Alone(nodes), x) = x
<1>1. Forest(nodes, Alone(nodes), Flat(nodes))
  <2>1. \A x \in nodes : Flat(nodes)[x] <= 0
    BY DEF Flat
  <2>2. QED
    BY <2>1 DEF Forest, Alone, Flat
<1>2. \A x \in nodes : Alone(nodes)[x] = x
  BY DEF Alone
<1>3. QED
  BY <1>1, <1>2, FindEnds

\* Path compression moves no node to another tree.
LEMMA CompressedIsForest ==
    ASSUME NEW nodes, NEW links, NEW ranks, Forest(nodes, links, ranks),
           NEW x \in nodes
    PROVE  /\ Forest(nodes, Compressed(links, x), ranks)
           /\ \A y \in nodes : Root(Compressed(links, x), y) = Root(links, y)
<1> DEFINE short == Compressed(links, x)
           R == [y \in nodes |-> Root(links, y)]
<1>1. links \in [nodes -> nodes] /\ DOMAIN links = nodes
  BY DEF Forest
<1>2. ASSUME NEW y \in nodes
      PROVE  \/ short[y] = links[y]
             \/ short[y] = Root(links, y)
  <2>1. y \in Ancestors(links, x) => Root(links, y) = Root(links, x)
    BY WalkSharesRoot
  <2>2. QED
    BY <1>1, <2>1 DEF Compressed
<1>3. short \in [nodes -> nodes]
  <2>1. short = [y \in nodes |-> short[y]]
    BY <1>1 DEF Compressed
  <2>2. \A y \in nodes : short[y] \in nodes
    BY <1>1, <1>2, FindEnds
  <2>3. QED
    BY <2>1, <2>2
<1>4. ASSUME NEW y \in nodes, short[y] # y
      PROVE  ranks[y] < ranks[short[y]]
  <2>1. CASE short[y] = links[y]
    BY <1>4, <2>1 DEF Forest
  <2>2. CASE short[y] = Root(links, y)
    BY <1>4, <2>2, RootRanksHighest
  <2>3. QED
    BY <1>2, <2>1, <2>2
<1>5. Forest(nodes, short, ranks)
  BY <1>3, <1>4 DEF Forest
<1>6. ASSUME NEW y \in nodes PROVE R[short[y]] = R[y]
  <2>1. links[y] \in nodes /\ Root(links, y) \in nodes
    BY <1>1, FindEnds
  <2>2. R[links[y]] = R[y]
    BY <2>1, FindEnds
  <2>3. R[Root(links, y)] = R[y]
    BY <2>1, FindEnds
  <2>4. QED
    BY <1>2, <2>2, <2>3
<1>7. ASSUME NEW y \in nodes, short[y] = y PROVE R[y] = y
  <2>1. CASE short[y] = links[y]
    BY <1>7, <2>1, FindEnds
  <2>2. CASE short[y] = Root(links, y)
    BY <1>7, <2>2
  <2>3. QED
    BY <1>2, <2>1, <2>2
<1>8. ASSUME NEW y \in nodes PROVE Root(short, y) = Root(links, y)
  <2>1. Root(short, y) = R[y]
    <3> HIDE DEF short, R
    <3>1. QED
      BY <1>5, <1>6, <1>7, RootBy
  <2>2. QED
    BY <2>1
<1>9. QED
  BY <1>5, <1>8

\* So do the two finds of a union.
LEMMA FoundIsForest ==
    ASSUME NEW nodes, NEW links, NEW ranks, Forest(nodes, links, ranks),
           NEW l \in nodes, NEW r \in nodes
    PROVE  /\ Forest(nodes, Found(links, l, r), ranks)
           /\ \A y \in nodes : Root(Found(links, l, r), y) = Root(links, y)
<1>1. /\ Forest(nodes, Compressed(links, l), ranks)
      /\ \A y \in nodes : Root(Compressed(links, l), y) = Root(links, y)
  BY CompressedIsForest
<1>2. /\ Forest(nodes, Compressed(Compressed(links, l), r), ranks)
      /\ \A y \in nodes : Root(Compressed(Compressed(links, l), r), y)
                            = Root(Compressed(links, l), y)
  BY <1>1, CompressedIsForest
<1>3. QED
  BY <1>1, <1>2 DEF Found

\* A root linked under another, of a higher rank or raised to one.
LinksRoots(nodes, links, ranks, low, high, linked, raised) ==
    /\ Forest(nodes, links, ranks)
    /\ low \in nodes /\ high \in nodes /\ low # high
    /\ links[low] = low /\ links[high] = high
    /\ linked = [links EXCEPT ![low] = high]
    /\ raised \in [nodes -> Nat]
    /\ \A y \in nodes : y # high => raised[y] = ranks[y]
    /\ ranks[high] <= raised[high] /\ raised[high] <= ranks[high] + 1
    /\ ranks[low] < raised[high]

\* Such a link moves the nodes of its tree, and no others, to that root.
LEMMA LinkIsForest ==
    ASSUME NEW nodes, NEW links, NEW ranks, NEW low, NEW high, NEW linked,
           NEW raised,
           LinksRoots(nodes, links, ranks, low, high, linked, raised)
    PROVE  /\ Forest(nodes, linked, raised)
           /\ \A y \in nodes : Root(linked, y) =
                IF Root(links, y) = low THEN high ELSE Root(links, y)
<1> USE DEF LinksRoots
<1> DEFINE R == [y \in nodes |->
                    IF Root(links, y) = low THEN high ELSE Root(links, y)]
<1>1. links \in [nodes -> nodes] /\ ranks \in [nodes -> Nat]
  BY DEF Forest
<1>2. linked \in [nodes -> nodes]
  BY <1>1
<1>3. PICK bound \in Nat : \A y \in nodes : ranks[y] <= bound
  BY DEF Forest
<1>4. bound + 1 \in Nat /\ \A y \in nodes : raised[y] <= bound + 1
  BY <1>1, <1>3
<1>5. ASSUME NEW y \in nodes, linked[y] # y
      PROVE  raised[y] < raised[linked[y]]
  <2>1. CASE y = low
    <3>1. linked[y] = high
      BY <1>1, <2>1
    <3>2. raised[low] = ranks[low] /\ ranks[low] < raised[high]
      BY <1>1
    <3>3. QED
      BY <2>1, <3>1, <3>2
  <2>2. CASE y # low
    <3>1. linked[y] = links[y] /\ links[y] \in nodes
      BY <1>1, <2>2
    <3>2. ranks[y] < ranks[links[y]]
      BY <1>5, <3>1 DEF Forest
    <3>3. y # high
      BY <1>5, <3>1
    <3>4. raised[y] = ranks[y] /\ ranks[links[y]] <= raised[links[y]]
      BY <1>1, <3>1, <3>3
    <3>5. QED
      BY <1>1, <1>2, <3>1, <3>2, <3>4
  <2>3. QED
    BY <2>1, <2>2
<1>6. Forest(nodes, linked, raised)
  BY <1>2, <1>4, <1>5 DEF Forest
<1>7. Root(links, low) = low /\ Root(links, high) = high
  BY FindEnds
<1>8. ASSUME NEW y \in nodes PROVE R[linked[y]] = R[y]
  <2>1. CASE y = low
    BY <1>1, <1>7, <2>1
  <2>2. CASE y # low
    <3>1. linked[y] = links[y] /\ links[y] \in nodes
      BY <1>1, <2>2
    <3>2. Root(links, links[y]) = Root(links, y)
      BY FindEnds
    <3>3. QED
      BY <3>1, <3>2
  <2>3. QED
    BY <2>1, <2>2
<1>9. ASSUME NEW y \in nodes, linked[y] = y PROVE R[y] = y
  <2>1. y # low /\ links[y] = y
    BY <1>1, <1>9
  <2>2. Root(links, y) = y
    BY <2>1, FindEnds
  <2>3. QED
    BY <2>1, <2>2
<1>10. ASSUME NEW y \in nodes PROVE Root(linked, y) = R[y]
  <2>1. \A z \in nodes : R[linked[z]] = R[z]
    BY <1>8
  <2>2. \A z \in nodes : linked[z] = z => R[z] = z
    BY <1>9
  <2> HIDE DEF R
  <2>3. QED
    BY ONLY <1>6, <1>10, <2>1, <2>2, RootBy
<1>11. QED
  BY <1>6, <1>10

\* A union of two trees links the root of one under that of the other.
LEMMA UnionIsForest ==
    ASSUME NEW nodes, NEW links, NEW ranks, Forest(nodes, links, ranks),
           NEW l \in nodes, NEW r \in nodes,
           Root(links, l) # Root(links, r)
    PROVE  /\ Forest(nodes, Linked(links, ranks, l, r), Raised(links, ranks, l, r))
           /\ \A y \in nodes : Root(Linked(links, ranks, l, r), y) =
                IF Root(links, y) = Loser(links, ranks, l, r)
                THEN Winner(links, ranks, l, r) ELSE Root(links, y)
<1> DEFINE found == Found(links, l, r)
           low == Loser(links, ranks, l, r)
           high == Winner(links, ranks, l, r)
           raised == Raised(links, ranks, l, r)
<1>1. /\ Forest(nodes, found, ranks)
      /\ \A y \in nodes : Root(found, y) = Root(links, y)
  BY FoundIsForest
<1>2. \/ low = Root(links, l) /\ high = Root(links, r)
      \/ low = Root(links, r) /\ high = Root(links, l)
  BY DEF Loser, Winner
<1>3. low \in nodes /\ high \in nodes /\ low # high
  BY <1>2, FindEnds
<1>4. ASSUME NEW x \in nodes
      PROVE  found[Root(links, x)] = Root(links, x)
  BY <1>1, FindEnds
<1>5. found[low] = low /\ found[high] = high
  BY <1>2, <1>4
<1>6. ranks \in [nodes -> Nat]
  BY DEF Forest
<1>7. Root(links, l) \in nodes /\ Root(links, r) \in nodes
  BY FindEnds
<1>8. \/ raised = ranks /\ ranks[low] < ranks[high]
      \/ raised = [ranks EXCEPT ![high] = @ + 1] /\ ranks[low] <= ranks[high]
  <2>1. ranks[Root(links, l)] \in Nat /\ ranks[Root(links, r)] \in Nat
    BY <1>6, <1>7
  <2>2. CASE ranks[Root(links, l)] = ranks[Root(links, r)]
    <3>1. high = Root(links, l) /\ low = Root(links, r)
      BY <2>1, <2>2 DEF Loser, Winner, LeftWins
    <3>2. raised = [ranks EXCEPT ![Root(links, l)] = @ + 1]
      BY <2>2 DEF Raised
    <3>3. ranks[low] <= ranks[high]
      BY <2>1, <2>2, <3>1
    <3> HIDE DEF low, high, raised
    <3>4. QED
      BY <3>1, <3>2, <3>3
  <2>3. CASE ranks[Root(links, l)] > ranks[Root(links, r)]
    <3>1. high = Root(links, l) /\ low = Root(links, r) /\ raised = ranks
      BY <2>1, <2>3 DEF Raised, Loser, Winner, LeftWins
    <3>2. QED
      BY <2>1, <2>3, <3>1
  <2>4. CASE ranks[Root(links, l)] < ranks[Root(links, r)]
    <3>1. high = Root(links, r) /\ low = Root(links, l) /\ raised = ranks
      BY <2>1, <2>4 DEF Raised, Loser, Winner, LeftWins
    <3>2. QED
      BY <2>1, <2>4, <3>1
  <2>5. QED
    BY <2>1, <2>2, <2>3, <2>4
<1>9. /\ raised \in [nodes -> Nat]
      /\ \A y \in nodes : y # high => raised[y] = ranks[y]
      /\ ranks[high] <= raised[high] /\ raised[high] <= ranks[high] + 1
      /\ ranks[low] < raised[high]
  <2>1. ranks[low] \in Nat /\ ranks[high] \in Nat
    BY <1>3, <1>6
  <2> HIDE DEF low, high, raised
  <2>2. CASE raised = ranks /\ ranks[low] < ranks[high]
    BY <1>6, <2>1, <2>2
  <2>3. CASE raised = [ranks EXCEPT ![high] = @ + 1] /\ ranks[low] <= ranks[high]
    BY <1>3, <1>6, <2>1, <2>3
  <2>4. QED
    BY <1>8, <2>2, <2>3
<1>10. Linked(links, ranks, l, r) = [found EXCEPT ![low] = high]
  BY DEF Linked
<1>11. /\ Forest(nodes, Linked(links, ranks, l, r), raised)
       /\ \A y \in nodes : Root(Linked(links, ranks, l, r), y) =
            IF Root(found, y) = low THEN high ELSE Root(found, y)
  <2> HIDE DEF found, low, high, raised
  <2>1. LinksRoots(nodes, found, ranks, low, high,
                   Linked(links, ranks, l, r), raised)
    BY <1>1, <1>3, <1>5, <1>9, <1>10 DEF LinksRoots
  <2>2. QED
    BY <2>1, LinkIsForest
<1>12. QED
  BY <1>1, <1>11

-----------------------------------------------------------------------------
(* The trees as a partition.                                                *)

\* The trees are known from the roots.
LEMMA SameRootsSameClasses ==
    ASSUME NEW nodes, NEW p \in [nodes -> nodes], NEW q \in [nodes -> nodes],
           \A y \in nodes : Root(q, y) = Root(p, y)
    PROVE  Classes(q) = Classes(p)
<1>1. \A x \in nodes : ClassOf(q, x) = ClassOf(p, x)
  BY DEF ClassOf
<1>2. QED
  BY <1>1 DEF Classes

\* A level starts with singletons.
LEMMA AloneIsSingletons ==
    ASSUME NEW nodes
    PROVE  Classes(Alone(nodes)) = {{x} : x \in nodes}
<1>1. DOMAIN Alone(nodes) = nodes
  BY DEF Alone
<1>2. \A x \in nodes : ClassOf(Alone(nodes), x) = {x}
  BY <1>1, AloneIsForest DEF ClassOf
<1>3. QED
  BY <1>1, <1>2 DEF Classes

\* The trees that contain l or r, and what a union makes of the trees.
Touched(p, l, r) == {b \in Classes(p) : l \in b \/ r \in b}
Merged(p, l, r) == (Classes(p) \ Touched(p, l, r)) \cup {UNION Touched(p, l, r)}

\* They are the tree of l and the tree of r.
LEMMA TouchedAre ==
    ASSUME NEW nodes, NEW p \in [nodes -> nodes], NEW l \in nodes, NEW r \in nodes
    PROVE  Touched(p, l, r) = {ClassOf(p, l), ClassOf(p, r)}
<1>1. DOMAIN p = nodes
  OBVIOUS
<1>2. ASSUME NEW x \in nodes, NEW y \in nodes, y \in ClassOf(p, x)
      PROVE  ClassOf(p, x) = ClassOf(p, y)
  BY <1>2 DEF ClassOf
<1>3. ASSUME NEW x \in nodes PROVE x \in ClassOf(p, x)
  BY <1>1 DEF ClassOf
<1>4. Touched(p, l, r) \subseteq {ClassOf(p, l), ClassOf(p, r)}
  BY <1>1, <1>2 DEF Touched, Classes
<1>5. ClassOf(p, l) \in Touched(p, l, r) /\ ClassOf(p, r) \in Touched(p, l, r)
  BY <1>1, <1>3 DEF Touched, Classes
<1>6. QED
  BY <1>4, <1>5

\* Within one tree a union merges nothing.
LEMMA MergedWithin ==
    ASSUME NEW nodes, NEW p \in [nodes -> nodes], NEW l \in nodes, NEW r \in nodes,
           Root(p, l) = Root(p, r)
    PROVE  Merged(p, l, r) = Classes(p)
<1>1. ClassOf(p, l) = ClassOf(p, r)
  BY DEF ClassOf
<1>2. Touched(p, l, r) = {ClassOf(p, l)}
  BY <1>1, TouchedAre
<1>3. ClassOf(p, l) \in Classes(p)
  BY DEF Classes
<1>4. UNION {ClassOf(p, l)} = ClassOf(p, l)
  OBVIOUS
<1>5. QED
  BY <1>2, <1>3, <1>4 DEF Merged

\* The tree of one end is moved to the root of the other's.
MovesTree(nodes, p, q, l, r, low, high) ==
    /\ p \in [nodes -> nodes] /\ q \in [nodes -> nodes]
    /\ l \in nodes /\ r \in nodes
    /\ \/ low = Root(p, l) /\ high = Root(p, r)
       \/ low = Root(p, r) /\ high = Root(p, l)
    /\ \A y \in nodes :
            Root(q, y) = IF Root(p, y) = low THEN high ELSE Root(p, y)

\* Between two trees it merges them, and leaves the others as they are.
LEMMA MergedBetween ==
    ASSUME NEW nodes, NEW p, NEW q, NEW l, NEW r, NEW low, NEW high,
           MovesTree(nodes, p, q, l, r, low, high)
    PROVE  Classes(q) = Merged(p, l, r)
<1> USE DEF MovesTree
<1> DEFINE both == ClassOf(p, l) \cup ClassOf(p, r)
<1>1. DOMAIN p = nodes /\ DOMAIN q = nodes
  OBVIOUS
<1>2. both = {y \in nodes : Root(p, y) = low \/ Root(p, y) = high}
  BY <1>1 DEF ClassOf
<1>3. ASSUME NEW x \in nodes, x \in both
      PROVE  ClassOf(q, x) = both
  BY <1>1, <1>2, <1>3 DEF ClassOf
<1>4. ASSUME NEW x \in nodes, x \notin both
      PROVE  ClassOf(q, x) = ClassOf(p, x)
  BY <1>1, <1>2, <1>4 DEF ClassOf
<1>5. Touched(p, l, r) = {ClassOf(p, l), ClassOf(p, r)}
  BY TouchedAre
<1>6. UNION Touched(p, l, r) = both
  BY <1>5
<1>7. ASSUME NEW x \in nodes
      PROVE  ClassOf(p, x) \in Touched(p, l, r) <=> x \in both
  BY <1>1, <1>5 DEF ClassOf
<1>8. Classes(q) \subseteq Merged(p, l, r)
  <2>1. SUFFICES ASSUME NEW x \in nodes
                 PROVE  ClassOf(q, x) \in Merged(p, l, r)
    BY <1>1 DEF Classes
  <2>2. CASE x \in both
    BY <1>3, <1>6, <2>2 DEF Merged
  <2>3. CASE x \notin both
    BY <1>1, <1>4, <1>7, <2>3 DEF Merged, Classes
  <2>4. QED
    BY <2>2, <2>3
<1>9. Merged(p, l, r) \subseteq Classes(q)
  <2>1. l \in both
    BY <1>1 DEF ClassOf
  <2>2. both \in Classes(q)
    BY <1>1, <1>3, <2>1 DEF Classes
  <2>3. ASSUME NEW b \in Classes(p), b \notin Touched(p, l, r)
        PROVE  b \in Classes(q)
    <3>1. PICK x \in nodes : b = ClassOf(p, x)
      BY <1>1 DEF Classes
    <3>2. ClassOf(q, x) = b
      BY <1>4, <1>7, <2>3, <3>1
    <3>3. QED
      BY <1>1, <3>2 DEF Classes
  <2>4. QED
    BY <1>6, <2>2, <2>3 DEF Merged
<1>10. QED
  BY <1>8, <1>9

-----------------------------------------------------------------------------
(* The fit.                                                                 *)

\* The inductive invariant: the links are a forest of climbing ranks, and
\* nothing is pending before the first level begins.
IInv ==
    /\ Forest(DOMAIN parent, parent, rank)
    /\ status \in {"components", "fused"} => pending = {}

\* What a step that begins a level, or keeps the one there is, does to it.
Begins == \E nodes : parent' = Alone(nodes) /\ rank' = Flat(nodes)
Keeps == UNCHANGED <<threshold, pending, parent, rank>>

-----------------------------------------------------------------------------
(* The actions, one by one.                                                 *)

\* A level begins with every node on its own: a forest of singletons.
LEMMA AloneBegins ==
    ASSUME NEW nodes, parent' = Alone(nodes), rank' = Flat(nodes)
    PROVE  /\ Forest(DOMAIN parent', parent', rank')
           /\ Classes(parent') = {{x} : x \in DOMAIN parent'}
<1>1. DOMAIN parent' = nodes
  BY DEF Alone
<1>2. QED
  BY <1>1, AloneIsForest, AloneIsSingletons

\* Stage 50 and the end of stage 60 leave the sets alone.
LEMMA FuseKeeps ==
    ASSUME IInv, FuseGraph
    PROVE  Keeps /\ IInv'
<1>1. Keeps /\ status = "components"
  BY DEF FuseGraph, Keeps
<1>2. Forest(DOMAIN parent', parent', rank')
  BY <1>1 DEF IInv, Keeps
<1>3. pending' = {}
  BY <1>1 DEF IInv, Keeps
<1>4. QED
  BY <1>1, <1>2, <1>3 DEF IInv

\* The end of the fit leaves the forest as it is.
LEMMA FinishKeeps ==
    ASSUME IInv, Finish
    PROVE  Keeps /\ IInv'
<1>1. Keeps /\ status' = "done"
  BY DEF Finish, Keeps
<1>2. Forest(DOMAIN parent', parent', rank')
  BY <1>1 DEF IInv, Keeps
<1>3. QED
  BY <1>1, <1>2 DEF IInv

\* A level begins, or is refused, with no edge of the last one pending.
LEMMA RetainBegins ==
    ASSUME IInv, RetainEdges
    PROVE  pending = {} /\ (Keeps \/ Begins) /\ IInv'
<1> DEFINE rows == Filtered(fused, settings.minWeight)
           retained == RetainedRows(rows, settings.topK)
<1>1. pending = {}
  BY DEF IInv, RetainEdges
<1>2. CASE Cardinality(retained) > settings.maxEdges
  <2>1. Keeps /\ status' = "refused"
    BY <1>2 DEF RetainEdges, Refuse, Keeps
  <2>2. Forest(DOMAIN parent', parent', rank')
    BY <2>1 DEF IInv, Keeps
  <2>3. QED
    BY <1>1, <2>1, <2>2 DEF IInv
<1>3. CASE ~(Cardinality(retained) > settings.maxEdges)
  <2>1. /\ parent' = Alone(Parameters) /\ rank' = Flat(Parameters)
        /\ status' = "module"
    BY <1>3 DEF RetainEdges, Group
  <2>2. QED
    BY <1>1, <2>1, AloneBegins DEF IInv, Begins
<1>4. QED
  BY <1>2, <1>3

\* A climb to the next level either is refused or begins a forest of singletons.
LEMMA ClimbBegins ==
    ASSUME IInv, Climb
    PROVE  pending = {} /\ (Keeps \/ Begins) /\ IInv'
<1> DEFINE up == Rollup(between, Numbered)
           ids == {Numbered[x] : x \in DOMAIN Numbered}
<1>1. pending = {}
  BY DEF Climb
<1>2. CASE Cardinality(up) > settings.maxEdges
  <2>1. Keeps /\ status' = "refused"
    BY <1>2 DEF Climb, Refuse, Keeps
  <2>2. Forest(DOMAIN parent', parent', rank')
    BY <2>1 DEF IInv, Keeps
  <2>3. QED
    BY <1>1, <2>1, <2>2 DEF IInv
<1>3. CASE ~(Cardinality(up) > settings.maxEdges)
  <2>1. /\ parent' = Alone(ids) /\ rank' = Flat(ids)
        /\ status' = LevelAbove(status)
    BY <1>3 DEF Climb, Group
  <2>2. status' \notin {"components", "fused"}
    BY <2>1 DEF LevelAbove
  <2>3. QED
    BY <1>1, <2>1, <2>2, AloneBegins DEF IInv, Begins
<1>4. QED
  BY <1>2, <1>3

\* An edge is looked at: the sets stay a forest over the same nodes, and the
\* trees of its ends are merged if it is strong, and only then.
LEMMA TakeMerges ==
    ASSUME IInv, NEW e \in pending, Take(e)
    PROVE  /\ Forest(DOMAIN parent, parent', rank')
           /\ DOMAIN parent' = DOMAIN parent
           /\ Classes(parent') =
                IF /\ e.left \in DOMAIN parent /\ e.right \in DOMAIN parent
                   /\ e.weight >= threshold
                THEN Merged(parent, e.left, e.right) ELSE Classes(parent)
<1> DEFINE nodes == DOMAIN parent
           IsStrong == /\ e.left \in nodes /\ e.right \in nodes
                       /\ e.weight >= threshold
<1>1. Forest(nodes, parent, rank) /\ parent \in [nodes -> nodes]
  BY DEF IInv, Forest
<1>2. CASE ~Joins(e)
  <2>1. UNCHANGED <<parent, rank>>
    BY <1>2 DEF Take
  <2>2. IsStrong => e.left = e.right
    BY <1>2 DEF Joins
  <2>3. IsStrong => Merged(parent, e.left, e.right) = Classes(parent)
    BY <1>1, <2>2, MergedWithin
  <2>4. QED
    BY <1>1, <2>1, <2>3
<1>3. CASE Joins(e)
  <2>1. e.left \in nodes /\ e.right \in nodes /\ IsStrong
    BY <1>3 DEF Joins
  <2>2. CASE Root(parent, e.left) = Root(parent, e.right)
    <3>1. parent' = Found(parent, e.left, e.right) /\ rank' = rank
      BY <1>3, <2>2 DEF Take
    <3>2. /\ Forest(nodes, parent', rank')
          /\ \A y \in nodes : Root(parent', y) = Root(parent, y)
      BY <1>1, <2>1, <3>1, FoundIsForest
    <3>3. parent' \in [nodes -> nodes]
      BY <3>2 DEF Forest
    <3>4. Classes(parent') = Classes(parent)
      BY <1>1, <3>2, <3>3, SameRootsSameClasses
    <3>5. Merged(parent, e.left, e.right) = Classes(parent)
      BY <1>1, <2>1, <2>2, MergedWithin
    <3>6. QED
      BY <2>1, <3>2, <3>3, <3>4, <3>5
  <2>3. CASE Root(parent, e.left) # Root(parent, e.right)
    <3> DEFINE low == Loser(parent, rank, e.left, e.right)
               high == Winner(parent, rank, e.left, e.right)
    <3>1. /\ parent' = Linked(parent, rank, e.left, e.right)
          /\ rank' = Raised(parent, rank, e.left, e.right)
      BY <1>3, <2>3 DEF Take
    <3>2. /\ Forest(nodes, parent', rank')
          /\ \A y \in nodes : Root(parent', y) =
                IF Root(parent, y) = low THEN high ELSE Root(parent, y)
      BY <1>1, <2>1, <2>3, <3>1, UnionIsForest
    <3>3. parent' \in [nodes -> nodes]
      BY <3>2 DEF Forest
    <3>4. \/ low = Root(parent, e.left) /\ high = Root(parent, e.right)
          \/ low = Root(parent, e.right) /\ high = Root(parent, e.left)
      BY DEF Loser, Winner
    <3>5. Classes(parent') = Merged(parent, e.left, e.right)
      <4> HIDE DEF nodes, low, high
      <4>1. MovesTree(nodes, parent, parent', e.left, e.right, low, high)
        BY <1>1, <2>1, <3>2, <3>3, <3>4 DEF MovesTree
      <4>2. QED
        BY <4>1, MergedBetween
    <3>6. QED
      BY <2>1, <3>2, <3>3, <3>5
  <2>4. QED
    BY <2>2, <2>3
<1>4. QED
  BY <1>2, <1>3

\* Taking an edge keeps the invariant.
LEMMA TakeIInv ==
    ASSUME IInv, TakeAny
    PROVE  IInv'
<1>1. PICK e \in pending : Take(e)
  BY DEF TakeAny
<1>2. status' = status /\ status \in Levels
  BY <1>1 DEF TakeAny, Take
<1>3. status' \notin {"components", "fused"}
  BY <1>2 DEF Levels
<1>4. Forest(DOMAIN parent', parent', rank')
  BY <1>1, TakeMerges
<1>5. QED
  BY <1>3, <1>4 DEF IInv

-----------------------------------------------------------------------------
(* The theorems.                                                            *)

\* The fit begins with an empty forest.
LEMMA InitIInv ==
    ASSUME Init
    PROVE  IInv /\ Classes(parent) = {{x} : x \in DOMAIN parent}
<1>1. parent = Alone({}) /\ rank = Flat({}) /\ pending = {}
  BY DEF Init
<1>2. DOMAIN parent = {}
  BY <1>1 DEF Alone
<1>3. QED
  BY <1>1, <1>2, AloneIsForest, AloneIsSingletons DEF IInv

\* Every step, and every stutter, keeps the invariant.
LEMMA NextIInv ==
    ASSUME IInv, [Next]_vars
    PROVE  IInv'
<1>1. CASE FuseGraph
  BY <1>1, FuseKeeps
<1>2. CASE RetainEdges
  BY <1>2, RetainBegins
<1>3. CASE TakeAny
  BY <1>3, TakeIInv
<1>4. CASE Climb
  BY <1>4, ClimbBegins
<1>5. CASE Finish
  BY <1>5, FinishKeeps
<1>6. CASE UNCHANGED vars
  BY <1>6 DEF vars, IInv
<1>7. QED
  BY <1>1, <1>2, <1>3, <1>4, <1>5, <1>6 DEF Next

\* Every link climbs, so every find ends: at each level, for every graph and
\* setting, after any number of unions and compressions.
THEOREM FindsEnd == Spec => []LinksClimb
<1>1. Init => IInv
  BY InitIInv
<1>2. IInv /\ [Next]_vars => IInv'
  BY NextIInv
<1>3. IInv => LinksClimb
  BY DEF IInv, Forest, LinksClimb
<1>4. QED
  BY <1>1, <1>2, <1>3, PTL DEF Spec

\* The union-find of a level, with compression and ranks, implements the
\* joining of blocks, whatever the order of its edges.
THEOREM Refinement == Spec => ImplementsPartition
<1>1. Init => IInv
  BY InitIInv
<1>2. Init => P!Init
  BY InitIInv DEF P!Init, P!Singletons
<1>3. IInv /\ [Next]_vars => IInv'
  BY NextIInv
<1>4. IInv /\ [Next]_vars =>
        [P!Next]_<<DOMAIN parent, threshold, pending, Classes(parent)>>
  <2> DEFINE mapped == <<DOMAIN parent, threshold, pending, Classes(parent)>>
  <2>1. ASSUME Keeps PROVE UNCHANGED mapped
    BY <2>1 DEF Keeps
  <2>2. ASSUME pending = {}, Begins PROVE P!Restart
    <3>1. Classes(parent') = {{x} : x \in DOMAIN parent'}
      BY <2>2, AloneBegins DEF Begins
    <3>2. QED
      BY <2>2, <3>1 DEF P!Restart, P!Singletons
  <2>3. ASSUME IInv, NEW e \in pending, Take(e) PROVE P!Take(e)
    <3>1. /\ DOMAIN parent' = DOMAIN parent
          /\ Classes(parent') =
               IF /\ e.left \in DOMAIN parent /\ e.right \in DOMAIN parent
                  /\ e.weight >= threshold
               THEN Merged(parent, e.left, e.right) ELSE Classes(parent)
      BY <2>3, TakeMerges
    <3>2. P!JoinedBy(e) = Merged(parent, e.left, e.right)
      BY DEF P!JoinedBy, P!Touching, Merged, Touched
    <3>3. pending' = pending \ {e} /\ threshold' = threshold
      BY <2>3 DEF Take
    <3>4. QED
      BY <3>1, <3>2, <3>3 DEF P!Take, P!IsStrong
  <2>4. SUFFICES ASSUME IInv, [Next]_vars PROVE P!Next \/ UNCHANGED mapped
    OBVIOUS
  <2>5. CASE FuseGraph
    BY <2>1, <2>4, <2>5, FuseKeeps
  <2>6. CASE RetainEdges
    BY <2>1, <2>2, <2>4, <2>6, RetainBegins DEF P!Next
  <2>7. CASE TakeAny
    BY <2>3, <2>4, <2>7 DEF TakeAny, P!Next
  <2>8. CASE Climb
    BY <2>1, <2>2, <2>4, <2>8, ClimbBegins DEF P!Next
  <2>9. CASE Finish
    BY <2>1, <2>4, <2>9, FinishKeeps
  <2>10. CASE UNCHANGED vars
    BY <2>10 DEF vars
  <2>11. QED
    BY <2>4, <2>5, <2>6, <2>7, <2>8, <2>9, <2>10 DEF Next
<1>5. QED
  BY <1>1, <1>2, <1>3, <1>4, PTL DEF Spec, ImplementsPartition, P!Spec

\* The recursions of the averages and of the components are over numbers.
Numbers == INSTANCE FoldLemmas WITH Op <- LAMBDA ctx, acc, x : acc

-----------------------------------------------------------------------------
(* Finite sets.                                                             *)

\* The values of a function on a finite set are finitely many.
LEMMA ImageIsFinite ==
    ASSUME NEW S, IsFiniteSet(S), NEW f, DOMAIN f = S, f = [x \in S |-> f[x]]
    PROVE  IsFiniteSet({f[x] : x \in S})
<1> DEFINE T == {f[x] : x \in S}
<1>1. f \in Surjection(S, T)
  BY DEF Surjection
<1>2. QED
  BY <1>1, FS_Surjection

\* A set of naturals that is not empty has a minimum.
LEMMA MinIsLeast ==
    ASSUME NEW S \in SUBSET Nat, S # {}
    PROVE  Min(S) \in S /\ \A y \in S : Min(S) <= y
<1>1. \E x \in S : \A y \in S : x <= y
  BY Numbers!LeastElement
<1>2. QED
  BY <1>1, Zenon DEF Min

\* A set without one of its elements has one element less.
LEMMA OneLess ==
    ASSUME NEW S, IsFiniteSet(S), NEW x \in S
    PROVE  /\ IsFiniteSet(S \ {x}) /\ Cardinality(S \ {x}) \in Nat
           /\ Cardinality(S) = Cardinality(S \ {x}) + 1
<1>1. IsFiniteSet(S \ {x}) /\ Cardinality(S \ {x}) = Cardinality(S) - 1
  BY FS_RemoveElement
<1>2. Cardinality(S) \in Nat /\ Cardinality(S \ {x}) \in Nat
  BY <1>1, FS_CardinalityType
<1>3. QED
  BY <1>1, <1>2

-----------------------------------------------------------------------------
(* The average weight of a set of edges.                                    *)

Picked(s) == CHOOSE x \in s : TRUE

\* it is the recursive function of MapThenSumSet, on the subsets in D.
SumsOn(D, it) ==
    \A s \in D : it[s] = IF s = {} THEN 0 ELSE Picked(s).weight + it[s \ {Picked(s)}]

\* The recursion defines a function on the subsets of a finite set.
LEMMA SumsExist ==
    ASSUME NEW edges, IsFiniteSet(edges)
    PROVE  \E it : SumsOn(SUBSET edges, it) /\ it = [s \in SUBSET edges |-> it[s]]
<1> DEFINE Upto(n) == {s \in SUBSET edges : Cardinality(s) <= n}
           T == {n \in Nat : \E it : SumsOn(Upto(n), it)}
<1>1. \A s \in SUBSET edges : IsFiniteSet(s) /\ Cardinality(s) \in Nat
                              /\ (Cardinality(s) = 0 <=> s = {})
  BY FS_Subset, FS_CardinalityType, FS_EmptySet
<1>2. \A s \in SUBSET edges : s # {} =>
          /\ Picked(s) \in s /\ s \ {Picked(s)} \in SUBSET edges
          /\ Cardinality(s \ {Picked(s)}) = Cardinality(s) - 1
  BY <1>1, FS_RemoveElement DEF Picked
<1>3. 0 \in T
  <2> DEFINE it == [s \in SUBSET edges |-> 0]
  <2>1. Upto(0) = {{}}
    BY <1>1, FS_EmptySet
  <2>2. SumsOn(Upto(0), it)
    BY <2>1 DEF SumsOn
  <2>3. QED
    BY <2>2
<1>4. ASSUME NEW n \in Nat, n \in T
      PROVE  n + 1 \in T
  <2>1. PICK g : SumsOn(Upto(n), g)
    BY <1>4
  <2> DEFINE h == [s \in SUBSET edges |->
                     IF Cardinality(s) = n + 1 THEN Picked(s).weight + g[s \ {Picked(s)}]
                     ELSE g[s]]
  <2>2. ASSUME NEW s \in Upto(n + 1)
        PROVE  h[s] = IF s = {} THEN 0 ELSE Picked(s).weight + h[s \ {Picked(s)}]
    <3>1. s = {} => Cardinality(s) = 0
      BY <1>1
    <3>2. s # {} => h[s \ {Picked(s)}] = g[s \ {Picked(s)}]
      BY <1>1, <1>2
    <3>3. CASE Cardinality(s) = n + 1
      <4>1. s # {}
        BY <3>1, <3>3
      <4>2. h[s] = Picked(s).weight + g[s \ {Picked(s)}]
        BY <3>3
      <4>3. QED
        BY <3>2, <4>1, <4>2
    <3>4. CASE Cardinality(s) # n + 1
      <4>1. s \in Upto(n)
        BY <1>1, <3>4
      <4>2. g[s] = IF s = {} THEN 0 ELSE Picked(s).weight + g[s \ {Picked(s)}]
        BY <2>1, <4>1 DEF SumsOn
      <4>3. h[s] = g[s]
        BY <3>4
      <4>4. QED
        BY <3>2, <4>2, <4>3
    <3>5. QED
      BY <3>3, <3>4
  <2>3. SumsOn(Upto(n + 1), h)
    <3> HIDE DEF h, Upto
    <3>1. QED
      BY <2>2 DEF SumsOn
  <2>4. QED
    <3> HIDE DEF h, Upto
    <3>1. QED
      BY <2>3
<1>5. Nat \subseteq T
  <2> HIDE DEF T
  <2>1. QED
    BY <1>3, <1>4, Numbers!Induction
<1>6. Cardinality(edges) \in Nat
  BY <1>1
<1>7. Upto(Cardinality(edges)) = SUBSET edges
  BY FS_Subset
<1>8. PICK g : SumsOn(SUBSET edges, g)
  BY <1>5, <1>6, <1>7
<1> DEFINE it == [s \in SUBSET edges |-> g[s]]
<1>9. SumsOn(SUBSET edges, it)
  BY <1>8 DEF SumsOn
<1>10. QED
  BY <1>9

\* The sum of weights that are low or more.
LEMMA SumIsBounded ==
    ASSUME NEW edges, IsFiniteSet(edges), NEW low \in Nat,
           \A e \in edges : e.weight \in Nat /\ low <= e.weight
    PROVE  LET sum == MapThenSumSet(LAMBDA e : e.weight, edges)
           IN  sum \in Nat /\ low * Cardinality(edges) <= sum
<1> DEFINE IsIt(it) ==
             it = [s \in SUBSET edges |->
                     IF s = {} THEN 0
                     ELSE LET x == CHOOSE x \in s : TRUE IN x.weight + it[s \ {x}]]
           chosen == CHOOSE it : IsIt(it)
<1>1. MapThenSumSet(LAMBDA e : e.weight, edges) = chosen[edges]
  BY DEF MapThenSumSet, MapThenFoldSet
<1>2. \E it : IsIt(it)
  <2>1. PICK it : SumsOn(SUBSET edges, it) /\ it = [s \in SUBSET edges |-> it[s]]
    BY SumsExist
  <2>2. \A s \in SUBSET edges : it[s] =
            IF s = {} THEN 0 ELSE LET x == CHOOSE x \in s : TRUE IN x.weight + it[s \ {x}]
    BY <2>1 DEF SumsOn, Picked
  <2>3. IsIt(it)
    BY <2>1, <2>2
  <2>4. QED
    BY <2>3
<1>3. IsIt(chosen)
  BY <1>2
<1>4. SumsOn(SUBSET edges, chosen)
  BY <1>3 DEF SumsOn, Picked
<1> HIDE DEF IsIt, chosen
<1> DEFINE Good(s) == chosen[s] \in Nat /\ low * Cardinality(s) <= chosen[s]
           U == {n \in Nat : \A s \in SUBSET edges : Cardinality(s) = n => Good(s)}
<1>5. \A s \in SUBSET edges : IsFiniteSet(s) /\ Cardinality(s) \in Nat
                              /\ (Cardinality(s) = 0 <=> s = {})
  BY FS_Subset, FS_CardinalityType, FS_EmptySet
<1>6. 0 \in U
  <2>1. chosen[{}] = 0
    BY <1>4 DEF SumsOn
  <2>2. QED
    BY <1>5, <2>1
<1>7. ASSUME NEW n \in Nat, n \in U
      PROVE  n + 1 \in U
  <2>1. SUFFICES ASSUME NEW s \in SUBSET edges, Cardinality(s) = n + 1
                 PROVE  Good(s)
    OBVIOUS
  <2>2. s # {} /\ Picked(s) \in s /\ IsFiniteSet(s)
    BY <1>5, <2>1 DEF Picked
  <2>3. Cardinality(s \ {Picked(s)}) = n /\ s \ {Picked(s)} \in SUBSET edges
    <3>1. /\ Cardinality(s) = Cardinality(s \ {Picked(s)}) + 1
          /\ Cardinality(s \ {Picked(s)}) \in Nat
      BY <2>2, OneLess
    <3>2. QED
      BY <2>1, <3>1
  <2>4. Good(s \ {Picked(s)})
    BY <1>7, <2>3
  <2>5. chosen[s] = Picked(s).weight + chosen[s \ {Picked(s)}]
    BY <1>4, <2>2 DEF SumsOn
  <2>6. Picked(s).weight \in Nat /\ low <= Picked(s).weight
    BY <2>2
  <2>7. low * (n + 1) = low * n + low /\ low * n \in Nat
    OBVIOUS
  <2>8. QED
    BY <2>1, <2>3, <2>4, <2>5, <2>6, <2>7
<1>8. Nat \subseteq U
  <2> HIDE DEF U
  <2>1. QED
    BY <1>6, <1>7, Numbers!Induction
<1>9. Good(edges)
  BY <1>5, <1>8
<1>10. QED
  BY <1>1, <1>9

\* An average is at least the least of its weights.
LEMMA AverageIsBounded ==
    ASSUME NEW edges, IsFiniteSet(edges), edges # {}, NEW low \in Nat,
           \A e \in edges : e.weight \in Nat /\ low <= e.weight
    PROVE  Average(edges) \in Nat /\ low <= Average(edges)
<1> DEFINE sum == MapThenSumSet(LAMBDA e : e.weight, edges)
           n == Cardinality(edges)
<1>1. sum \in Nat /\ low * n <= sum
  BY SumIsBounded
<1>2. n \in Nat \ {0}
  BY FS_CardinalityType, FS_EmptySet
<1>3. Average(edges) = sum \div n
  BY DEF Average
<1> HIDE DEF sum, n
<1> DEFINE q == sum \div n
<1>4. q \in Nat /\ sum < (q + 1) * n
  BY <1>1, <1>2
<1>5. ~(q + 1 <= low)
  <2>1. SUFFICES ASSUME q + 1 <= low PROVE FALSE
    OBVIOUS
  <2> HIDE DEF q
  <2>2. (q + 1) * n <= low * n
    BY <1>2, <1>4, <2>1
  <2>3. (q + 1) * n \in Nat /\ low * n \in Nat
    BY <1>2, <1>4
  <2>4. QED
    BY <1>1, <1>4, <2>2, <2>3
<1>6. QED
  BY <1>3, <1>4, <1>5

-----------------------------------------------------------------------------
(* Groups and their numbers.                                                *)

\* The groups are disjoint, not empty, and make up the nodes.
Splits(groups, nodes) ==
    /\ UNION groups = nodes
    /\ {} \notin groups
    /\ \A b, c \in groups : b \cap c # {} => b = c

Together(groups, x, y) == \E b \in groups : x \in b /\ y \in b

\* The trees of a forest do.
LEMMA ClassesSplit ==
    ASSUME NEW nodes, NEW links \in [nodes -> nodes]
    PROVE  Splits(Classes(links), nodes)
<1>1. DOMAIN links = nodes
  OBVIOUS
<1>2. \A x \in nodes : x \in ClassOf(links, x) /\ ClassOf(links, x) \subseteq nodes
  BY <1>1 DEF ClassOf
<1>3. \A x, y \in nodes :
          ClassOf(links, x) \cap ClassOf(links, y) # {} => ClassOf(links, x) = ClassOf(links, y)
  BY <1>1 DEF ClassOf
<1>4. Classes(links) = {ClassOf(links, x) : x \in nodes}
  BY <1>1 DEF Classes
<1>5. QED
  BY <1>2, <1>3, <1>4 DEF Splits

\* Disjoint groups of finitely many naturals are ordered.
LEMMA GroupsAreOrdered ==
    ASSUME NEW nodes \in SUBSET Nat, IsFiniteSet(nodes), NEW groups, Splits(groups, nodes)
    PROVE  /\ IsFiniteSet(groups)
           /\ \A b \in groups : Cardinality(b) \in Nat /\ Min(b) \in b /\ Min(b) \in Nat
           /\ \A b, c \in groups : b = c \/ ComesBefore(b, c) \/ ComesBefore(c, b)
           /\ \A b \in groups : ~ComesBefore(b, b)
           /\ \A b, c, d \in groups : ComesBefore(b, c) /\ ComesBefore(c, d) => ComesBefore(b, d)
<1>1. \A b \in groups : b \in SUBSET nodes /\ b # {}
  BY DEF Splits
<1>2. IsFiniteSet(groups)
  <2>1. IsFiniteSet(SUBSET nodes)
    BY FS_SUBSET
  <2>2. QED
    BY <1>1, <2>1, FS_Subset
<1>3. \A b \in groups : Cardinality(b) \in Nat /\ Min(b) \in b /\ Min(b) \in Nat
  <2>1. SUFFICES ASSUME NEW b \in groups
                 PROVE  Cardinality(b) \in Nat /\ Min(b) \in b /\ Min(b) \in Nat
    OBVIOUS
  <2>2. IsFiniteSet(b) /\ b \in SUBSET Nat /\ b # {}
    BY <1>1, FS_Subset
  <2>3. QED
    BY <2>2, FS_CardinalityType, MinIsLeast
<1>4. \A b, c \in groups : b # c => Min(b) # Min(c)
  BY <1>3 DEF Splits
<1>5. \A b, c \in groups : b = c \/ ComesBefore(b, c) \/ ComesBefore(c, b)
  BY <1>3, <1>4 DEF ComesBefore
<1>6. \A b \in groups : ~ComesBefore(b, b)
  BY <1>3 DEF ComesBefore
<1>7. \A b, c, d \in groups : ComesBefore(b, c) /\ ComesBefore(c, d) => ComesBefore(b, d)
  BY <1>3 DEF ComesBefore
<1>8. QED
  BY <1>2, <1>3, <1>5, <1>6, <1>7

\* The number of a group tells it from the others.
LEMMA NumbersTellGroups ==
    ASSUME NEW nodes \in SUBSET Nat, IsFiniteSet(nodes), NEW groups, Splits(groups, nodes)
    PROVE  /\ GroupIds(groups) \in [nodes -> Nat]
           /\ \A x, y \in nodes :
                  GroupIds(groups)[x] = GroupIds(groups)[y] <=> Together(groups, x, y)
<1> DEFINE Own(x) == CHOOSE c \in groups : x \in c
           Ahead(b) == {d \in groups : ComesBefore(d, b)}
<1>1. /\ IsFiniteSet(groups)
      /\ \A b, c \in groups : b = c \/ ComesBefore(b, c) \/ ComesBefore(c, b)
      /\ \A b \in groups : ~ComesBefore(b, b)
      /\ \A b, c, d \in groups : ComesBefore(b, c) /\ ComesBefore(c, d) => ComesBefore(b, d)
  BY GroupsAreOrdered
<1>2. \A x \in nodes : Own(x) \in groups /\ x \in Own(x)
  BY DEF Splits
<1>3. GroupIds(groups) = [x \in nodes |-> 1 + Cardinality(Ahead(Own(x)))]
  BY DEF GroupIds, Splits
<1>4. \A b : IsFiniteSet(Ahead(b)) /\ Cardinality(Ahead(b)) \in Nat
  <2>1. \A b : Ahead(b) \in SUBSET groups
    OBVIOUS
  <2>2. QED
    BY <1>1, <2>1, FS_Subset, FS_CardinalityType
<1>5. ASSUME NEW b \in groups, NEW c \in groups, ComesBefore(b, c)
      PROVE  Cardinality(Ahead(b)) < Cardinality(Ahead(c))
  <2>1. Ahead(b) \in SUBSET Ahead(c)
    BY <1>1, <1>5
  <2>2. b \in Ahead(c) /\ b \notin Ahead(b)
    BY <1>1, <1>5
  <2>3. Cardinality(Ahead(b)) <= Cardinality(Ahead(c)) /\ Cardinality(Ahead(b)) # Cardinality(Ahead(c))
    <3> HIDE DEF Ahead
    <3>1. QED
      BY <1>4, <2>1, <2>2, FS_Subset
  <2>4. QED
    BY <1>4, <2>3
<1>6. \A x, y \in nodes : Own(x) = Own(y) <=> Together(groups, x, y)
  BY <1>2 DEF Together, Splits
<1>7. ASSUME NEW x \in nodes, NEW y \in nodes
      PROVE  GroupIds(groups)[x] = GroupIds(groups)[y] <=> Own(x) = Own(y)
  <2> HIDE DEF Own, Ahead
  <2>1. /\ Own(x) \in groups /\ Own(y) \in groups
        /\ Cardinality(Ahead(Own(x))) \in Nat /\ Cardinality(Ahead(Own(y))) \in Nat
    BY <1>2, <1>4
  <2>2. Own(x) # Own(y) => Cardinality(Ahead(Own(x))) # Cardinality(Ahead(Own(y)))
    BY <1>1, <1>5, <2>1
  <2>3. QED
    BY <1>3, <2>1, <2>2
<1>8. GroupIds(groups) \in [nodes -> Nat]
  <2> HIDE DEF Ahead, Own
  <2>1. QED
    BY <1>3, <1>4
<1>9. QED
  BY <1>6, <1>7, <1>8

-----------------------------------------------------------------------------
(* What edges connect.                                                      *)

Strong(edges, minWeight) == {e \in edges : e.weight >= minWeight}

\* Edges do not lead out of S, nor into it.
IsCut(S, edges) == \A e \in edges : e.left \in S <=> e.right \in S

\* No group crosses a cut, and an edge lies in a group.
Connected(groups, nodes, edges) ==
    \A S \in SUBSET nodes : IsCut(S, edges) => \A b \in groups : b \subseteq S \/ b \cap S = {}
Joined(groups, edges) == \A e \in edges : Together(groups, e.left, e.right)

\* There is one way to group the nodes so.
LEMMA GroupsAreUnique ==
    ASSUME NEW nodes, NEW edges, NEW G, NEW H, Splits(G, nodes), Splits(H, nodes),
           Connected(G, nodes, edges), Connected(H, nodes, edges),
           Joined(G, edges), Joined(H, edges)
    PROVE  G = H
<1>1. ASSUME NEW A, NEW B, Splits(A, nodes), Splits(B, nodes),
             Connected(A, nodes, edges), Connected(B, nodes, edges),
             Joined(A, edges), Joined(B, edges), NEW a \in A
      PROVE  a \in B
  <2>1. a \in SUBSET nodes /\ a # {}
    BY <1>1 DEF Splits
  <2>2. IsCut(a, edges)
    BY <1>1 DEF IsCut, Joined, Together, Splits
  <2>3. PICK x \in a : x \in nodes
    BY <2>1
  <2>4. PICK b \in B : x \in b
    BY <1>1, <2>3 DEF Splits
  <2>5. b \subseteq a
    BY <1>1, <2>1, <2>2, <2>3, <2>4 DEF Connected
  <2>6. b \in SUBSET nodes /\ IsCut(b, edges)
    <3>1. b \in SUBSET nodes
      BY <1>1 DEF Splits
    <3>2. IsCut(b, edges)
      BY <1>1 DEF IsCut, Joined, Together, Splits
    <3>3. QED
      BY <3>1, <3>2
  <2>7. a \subseteq b
    BY <1>1, <2>3, <2>4, <2>6 DEF Connected
  <2>8. QED
    BY <2>5, <2>7
<1>2. \A g \in G : g \in H
  BY <1>1
<1>3. \A h \in H : h \in G
  BY <1>1
<1>4. QED
  BY <1>2, <1>3

\* Groups that are joined stay connected, and what was joined stays so.
LEMMA MergeConnects ==
    ASSUME NEW nodes, NEW edges, NEW groups, Splits(groups, nodes),
           Connected(groups, nodes, edges), NEW e \in edges,
           e.left \in nodes, e.right \in nodes, NEW merged,
           merged = (groups \ {b \in groups : e.left \in b \/ e.right \in b})
                      \cup {UNION {b \in groups : e.left \in b \/ e.right \in b}}
    PROVE  /\ Connected(merged, nodes, edges)
           /\ Together(merged, e.left, e.right)
           /\ \A x, y : Together(groups, x, y) => Together(merged, x, y)
<1> DEFINE touched == {b \in groups : e.left \in b \/ e.right \in b}
<1>1. Connected(merged, nodes, edges)
  <2>1. SUFFICES ASSUME NEW S \in SUBSET nodes, IsCut(S, edges), NEW b \in merged
                 PROVE  b \subseteq S \/ b \cap S = {}
    BY DEF Connected
  <2>2. CASE b \in groups
    BY <2>1, <2>2 DEF Connected
  <2>3. CASE b = UNION touched
    <3>1. \A c \in touched : c \subseteq S \/ c \cap S = {}
      BY <2>1 DEF Connected
    <3>2. e.left \in S <=> e.right \in S
      BY <2>1 DEF IsCut
    <3>3. CASE e.left \in S
      <4>1. \A c \in touched : c \subseteq S
        BY <3>1, <3>2, <3>3
      <4>2. QED
        BY <2>3, <4>1
    <3>4. CASE e.left \notin S
      <4>1. \A c \in touched : c \cap S = {}
        BY <3>1, <3>2, <3>4
      <4>2. QED
        BY <2>3, <4>1
    <3>5. QED
      BY <3>3, <3>4
  <2>4. QED
    BY <2>1, <2>2, <2>3
<1>2. UNION touched \in merged
  OBVIOUS
<1>3. Together(merged, e.left, e.right)
  <2>1. PICK b \in groups : e.left \in b
    BY DEF Splits
  <2>2. PICK c \in groups : e.right \in c
    BY DEF Splits
  <2>3. e.left \in UNION touched /\ e.right \in UNION touched
    BY <2>1, <2>2
  <2>4. QED
    BY <1>2, <2>3 DEF Together
<1>4. ASSUME NEW x, NEW y, Together(groups, x, y)
      PROVE  Together(merged, x, y)
  <2>1. PICK b \in groups : x \in b /\ y \in b
    BY <1>4 DEF Together
  <2>2. CASE b \in touched
    BY <1>2, <2>1, <2>2 DEF Together
  <2>3. CASE b \notin touched
    BY <2>1, <2>3 DEF Together
  <2>4. QED
    BY <2>2, <2>3
<1>5. QED
  BY <1>1, <1>3, <1>4

\* Single nodes are connected by any edges.
LEMMA SingletonsConnect ==
    ASSUME NEW nodes, NEW edges, NEW groups, groups = {{x} : x \in nodes}
    PROVE  Connected(groups, nodes, edges)
  BY DEF Connected

-----------------------------------------------------------------------------
(* Connected components (PandasHierarchy).                                  *)

\* One step along the edges, as Component takes it.
Spread(edges, S) ==
    S \cup {e.right : e \in {d \in edges : d.left \in S}}
      \cup {e.left : e \in {d \in edges : d.right \in S}}

\* The recursive function of Component, up to n.
Spreads(edges, x, reached, n) ==
    reached = [k \in 0..n |-> IF k = 0 THEN {x} ELSE Spread(edges, reached[k - 1])]

\* The recursion defines a function of any length.
LEMMA SpreadsExist ==
    ASSUME NEW edges, NEW x, NEW n \in Nat
    PROVE  \E reached : Spreads(edges, x, reached, n)
<1> DEFINE T == {k \in Nat : \E reached : Spreads(edges, x, reached, k)}
<1>1. 0 \in T
  <2> DEFINE f == [k \in 0..0 |-> {x}]
  <2>1. Spreads(edges, x, f, 0)
    BY DEF Spreads
  <2>2. QED
    BY <2>1
<1>2. ASSUME NEW k \in Nat, k \in T
      PROVE  k + 1 \in T
  <2>1. PICK f : Spreads(edges, x, f, k)
    BY <1>2
  <2> DEFINE g == [i \in 0..(k + 1) |-> IF i = k + 1 THEN Spread(edges, f[k]) ELSE f[i]]
  <2>2. ASSUME NEW i \in 0..(k + 1)
        PROVE  g[i] = IF i = 0 THEN {x} ELSE Spread(edges, g[i - 1])
    <3>1. CASE i = k + 1
      <4>1. g[i - 1] = f[k] /\ g[i] = Spread(edges, f[k]) /\ i # 0
        BY <3>1
      <4>2. QED
        BY <4>1
    <3>2. CASE i # k + 1
      <4>1. i \in 0..k /\ g[i] = f[i] /\ (i # 0 => g[i - 1] = f[i - 1])
        BY <3>2
      <4>2. f[i] = IF i = 0 THEN {x} ELSE Spread(edges, f[i - 1])
        BY <2>1, <4>1 DEF Spreads
      <4>3. QED
        BY <4>1, <4>2
    <3>3. QED
      BY <3>1, <3>2
  <2>3. g = [i \in 0..(k + 1) |-> g[i]]
    OBVIOUS
  <2>4. Spreads(edges, x, g, k + 1)
    <3> HIDE DEF g
    <3>1. g = [i \in 0..(k + 1) |-> IF i = 0 THEN {x} ELSE Spread(edges, g[i - 1])]
      BY <2>2, <2>3
    <3>2. QED
      BY <3>1 DEF Spreads
  <2>5. QED
    <3> HIDE DEF g
    <3>1. QED
      BY <2>4
<1>3. Nat \subseteq T
  <2> HIDE DEF T
  <2>1. QED
    BY <1>1, <1>2, Numbers!Induction
<1>4. QED
  BY <1>3

\* What is reached from x is closed, and lies in every closed set with x.
LEMMA ComponentIs ==
    ASSUME NEW nodes, IsFiniteSet(nodes), NEW edges, NEW minWeight, NEW x \in nodes,
           \A e \in edges : e.left \in nodes /\ e.right \in nodes
    PROVE  LET C == Component(nodes, edges, minWeight, x)
           IN  /\ x \in C /\ C \subseteq nodes
               /\ IsCut(C, Strong(edges, minWeight))
               /\ \A S \in SUBSET nodes :
                    x \in S /\ IsCut(S, Strong(edges, minWeight)) => C \subseteq S
<1> DEFINE C == Component(nodes, edges, minWeight, x)
           strong == Strong(edges, minWeight)
           N == Cardinality(nodes)
           chosen == CHOOSE reached : Spreads(strong, x, reached, N)
<1>1. N \in Nat
  BY FS_CardinalityType
<1>2. C = chosen[N]
  BY DEF Component, Spreads, Spread, Strong
<1>3. Spreads(strong, x, chosen, N)
  BY <1>1, SpreadsExist
<1> HIDE DEF chosen, N, C
<1>4. PICK r : Spreads(strong, x, r, N) /\ C = r[N]
  BY <1>2, <1>3
<1>5. /\ r[0] = {x}
      /\ \A k \in Nat : k + 1 <= N => r[k + 1] = Spread(strong, r[k])
  <2>1. r[0] = {x}
    BY <1>1, <1>4 DEF Spreads
  <2>2. ASSUME NEW k \in Nat, k + 1 <= N
        PROVE  r[k + 1] = Spread(strong, r[k])
    <3>1. k + 1 \in 0..N /\ k + 1 # 0 /\ (k + 1) - 1 = k
      BY <1>1, <2>2
    <3>2. r[k + 1] = Spread(strong, r[(k + 1) - 1])
      BY <1>4, <3>1 DEF Spreads
    <3>3. QED
      BY <3>1, <3>2
  <2>3. QED
    BY <2>1, <2>2
<1>6. \A e \in strong : e.left \in nodes /\ e.right \in nodes
  BY DEF Strong
<1> HIDE DEF strong
<1> DEFINE Within(k) == /\ x \in r[k] /\ r[k] \subseteq nodes
                        /\ \A S \in SUBSET nodes :
                              x \in S /\ IsCut(S, strong) => r[k] \subseteq S
           Grown(k) == Spread(strong, r[k]) = r[k] \/ Cardinality(r[k]) >= k + 1
           T == {k \in Nat : k <= N => Within(k) /\ Grown(k)}
<1>7. 0 \in T
  <2>1. Within(0)
    BY <1>5
  <2>2. Cardinality(r[0]) >= 0 + 1
    BY <1>5, FS_Singleton
  <2>3. QED
    BY <2>1, <2>2
<1>8. ASSUME NEW k \in Nat, k \in T
      PROVE  k + 1 \in T
  <2>1. SUFFICES ASSUME k + 1 <= N PROVE Within(k + 1) /\ Grown(k + 1)
    OBVIOUS
  <2>2. Within(k) /\ Grown(k)
    BY <1>1, <1>8, <2>1
  <2>3. r[k + 1] = Spread(strong, r[k])
    BY <1>5, <2>1
  <2>4. Within(k + 1)
    <3>1. r[k + 1] \subseteq nodes /\ x \in r[k + 1]
      BY <1>6, <2>2, <2>3 DEF Spread
    <3>2. ASSUME NEW S \in SUBSET nodes, x \in S, IsCut(S, strong)
          PROVE  r[k + 1] \subseteq S
      <4>1. r[k] \subseteq S
        BY <2>2, <3>2
      <4>2. QED
        BY <2>3, <3>2, <4>1 DEF Spread, IsCut
    <3>3. QED
      BY <3>1, <3>2
  <2>5. Grown(k + 1)
    <3>1. CASE Spread(strong, r[k]) = r[k]
      BY <2>3, <3>1
    <3>2. CASE Spread(strong, r[k]) # r[k]
      <4>1. Cardinality(r[k]) >= k + 1
        BY <2>2, <3>2
      <4>2. r[k] \in SUBSET r[k + 1] /\ r[k] # r[k + 1]
        BY <2>3, <3>2 DEF Spread
      <4>3. IsFiniteSet(r[k + 1]) /\ IsFiniteSet(r[k])
        BY <2>2, <2>4, FS_Subset
      <4>4. Cardinality(r[k]) <= Cardinality(r[k + 1]) /\ Cardinality(r[k]) # Cardinality(r[k + 1])
        BY <4>2, <4>3, FS_Subset
      <4>5. Cardinality(r[k]) \in Nat /\ Cardinality(r[k + 1]) \in Nat
        BY <4>3, FS_CardinalityType
      <4>6. QED
        BY <4>1, <4>4, <4>5
    <3>3. QED
      BY <3>1, <3>2
  <2>6. QED
    BY <2>4, <2>5
<1>9. Nat \subseteq T
  <2> HIDE DEF T
  <2>1. QED
    BY <1>7, <1>8, Numbers!Induction
<1>10. Within(N) /\ Grown(N)
  BY <1>1, <1>9
<1>11. Spread(strong, C) = C
  <2>1. Cardinality(r[N]) \in Nat /\ Cardinality(r[N]) <= N
    BY <1>10, FS_Subset, FS_CardinalityType DEF N
  <2>2. QED
    BY <1>1, <1>4, <1>10, <2>1
<1>12. IsCut(C, strong)
  BY <1>11 DEF Spread, IsCut
<1>13. QED
  BY <1>4, <1>10, <1>12 DEF strong, C

\* The components split the nodes as the strong edges connect them.
LEMMA ComponentsConnect ==
    ASSUME NEW nodes, IsFiniteSet(nodes), NEW edges, NEW minWeight,
           \A e \in edges : e.left \in nodes /\ e.right \in nodes
    PROVE  LET groups == Components(nodes, edges, minWeight)
           IN  /\ Splits(groups, nodes)
               /\ Connected(groups, nodes, Strong(edges, minWeight))
               /\ Joined(groups, Strong(edges, minWeight))
<1> DEFINE C(x) == Component(nodes, edges, minWeight, x)
           groups == Components(nodes, edges, minWeight)
           strong == Strong(edges, minWeight)
<1>1. groups = {C(x) : x \in nodes}
  BY DEF Components
<1>2. \A x \in nodes : /\ x \in C(x) /\ C(x) \subseteq nodes /\ IsCut(C(x), strong)
                       /\ \A S \in SUBSET nodes : x \in S /\ IsCut(S, strong) => C(x) \subseteq S
  BY ComponentIs
<1>3. \A e \in strong : e.left \in nodes /\ e.right \in nodes
  BY DEF Strong
<1> HIDE DEF C, groups, strong
<1>4. \A S \in SUBSET nodes : IsCut(S, strong) => nodes \ S \in SUBSET nodes /\ IsCut(nodes \ S, strong)
  BY <1>3 DEF IsCut
<1>5. \A S \in SUBSET nodes : IsCut(S, strong) => \A x \in nodes : C(x) \subseteq S \/ C(x) \cap S = {}
  <2>1. SUFFICES ASSUME NEW S \in SUBSET nodes, IsCut(S, strong), NEW x \in nodes
                 PROVE  C(x) \subseteq S \/ C(x) \cap S = {}
    OBVIOUS
  <2>2. CASE x \in S
    BY <1>2, <2>1, <2>2
  <2>3. CASE x \notin S
    <3>1. C(x) \subseteq nodes \ S
      BY <1>2, <1>4, <2>1, <2>3
    <3>2. QED
      BY <3>1
  <2>4. QED
    BY <2>2, <2>3
<1>6. \A x, y \in nodes : C(x) \cap C(y) # {} => C(x) = C(y)
  BY <1>2, <1>5
<1>7. Splits(groups, nodes)
  BY <1>1, <1>2, <1>6 DEF Splits
<1>8. Connected(groups, nodes, strong)
  BY <1>1, <1>5 DEF Connected
<1>9. Joined(groups, strong)
  <2>1. SUFFICES ASSUME NEW e \in strong PROVE Together(groups, e.left, e.right)
    BY DEF Joined
  <2>2. e.left \in C(e.left) /\ e.right \in C(e.left) /\ C(e.left) \in groups
    BY <1>1, <1>2, <1>3, <2>1 DEF IsCut
  <2>3. QED
    BY <2>2 DEF Together
<1>10. QED
  BY <1>7, <1>8, <1>9 DEF groups, strong

-----------------------------------------------------------------------------
(* The rollup of a level.                                                   *)

Image(f) == {f[x] : x \in DOMAIN f}

\* The groups become the nodes; the edges between two groups become one, as
\* heavy as their average, and edges within a group disappear.
LEMMA RollupIs ==
    ASSUME NEW nodes, NEW edges \in SUBSET Edges(nodes), IsFiniteSet(edges),
           NEW g \in [nodes -> Nat]
    PROVE  /\ Rollup(edges, g) \in SUBSET Edges(Image(g)) /\ IsFiniteSet(Rollup(edges, g))
           /\ \A low \in Nat : (\A e \in edges : low <= e.weight)
                  => \A e \in Rollup(edges, g) : low <= e.weight
           /\ \A e \in edges : g[e.left] # g[e.right] =>
                  \E d \in Rollup(edges, g) : {d.left, d.right} = {g[e.left], g[e.right]}
           /\ (\A e \in edges : g[e.left] = g[e.right]) => Rollup(edges, g) = {}
<1> DEFINE up == Rollup(edges, g)
           ids == {g[x] : x \in nodes}
           across == {x \in edges : g[x.left] # g[x.right]}
           pairs == {<<g[e.left], g[e.right]>> : e \in across}
           Upper(pair) ==
             [left |-> Least(pair[1], pair[2]), right |-> Greatest(pair[1], pair[2]),
              weight |-> Average(Between(edges, g, pair[1], pair[2]))]
<1>0. ids = Image(g)
  BY DEF Image
<1>1. up = {Upper(pair) : pair \in pairs}
  BY DEF Rollup
<1>2. \A e \in edges : e.left \in nodes /\ e.right \in nodes /\ e.weight \in Nat
  BY DEF Edges
<1>3. \A pair \in pairs : \E e \in across :
          pair = <<g[e.left], g[e.right]>> /\ pair[1] = g[e.left] /\ pair[2] = g[e.right]
  OBVIOUS
<1>4. ASSUME NEW pair \in pairs
      PROVE  /\ Upper(pair) \in Edges(ids)
             /\ \A low \in Nat : (\A e \in edges : low <= e.weight) => low <= Upper(pair).weight
             /\ {Upper(pair).left, Upper(pair).right} = {pair[1], pair[2]}
  <2>1. PICK e \in across : pair[1] = g[e.left] /\ pair[2] = g[e.right]
    BY <1>3
  <2>2. pair[1] \in ids /\ pair[2] \in ids /\ pair[1] \in Nat /\ pair[2] \in Nat
    BY <1>2, <2>1
  <2> DEFINE some == Between(edges, g, pair[1], pair[2])
  <2>3. some \in SUBSET edges /\ e \in some
    BY <2>1 DEF Between
  <2>4. IsFiniteSet(some) /\ some # {} /\ \A d \in some : d.weight \in Nat
    BY <1>2, <2>3, FS_Subset
  <2> HIDE DEF some
  <2>5. /\ Average(some) \in Nat
        /\ \A low \in Nat : (\A d \in edges : low <= d.weight) => low <= Average(some)
    <3>1. some \in SUBSET edges
      BY <2>3
    <3>2. ASSUME NEW low \in Nat, \A d \in edges : low <= d.weight
          PROVE  Average(some) \in Nat /\ low <= Average(some)
      BY <2>4, <3>1, <3>2, AverageIsBounded
    <3>3. 0 \in Nat /\ \A d \in edges : 0 <= d.weight
      BY <1>2
    <3>4. QED
      BY <3>2, <3>3
  <2>6. /\ Least(pair[1], pair[2]) \in ids /\ Greatest(pair[1], pair[2]) \in ids
        /\ {Least(pair[1], pair[2]), Greatest(pair[1], pair[2])} = {pair[1], pair[2]}
    BY <2>2 DEF Least, Greatest
  <2>7. QED
    BY <2>5, <2>6 DEF Edges, some
<1>5. IsFiniteSet(up)
  <2>1. IsFiniteSet(across)
    BY FS_Subset
  <2> DEFINE f == [e \in across |-> <<g[e.left], g[e.right]>>]
             h == [pair \in pairs |-> Upper(pair)]
  <2>2. pairs = {f[e] : e \in across}
    OBVIOUS
  <2>3. IsFiniteSet({f[e] : e \in across})
    <3>1. DOMAIN f = across /\ f = [e \in across |-> f[e]]
      OBVIOUS
    <3> HIDE DEF f, across
    <3>2. QED
      BY <2>1, <3>1, ImageIsFinite
  <2>4. IsFiniteSet(pairs)
    BY <2>2, <2>3, Zenon
  <2>5. up = {h[pair] : pair \in pairs}
    <3> HIDE DEF Upper, pairs, up
    <3>1. QED
      BY <1>1
  <2>6. DOMAIN h = pairs /\ h = [pair \in pairs |-> h[pair]]
    OBVIOUS
  <2> HIDE DEF h, pairs, up
  <2>7. QED
    BY <2>4, <2>5, <2>6, ImageIsFinite
<1>6. /\ up \in SUBSET Edges(ids)
      /\ \A low \in Nat : (\A e \in edges : low <= e.weight) => \A e \in up : low <= e.weight
  <2> HIDE DEF up, pairs, Upper
  <2>1. QED
    BY <1>1, <1>4
<1>7. ASSUME NEW e \in edges, g[e.left] # g[e.right]
      PROVE  \E d \in up : {d.left, d.right} = {g[e.left], g[e.right]}
  <2> DEFINE pair == <<g[e.left], g[e.right]>>
  <2>1. pair \in pairs /\ pair[1] = g[e.left] /\ pair[2] = g[e.right]
    BY <1>7
  <2>2. Upper(pair) \in up /\ {Upper(pair).left, Upper(pair).right} = {pair[1], pair[2]}
    <3> HIDE DEF up, pairs, Upper, pair
    <3>1. QED
      BY <1>1, <1>4, <2>1
  <2>3. QED
    <3> HIDE DEF up, pairs, Upper, pair
    <3>1. QED
      BY <2>1, <2>2
<1>8. (\A e \in edges : g[e.left] = g[e.right]) => up = {}
  <2>1. (\A e \in edges : g[e.left] = g[e.right]) => pairs = {}
    OBVIOUS
  <2>2. QED
    <3> HIDE DEF up, pairs, Upper
    <3>1. QED
      BY <1>1, <2>1
<1>9. QED
  BY <1>0, <1>5, <1>6, <1>7, <1>8

-----------------------------------------------------------------------------
(* The evidence.                                                            *)

\* What the rows of the fusion are.
IsRow(row) ==
    /\ row.u \in Parameters /\ row.v \in Parameters /\ row.u # row.v
    /\ row.precision \in Nat /\ row.event \in Nat /\ row.lag \in Nat /\ row.fused \in Nat
    /\ row.fused = Alpha * row.precision + Beta * row.event + Gamma * row.lag
    /\ row.fused > 0

\* Fusion makes finitely many rows, each of two parameters.
LEMMA FusedRowsAre ==
    ASSUME NEW g \in Graphs
    PROVE  IsFiniteSet(FusedRows(g)) /\ \A row \in FusedRows(g) : IsRow(row)
<1> DEFINE pairs == Parameters \X Parameters
           f == [d \in pairs |-> FusedRow(g, d[1], d[2])]
<1>1. /\ Parameters \in SUBSET Nat /\ IsFiniteSet(Parameters)
      /\ Alpha \in Nat /\ Beta \in Nat /\ Gamma \in Nat
  BY EvidenceAssumption
<1>2. /\ \A i, j \in DOMAIN g.selected : g.selected[i] = g.selected[j] => i = j
      /\ g.precision \in [Unordered -> Nat] /\ g.event \in [Unordered -> Nat]
      /\ g.lag \in [Parameters \X Parameters -> Nat] /\ DOMAIN g.selected \subseteq Nat
  <2>1. /\ g.selected \in Seq(Parameters)
        /\ \A i, j \in DOMAIN g.selected : g.selected[i] = g.selected[j] => i = j
        /\ {g.precision, g.event} \subseteq [Unordered -> Nat]
        /\ g.lag \in [Parameters \X Parameters -> Nat]
    BY FitAssumption, Zenon
  <2>2. DOMAIN g.selected \subseteq Nat
    BY <2>1
  <2>3. g.precision \in [Unordered -> Nat] /\ g.event \in [Unordered -> Nat]
    BY <2>1, Zenon
  <2>4. QED
    BY <2>1, <2>2, <2>3
<1>3. ASSUME NEW u \in Parameters, NEW v \in Parameters
      PROVE  /\ PrecisionWeight(g, u, v) \in Nat /\ EventWeight(g, u, v) \in Nat
             /\ LagWeight(g, u, v) \in Nat
             /\ u = v => PrecisionWeight(g, u, v) = 0 /\ EventWeight(g, u, v) = 0
                         /\ LagWeight(g, u, v) = 0
  <2>1. u # v => {u, v} \in Unordered
    BY DEF Unordered
  <2>2. u \in Nat /\ v \in Nat /\ (u < v => u # v)
    BY <1>1
  <2>3. u # v => g.precision[{u, v}] \in Nat /\ g.event[{u, v}] \in Nat
    BY <1>2, <2>1
  <2>4. (\E i, j \in DOMAIN g.selected : i < j /\ g.selected[i] = u /\ g.selected[j] = v) => u # v
    <3>1. SUFFICES ASSUME NEW i \in DOMAIN g.selected, NEW j \in DOMAIN g.selected, i < j,
                          g.selected[i] = u, g.selected[j] = v
                   PROVE  u # v
      OBVIOUS
    <3>2. i \in Nat /\ j \in Nat /\ i # j
      BY <1>2, <3>1
    <3>3. QED
      BY <1>2, <3>1, <3>2
  <2>5. PrecisionWeight(g, u, v) \in Nat /\ (u = v => PrecisionWeight(g, u, v) = 0)
    BY <2>3, <2>4 DEF PrecisionWeight
  <2>6. EventWeight(g, u, v) \in Nat /\ (u = v => EventWeight(g, u, v) = 0)
    BY <2>2, <2>3 DEF EventWeight
  <2>7. g.lag[<<u, v>>] \in Nat /\ g.lag[<<v, u>>] \in Nat
    BY <1>2
  <2>8. LagWeight(g, u, v) \in Nat /\ (u = v => LagWeight(g, u, v) = 0)
    BY <2>2, <2>7 DEF LagWeight, Greatest
  <2>9. QED
    BY <2>5, <2>6, <2>8
<1>4. IsFiniteSet(FusedRows(g))
  <2>1. IsFiniteSet(pairs)
    BY <1>1, FS_Product
  <2>2. IsFiniteSet({f[d] : d \in pairs})
    <3>1. DOMAIN f = pairs /\ f = [d \in pairs |-> f[d]]
      OBVIOUS
    <3> HIDE DEF f, pairs
    <3>2. QED
      BY <2>1, <3>1, ImageIsFinite
  <2>3. ASSUME NEW row \in FusedRows(g)
        PROVE  row \in {f[d] : d \in pairs}
    <3>1. PICK u \in Parameters, v \in Parameters : row = FusedRow(g, u, v)
      BY DEF FusedRows
    <3>2. <<u, v>> \in pairs /\ f[<<u, v>>] = row
      BY <3>1
    <3> HIDE DEF f, pairs
    <3>3. QED
      BY <3>2
  <2>4. FusedRows(g) \in SUBSET {f[d] : d \in pairs}
    <3> HIDE DEF f, pairs
    <3>1. QED
      BY <2>3
  <2>5. QED
    <3> HIDE DEF f, pairs
    <3>1. QED
      BY <2>2, <2>4, FS_Subset
<1>5. ASSUME NEW row \in FusedRows(g)
      PROVE  IsRow(row)
  <2>1. PICK u \in Parameters, v \in Parameters : row = FusedRow(g, u, v) /\ row.fused > 0
    BY DEF FusedRows
  <2> DEFINE p == PrecisionWeight(g, u, v)
             e == EventWeight(g, u, v)
             l == LagWeight(g, u, v)
  <2>2. /\ row.u = u /\ row.v = v /\ row.precision = p /\ row.event = e /\ row.lag = l
        /\ row.fused = Alpha * p + Beta * e + Gamma * l
    BY <2>1 DEF FusedRow
  <2>3. p \in Nat /\ e \in Nat /\ l \in Nat /\ (u = v => p = 0 /\ e = 0 /\ l = 0)
    BY <1>3
  <2> HIDE DEF p, e, l
  <2>4. Alpha * p \in Nat /\ Beta * e \in Nat /\ Gamma * l \in Nat
    BY <1>1, <2>3
  <2>5. u # v
    <3>1. SUFFICES ASSUME u = v PROVE FALSE
      OBVIOUS
    <3>2. Alpha * p = 0 /\ Beta * e = 0 /\ Gamma * l = 0
      BY <1>1, <2>3, <3>1
    <3>3. QED
      BY <2>1, <2>2, <3>2
  <2>6. QED
    BY <2>1, <2>2, <2>3, <2>4, <2>5 DEF IsRow
<1>6. QED
  BY <1>4, <1>5

\* No component weighs less in the fusion than it is (fused.py:11-13 has 1.0
\* for each).
FusionCoversAffinity == Alpha >= 1 /\ Beta >= 1 /\ Gamma >= 1

\* An affinity is a number, and the fused weight covers it if each of its
\* components weighs at least 1.
LEMMA AffinityIs ==
    ASSUME NEW row, IsRow(row)
    PROVE  /\ Affinity(row) \in Nat
           /\ FusionCoversAffinity => Affinity(row) <= row.fused
<1> DEFINE p == row.precision
           e == row.event
           l == row.lag
<1>1. p \in Nat /\ e \in Nat /\ l \in Nat /\ Alpha \in Nat /\ Beta \in Nat /\ Gamma \in Nat
  BY EvidenceAssumption DEF IsRow
<1>2. row.fused = Alpha * p + Beta * e + Gamma * l /\ Affinity(row) = p + l \div 2 + e \div 4
  BY DEF IsRow, Affinity
<1> HIDE DEF p, e, l
<1>3. l \div 2 \in Nat /\ l \div 2 <= l /\ e \div 4 \in Nat /\ e \div 4 <= e
  BY <1>1
<1>4. ASSUME FusionCoversAffinity
      PROVE  p <= Alpha * p /\ e <= Beta * e /\ l <= Gamma * l
  <2>1. \A a, n \in Nat : a >= 1 => n <= a * n
    <3>1. SUFFICES ASSUME NEW a \in Nat, NEW n \in Nat, a >= 1 PROVE n <= a * n
      OBVIOUS
    <3>2. a * n = n + (a - 1) * n /\ (a - 1) * n \in Nat
      BY <3>1
    <3>3. QED
      BY <3>2
  <2>2. QED
    BY <1>1, <1>4, <2>1 DEF FusionCoversAffinity
<1>5. Alpha * p \in Nat /\ Beta * e \in Nat /\ Gamma * l \in Nat
  BY <1>1
<1>6. QED
  BY <1>1, <1>2, <1>3, <1>4, <1>5

\* The retained rows: two parameters, the row they share, and ranks within
\* the first topK.
LEMMA RetainedAre ==
    ASSUME NEW rows, IsFiniteSet(rows), \A row \in rows : IsRow(row), NEW topK \in Int,
           NEW x \in RetainedRows(rows, topK)
    PROVE  /\ x.row \in rows
           /\ x.min = Least(x.row.u, x.row.v) /\ x.max = Greatest(x.row.u, x.row.v)
           /\ x.min \in Parameters /\ x.max \in Parameters
           /\ {x.min, x.max} = Ends(x.row)
           /\ x.ranks \in (1..Greatest(topK, 1)) \X (1..Greatest(topK, 1))
<1>1. PICK row \in rows :
        \E ranks \in MutualRanks(rows, Least(row.u, row.v), Greatest(row.u, row.v), topK) :
            x = [min |-> Least(row.u, row.v), max |-> Greatest(row.u, row.v),
                 ranks |-> ranks, row |-> row]
  BY DEF RetainedRows
<1>2. PICK ranks \in MutualRanks(rows, Least(row.u, row.v), Greatest(row.u, row.v), topK) :
          x = [min |-> Least(row.u, row.v), max |-> Greatest(row.u, row.v),
               ranks |-> ranks, row |-> row]
  BY <1>1
<1>3. IsRow(row) /\ row.u \in Nat /\ row.v \in Nat
  BY EvidenceAssumption DEF IsRow
<1>4. ASSUME NEW p, NEW a \in RetainedRanks(rows, p, topK)
      PROVE  a.rank \in 1..Greatest(topK, 1)
  <2>1. PICK r \in rows : RankFor(rows, p, r) <= Greatest(topK, 1) /\ a.rank = RankFor(rows, p, r)
    BY <1>4 DEF RetainedRanks
  <2> DEFINE ahead == {s \in rows : p \in Ends(s) /\ Precedes(s, r)}
  <2>2. Cardinality(ahead) \in Nat
    <3>1. ahead \in SUBSET rows
      OBVIOUS
    <3>2. QED
      BY <3>1, FS_Subset, FS_CardinalityType
  <2>3. RankFor(rows, p, r) = 1 + Cardinality(ahead)
    BY DEF RankFor
  <2>4. Greatest(topK, 1) \in Int
    BY DEF Greatest
  <2> HIDE DEF ahead
  <2>5. QED
    BY <2>1, <2>2, <2>3, <2>4
<1>5. ranks \in (1..Greatest(topK, 1)) \X (1..Greatest(topK, 1))
  BY <1>2, <1>4 DEF MutualRanks
<1>6. /\ Least(row.u, row.v) \in Parameters /\ Greatest(row.u, row.v) \in Parameters
      /\ {Least(row.u, row.v), Greatest(row.u, row.v)} = Ends(row)
  BY <1>3 DEF Least, Greatest, Ends, IsRow
<1>7. QED
  BY <1>2, <1>5, <1>6

\* The edges of the modules, and those they are rolled up over.
LEMMA ModuleEdgesAre ==
    ASSUME NEW rows, IsFiniteSet(rows), \A row \in rows : IsRow(row),
           NEW topK \in Int, NEW profile
    PROVE  ModuleEdges(EvidenceRows(RetainedRows(rows, topK), profile)) \in SUBSET Edges(Parameters)
<1>1. \A x \in EvidenceRows(RetainedRows(rows, topK), profile) :
          /\ x.row \in rows /\ x.min \in Parameters /\ x.max \in Parameters
  BY RetainedAre DEF EvidenceRows
<1>2. \A row \in rows : Affinity(row) \in Nat
  BY AffinityIs
<1>3. QED
  BY <1>1, <1>2 DEF ModuleEdges, Edges

\* The edges that are rolled up are finitely many, between parameters.
LEMMA RollupEdgesAre ==
    ASSUME NEW rows, IsFiniteSet(rows), \A row \in rows : IsRow(row)
    PROVE  /\ RollupEdges(rows) \in SUBSET Edges(Parameters)
           /\ IsFiniteSet(RollupEdges(rows))
<1> DEFINE f == [row \in rows |-> [left |-> row.u, right |-> row.v, weight |-> row.fused]]
<1>1. RollupEdges(rows) = {f[row] : row \in rows}
  BY DEF RollupEdges
<1>2. DOMAIN f = rows /\ f = [row \in rows |-> f[row]]
  OBVIOUS
<1>3. RollupEdges(rows) \in SUBSET Edges(Parameters)
  BY DEF RollupEdges, Edges, IsRow
<1> HIDE DEF f
<1>4. IsFiniteSet({f[row] : row \in rows})
  BY <1>2, ImageIsFinite
<1>5. QED
  BY <1>1, <1>3, <1>4

-----------------------------------------------------------------------------
(* The levels.                                                              *)

\* A level in progress: the sets are connected by the strong edges, and no
\* strong edge that is not pending runs between two of them.
LevelIs(links, left, nodes, edges, minWeight) ==
    /\ DOMAIN links = nodes
    /\ left \subseteq edges
    /\ Connected(Classes(links), nodes, Strong(edges, minWeight))
    /\ Joined(Classes(links), Strong(edges, minWeight) \ left)

\* The groups that a level ends with.
Grouping(nodes, edges, minWeight) == GroupIds(Components(nodes, edges, minWeight))

\* The rows that are kept, and the edges of the three levels.
Rows == Filtered(fused, settings.minWeight)
Retained == EvidenceRows(RetainedRows(Rows, settings.topK), settings.profile)
FirstEdges == RollupEdges(Rows)
SecondEdges == Rollup(FirstEdges, groupOf[1])
ThirdEdges == Rollup(SecondEdges, groupOf[2])

ModulesAre ==
    /\ evidence = Retained
    /\ groupOf[1] = Grouping(Parameters, ModuleEdges(evidence), settings.minWeight)
SubsystemsAre ==
    groupOf[2] = Grouping(Image(groupOf[1]), SecondEdges, SubsystemThreshold)
SystemsAre ==
    groupOf[3] = Grouping(Image(groupOf[2]), ThirdEdges, SystemThreshold)

\* The finished levels are the components of their edges, and the level in
\* progress is on its way there.
ResultInv ==
    /\ Len(groupOf) \in 0..3
    /\ Len(groupOf) >= 1 => ModulesAre
    /\ Len(groupOf) >= 2 => SubsystemsAre
    /\ Len(groupOf) >= 3 => SystemsAre

LevelInv ==
    /\ status = "module" =>
        /\ Len(groupOf) = 0 /\ evidence = Retained
        /\ threshold = settings.minWeight /\ between = FirstEdges
        /\ LevelIs(parent, pending, Parameters, ModuleEdges(evidence), threshold)
    /\ status = "subsystem" =>
        /\ Len(groupOf) = 1
        /\ threshold = SubsystemThreshold /\ between = SecondEdges
        /\ LevelIs(parent, pending, Image(groupOf[1]), SecondEdges, threshold)
    /\ status = "system" =>
        /\ Len(groupOf) = 2
        /\ threshold = SystemThreshold /\ between = ThirdEdges
        /\ LevelIs(parent, pending, Image(groupOf[2]), ThirdEdges, threshold)

StatusInv ==
    /\ status \in Levels \cup {"components", "fused", "done", "refused"}
    /\ fused = IF status = "components" THEN {} ELSE FusedRows(graph)
    /\ status \in {"components", "fused"} => Len(groupOf) = 0
    /\ status = "done" => Len(groupOf) = 3
    /\ status \notin Levels => pending = {}

FitInv ==
    /\ graph \in Graphs /\ settings \in SettingsChoices
    /\ groupOf \in Seq(UNION {[nodes -> Nat] : nodes \in SUBSET Nat})
    /\ StatusInv /\ ResultInv /\ LevelInv

-----------------------------------------------------------------------------
(* What the levels are made of.                                             *)

\* A level begins with single nodes and all its edges.
LEMMA LevelStarts ==
    ASSUME NEW nodes, NEW edges, NEW minWeight
    PROVE  LevelIs(Alone(nodes), edges, nodes, edges, minWeight)
<1>1. DOMAIN Alone(nodes) = nodes
  BY DEF Alone
<1>2. Connected(Classes(Alone(nodes)), nodes, Strong(edges, minWeight))
  BY AloneIsSingletons, SingletonsConnect
<1>3. Strong(edges, minWeight) \ edges = {}
  BY DEF Strong
<1>4. QED
  BY <1>1, <1>2, <1>3 DEF LevelIs, Joined

\* It goes on with the edges taken one by one.
LEMMA LevelGoesOn ==
    ASSUME IInv, NEW e \in pending, Take(e), NEW nodes, NEW edges \in SUBSET Edges(nodes),
           LevelIs(parent, pending, nodes, edges, threshold)
    PROVE  LevelIs(parent', pending', nodes, edges, threshold)
<1> DEFINE strong == Strong(edges, threshold)
           old == Classes(parent)
           new == Classes(parent')
<1>1. /\ DOMAIN parent = nodes /\ pending \subseteq edges /\ pending' = pending \ {e}
      /\ Connected(old, nodes, strong) /\ Joined(old, strong \ pending)
  BY DEF LevelIs, Take
<1>2. /\ DOMAIN parent' = nodes
      /\ new = IF e.weight >= threshold THEN Merged(parent, e.left, e.right) ELSE old
      /\ e.left \in nodes /\ e.right \in nodes
  BY <1>1, TakeMerges DEF Edges
<1>3. Splits(old, nodes)
  BY <1>1, ClassesSplit DEF IInv, Forest
<1>4. Connected(new, nodes, strong) /\ Joined(new, strong \ pending')
  <2>1. CASE e.weight >= threshold
    <3>1. e \in strong
      BY <1>1, <2>1 DEF Strong
    <3>2. new = (old \ {b \in old : e.left \in b \/ e.right \in b})
                  \cup {UNION {b \in old : e.left \in b \/ e.right \in b}}
      BY <1>2, <2>1 DEF Merged, Touched
    <3> HIDE DEF strong, old, new
    <3>3. /\ Connected(new, nodes, strong) /\ Together(new, e.left, e.right)
          /\ \A x, y : Together(old, x, y) => Together(new, x, y)
      BY <1>1, <1>2, <1>3, <3>1, <3>2, MergeConnects
    <3>4. QED
      BY <1>1, <3>3 DEF Joined
  <2>2. CASE ~(e.weight >= threshold)
    <3>1. e \notin strong
      BY <2>2 DEF Strong
    <3>2. QED
      BY <1>1, <1>2, <2>2, <3>1 DEF Joined
  <2>3. QED
    BY <2>1, <2>2
<1>5. QED
  BY <1>1, <1>2, <1>4 DEF LevelIs

\* It ends with the components.
LEMMA LevelEnds ==
    ASSUME NEW nodes, IsFiniteSet(nodes), NEW edges \in SUBSET Edges(nodes),
           NEW links \in [nodes -> nodes], NEW minWeight,
           LevelIs(links, {}, nodes, edges, minWeight)
    PROVE  GroupIds(Classes(links)) = Grouping(nodes, edges, minWeight)
<1> DEFINE strong == Strong(edges, minWeight)
           components == Components(nodes, edges, minWeight)
<1>1. \A e \in edges : e.left \in nodes /\ e.right \in nodes
  BY DEF Edges
<1>2. /\ Splits(components, nodes) /\ Connected(components, nodes, strong)
      /\ Joined(components, strong)
  BY <1>1, ComponentsConnect
<1>3. Splits(Classes(links), nodes)
  BY ClassesSplit
<1>4. Connected(Classes(links), nodes, strong) /\ Joined(Classes(links), strong)
  <2>1. strong \ {} = strong
    OBVIOUS
  <2>2. QED
    BY <2>1 DEF LevelIs
<1> HIDE DEF strong, components
<1>5. Classes(links) = components
  BY <1>2, <1>3, <1>4, GroupsAreUnique
<1>6. QED
  BY <1>5 DEF Grouping, components

\* The components are numbered, each with a number of its own.
LEMMA GroupingIs ==
    ASSUME NEW nodes \in SUBSET Nat, IsFiniteSet(nodes), NEW edges \in SUBSET Edges(nodes),
           NEW minWeight
    PROVE  LET g == Grouping(nodes, edges, minWeight)
           IN  /\ g \in [nodes -> Nat]
               /\ Image(g) \in SUBSET Nat /\ IsFiniteSet(Image(g))
               /\ Image(g) = {g[x] : x \in nodes}
               /\ \A x, y \in nodes :
                    g[x] = g[y] <=> Together(Components(nodes, edges, minWeight), x, y)
<1> DEFINE g == Grouping(nodes, edges, minWeight)
           components == Components(nodes, edges, minWeight)
<1>1. \A e \in edges : e.left \in nodes /\ e.right \in nodes
  BY DEF Edges
<1>2. Splits(components, nodes)
  BY <1>1, ComponentsConnect
<1> HIDE DEF components
<1>3. /\ g \in [nodes -> Nat]
      /\ \A x, y \in nodes : g[x] = g[y] <=> Together(components, x, y)
  BY <1>2, NumbersTellGroups DEF Grouping, components
<1> HIDE DEF g
<1>4. DOMAIN g = nodes /\ g = [x \in nodes |-> g[x]]
  BY <1>3
<1>5. IsFiniteSet({g[x] : x \in nodes})
  BY <1>4, ImageIsFinite
<1>6. Image(g) = {g[x] : x \in nodes} /\ Image(g) \in SUBSET Nat
  BY <1>3, <1>4 DEF Image
<1>7. QED
  BY <1>3, <1>5, <1>6 DEF g, components

\* The settings are numbers, and so are the thresholds.
LEMMA SettingsAre ==
    ASSUME settings \in SettingsChoices
    PROVE  /\ settings.minWeight \in Int /\ settings.topK \in Int
           /\ settings.subsystem \in Int /\ settings.system \in Int
           /\ SubsystemThreshold \in Int /\ SystemThreshold \in Int
<1>1. /\ settings.minWeight \in Int /\ settings.topK \in Int
      /\ settings.subsystem \in Int /\ settings.system \in Int
  BY FitAssumption
<1>2. SubsystemThreshold \in Int
  BY <1>1 DEF SubsystemThreshold, Greatest
<1>3. SystemThreshold \in Int
  BY <1>1, <1>2 DEF SystemThreshold, Greatest
<1>4. QED
  BY <1>1, <1>2, <1>3

\* The rows of a fit, and the edges of its first level.
LEMMA RowsAre ==
    ASSUME FitInv
    PROVE  /\ IsFiniteSet(Rows) /\ \A row \in Rows : IsRow(row)
           /\ \A row \in Rows : row \in fused /\ Affinity(row) >= settings.minWeight
           /\ Parameters \in SUBSET Nat /\ IsFiniteSet(Parameters)
           /\ ModuleEdges(Retained) \in SUBSET Edges(Parameters)
           /\ FirstEdges \in SUBSET Edges(Parameters) /\ IsFiniteSet(FirstEdges)
<1>1. IsFiniteSet(fused) /\ \A row \in fused : IsRow(row)
  BY FusedRowsAre, FS_EmptySet DEF FitInv, StatusInv
<1>2. Rows \in SUBSET fused /\ \A row \in Rows : Affinity(row) >= settings.minWeight
  BY DEF Rows, Filtered
<1>3. IsFiniteSet(Rows) /\ \A row \in Rows : IsRow(row)
  BY <1>1, <1>2, FS_Subset
<1>4. settings.topK \in Int
  BY SettingsAre DEF FitInv
<1>5. ModuleEdges(Retained) \in SUBSET Edges(Parameters)
  BY <1>3, <1>4, ModuleEdgesAre DEF Retained
<1>6. FirstEdges \in SUBSET Edges(Parameters) /\ IsFiniteSet(FirstEdges)
  BY <1>3, RollupEdgesAre DEF FirstEdges
<1>7. QED
  BY <1>2, <1>3, <1>5, <1>6, EvidenceAssumption

\* The finished modules, and the edges of the subsystems.
LEMMA SecondIs ==
    ASSUME FitInv, Len(groupOf) >= 1
    PROVE  /\ groupOf[1] \in [Parameters -> Nat]
           /\ Image(groupOf[1]) \in SUBSET Nat /\ IsFiniteSet(Image(groupOf[1]))
           /\ Image(groupOf[1]) = {groupOf[1][x] : x \in Parameters}
           /\ SecondEdges \in SUBSET Edges(Image(groupOf[1])) /\ IsFiniteSet(SecondEdges)
<1> DEFINE g == Grouping(Parameters, ModuleEdges(evidence), settings.minWeight)
<1>1. evidence = Retained /\ groupOf[1] = g
  BY DEF FitInv, ResultInv, ModulesAre
<1>2. /\ Parameters \in SUBSET Nat /\ IsFiniteSet(Parameters)
      /\ ModuleEdges(evidence) \in SUBSET Edges(Parameters)
      /\ FirstEdges \in SUBSET Edges(Parameters) /\ IsFiniteSet(FirstEdges)
  BY <1>1, RowsAre
<1>3. /\ g \in [Parameters -> Nat]
      /\ Image(g) \in SUBSET Nat /\ IsFiniteSet(Image(g))
      /\ Image(g) = {g[x] : x \in Parameters}
  BY <1>2, GroupingIs
<1> HIDE DEF g
<1>5. SecondEdges = Rollup(FirstEdges, g)
  BY <1>1 DEF SecondEdges
<1>6. SecondEdges \in SUBSET Edges(Image(g)) /\ IsFiniteSet(SecondEdges)
  BY <1>2, <1>3, <1>5, RollupIs
<1>7. QED
  BY <1>1, <1>3, <1>6

\* The finished subsystems, and the edges of the systems.
LEMMA ThirdIs ==
    ASSUME FitInv, Len(groupOf) >= 2
    PROVE  /\ groupOf[2] \in [Image(groupOf[1]) -> Nat]
           /\ Image(groupOf[2]) \in SUBSET Nat /\ IsFiniteSet(Image(groupOf[2]))
           /\ Image(groupOf[2]) = {groupOf[2][x] : x \in Image(groupOf[1])}
           /\ ThirdEdges \in SUBSET Edges(Image(groupOf[2])) /\ IsFiniteSet(ThirdEdges)
<1> DEFINE nodes == Image(groupOf[1])
           g == Grouping(nodes, SecondEdges, SubsystemThreshold)
<1>1. groupOf[2] = g
  BY DEF FitInv, ResultInv, SubsystemsAre
<1>2. Len(groupOf) >= 1
  BY DEF FitInv
<1>3. /\ nodes \in SUBSET Nat /\ IsFiniteSet(nodes)
      /\ SecondEdges \in SUBSET Edges(nodes) /\ IsFiniteSet(SecondEdges)
  BY <1>2, SecondIs
<1> HIDE DEF nodes
<1>4. /\ g \in [nodes -> Nat]
      /\ Image(g) \in SUBSET Nat /\ IsFiniteSet(Image(g))
      /\ Image(g) = {g[x] : x \in nodes}
  BY <1>3, GroupingIs
<1> HIDE DEF g
<1>6. ThirdEdges = Rollup(SecondEdges, g)
  BY <1>1 DEF ThirdEdges
<1>7. ThirdEdges \in SUBSET Edges(Image(g)) /\ IsFiniteSet(ThirdEdges)
  BY <1>3, <1>4, <1>6, RollupIs
<1>8. QED
  BY <1>1, <1>4, <1>7 DEF nodes

-----------------------------------------------------------------------------
(* The actions keep the levels.                                             *)

\* What appending the groups of a level does to the list of groups.
LEMMA AppendIs ==
    ASSUME FitInv, NEW nodes \in SUBSET Nat, NEW g \in [nodes -> Nat],
           groupOf' = Append(groupOf, g)
    PROVE  /\ groupOf' \in Seq(UNION {[n -> Nat] : n \in SUBSET Nat})
           /\ Len(groupOf') = Len(groupOf) + 1
           /\ groupOf'[Len(groupOf) + 1] = g
           /\ Len(groupOf) >= 1 => groupOf'[1] = groupOf[1]
           /\ Len(groupOf) >= 2 => groupOf'[2] = groupOf[2]
<1> DEFINE S == UNION {[n -> Nat] : n \in SUBSET Nat}
<1>1. groupOf \in Seq(S)
  BY DEF FitInv
<1>2. g \in S
  OBVIOUS
<1> HIDE DEF S
<1>3. QED
  BY <1>1, <1>2 DEF S

\* The levels depend on nothing else.
LEMMA SameLevels ==
    ASSUME UNCHANGED <<fused, settings>>
    PROVE  /\ Rows' = Rows /\ Retained' = Retained /\ FirstEdges' = FirstEdges
           /\ SubsystemThreshold' = SubsystemThreshold /\ SystemThreshold' = SystemThreshold
           /\ groupOf'[1] = groupOf[1] => SecondEdges' = SecondEdges
           /\ groupOf'[1] = groupOf[1] /\ groupOf'[2] = groupOf[2] => ThirdEdges' = ThirdEdges
  BY DEF Rows, Retained, FirstEdges, SecondEdges, ThirdEdges, SubsystemThreshold, SystemThreshold

\* Stage 50.
LEMMA FuseFit ==
    ASSUME FitInv, FuseGraph
    PROVE  FitInv'
<1>1. /\ status = "components" /\ status' = "fused" /\ fused' = FusedRows(graph)
      /\ UNCHANGED <<graph, settings, groupOf, pending>>
  BY DEF FuseGraph
<1>2. Len(groupOf) = 0 /\ pending = {}
  BY <1>1 DEF FitInv, StatusInv, Levels
<1>3. StatusInv' /\ ResultInv' /\ LevelInv'
  BY <1>1, <1>2 DEF StatusInv, ResultInv, LevelInv
<1>4. QED
  BY <1>1, <1>3 DEF FitInv

\* The beginning of the first level.
LEMMA RetainFit ==
    ASSUME FitInv, RetainEdges
    PROVE  FitInv'
<1> DEFINE rows == Filtered(fused, settings.minWeight)
           kept == RetainedRows(rows, settings.topK)
<1>1. /\ status = "fused" /\ UNCHANGED <<graph, settings, fused, groupOf>>
      /\ Len(groupOf) = 0 /\ pending = {} /\ fused = FusedRows(graph)
  BY DEF RetainEdges, FitInv, StatusInv, Levels
<1>2. ResultInv'
  BY <1>1 DEF ResultInv
<1>3. CASE Cardinality(kept) > settings.maxEdges
  <2>1. status' = "refused" /\ pending' = pending
    BY <1>3 DEF RetainEdges, Refuse
  <2>2. StatusInv' /\ LevelInv'
    BY <1>1, <2>1 DEF StatusInv, LevelInv, Levels
  <2>3. QED
    BY <1>1, <1>2, <2>2 DEF FitInv
<1>4. CASE ~(Cardinality(kept) > settings.maxEdges)
  <2>1. /\ status' = "module" /\ evidence' = EvidenceRows(kept, settings.profile)
        /\ parent' = Alone(Parameters) /\ pending' = ModuleEdges(evidence')
        /\ threshold' = settings.minWeight /\ between' = RollupEdges(rows)
    BY <1>4 DEF RetainEdges, Group
  <2>2. evidence' = Retained' /\ between' = FirstEdges' /\ threshold' = settings'.minWeight
    BY <1>1, <2>1 DEF Retained, FirstEdges, Rows
  <2>3. LevelIs(parent', pending', Parameters, ModuleEdges(evidence'), threshold')
    BY <2>1, LevelStarts
  <2>4. LevelInv'
    BY <1>1, <2>1, <2>2, <2>3 DEF LevelInv
  <2>5. StatusInv'
    BY <1>1, <2>1 DEF StatusInv, Levels
  <2>6. QED
    BY <1>1, <1>2, <2>4, <2>5 DEF FitInv
<1>5. QED
  BY <1>3, <1>4

\* An edge of a level.
LEMMA TakeFit ==
    ASSUME IInv, FitInv, TakeAny
    PROVE  FitInv'
<1>1. PICK e \in pending : Take(e)
  BY DEF TakeAny
<1>2. /\ status \in Levels
      /\ UNCHANGED <<graph, settings, status, fused, evidence, threshold, between, groupOf>>
  BY <1>1 DEF TakeAny, Take
<1>3. ResultInv' /\ StatusInv'
  BY <1>2, SameLevels DEF FitInv, ResultInv, StatusInv, ModulesAre, SubsystemsAre, SystemsAre, Levels
<1>4. LevelInv'
  <2>1. CASE status = "module"
    <3>1. /\ Len(groupOf) = 0 /\ evidence = Retained
          /\ threshold = settings.minWeight /\ between = FirstEdges
          /\ LevelIs(parent, pending, Parameters, ModuleEdges(evidence), threshold)
      BY <2>1 DEF FitInv, LevelInv
    <3>2. LevelIs(parent', pending', Parameters, ModuleEdges(evidence), threshold)
      BY <1>1, <3>1, RowsAre, LevelGoesOn
    <3>3. QED
      BY <1>2, <2>1, <3>1, <3>2, SameLevels DEF LevelInv
  <2>2. CASE status = "subsystem"
    <3>1. /\ Len(groupOf) = 1
          /\ threshold = SubsystemThreshold /\ between = SecondEdges
          /\ LevelIs(parent, pending, Image(groupOf[1]), SecondEdges, threshold)
      BY <2>2 DEF FitInv, LevelInv
    <3>2. SecondEdges \in SUBSET Edges(Image(groupOf[1]))
      BY <3>1, SecondIs
    <3>3. LevelIs(parent', pending', Image(groupOf[1]), SecondEdges, threshold)
      BY <1>1, <3>1, <3>2, LevelGoesOn
    <3>4. QED
      BY <1>2, <2>2, <3>1, <3>3, SameLevels DEF LevelInv
  <2>3. CASE status = "system"
    <3>1. /\ Len(groupOf) = 2
          /\ threshold = SystemThreshold /\ between = ThirdEdges
          /\ LevelIs(parent, pending, Image(groupOf[2]), ThirdEdges, threshold)
      BY <2>3 DEF FitInv, LevelInv
    <3>2. ThirdEdges \in SUBSET Edges(Image(groupOf[2]))
      BY <3>1, ThirdIs
    <3>3. LevelIs(parent', pending', Image(groupOf[2]), ThirdEdges, threshold)
      BY <1>1, <3>1, <3>2, LevelGoesOn
    <3>4. QED
      BY <1>2, <2>3, <3>1, <3>3, SameLevels DEF LevelInv
  <2>4. QED
    BY <1>2, <2>1, <2>2, <2>3 DEF Levels
<1>5. QED
  BY <1>2, <1>3, <1>4 DEF FitInv

\* A level that has no edge pending is finished: its groups are the components.
LEMMA LevelIsFinished ==
    ASSUME IInv, FitInv, pending = {}
    PROVE  /\ status = "module" =>
                Numbered = Grouping(Parameters, ModuleEdges(evidence), settings.minWeight)
           /\ status = "subsystem" =>
                Numbered = Grouping(Image(groupOf[1]), SecondEdges, SubsystemThreshold)
           /\ status = "system" =>
                Numbered = Grouping(Image(groupOf[2]), ThirdEdges, SystemThreshold)
<1>1. parent \in [DOMAIN parent -> DOMAIN parent]
  BY DEF IInv, Forest
<1>2. CASE status = "module"
  <2>1. /\ evidence = Retained /\ threshold = settings.minWeight
        /\ LevelIs(parent, {}, Parameters, ModuleEdges(evidence), threshold)
    BY <1>2 DEF FitInv, LevelInv
  <2>2. DOMAIN parent = Parameters
    BY <2>1 DEF LevelIs
  <2>3. QED
    BY <1>1, <1>2, <2>1, <2>2, RowsAre, LevelEnds DEF Numbered
<1>3. CASE status = "subsystem"
  <2>1. /\ Len(groupOf) = 1 /\ threshold = SubsystemThreshold
        /\ LevelIs(parent, {}, Image(groupOf[1]), SecondEdges, threshold)
    BY <1>3 DEF FitInv, LevelInv
  <2>2. DOMAIN parent = Image(groupOf[1])
    BY <2>1 DEF LevelIs
  <2>3. IsFiniteSet(Image(groupOf[1])) /\ SecondEdges \in SUBSET Edges(Image(groupOf[1]))
    BY <2>1, SecondIs
  <2>4. QED
    BY <1>1, <1>3, <2>1, <2>2, <2>3, LevelEnds DEF Numbered
<1>4. CASE status = "system"
  <2>1. /\ Len(groupOf) = 2 /\ threshold = SystemThreshold
        /\ LevelIs(parent, {}, Image(groupOf[2]), ThirdEdges, threshold)
    BY <1>4 DEF FitInv, LevelInv
  <2>2. DOMAIN parent = Image(groupOf[2])
    BY <2>1 DEF LevelIs
  <2>3. IsFiniteSet(Image(groupOf[2])) /\ ThirdEdges \in SUBSET Edges(Image(groupOf[2]))
    BY <2>1, ThirdIs
  <2>4. QED
    BY <1>1, <1>4, <2>1, <2>2, <2>3, LevelEnds DEF Numbered
<1>5. QED
  BY <1>2, <1>3, <1>4

\* The end of a level, and the beginning of the next.
LEMMA ClimbFit ==
    ASSUME IInv, FitInv, Climb
    PROVE  FitInv'
<1> DEFINE up == Rollup(between, Numbered)
           ids == {Numbered[x] : x \in DOMAIN Numbered}
<1>1. /\ status \in {"module", "subsystem"} /\ pending = {}
      /\ UNCHANGED <<graph, settings, fused, evidence>>
  BY DEF Climb, Levels
<1>2. fused = FusedRows(graph)
  BY <1>1 DEF FitInv, StatusInv
<1>3. CASE Cardinality(up) > settings.maxEdges
  <2>1. status' = "refused" /\ pending' = pending /\ groupOf' = groupOf
    BY <1>3 DEF Climb, Refuse
  <2>2. ResultInv'
    BY <1>1, <2>1, SameLevels DEF FitInv, ResultInv, ModulesAre, SubsystemsAre, SystemsAre
  <2>3. StatusInv' /\ LevelInv'
    BY <1>1, <1>2, <2>1 DEF StatusInv, LevelInv, Levels
  <2>4. QED
    BY <1>1, <2>1, <2>2, <2>3 DEF FitInv
<1>4. CASE ~(Cardinality(up) > settings.maxEdges)
  <2>1. /\ groupOf' = Append(groupOf, Numbered)
        /\ parent' = Alone(ids) /\ pending' = up /\ threshold' = ThresholdAbove(status)
        /\ between' = up /\ status' = LevelAbove(status)
    BY <1>4 DEF Climb, Group
  <2>2. ids = Image(Numbered)
    BY DEF Image
  <2>3. LevelIs(parent', pending', ids, up, threshold')
    BY <2>1, LevelStarts
  <2> HIDE DEF up, ids
  <2>4. CASE status = "module"
    <3>1. /\ Len(groupOf) = 0 /\ evidence = Retained /\ between = FirstEdges
      BY <2>4 DEF FitInv, LevelInv
    <3>2. Numbered = Grouping(Parameters, ModuleEdges(evidence), settings.minWeight)
      BY <1>1, <2>4, LevelIsFinished
    <3>3. Numbered \in [Parameters -> Nat] /\ Parameters \in SUBSET Nat
      BY <3>1, <3>2, RowsAre, GroupingIs
    <3>4. /\ groupOf' \in Seq(UNION {[n -> Nat] : n \in SUBSET Nat})
          /\ Len(groupOf') = 1 /\ groupOf'[1] = Numbered
      BY <2>1, <3>1, <3>3, AppendIs
    <3>5. ModulesAre'
      BY <1>1, <3>1, <3>2, <3>4, SameLevels DEF ModulesAre
    <3>6. ResultInv'
      BY <3>4, <3>5 DEF ResultInv
    <3>7. /\ status' = "subsystem" /\ threshold' = SubsystemThreshold' /\ between' = SecondEdges'
          /\ ids = Image(groupOf'[1]) /\ up = SecondEdges'
      BY <1>1, <2>1, <2>2, <2>4, <3>1, <3>4, SameLevels
      DEF LevelAbove, ThresholdAbove, SecondEdges, up
    <3>8. LevelInv'
      BY <2>3, <3>4, <3>7 DEF LevelInv
    <3>9. StatusInv'
      BY <1>1, <1>2, <3>7 DEF StatusInv, Levels
    <3>10. QED
      BY <1>1, <3>4, <3>6, <3>8, <3>9 DEF FitInv
  <2>5. CASE status = "subsystem"
    <3>1. Len(groupOf) = 1 /\ between = SecondEdges /\ ModulesAre
      BY <2>5 DEF FitInv, LevelInv, ResultInv
    <3>2. Numbered = Grouping(Image(groupOf[1]), SecondEdges, SubsystemThreshold)
      BY <1>1, <2>5, LevelIsFinished
    <3>3. Numbered \in [Image(groupOf[1]) -> Nat] /\ Image(groupOf[1]) \in SUBSET Nat
      BY <3>1, <3>2, SecondIs, GroupingIs
    <3>4. /\ groupOf' \in Seq(UNION {[n -> Nat] : n \in SUBSET Nat})
          /\ Len(groupOf') = 2 /\ groupOf'[2] = Numbered /\ groupOf'[1] = groupOf[1]
      BY <2>1, <3>1, <3>3, AppendIs
    <3>5. ModulesAre' /\ SubsystemsAre'
      BY <1>1, <3>1, <3>2, <3>4, SameLevels DEF ModulesAre, SubsystemsAre
    <3>6. ResultInv'
      BY <3>4, <3>5 DEF ResultInv
    <3>7. /\ status' = "system" /\ threshold' = SystemThreshold' /\ between' = ThirdEdges'
          /\ ids = Image(groupOf'[2]) /\ up = ThirdEdges'
      BY <1>1, <2>1, <2>2, <2>5, <3>1, <3>4, SameLevels
      DEF LevelAbove, ThresholdAbove, ThirdEdges, up
    <3>8. LevelInv'
      BY <2>3, <3>4, <3>7 DEF LevelInv
    <3>9. StatusInv'
      BY <1>1, <1>2, <3>7 DEF StatusInv, Levels
    <3>10. QED
      BY <1>1, <3>4, <3>6, <3>8, <3>9 DEF FitInv
  <2>6. QED
    BY <1>1, <2>4, <2>5
<1>5. QED
  BY <1>3, <1>4

\* The end of the last level.
LEMMA FinishFit ==
    ASSUME IInv, FitInv, Finish
    PROVE  FitInv'
<1>1. /\ status = "system" /\ pending = {} /\ groupOf' = Append(groupOf, Numbered)
      /\ status' = "done" /\ UNCHANGED <<graph, settings, fused, evidence, pending>>
  BY DEF Finish
<1>2. fused = FusedRows(graph) /\ Len(groupOf) = 2 /\ ModulesAre /\ SubsystemsAre
  BY <1>1 DEF FitInv, StatusInv, LevelInv, ResultInv
<1>3. Numbered = Grouping(Image(groupOf[2]), ThirdEdges, SystemThreshold)
  BY <1>1, LevelIsFinished
<1>4. Numbered \in [Image(groupOf[2]) -> Nat] /\ Image(groupOf[2]) \in SUBSET Nat
  BY <1>2, <1>3, ThirdIs, GroupingIs
<1>5. /\ groupOf' \in Seq(UNION {[n -> Nat] : n \in SUBSET Nat})
      /\ Len(groupOf') = 3 /\ groupOf'[3] = Numbered
      /\ groupOf'[1] = groupOf[1] /\ groupOf'[2] = groupOf[2]
  BY <1>1, <1>2, <1>4, AppendIs
<1>6. ModulesAre' /\ SubsystemsAre' /\ SystemsAre'
  BY <1>1, <1>2, <1>3, <1>5, SameLevels DEF ModulesAre, SubsystemsAre, SystemsAre
<1>7. ResultInv' /\ StatusInv' /\ LevelInv'
  BY <1>1, <1>2, <1>5, <1>6 DEF ResultInv, StatusInv, LevelInv, Levels
<1>8. QED
  BY <1>1, <1>5, <1>7 DEF FitInv

\* Both parts of the invariant hold in every state of a fit.
LEMMA FitInvariant == Spec => [](IInv /\ FitInv)
<1>1. ASSUME Init PROVE IInv /\ FitInv
  <2>1. groupOf \in Seq(UNION {[n -> Nat] : n \in SUBSET Nat}) /\ Len(groupOf) = 0
    BY <1>1 DEF Init
  <2>2. StatusInv /\ ResultInv /\ LevelInv
    BY <1>1, <2>1 DEF Init, StatusInv, ResultInv, LevelInv
  <2>3. QED
    BY <1>1, <2>1, <2>2, InitIInv DEF Init, FitInv
<1>2. ASSUME IInv, FitInv, [Next]_vars PROVE IInv' /\ FitInv'
  <2>1. CASE UNCHANGED vars
    <3>1. StatusInv' /\ LevelInv' /\ ResultInv'
      BY <1>2, <2>1, SameLevels DEF vars, FitInv, StatusInv, ResultInv, LevelInv,
         ModulesAre, SubsystemsAre, SystemsAre
    <3>2. QED
      BY <1>2, <2>1, <3>1, NextIInv DEF vars, FitInv
  <2>2. QED
    BY <1>2, <2>1, NextIInv, FuseFit, RetainFit, TakeFit, ClimbFit, FinishFit DEF Next
<1>3. QED
  BY <1>1, <1>2, PTL DEF Spec

-----------------------------------------------------------------------------
(* What a fit computes.                                                     *)

\* The grouping of a level joins the ends of its strong edges.
LEMMA GroupingJoins ==
    ASSUME NEW nodes \in SUBSET Nat, IsFiniteSet(nodes), NEW edges \in SUBSET Edges(nodes),
           NEW minWeight, NEW e \in edges, e.weight >= minWeight
    PROVE  Grouping(nodes, edges, minWeight)[e.left] = Grouping(nodes, edges, minWeight)[e.right]
<1> DEFINE g == Grouping(nodes, edges, minWeight)
           components == Components(nodes, edges, minWeight)
<1>1. \A d \in edges : d.left \in nodes /\ d.right \in nodes
  BY DEF Edges
<1>2. Joined(components, Strong(edges, minWeight)) /\ e \in Strong(edges, minWeight)
  BY <1>1, ComponentsConnect DEF Strong
<1>3. \A x, y \in nodes : g[x] = g[y] <=> Together(components, x, y)
  BY GroupingIs
<1> HIDE DEF g, components
<1>4. g[e.left] = g[e.right]
  BY <1>1, <1>2, <1>3 DEF Joined
<1>5. QED
  BY <1>4 DEF g

\* It joins nothing that a cut of the strong edges keeps apart.
LEMMA GroupingParts ==
    ASSUME NEW nodes \in SUBSET Nat, IsFiniteSet(nodes), NEW edges \in SUBSET Edges(nodes),
           NEW minWeight, NEW S \in SUBSET nodes, IsCut(S, Strong(edges, minWeight)),
           NEW p \in S, NEW q \in nodes, q \notin S
    PROVE  Grouping(nodes, edges, minWeight)[p] # Grouping(nodes, edges, minWeight)[q]
<1> DEFINE g == Grouping(nodes, edges, minWeight)
           components == Components(nodes, edges, minWeight)
<1>1. \A e \in edges : e.left \in nodes /\ e.right \in nodes
  BY DEF Edges
<1>2. Connected(components, nodes, Strong(edges, minWeight))
  BY <1>1, ComponentsConnect
<1>3. \A x, y \in nodes : g[x] = g[y] <=> Together(components, x, y)
  BY GroupingIs
<1> HIDE DEF g, components
<1>4. ASSUME g[p] = g[q] PROVE FALSE
  <2>1. PICK b \in components : p \in b /\ q \in b
    BY <1>3, <1>4 DEF Together
  <2>2. b \subseteq S \/ b \cap S = {}
    BY <1>2 DEF Connected
  <2>3. QED
    BY <2>1, <2>2
<1>5. QED
  BY <1>4 DEF g

\* Over no edges, every node is a group of its own.
LEMMA NothingJoins ==
    ASSUME NEW nodes \in SUBSET Nat, IsFiniteSet(nodes), NEW minWeight,
           NEW a \in nodes, NEW b \in nodes, a # b
    PROVE  Grouping(nodes, {}, minWeight)[a] # Grouping(nodes, {}, minWeight)[b]
<1> DEFINE edges == {}
           S == {a}
<1>1. edges \in SUBSET Edges(nodes) /\ IsCut(S, Strong(edges, minWeight))
  BY DEF IsCut, Strong
<1>2. S \in SUBSET nodes /\ a \in S /\ b \in nodes /\ b \notin S
  OBVIOUS
<1> HIDE DEF edges, S
<1>3. Grouping(nodes, edges, minWeight)[a] # Grouping(nodes, edges, minWeight)[b]
  BY <1>1, <1>2, GroupingParts
<1>4. QED
  BY <1>3 DEF edges

\* The state of a fit is well-typed.
THEOREM HierarchyTypes == Spec => []TypeOK
<1>1. ASSUME IInv, FitInv PROVE TypeOK
  <2>1. /\ parent \in [DOMAIN parent -> DOMAIN parent] /\ rank \in [DOMAIN parent -> Nat]
    BY <1>1 DEF IInv, Forest
  <2>2. status \in Levels \cup {"components", "fused", "done", "refused"} /\ Len(groupOf) <= 3
    <3>1. Len(groupOf) \in 0..3
      BY <1>1 DEF FitInv, ResultInv
    <3>2. \A n \in 0..3 : n <= 3
      OBVIOUS
    <3>3. status \in Levels \cup {"components", "fused", "done", "refused"}
      BY <1>1 DEF FitInv, StatusInv
    <3>4. QED
      BY <3>1, <3>2, <3>3, Zenon
  <2>3. pending \subseteq Edges(DOMAIN parent)
    <3>1. CASE status = "module"
      <4>1. LevelIs(parent, pending, Parameters, ModuleEdges(Retained), threshold)
        BY <1>1, <3>1 DEF FitInv, LevelInv
      <4>2. QED
        BY <1>1, <4>1, RowsAre DEF LevelIs
    <3>2. CASE status = "subsystem"
      <4>1. /\ LevelIs(parent, pending, Image(groupOf[1]), SecondEdges, threshold)
            /\ Len(groupOf) >= 1
        BY <1>1, <3>2 DEF FitInv, LevelInv
      <4>2. QED
        BY <1>1, <4>1, SecondIs DEF LevelIs
    <3>3. CASE status = "system"
      <4>1. /\ LevelIs(parent, pending, Image(groupOf[2]), ThirdEdges, threshold)
            /\ Len(groupOf) >= 2
        BY <1>1, <3>3 DEF FitInv, LevelInv
      <4>2. QED
        BY <1>1, <4>1, ThirdIs DEF LevelIs
    <3>4. CASE status \notin Levels
      BY <1>1, <3>4 DEF FitInv, StatusInv
    <3>5. QED
      BY <3>1, <3>2, <3>3, <3>4 DEF Levels
  <2>4. \A row \in fused : Ends(row) \in Unordered
    <3>1. \A row \in fused : IsRow(row)
      BY <1>1, FusedRowsAre DEF FitInv, StatusInv
    <3>2. ASSUME NEW row \in fused
          PROVE  Ends(row) \in Unordered
      <4>1. row.u \in Parameters /\ row.v \in Parameters /\ row.u # row.v
        BY <3>1 DEF IsRow
      <4>2. {row.u, row.v} \in {{p, q} : p, q \in Parameters}
        BY <4>1
      <4>3. {row.u, row.v} \notin {{p} : p \in Parameters}
        BY <4>1
      <4> DEFINE pairs == {{p, q} : p, q \in Parameters}
                 single == {{p} : p \in Parameters}
      <4>4. Unordered = pairs \ single
        BY DEF Unordered
      <4>5. Ends(row) = {row.u, row.v}
        BY DEF Ends
      <4> HIDE DEF pairs, single
      <4>6. Ends(row) \in pairs /\ Ends(row) \notin single
        BY <4>2, <4>3, <4>5 DEF pairs, single
      <4>7. QED
        BY <4>4, <4>6
    <3>3. QED
      BY <3>2
  <2>5. QED
    BY <2>1, <2>2, <2>3, <2>4 DEF TypeOK
<1>2. QED
  BY <1>1, FitInvariant, PTL

\* The evidence that is written is what the modules were formed of: its rows
\* run within modules, they alone connect them, and their ranks lie within
\* the first k (hierarchy_artifacts.py:225-437).
THEOREM EvidenceStaysFaithful == Spec => []EvidenceFormsModules
<1>1. ASSUME FitInv PROVE EvidenceFormsModules
  <2> DEFINE edges == ModuleEdges(evidence)
             g == Grouping(Parameters, edges, settings.minWeight)
  <2>1. SUFFICES ASSUME Len(groupOf) > 0
                 PROVE  EvidenceFormsModules
    BY DEF EvidenceFormsModules
  <2>2. evidence = Retained /\ groupOf[1] = g
    <3>1. Len(groupOf) >= 1
      BY <1>1, <2>1 DEF FitInv, ResultInv
    <3>2. QED
      BY <1>1, <3>1 DEF FitInv, ResultInv, ModulesAre
  <2>3. /\ Parameters \in SUBSET Nat /\ IsFiniteSet(Parameters)
        /\ edges \in SUBSET Edges(Parameters) /\ IsFiniteSet(Rows)
        /\ \A row \in Rows : IsRow(row) /\ Affinity(row) >= settings.minWeight
    BY <1>1, <2>2, RowsAre
  <2>4. settings.topK \in Int
    BY <1>1, SettingsAre DEF FitInv
  <2>5. \A x \in evidence : /\ x.row \in Rows /\ x.min \in Parameters /\ x.max \in Parameters
                            /\ x.ranks \in (1..Greatest(settings.topK, 1))
                                             \X (1..Greatest(settings.topK, 1))
    <3>1. \A x \in evidence : x \in RetainedRows(Rows, settings.topK)
      BY <2>2 DEF Retained, EvidenceRows
    <3>2. QED
      BY <2>3, <2>4, <3>1, RetainedAre
  <2>6. /\ \A e \in edges : e.weight >= settings.minWeight => g[e.left] = g[e.right]
        /\ \A S \in SUBSET Parameters : IsCut(S, Strong(edges, settings.minWeight)) =>
              \A p \in S, q \in Parameters \ S : g[p] # g[q]
    <3> HIDE DEF edges
    <3>1. \A e \in edges : e.weight >= settings.minWeight => g[e.left] = g[e.right]
      BY <2>3, GroupingJoins
    <3>2. ASSUME NEW S \in SUBSET Parameters, IsCut(S, Strong(edges, settings.minWeight)),
                 NEW p \in S, NEW q \in Parameters \ S
          PROVE  g[p] # g[q]
      BY <2>3, <3>2, GroupingParts
    <3>3. QED
      BY <3>1, <3>2
  <2>7. \A x \in evidence :
          LET e == [left |-> x.min, right |-> x.max, weight |-> Affinity(x.row)]
          IN  e \in edges /\ e.weight >= settings.minWeight
    BY <2>3, <2>5 DEF ModuleEdges
  <2> HIDE DEF g
  <2>8. \A x \in evidence : g[x.min] = g[x.max]
    BY <2>6, <2>7
  <2>9. ASSUME NEW S \in SUBSET Parameters,
               \A x \in evidence : x.min \in S <=> x.max \in S
        PROVE  IsCut(S, Strong(edges, settings.minWeight))
    BY <2>9 DEF IsCut, Strong, ModuleEdges
  <2> HIDE DEF edges
  <2>10. \A S \in SUBSET Parameters :
           (\A x \in evidence : x.min \in S <=> x.max \in S)
             => \A p \in S, q \in Parameters \ S : g[p] # g[q]
    BY <2>6, <2>9
  <2>11. QED
    BY <2>2, <2>5, <2>8, <2>10 DEF EvidenceFormsModules
<1>2. QED
  BY <1>1, FitInvariant, PTL

\* With thresholds that are not set, every edge between two modules joins
\* them, and no edge is left for the systems to be formed of, if the fused
\* weight of a row covers its affinity (hierarchy_artifacts.py:439-499).
THEOREM DefaultsStayCollapsed ==
    ASSUME FusionCoversAffinity
    PROVE  Spec => []DefaultsCollapse
<1>1. ASSUME FitInv PROVE DefaultsCollapse
  <2> DEFINE g1 == groupOf[1]
             g2 == groupOf[2]
             g3 == groupOf[3]
             n2 == Image(g1)
             n3 == Image(g2)
             t == SubsystemThreshold
             low == Greatest(settings.minWeight, 1)
  <2>1. SUFFICES ASSUME status = "done", settings.subsystem = NotSet, settings.system = NotSet
                 PROVE  DefaultsCollapse
    BY DEF DefaultsCollapse
  <2>2. Len(groupOf) = 3
    BY <1>1, <2>1 DEF FitInv, StatusInv
  <2>3. /\ g2 = Grouping(n2, SecondEdges, t)
        /\ g3 = Grouping(n3, ThirdEdges, SystemThreshold)
    BY <1>1, <2>2 DEF FitInv, ResultInv, SubsystemsAre, SystemsAre
  <2>4. /\ g1 \in [Parameters -> Nat] /\ n2 \in SUBSET Nat /\ IsFiniteSet(n2)
        /\ n2 = {g1[x] : x \in Parameters}
        /\ SecondEdges \in SUBSET Edges(n2) /\ IsFiniteSet(SecondEdges)
    BY <1>1, <2>2, SecondIs
  <2>5. /\ g2 \in [n2 -> Nat] /\ n3 \in SUBSET Nat /\ IsFiniteSet(n3)
        /\ n3 = {g2[x] : x \in n2}
        /\ ThirdEdges \in SUBSET Edges(n3)
    BY <1>1, <2>2, ThirdIs
  <2>6. /\ FirstEdges \in SUBSET Edges(Parameters) /\ IsFiniteSet(FirstEdges)
        /\ \A row \in Rows : IsRow(row) /\ Affinity(row) >= settings.minWeight
    BY <1>1, RowsAre
  <2>7. low \in Nat /\ t \in Int /\ t <= low
    <3>1. settings.minWeight \in Int
      BY <1>1, SettingsAre DEF FitInv
    <3>2. t = Greatest((settings.minWeight * 3) \div 4, 1)
      BY <2>1 DEF SubsystemThreshold
    <3>3. (settings.minWeight * 3) \div 4 \in Int
          /\ (settings.minWeight >= 1 => (settings.minWeight * 3) \div 4 <= settings.minWeight)
          /\ (settings.minWeight < 1 => (settings.minWeight * 3) \div 4 < 1)
      BY <3>1
    <3> HIDE DEF t
    <3>4. QED
      BY <3>1, <3>2, <3>3 DEF Greatest
  <2>8. \A row \in Rows : row.fused >= low
    <3>1. SUFFICES ASSUME NEW row \in Rows PROVE row.fused >= low
      OBVIOUS
    <3>2. /\ Affinity(row) \in Nat /\ Affinity(row) <= row.fused
          /\ Affinity(row) >= settings.minWeight
          /\ row.fused \in Nat /\ row.fused > 0
      BY <2>6, AffinityIs DEF IsRow
    <3>3. settings.minWeight \in Int
      BY <1>1, SettingsAre DEF FitInv
    <3>4. QED
      BY <3>2, <3>3 DEF Greatest
  <2> HIDE DEF t, low
  <2>9. \A e \in FirstEdges : low <= e.weight
    BY <2>6, <2>7, <2>8 DEF FirstEdges, RollupEdges, IsRow
  <2>10. /\ \A e \in SecondEdges : low <= e.weight
         /\ \A e \in FirstEdges : g1[e.left] # g1[e.right] =>
              \E d \in SecondEdges : {d.left, d.right} = {g1[e.left], g1[e.right]}
    <3>1. SecondEdges = Rollup(FirstEdges, g1)
      BY DEF SecondEdges
    <3> HIDE DEF g1
    <3>2. QED
      BY <2>4, <2>6, <2>7, <2>9, <3>1, RollupIs
  <2>11. \A e \in SecondEdges : g2[e.left] = g2[e.right]
    <3>1. \A e \in SecondEdges : e.weight >= t
      BY <2>4, <2>7, <2>10 DEF Edges
    <3> HIDE DEF g2, n2
    <3>2. QED
      BY <2>3, <2>4, <3>1, GroupingJoins
  <2>12. ThirdEdges = {}
    <3>1. ThirdEdges = Rollup(SecondEdges, g2)
      BY DEF ThirdEdges
    <3> HIDE DEF g2, n2
    <3>2. QED
      BY <2>4, <2>5, <2>11, <3>1, RollupIs
  <2>13. \A a, b \in n3 : a # b => g3[a] # g3[b]
    <3> HIDE DEF n3, g3
    <3>1. QED
      BY <2>3, <2>5, <2>12, NothingJoins
  <2>14. \A p \in Parameters : HierarchyOf(p) = <<g3[g2[g1[p]]], g2[g1[p]], g1[p]>>
    BY DEF HierarchyOf
  <2>15. \A p \in Parameters : g1[p] \in n2 /\ g2[g1[p]] \in n3
    BY <2>4, <2>5
  <2>16. ASSUME NEW row \in Rows
         PROVE  /\ row.u \in Parameters /\ row.v \in Parameters
                /\ g2[g1[row.u]] = g2[g1[row.v]]
    <3>1. row.u \in Parameters /\ row.v \in Parameters
      BY <2>6 DEF IsRow
    <3> DEFINE e == [left |-> row.u, right |-> row.v, weight |-> row.fused]
    <3>2. e \in FirstEdges /\ e.left = row.u /\ e.right = row.v
      BY DEF FirstEdges, RollupEdges
    <3> HIDE DEF g1, g2, e
    <3>3. CASE g1[row.u] # g1[row.v]
      <4>1. PICK d \in SecondEdges : {d.left, d.right} = {g1[row.u], g1[row.v]}
        BY <2>10, <3>2, <3>3
      <4>2. \/ d.left = g1[row.u] /\ d.right = g1[row.v]
            \/ d.left = g1[row.v] /\ d.right = g1[row.u]
        BY <4>1
      <4>3. QED
        BY <2>11, <3>1, <4>2
    <3>4. QED
      BY <3>1, <3>3
  <2> HIDE DEF g1, g2, g3, n2, n3
  <2>17. \A p, q \in Parameters :
           HierarchyOf(p)[1] = HierarchyOf(q)[1] <=> HierarchyOf(p)[2] = HierarchyOf(q)[2]
    BY <2>13, <2>14, <2>15
  <2>18. \A row \in Rows : HierarchyOf(row.u)[2] = HierarchyOf(row.v)[2]
    BY <2>14, <2>16
  <2>19. QED
    BY <2>17, <2>18 DEF DefaultsCollapse, Rows
<1>2. QED
  BY <1>1, FitInvariant, PTL

-----------------------------------------------------------------------------
(* The pandas builder.                                                      *)

\* The two orders of the rows of a parameter are one.
LEMMA OrdersAgree ==
    ASSUME NEW a, IsRow(a), NEW b, IsRow(b), NEW p, p \in Ends(a), p \in Ends(b)
    PROVE  Precedes(a, b) <=> SortedBefore(p, a, b)
<1> DEFINE n == Neighbor(a, p)
           m == Neighbor(b, p)
<1>1. /\ a.u \in Nat /\ a.v \in Nat /\ a.u # a.v /\ b.u \in Nat /\ b.v \in Nat /\ b.u # b.v
      /\ (p = a.u \/ p = a.v) /\ (p = b.u \/ p = b.v)
  BY EvidenceAssumption DEF IsRow, Ends
<1>2. /\ n \in Nat /\ p \in Nat /\ n # p
      /\ Least(a.u, a.v) = Least(p, n) /\ Greatest(a.u, a.v) = Greatest(p, n)
      /\ Ends(a) = {p, n}
  BY <1>1 DEF Neighbor, Least, Greatest, Ends
<1>3. /\ m \in Nat /\ m # p
      /\ Least(b.u, b.v) = Least(p, m) /\ Greatest(b.u, b.v) = Greatest(p, m)
      /\ Ends(b) = {p, m}
  BY <1>1 DEF Neighbor, Least, Greatest, Ends
<1>4. Ends(a) = Ends(b) <=> n = m
  BY <1>2, <1>3
<1> HIDE DEF n, m
<1>5. (\/ Least(p, n) < Least(p, m)
       \/ Least(p, n) = Least(p, m) /\ Greatest(p, n) < Greatest(p, m)) <=> n < m
  BY <1>2, <1>3 DEF Least, Greatest
<1>6. n = m => Least(p, n) = Least(p, m) /\ ~(Greatest(p, n) < Greatest(p, m))
  BY <1>2, <1>3 DEF Least, Greatest
<1>7. Precedes(a, b) <=>
        \/ Affinity(a) > Affinity(b)
        \/ /\ Affinity(a) = Affinity(b)
           /\ n < m \/ (n = m /\ a.u < b.u)
  BY <1>2, <1>3, <1>4, <1>5, <1>6 DEF Precedes
<1>8. QED
  BY <1>7 DEF SortedBefore, n, m

\* So a row has one rank.
LEMMA RanksAgree ==
    ASSUME NEW rows, \A row \in rows : IsRow(row), NEW row \in rows, NEW p \in Ends(row)
    PROVE  RankFor(rows, p, row) = Position(rows, p, row)
<1>1. {r \in rows : p \in Ends(r) /\ Precedes(r, row)}
        = {r \in rows : p \in Ends(r) /\ SortedBefore(p, r, row)}
  BY OrdersAgree
<1>2. QED
  BY <1>1, Zenon DEF RankFor, Position

\* The ranks a parameter retains are the positions of its first rows.
LEMMA RetainedIs ==
    ASSUME NEW rows, \A row \in rows : IsRow(row), NEW p, NEW topK
    PROVE  RetainedRanks(rows, p, topK) =
             {[neighbor |-> Neighbor(r, p), rank |-> Position(rows, p, r)] :
                r \in {x \in rows : p \in Ends(x) /\ Position(rows, p, x) <= Greatest(topK, 1)}}
<1> DEFINE kept == {r \in rows : p \in Ends(r) /\ Position(rows, p, r) <= Greatest(topK, 1)}
           some == {r \in rows : p \in Ends(r) /\ RankFor(rows, p, r) <= Greatest(topK, 1)}
<1>1. \A r \in rows : p \in Ends(r) => RankFor(rows, p, r) = Position(rows, p, r)
  BY RanksAgree
<1>2. kept = some /\ \A r \in kept : RankFor(rows, p, r) = Position(rows, p, r)
  BY <1>1
<1>3. RetainedRanks(rows, p, topK)
        = {[neighbor |-> Neighbor(r, p), rank |-> RankFor(rows, p, r)] : r \in some}
  BY DEF RetainedRanks
<1> HIDE DEF kept, some
<1>4. {[neighbor |-> Neighbor(r, p), rank |-> RankFor(rows, p, r)] : r \in kept}
        = {[neighbor |-> Neighbor(r, p), rank |-> Position(rows, p, r)] : r \in kept}
  BY <1>2
<1>5. QED
  BY <1>2, <1>3, <1>4 DEF kept

\* A retained rank is the position of a row between the two.
LEMMA RetainedFrom ==
    ASSUME NEW rows, \A row \in rows : IsRow(row), NEW p, NEW topK,
           NEW a \in RetainedRanks(rows, p, topK)
    PROVE  \E r \in rows : /\ p \in Ends(r) /\ a.neighbor = Neighbor(r, p)
                           /\ Ends(r) = {p, a.neighbor} /\ a.rank = Position(rows, p, r)
                           /\ Position(rows, p, r) <= Greatest(topK, 1)
<1>1. PICK r \in rows : /\ p \in Ends(r) /\ Position(rows, p, r) <= Greatest(topK, 1)
                        /\ a = [neighbor |-> Neighbor(r, p), rank |-> Position(rows, p, r)]
  BY RetainedIs
<1>2. Ends(r) = {p, Neighbor(r, p)}
  BY <1>1 DEF Ends, Neighbor
<1>3. QED
  BY <1>1, <1>2

\* The same neighbors are kept.
LEMMA KeptAre ==
    ASSUME NEW rows, \A row \in rows : IsRow(row), NEW p, NEW topK, NEW q
    PROVE  q \in KeptNeighbors(rows, p, topK) <=>
                \E a \in RetainedRanks(rows, p, topK) : a.neighbor = q
<1> DEFINE kept == {r \in rows : p \in Ends(r) /\ Position(rows, p, r) <= Greatest(topK, 1)}
           For(r) == [neighbor |-> Neighbor(r, p), rank |-> Position(rows, p, r)]
<1>1. KeptNeighbors(rows, p, topK) = {Neighbor(r, p) : r \in kept}
  BY DEF KeptNeighbors
<1>2. RetainedRanks(rows, p, topK) = {For(r) : r \in kept}
  BY RetainedIs
<1>3. \A r : For(r).neighbor = Neighbor(r, p)
  OBVIOUS
<1> HIDE DEF kept, For
<1>4. QED
  BY <1>1, <1>2, <1>3

\* Two parameters keep one another in one builder as in the other.
LEMMA MutualIs ==
    ASSUME NEW rows, \A row \in rows : IsRow(row), NEW p, NEW q, NEW topK
    PROVE  MutualRanks(rows, p, q, topK) # {} <=>
                q \in KeptNeighbors(rows, p, topK) /\ p \in KeptNeighbors(rows, q, topK)
<1> DEFINE mine == {x \in RetainedRanks(rows, p, topK) : x.neighbor = q}
           theirs == {x \in RetainedRanks(rows, q, topK) : x.neighbor = p}
<1>1. q \in KeptNeighbors(rows, p, topK) <=> mine # {}
  BY KeptAre
<1>2. p \in KeptNeighbors(rows, q, topK) <=> theirs # {}
  BY KeptAre
<1>3. MutualRanks(rows, p, q, topK) = {<<a.rank, b.rank>> : a \in mine, b \in theirs}
  BY DEF MutualRanks
<1> HIDE DEF mine, theirs
<1> DEFINE both == {<<a.rank, b.rank>> : a \in mine, b \in theirs}
<1>4. ASSUME mine # {}, theirs # {} PROVE both # {}
  <2>1. PICK a \in mine, b \in theirs : TRUE
    BY <1>4
  <2>2. <<a.rank, b.rank>> \in both
    OBVIOUS
  <2> HIDE DEF both
  <2>3. QED
    BY <2>2
<1>5. ASSUME both # {} PROVE mine # {} /\ theirs # {}
  <2>1. PICK a \in mine, b \in theirs : TRUE
    BY <1>5
  <2>2. QED
    BY <2>1
<1>6. QED
  BY <1>1, <1>2, <1>3, <1>4, <1>5

\* What the builders make of a row they keep.
Entry(row, ranks) ==
    [min |-> Least(row.u, row.v), max |-> Greatest(row.u, row.v), ranks |-> ranks, row |-> row]
Mutual(rows, row, topK) ==
    MutualRanks(rows, Least(row.u, row.v), Greatest(row.u, row.v), topK)
NeighborRanks(rows, row) ==
    <<NeighborRank(rows, Least(row.u, row.v), Greatest(row.u, row.v)),
      NeighborRank(rows, Greatest(row.u, row.v), Least(row.u, row.v))>>
Kept(rows, row, topK, profile) ==
    Mutual(rows, row, topK) # {} /\ IsCompatible(profile, row.u, row.v)

\* Compatibility does not depend on the order of two parameters.
LEMMA CompatibleIsSymmetric ==
    ASSUME NEW profile, NEW row
    PROVE  IsCompatible(profile, Least(row.u, row.v), Greatest(row.u, row.v))
             <=> IsCompatible(profile, row.u, row.v)
<1>1. \A p, q : IsCompatible(profile, p, q) <=> IsCompatible(profile, q, p)
  BY DEF IsCompatible, Agree
<1>2. QED
  BY <1>1 DEF Least, Greatest

\* The rows Spark keeps, once for each pair of ranks.
LEMMA SparkKeeps ==
    ASSUME NEW rows, NEW topK, NEW profile
    PROVE  LET kept == EvidenceRows(RetainedRows(rows, topK), profile)
           IN  /\ \A x \in kept : \E row \in rows : \E ranks \in Mutual(rows, row, topK) :
                    x = Entry(row, ranks) /\ Kept(rows, row, topK, profile)
               /\ \A row \in rows : \A ranks \in Mutual(rows, row, topK) :
                    Kept(rows, row, topK, profile) => Entry(row, ranks) \in kept
<1> DEFINE kept == EvidenceRows(RetainedRows(rows, topK), profile)
<1>1. RetainedRows(rows, topK)
        = UNION {{Entry(row, ranks) : ranks \in Mutual(rows, row, topK)} : row \in rows}
  BY DEF RetainedRows, Entry, Mutual
<1>2. kept = {x \in RetainedRows(rows, topK) : IsCompatible(profile, x.min, x.max)}
  BY DEF EvidenceRows
<1>3. \A row, ranks : IsCompatible(profile, Entry(row, ranks).min, Entry(row, ranks).max)
                        <=> IsCompatible(profile, row.u, row.v)
  BY CompatibleIsSymmetric DEF Entry
<1>4. ASSUME NEW x \in kept
      PROVE  \E row \in rows : \E ranks \in Mutual(rows, row, topK) :
                x = Entry(row, ranks) /\ Kept(rows, row, topK, profile)
  <2>1. PICK row \in rows : x \in {Entry(row, ranks) : ranks \in Mutual(rows, row, topK)}
    BY <1>1, <1>2
  <2>2. PICK ranks \in Mutual(rows, row, topK) : x = Entry(row, ranks)
    BY <2>1
  <2>3. Kept(rows, row, topK, profile)
    BY <1>2, <1>3, <2>2 DEF Kept
  <2>4. QED
    BY <2>2, <2>3
<1>5. ASSUME NEW row \in rows, NEW ranks \in Mutual(rows, row, topK),
             Kept(rows, row, topK, profile)
      PROVE  Entry(row, ranks) \in kept
  <2>1. Entry(row, ranks) \in RetainedRows(rows, topK)
    BY <1>1
  <2>2. QED
    BY <1>2, <1>3, <1>5, <2>1 DEF Kept
<1>6. QED
  BY <1>4, <1>5

\* The rows pandas keeps: the same, with the last of their ranks.
LEMMA PandasKeeps ==
    ASSUME NEW rows, \A row \in rows : IsRow(row), NEW topK, NEW profile
    PROVE  RetainedEdgeRows(rows, topK, profile)
             = {Entry(row, NeighborRanks(rows, row)) :
                  row \in {r \in rows : Kept(rows, r, topK, profile)}}
<1>1. ASSUME NEW row \in rows
      PROVE  /\ row.v \in KeptNeighbors(rows, row.u, topK)
             /\ row.u \in KeptNeighbors(rows, row.v, topK)
             <=> Mutual(rows, row, topK) # {}
  <2>1. \/ Least(row.u, row.v) = row.u /\ Greatest(row.u, row.v) = row.v
        \/ Least(row.u, row.v) = row.v /\ Greatest(row.u, row.v) = row.u
    BY DEF Least, Greatest
  <2>2. QED
    BY <2>1, MutualIs DEF Mutual
<1>2. {r \in rows : /\ r.v \in KeptNeighbors(rows, r.u, topK)
                    /\ r.u \in KeptNeighbors(rows, r.v, topK)
                    /\ IsCompatible(profile, r.u, r.v)}
        = {r \in rows : Kept(rows, r, topK, profile)}
  BY <1>1 DEF Kept
<1>3. QED
  BY <1>2, Zenon DEF RetainedEdgeRows, Entry, NeighborRanks

\* A row that is alone between its ends has one pair of ranks.
LEMMA RankOfOne ==
    ASSUME NEW rows, IsFiniteSet(rows), \A row \in rows : IsRow(row), NEW r \in rows,
           \A s \in rows : Ends(s) = Ends(r) => s = r, NEW p, NEW q, Ends(r) = {p, q}
    PROVE  NeighborRank(rows, p, q) = Position(rows, p, r)
<1>1. {x \in rows : Ends(x) = {p, q}} = {r}
  OBVIOUS
<1>2. NeighborRank(rows, p, q) = Max({Position(rows, p, x) : x \in {r}})
  BY <1>1, Zenon DEF NeighborRank
<1>3. {Position(rows, p, x) : x \in {r}} = {Position(rows, p, r)}
  OBVIOUS
<1> DEFINE ahead == {x \in rows : p \in Ends(x) /\ SortedBefore(p, x, r)}
<1>4. ahead \in SUBSET rows
  OBVIOUS
<1>5. Cardinality(ahead) \in Nat
  BY <1>4, FS_Subset, FS_CardinalityType
<1>6. Position(rows, p, r) = 1 + Cardinality(ahead)
  BY DEF Position
<1> HIDE DEF ahead
<1>7. Position(rows, p, r) \in Int
  BY <1>5, <1>6
<1>8. \A n \in Int : Max({n}) = n
  BY DEF Max
<1>9. QED
  BY <1>2, <1>3, <1>7, <1>8

\* So both its ranks are those that pandas gives its ends.
LEMMA RanksOfOne ==
    ASSUME NEW rows, IsFiniteSet(rows), \A row \in rows : IsRow(row), NEW r \in rows,
           \A s \in rows : Ends(s) = Ends(r) => s = r, NEW topK,
           NEW ranks \in Mutual(rows, r, topK)
    PROVE  ranks = NeighborRanks(rows, r)
<1> DEFINE p == Least(r.u, r.v)
           q == Greatest(r.u, r.v)
<1>1. Ends(r) = {p, q} /\ Ends(r) = {q, p}
  BY DEF Ends, Least, Greatest
<1>2. /\ ranks \in MutualRanks(rows, p, q, topK)
      /\ NeighborRanks(rows, r) = <<NeighborRank(rows, p, q), NeighborRank(rows, q, p)>>
  BY DEF Mutual, NeighborRanks
<1> HIDE DEF p, q
<1>3. PICK a \in RetainedRanks(rows, p, topK), b \in RetainedRanks(rows, q, topK) :
        a.neighbor = q /\ b.neighbor = p /\ ranks = <<a.rank, b.rank>>
  BY <1>2 DEF MutualRanks
<1>4. a.rank = Position(rows, p, r)
  <2>1. PICK s \in rows : /\ p \in Ends(s) /\ a.neighbor = Neighbor(s, p)
                          /\ Ends(s) = {p, a.neighbor} /\ a.rank = Position(rows, p, s)
                          /\ Position(rows, p, s) <= Greatest(topK, 1)
    BY RetainedFrom, Zenon
  <2>2. s = r
    BY <1>1, <1>3, <2>1
  <2>3. QED
    BY <2>1, <2>2
<1>5. b.rank = Position(rows, q, r)
  <2>1. PICK s \in rows : /\ q \in Ends(s) /\ b.neighbor = Neighbor(s, q)
                          /\ Ends(s) = {q, b.neighbor} /\ b.rank = Position(rows, q, s)
                          /\ Position(rows, q, s) <= Greatest(topK, 1)
    BY RetainedFrom, Zenon
  <2>2. s = r
    BY <1>1, <1>3, <2>1
  <2>3. QED
    BY <2>1, <2>2
<1>6. NeighborRank(rows, p, q) = Position(rows, p, r)
  BY <1>1, RankOfOne
<1>7. NeighborRank(rows, q, p) = Position(rows, q, r)
  BY <1>1, RankOfOne
<1>8. QED
  BY <1>2, <1>3, <1>4, <1>5, <1>6, <1>7

\* Of the rows that are alone between their ends, both keep the same.
Lonely(rows, x) == Cardinality({r \in rows : Ends(r) = {x.min, x.max}}) = 1

\* An entry is alone between its ends if its row is.
LEMMA LonelyIs ==
    ASSUME NEW rows, IsFiniteSet(rows), NEW row \in rows, NEW ranks,
           Lonely(rows, Entry(row, ranks))
    PROVE  \A s \in rows : Ends(s) = Ends(row) => s = row
<1> DEFINE twins == {r \in rows : Ends(r) = Ends(row)}
<1>1. {Entry(row, ranks).min, Entry(row, ranks).max} = Ends(row)
  BY DEF Entry, Least, Greatest, Ends
<1>2. Cardinality(twins) = 1
  BY <1>1 DEF Lonely
<1>3. IsFiniteSet(twins) /\ row \in twins
  BY FS_Subset
<1>4. PICK x : twins = {x}
  BY <1>2, <1>3, FS_Singleton
<1>5. QED
  BY <1>3, <1>4

Agreement(rows, spark, pandas) ==
    /\ {x.row : x \in spark} = {x.row : x \in pandas}
    /\ {x \in spark : Lonely(rows, x)} = {x \in pandas : Lonely(rows, x)}
    /\ \A x \in spark : x.row \in rows /\ {x.min, x.max} = Ends(x.row)
    /\ \A x \in pandas : x.row \in rows

\* The builders keep the same rows, and the same ranks of lonely ones.
LEMMA EvidenceAgrees ==
    ASSUME NEW rows, IsFiniteSet(rows), \A row \in rows : IsRow(row), NEW topK, NEW profile
    PROVE  Agreement(rows, EvidenceRows(RetainedRows(rows, topK), profile),
                     RetainedEdgeRows(rows, topK, profile))
<1> DEFINE spark == EvidenceRows(RetainedRows(rows, topK), profile)
           pandas == RetainedEdgeRows(rows, topK, profile)
<1>1. \A x \in spark : \E row \in rows : \E ranks \in Mutual(rows, row, topK) :
          x = Entry(row, ranks) /\ Kept(rows, row, topK, profile)
  BY SparkKeeps
<1>2. \A row \in rows : \A ranks \in Mutual(rows, row, topK) :
          Kept(rows, row, topK, profile) => Entry(row, ranks) \in spark
  BY SparkKeeps
<1>3. pandas = {Entry(row, NeighborRanks(rows, row)) :
                  row \in {r \in rows : Kept(rows, r, topK, profile)}}
  BY PandasKeeps
<1> HIDE DEF spark, pandas
<1>4. \A row, ranks : /\ Entry(row, ranks).row = row
                      /\ {Entry(row, ranks).min, Entry(row, ranks).max} = Ends(row)
  BY DEF Entry, Least, Greatest, Ends
<1>5. \A x \in pandas : \E row \in rows :
          x = Entry(row, NeighborRanks(rows, row)) /\ Kept(rows, row, topK, profile)
  BY <1>3
<1>6. \A row \in rows : Kept(rows, row, topK, profile) =>
          Entry(row, NeighborRanks(rows, row)) \in pandas
  BY <1>3
<1>7. \A row \in rows : Kept(rows, row, topK, profile) => \E ranks : ranks \in Mutual(rows, row, topK)
  BY DEF Kept
<1>8. \A x \in spark : x.row \in rows /\ {x.min, x.max} = Ends(x.row)
                       /\ Kept(rows, x.row, topK, profile)
  BY <1>1, <1>4
<1>9. \A x \in pandas : x.row \in rows /\ Kept(rows, x.row, topK, profile)
  BY <1>4, <1>5
<1>10. \A row \in rows : Kept(rows, row, topK, profile) =>
          (\E x \in spark : x.row = row) /\ (\E x \in pandas : x.row = row)
  BY <1>2, <1>4, <1>6, <1>7
<1>11. {x.row : x \in spark} = {x.row : x \in pandas}
  BY <1>8, <1>9, <1>10
<1>12. ASSUME NEW x \in spark, Lonely(rows, x)
       PROVE  x \in pandas
  <2>1. PICK row \in rows : \E ranks \in Mutual(rows, row, topK) :
          x = Entry(row, ranks) /\ Kept(rows, row, topK, profile)
    BY <1>1
  <2>2. PICK ranks \in Mutual(rows, row, topK) :
          x = Entry(row, ranks) /\ Kept(rows, row, topK, profile)
    BY <2>1
  <2>3. \A s \in rows : Ends(s) = Ends(row) => s = row
    BY <1>12, <2>2, LonelyIs
  <2>4. ranks = NeighborRanks(rows, row)
    BY <2>3, RanksOfOne
  <2>5. QED
    BY <1>6, <2>2, <2>4
<1>13. ASSUME NEW x \in pandas, Lonely(rows, x)
       PROVE  x \in spark
  <2>1. PICK row \in rows :
          x = Entry(row, NeighborRanks(rows, row)) /\ Kept(rows, row, topK, profile)
    BY <1>5
  <2>2. PICK ranks : ranks \in Mutual(rows, row, topK)
    BY <1>7, <2>1
  <2>3. \A s \in rows : Ends(s) = Ends(row) => s = row
    BY <1>13, <2>1, LonelyIs
  <2>4. ranks = NeighborRanks(rows, row)
    BY <2>2, <2>3, RanksOfOne
  <2>5. QED
    BY <1>2, <2>1, <2>2, <2>4
<1>14. {x \in spark : Lonely(rows, x)} = {x \in pandas : Lonely(rows, x)}
  BY <1>12, <1>13
<1>15. QED
  BY <1>8, <1>9, <1>11, <1>14, Zenon DEF Agreement, spark, pandas

\* Edges between the same ends connect the same nodes.
Within(edges, nodes) == \A e \in edges : e.left \in nodes /\ e.right \in nodes
Likewise(E, F) ==
    \A e \in E : \E f \in F : f.weight = e.weight /\ {f.left, f.right} = {e.left, e.right}

\* Edges of the same ends and weights have the same components.
LEMMA SameLinks ==
    ASSUME NEW nodes, IsFiniteSet(nodes), NEW E, NEW F, NEW minWeight,
           Within(E, nodes), Within(F, nodes), Likewise(E, F), Likewise(F, E)
    PROVE  Components(nodes, E, minWeight) = Components(nodes, F, minWeight)
<1> DEFINE strong == Strong(E, minWeight)
           other == Strong(F, minWeight)
           G == Components(nodes, E, minWeight)
           H == Components(nodes, F, minWeight)
<1>1. /\ \A e \in strong : \E f \in other : {f.left, f.right} = {e.left, e.right}
      /\ \A f \in other : \E e \in strong : {f.left, f.right} = {e.left, e.right}
  BY DEF Strong, Likewise
<1>2. /\ Splits(G, nodes) /\ Connected(G, nodes, strong) /\ Joined(G, strong)
      /\ Splits(H, nodes) /\ Connected(H, nodes, other) /\ Joined(H, other)
  BY ComponentsConnect DEF Within
<1> HIDE DEF strong, other, G, H
<1>3. \A S \in SUBSET nodes : IsCut(S, strong) <=> IsCut(S, other)
  <2>1. ASSUME NEW S, IsCut(S, strong), NEW f \in other
        PROVE  f.left \in S <=> f.right \in S
    <3>1. PICK e \in strong : {f.left, f.right} = {e.left, e.right}
      BY <1>1
    <3>2. e.left \in S <=> e.right \in S
      BY <2>1 DEF IsCut
    <3>3. (f.left = e.left /\ f.right = e.right) \/ (f.left = e.right /\ f.right = e.left)
      BY <3>1
    <3>4. QED
      BY <3>2, <3>3
  <2>2. ASSUME NEW S, IsCut(S, other), NEW e \in strong
        PROVE  e.left \in S <=> e.right \in S
    <3>1. PICK f \in other : {f.left, f.right} = {e.left, e.right}
      BY <1>1
    <3>2. f.left \in S <=> f.right \in S
      BY <2>2 DEF IsCut
    <3>3. (f.left = e.left /\ f.right = e.right) \/ (f.left = e.right /\ f.right = e.left)
      BY <3>1
    <3>4. QED
      BY <3>2, <3>3
  <2>3. QED
    BY <2>1, <2>2 DEF IsCut
<1>4. Connected(H, nodes, strong)
  BY <1>2, <1>3 DEF Connected
<1>5. Joined(H, strong)
  <2>1. SUFFICES ASSUME NEW e \in strong PROVE Together(H, e.left, e.right)
    BY DEF Joined
  <2>2. PICK f \in other : {f.left, f.right} = {e.left, e.right}
    BY <1>1
  <2>3. Together(H, f.left, f.right)
    BY <1>2 DEF Joined
  <2>4. (f.left = e.left /\ f.right = e.right) \/ (f.left = e.right /\ f.right = e.left)
    BY <2>2
  <2>5. QED
    BY <2>3, <2>4 DEF Together
<1>6. G = H
  BY <1>2, <1>4, <1>5, GroupsAreUnique
<1>7. QED
  BY <1>6 DEF G, H

\* Whatever the order in which the edges were taken, the hierarchy is that of
\* the pandas builder, and so is the evidence (hierarchy_artifacts.py:114-566).
THEOREM BuildersStayInAgreement == Spec => []BuildersAgree
<1>1. ASSUME FitInv PROVE BuildersAgree
  <2> DEFINE retained == RetainedEdgeRows(Rows, settings.topK, settings.profile)
             pandasEdges == {[left |-> x.row.u, right |-> x.row.v,
                              weight |-> Affinity(x.row)] : x \in retained}
             sparkEdges == ModuleEdges(evidence)
  <2> HIDE DEF retained, pandasEdges, sparkEdges
  <2>1. SUFFICES ASSUME status = "done" PROVE BuildersAgree
    BY DEF BuildersAgree
  <2>2. Len(groupOf) = 3
    BY <1>1, <2>1 DEF FitInv, StatusInv
  <2>3. ModulesAre /\ SubsystemsAre /\ SystemsAre
    BY <1>1, <2>2 DEF FitInv, ResultInv
  <2>4. /\ IsFiniteSet(Rows) /\ \A row \in Rows : IsRow(row)
        /\ Parameters \in SUBSET Nat /\ IsFiniteSet(Parameters)
        /\ ModuleEdges(Retained) \in SUBSET Edges(Parameters)
    BY <1>1, RowsAre
  <2>5. evidence = EvidenceRows(RetainedRows(Rows, settings.topK), settings.profile)
    BY <2>3 DEF ModulesAre, Retained
  <2>6. /\ {x.row : x \in evidence} = {x.row : x \in retained}
        /\ {x \in evidence : Lonely(Rows, x)} = {x \in retained : Lonely(Rows, x)}
        /\ \A x \in evidence : x.row \in Rows /\ {x.min, x.max} = Ends(x.row)
        /\ \A x \in retained : x.row \in Rows
    <3>1. Agreement(Rows, EvidenceRows(RetainedRows(Rows, settings.topK), settings.profile),
                    RetainedEdgeRows(Rows, settings.topK, settings.profile))
      BY <2>4, EvidenceAgrees
    <3>2. Agreement(Rows, evidence, retained)
      BY <2>5, <3>1 DEF retained
    <3>3. QED
      BY <3>2, Zenon DEF Agreement
  <2>7. Components(Parameters, pandasEdges, settings.minWeight)
          = Components(Parameters, sparkEdges, settings.minWeight)
    <3>1. \A e \in sparkEdges : e.left \in Parameters /\ e.right \in Parameters
      BY <2>3, <2>4 DEF ModulesAre, Edges, sparkEdges
    <3>2. \A e \in pandasEdges : e.left \in Parameters /\ e.right \in Parameters
      BY <2>4, <2>6 DEF IsRow, pandasEdges
    <3>3. ASSUME NEW e \in sparkEdges
          PROVE  \E f \in pandasEdges : /\ f.weight = e.weight
                                        /\ {f.left, f.right} = {e.left, e.right}
      <4>1. PICK x \in evidence :
              e = [left |-> x.min, right |-> x.max, weight |-> Affinity(x.row)]
        BY DEF ModuleEdges, sparkEdges
      <4>2. PICK y \in retained : y.row = x.row
        BY <2>6
      <4> DEFINE f == [left |-> y.row.u, right |-> y.row.v, weight |-> Affinity(y.row)]
      <4>3. f \in pandasEdges
        BY DEF pandasEdges
      <4>4. f.weight = e.weight /\ {f.left, f.right} = {e.left, e.right}
        BY <2>6, <4>1, <4>2 DEF Ends
      <4> HIDE DEF f
      <4>5. QED
        BY <4>3, <4>4
    <3>4. ASSUME NEW f \in pandasEdges
          PROVE  \E e \in sparkEdges : /\ e.weight = f.weight
                                       /\ {e.left, e.right} = {f.left, f.right}
      <4>1. PICK y \in retained :
              f = [left |-> y.row.u, right |-> y.row.v, weight |-> Affinity(y.row)]
        BY DEF pandasEdges
      <4>2. PICK x \in evidence : x.row = y.row
        BY <2>6
      <4> DEFINE e == [left |-> x.min, right |-> x.max, weight |-> Affinity(x.row)]
      <4>3. e \in sparkEdges
        BY DEF ModuleEdges, sparkEdges
      <4>4. f.weight = e.weight /\ {f.left, f.right} = {e.left, e.right}
        BY <2>6, <4>1, <4>2 DEF Ends
      <4> HIDE DEF e
      <4>5. QED
        BY <4>3, <4>4
    <3>5. Likewise(sparkEdges, pandasEdges) /\ Likewise(pandasEdges, sparkEdges)
      BY <3>3, <3>4 DEF Likewise
    <3>6. Within(sparkEdges, Parameters) /\ Within(pandasEdges, Parameters)
      BY <3>1, <3>2 DEF Within
    <3>7. QED
      BY <2>4, <3>5, <3>6, SameLinks
  <2>8. Assigned(Rows, retained, settings.minWeight, SubsystemThreshold, SystemThreshold)
          = [p \in Parameters |-> HierarchyOf(p)]
    <3>1. groupOf[1] = GroupIds(Components(Parameters, pandasEdges, settings.minWeight))
      BY <2>3, <2>7, Zenon DEF ModulesAre, Grouping, sparkEdges
    <3>2. /\ Image(groupOf[1]) = {groupOf[1][p] : p \in Parameters}
          /\ Image(groupOf[2]) = {groupOf[2][m] : m \in DOMAIN groupOf[2]}
      BY <1>1, <2>2, SecondIs DEF Image
    <3>3. /\ SecondEdges = Rollup(RollupEdges(Rows), groupOf[1])
          /\ ThirdEdges = Rollup(SecondEdges, groupOf[2])
      BY DEF SecondEdges, ThirdEdges, FirstEdges
    <3>4. groupOf[2] = GroupIds(Components({groupOf[1][p] : p \in Parameters},
                           SecondEdges, SubsystemThreshold))
      BY <2>3, <3>2, Zenon DEF SubsystemsAre, Grouping
    <3>5. groupOf[3] = GroupIds(Components({groupOf[2][m] : m \in DOMAIN groupOf[2]},
                           ThirdEdges, SystemThreshold))
      BY <2>3, <3>2, Zenon DEF SystemsAre, Grouping
    <3>6. Assigned(Rows, retained, settings.minWeight, SubsystemThreshold, SystemThreshold)
            = [p \in Parameters |-> <<groupOf[3][groupOf[2][groupOf[1][p]]],
                                      groupOf[2][groupOf[1][p]], groupOf[1][p]>>]
      BY <3>1, <3>3, <3>4, <3>5, Zenon DEF Assigned, pandasEdges
    <3>7. \A p : HierarchyOf(p) = <<groupOf[3][groupOf[2][groupOf[1][p]]],
                                    groupOf[2][groupOf[1][p]], groupOf[1][p]>>
      BY DEF HierarchyOf
    <3>8. QED
      BY <3>6, <3>7, Zenon
  <2>9. QED
    BY <2>6, <2>8, Zenon DEF BuildersAgree, Rows, Lonely, retained
<1>2. QED
  BY <1>1, FitInvariant, PTL
=============================================================================
