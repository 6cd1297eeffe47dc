------------------------------ MODULE UnionFind ------------------------------
(***************************************************************************)
(* The disjoint sets of libs/graph/hierarchy.py: a forest of parent links,  *)
(* find with path compression, union by rank.  The loops that walk up the   *)
(* links are stated by the set of nodes they visit.                         *)
(***************************************************************************)
EXTENDS Integers

\* Each node starts as the root of its own tree.
Alone(nodes) == [x \in nodes |-> x]
Flat(nodes) == [x \in nodes |-> 0]

\* What contains the parent of each of its members.
IsClosed(parent, S) == \A y \in S : parent[y] \in S

\* The nodes the walk from x visits: those in every closed set with x.
Ancestors(parent, x) ==
    {y \in DOMAIN parent :
        \A S \in SUBSET DOMAIN parent :
            x \in S /\ IsClosed(parent, S) => y \in S}

Root(parent, x) == CHOOSE r \in Ancestors(parent, x) : parent[r] = r

\* find(x) leaves every node of the walk directly under the root.
Compressed(parent, x) ==
    [y \in DOMAIN parent |->
        IF y \in Ancestors(parent, x) THEN Root(parent, x) ELSE parent[y]]

\* union(l, r) runs both finds; of two roots the left one wins a tie.
Found(parent, l, r) == Compressed(Compressed(parent, l), r)
LeftWins(parent, rank, l, r) ==
    rank[Root(parent, l)] >= rank[Root(parent, r)]
Winner(parent, rank, l, r) ==
    Root(parent, IF LeftWins(parent, rank, l, r) THEN l ELSE r)
Loser(parent, rank, l, r) ==
    Root(parent, IF LeftWins(parent, rank, l, r) THEN r ELSE l)

\* As if a node were linked instead of the root of its tree.
LinkedNode(parent, rank, l, r) ==
    [Found(parent, l, r) EXCEPT
        ![IF LeftWins(parent, rank, l, r) THEN r ELSE l] =
            Winner(parent, rank, l, r)]

\* As if ranks were never raised.
RaisedNever(parent, rank, l, r) == rank

\* A link of equals, and only that one, raises the rank of the winner.
Linked(parent, rank, l, r) ==
    [Found(parent, l, r) EXCEPT
        ![Loser(parent, rank, l, r)] = Winner(parent, rank, l, r)]
Raised(parent, rank, l, r) ==
    IF /\ Root(parent, l) # Root(parent, r)
       /\ rank[Root(parent, l)] = rank[Root(parent, r)]
    THEN [rank EXCEPT ![Root(parent, l)] = @ + 1]
    ELSE rank

\* The members of the tree of x, and the trees.
ClassOf(parent, x) ==
    {y \in DOMAIN parent : Root(parent, y) = Root(parent, x)}
Classes(parent) == {ClassOf(parent, x) : x \in DOMAIN parent}
=============================================================================
