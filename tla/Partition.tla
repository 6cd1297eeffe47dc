------------------------------ MODULE Partition ------------------------------
(***************************************************************************)
(* What connected components promise: a partition of the nodes that starts  *)
(* from singletons and joins the two blocks of every edge that is strong    *)
(* enough, in whatever order the edges come.                                *)
(***************************************************************************)
EXTENDS Integers

VARIABLES
    nodes,      \* what is partitioned
    threshold,  \* the least weight of an edge that joins
    pending,    \* the edges [left, right, weight] still to be taken
    blocks      \* the partition

Singletons(S) == {{x} : x \in S}

Touching(e) == {b \in blocks : e.left \in b \/ e.right \in b}
JoinedBy(e) == (blocks \ Touching(e)) \cup {UNION Touching(e)}

Init == blocks = Singletons(nodes)

IsStrong(e) ==
    e.left \in nodes /\ e.right \in nodes /\ e.weight >= threshold

Take(e) ==
    /\ pending' = pending \ {e}
    /\ blocks' = IF IsStrong(e) THEN JoinedBy(e) ELSE blocks
    /\ UNCHANGED <<nodes, threshold>>

\* Another set of nodes, with edges of its own, is partitioned next.
Restart == pending = {} /\ blocks' = Singletons(nodes')

Next == (\E e \in pending : Take(e)) \/ Restart

Spec == Init /\ [][Next]_<<nodes, threshold, pending, blocks>>
=============================================================================
