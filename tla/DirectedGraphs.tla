-------------------------- MODULE DirectedGraphs --------------------------
(* Graphs, as sets of edges.  A cycle is a set of nodes that all reach one *)
(* another, or a node with an edge to itself.                              *)

Successors(E, S) == {e[2] : e \in {f \in E : f[1] \in S}}

Nodes(E)     == {e[1] : e \in E} \cup {e[2] : e \in E}
Closed(E, X) == Successors(E, X) \subseteq X

(* What paths of at least one edge lead to from v.                         *)
Beyond(E, v) ==
    {w \in Nodes(E) : \A X \in SUBSET Nodes(E) :
        Successors(E, {v}) \subseteq X /\ Closed(E, X) => w \in X}

Cycles(E) == {{w \in Beyond(E, v) : v \in Beyond(E, w)} : v \in Nodes(E)} \ {{}}

(* The same, computed.                                                     *)
Reachable(E, S) ==
    LET Grow[T \in SUBSET (S \cup {e[2] : e \in E})] ==
            IF Successors(E, T) \subseteq T THEN T ELSE Grow[T \cup Successors(E, T)]
    IN Grow[S]

CycleOf(E, v) ==
    {w \in Reachable(E, Successors(E, {v})) : v \in Reachable(E, Successors(E, {w}))}

CyclesFound(E) == {CycleOf(E, v) : v \in {e[1] : e \in E}} \ {{}}
=============================================================================
