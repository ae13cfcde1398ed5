----------------------------- MODULE MCTopoSort -----------------------------
(***************************************************************************)
(* Instances of TopoSort.                                                  *)
(***************************************************************************)
EXTENDS TopoSort

\* The acyclic graphs whose edges go up, as many as fit in the pairs.
Forward == {<<i, j>> \in Nodes \X Nodes : i < j}
ForwardGraphs == SUBSET Forward

\* The graphs that gengraph.c produces: acyclic, in any order of the nodes.
Orders == {p \in [Nodes -> Nodes] : \A v, w \in Nodes : p[v] = p[w] => v = w}
AcyclicGraphs ==
    UNION {SUBSET {<<v, w>> \in Nodes \X Nodes : p[v] < p[w]} : p \in Orders}

=============================================================================
