----------------------------- MODULE TopoCheck ------------------------------
(***************************************************************************)
(* isTopologicalSortValid of Assignment_05/LA5/boss.c, for a graph on the  *)
(* nodes 0 .. N-1 given as a set of edges (the 1 entries of the matrix).   *)
(***************************************************************************)
EXTENDS Integers, FiniteSets

CONSTANT N

ASSUME NAssumption == N \in Nat \ {0}

Nodes == 0 .. N - 1

\* The in-degrees when T[0] .. T[k-1] have been taken away, repetitions
\* counted as often as they occur.
InDegree(graph, T, k) ==
    [j \in Nodes |-> Cardinality({i \in Nodes : <<i, j>> \in graph})
                     - Cardinality({i \in 0 .. k - 1 : <<T[i], j>> \in graph})]

\* Mutant: the in-degrees are not lowered.
IsTopologicalSortValid_Static(graph, T) ==
    \A k \in Nodes : InDegree(graph, T, 0)[T[k]] = 0

IsTopologicalSortValid(graph, T) ==
    \A k \in Nodes : InDegree(graph, T, k)[T[k]] = 0

\* The reference: every node occurs, after all its predecessors.
IsTopologicalSort(graph, T) ==
    /\ \A w \in Nodes : \E k \in Nodes : T[k] = w
    /\ \A k, l \in Nodes : <<T[k], T[l]>> \in graph => k < l

=============================================================================
