---------------------------- MODULE TopoListing -----------------------------
(***************************************************************************)
(* What the boss of Assignment_05/LA5 wants of the team: the modules are   *)
(* listed one by one, each after the modules it depends on, and in the end *)
(* all of them are listed.                                                 *)
(***************************************************************************)
EXTENDS Naturals, Sequences

CONSTANTS Nodes

VARIABLES
    graph,      \* the precedence constraints, a set of pairs
    listing     \* the nodes listed so far, in order

vars == <<graph, listing>>

Listed == {listing[k] : k \in 1 .. Len(listing)}

Init == graph \in SUBSET (Nodes \X Nodes) /\ listing = << >>

List(w) ==
    /\ w \notin Listed
    /\ \A p \in Nodes : <<p, w>> \in graph /\ p # w => p \in Listed
    /\ listing' = Append(listing, w)
    /\ UNCHANGED graph

Next == \E w \in Nodes : List(w)

Spec == Init /\ [][Next]_vars /\ WF_vars(Next)

=============================================================================
