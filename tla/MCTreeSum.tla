----------------------------- MODULE MCTreeSum ------------------------------
(***************************************************************************)
(* An instance of TreeSum for TLC: a root with the value 0 and one leaf    *)
(* with the value 5.                                                       *)
(***************************************************************************)
EXTENDS TreeSum, TLC

RootAndLeaf == (0 :> -1) @@ (1 :> 0)
FiveInLeaf == (0 :> 0) @@ (1 :> 5)

=============================================================================
