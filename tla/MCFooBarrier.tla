---------------------------- MODULE MCFooBarrier ----------------------------
(***************************************************************************)
(* Instances of FooBarrier: threads that work in phases (all follow one    *)
(* plan), and the tree of waits that computesum.c builds.                  *)
(***************************************************************************)
EXTENDS FooBarrier, TLC

CONSTANTS t1, t2, t3, t4, b1, b2

\* Three threads alternate between two barriers.
TwoBarriers == [b \in {b1, b2} |-> 3]
Alternate == [t \in {t1, t2, t3} |-> <<b1, b2, b1>>]

\* computesum.c: t1 is the root (barrier b1) with the leaf t2 and the inner
\* node t3 (barrier b2), whose only child is the leaf t4.
TreeCount == (b1 :> 3) @@ (b2 :> 2)
Tree == (t1 :> <<b1>>) @@ (t2 :> <<b1>>) @@ (t3 :> <<b2, b1>>) @@ (t4 :> <<b2>>)

Symmetry == Permutations({t1, t2, t3})

=============================================================================
