----------------------------- MODULE MCFooMutex -----------------------------
(***************************************************************************)
(* Instances of FooMutex for TLC, with its inductive invariant.            *)
(***************************************************************************)
EXTENDS FooMutexProofs, TLC

CONSTANT t1

\* The threads are interchangeable: what one of them is served, all are.
\* The property is stated for one because each of them takes TLC its time.
LockServedToOne == Served(t1)

=============================================================================
