---------------------------- MODULE PhaseBarrier ----------------------------
(***************************************************************************)
(* What a barrier promises to a group of threads that go through Phases    *)
(* phases together: a thread leaves the barrier of a phase only after      *)
(* every thread has arrived at it, and every thread ends its phases.       *)
(***************************************************************************)
EXTENDS Naturals

CONSTANTS Threads, Phases

VARIABLES
    arrived,    \* thread -> number of barriers it has arrived at
    left        \* thread -> number of barriers it has left

vars == <<arrived, left>>

Init == arrived = [t \in Threads |-> 0] /\ left = [t \in Threads |-> 0]

Arrive(t) ==
    /\ arrived[t] = left[t] /\ arrived[t] < Phases
    /\ arrived' = [arrived EXCEPT ![t] = @ + 1]
    /\ UNCHANGED left

Leave(t) ==
    /\ left[t] < arrived[t]
    /\ \A u \in Threads : arrived[u] >= arrived[t]
    /\ left' = [left EXCEPT ![t] = @ + 1]
    /\ UNCHANGED arrived

Next == \E t \in Threads : Arrive(t) \/ Leave(t)

Spec == Init /\ [][Next]_vars

\* Every thread is through its phases.
Ended == \A t \in Threads : left[t] = Phases

=============================================================================
