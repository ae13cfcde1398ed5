------------------------------- MODULE Stream -------------------------------
(***************************************************************************)
(* What the command shell promises to the user who types at two terminals: *)
(* the pieces of lines he has typed are handled one at a time and in the   *)
(* order he typed them, and all of them are, unless a process is lost.     *)
(***************************************************************************)
EXTENDS Naturals

VARIABLES
    typed,          \* how many have been typed
    handled,        \* how many of them have been handled
    lost            \* a process is lost: nothing is handled any more

vars == <<typed, handled, lost>>

Init == typed = 0 /\ handled = 0 /\ lost = FALSE

Type == typed' = typed + 1 /\ UNCHANGED <<handled, lost>>

Handle ==
    /\ ~lost /\ handled < typed
    /\ handled' = handled + 1
    /\ UNCHANGED <<typed, lost>>

Lose == lost' = TRUE /\ UNCHANGED <<typed, handled>>

Next == Type \/ Handle \/ Lose

Spec == Init /\ [][Next]_vars /\ WF_vars(Handle)

=============================================================================
