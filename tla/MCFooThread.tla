---------------------------- MODULE MCFooThread -----------------------------
(***************************************************************************)
(* Instances of FooThread: client programs given as scripts.               *)
(***************************************************************************)
EXTENDS FooThreadProofs, TLC

CONSTANTS main, c1, c2, d1, d2

\* main creates a detached thread that creates another one, joins c1, then
\* creates c2 in the slot that c1 has left and joins it as well.
OneAtATime ==
    main :> <<d1, c1, Exit, c2, Exit>> @@ c1 :> <<Exit>> @@ c2 :> <<Exit>>
    @@ d1 :> <<d2>> @@ d2 :> << >>

\* The theorems about joins apply to this client.
ASSUME ClientAssumption == Tree /\ OneByOne

=============================================================================
