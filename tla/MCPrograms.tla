----------------------------- MODULE MCPrograms -----------------------------
(***************************************************************************)
(* The small concurrent programs of the repository, and the library's      *)
(* barriers in the use of MCFooBarrier, checked together: a behaviour is   *)
(* one of the program that subject names, and the state of the others      *)
(* stays as it is.  The programs do not interact; one run for all of them  *)
(* saves a configuration for each.                                         *)
(***************************************************************************)
EXTENDS MCFooBarrier, Programs

VARIABLE subject

\* Lines of one piece and lines of two.
TypedLines ==
    {<<"command">>, <<"command", "command">>, <<"swaprole">>, <<"command", "swaprole">>, <<"exit">>}

\* Two entries of the root, one of them perhaps a directory with an entry.
TwoLevels == {<<>>, <<"a">>, <<"b">>, <<"a", "a">>}

\* A root with the value 0 and one leaf with the value 5.
RootAndLeaf == (0 :> -1) @@ (1 :> 0)
FiveInLeaf == (0 :> 0) @@ (1 :> 5)

ASSUME
    /\ Sh!LinesAssumption /\ Box!MailboxAssumption /\ Buf!BufferAssumption
    /\ Rendezvous!RendezvousAssumption /\ Sync!PathsAssumption /\ Sum!TreeAssumption

-----------------------------------------------------------------------------

AnyInit ==
    /\ subject \in {"barrier", "shell", "mailbox", "buffer", "rendezvous", "sync", "sum"}
    /\ Init /\ Sh!Init /\ Box!Init /\ Buf!Init /\ Rendezvous!Init /\ Sync!Init /\ Sum!Init
    /\ subject # "sync" => \A p \in TwoLevels : src[p].kind = "none" /\ dst[p].kind = "none"

shellVars == <<super, mode, sh_at, buff, stdin, pipe, sent, handled>>
mailboxVars == <<M0, M1, producer, mb_i, c, forked, num_items, consumer, mb_count, mb_item>>
bufferVars == <<main, buffer, bb_count, bb_i, bb_at, consumed, bb_spurious>>
rendezvousVars ==
    <<master, next, rv_at, donemutex, csmutex, mdone, wdone, rv_A, rv_C, rv_i, rv_s, rv_count,
      rv_spurious>>
syncVars == <<src, dst, place, sd_item, stack, runs, errors, unnoticed>>
sumVars ==
    <<pop, ts_vop, sem, owner, status, ts_reached, entered, sum, ts_at, want, ts_reg, ended, mixed,
    printed>>

AllVars ==
    <<subject, vars, shellVars, mailboxVars, bufferVars, rendezvousVars, syncVars, sumVars>>

\* Nothing changes but the state of the subject.
OthersStay ==
    /\ UNCHANGED subject
    /\ IF subject = "barrier" THEN TRUE ELSE UNCHANGED vars
    /\ IF subject = "shell" THEN TRUE ELSE UNCHANGED shellVars
    /\ IF subject = "mailbox" THEN TRUE ELSE UNCHANGED mailboxVars
    /\ IF subject = "buffer" THEN TRUE ELSE UNCHANGED bufferVars
    /\ IF subject = "rendezvous" THEN TRUE ELSE UNCHANGED rendezvousVars
    /\ IF subject = "sync" THEN TRUE ELSE UNCHANGED syncVars
    /\ IF subject = "sum" THEN TRUE ELSE UNCHANGED sumVars

AnyNext ==
    \/ subject = "barrier" /\ Next /\ OthersStay
    \/ subject = "shell" /\ Sh!Next /\ OthersStay
    \/ subject = "mailbox" /\ Box!Next /\ OthersStay
    \/ subject = "buffer" /\ Buf!Next /\ OthersStay
    \/ subject = "rendezvous" /\ Rendezvous!Next /\ OthersStay
    \/ subject = "sync" /\ Sync!Next /\ OthersStay
    \/ subject = "sum" /\ Sum!Next /\ OthersStay

\* The steps that happen when they can: not those of a user or of the environment.
AnySystem ==
    \/ subject = "barrier" /\ Next /\ OthersStay
    \/ subject = "shell" /\ Sh!System /\ OthersStay
    \/ subject = "mailbox" /\ Box!Next /\ OthersStay
    \/ subject = "buffer" /\ Buf!System /\ OthersStay
    \/ subject = "rendezvous" /\ Rendezvous!System /\ OthersStay
    \/ subject = "sync" /\ Sync!Program /\ OthersStay
    \/ subject = "sum" /\ Sum!Next /\ OthersStay

\* While the subject can take a step of its own it takes some step.
AnySpec == AnyInit /\ [][AnyNext]_AllVars /\ WF_AllVars(AnySystem)

-----------------------------------------------------------------------------
(* What all programs have in common; their own properties are in Programs. *)

\* The programs end: all threads get through the phases of the barriers, and the
\* mailbox, the bounded buffer, the rendezvous and each run of the synchroniser
\* reach their ends, as does the tree sum unless its sembufs are mixed.  What ends
\* stays ended; the synchroniser may be run again.
ProgramsEnd ==
    []<>CASE subject = "barrier" -> Phase!Ended
          [] subject = "shell" -> TRUE
          [] subject = "mailbox" -> Box!Ended
          [] subject = "buffer" -> Buf!Ended
          [] subject = "rendezvous" -> Rendezvous!Ended
          [] subject = "sync" -> Sync!Ended
          [] subject = "sum" -> Sum!Ended

=============================================================================
