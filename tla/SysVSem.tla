------------------------------ MODULE SysVSem ------------------------------
(***************************************************************************)
(* What semop(2) with one sembuf does to a System V semaphore, as the      *)
(* wait() and signal() macros of Assignment_07/foothread.c and the P() and *)
(* V() macros of Assignment_05/LA5 use it.  The kernel is external: the    *)
(* sources only rely on what is stated here.                               *)
(*                                                                         *)
(* The sources ignore the result of semop.  A semaphore that has been      *)
(* removed (IPC_RMID) makes every semop on it fail at once with EIDRM or   *)
(* EINVAL, so the caller goes on as if the operation had succeeded.        *)
(***************************************************************************)
EXTENDS Integers

\* The value standing for a semaphore that IPC_RMID has removed.
Removed == -1

\* The operation does not block: the semaphore can take it, or it is gone.
Ready(val, op) ==
    \/ val = Removed
    \/ op < 0 /\ val + op >= 0
    \/ op = 0 /\ val = 0
    \/ op > 0

\* The semaphore's value after an operation that was Ready.
Applied(val, op) == IF val = Removed THEN Removed ELSE val + op

=============================================================================
