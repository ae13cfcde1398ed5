------------------------------ MODULE FooMutex ------------------------------
(***************************************************************************)
(* The mutexes of the foothread library (Assignment_07/foothread.c,        *)
(* foothread_mutex_*; Assignment_07/mutex.c is an earlier copy of the same *)
(* functions with a test program).                                         *)
(*                                                                         *)
(* Every mutex of a process is created with the key                        *)
(* ftok(".", getpid() ^ SEM_KEY), which does not depend on the mutex: all  *)
(* of them are one kernel semaphore, here the variable sem.  tid and       *)
(* status are per mutex and are written after the semaphore operation they *)
(* describe, so other threads run in between.                              *)
(*                                                                         *)
(* The sembufs pop and vop are globals shared by all threads.  Mutex calls *)
(* store only the values -1 and 1 in them, so the two stores that open a   *)
(* call are one step here.  The kernel copies the sembuf when semop is     *)
(* entered (op), not when the operation is granted.                        *)
(***************************************************************************)
EXTENDS SysVSem

CONSTANTS
    Threads,    \* the threads that call the library
    Mutexes,    \* the foothread_mutex_t objects of the program
    Nobody,     \* the tid of an unlocked mutex (-1 in the source)
    Habits      \* what the client program does, see ClientAssumption

ASSUME ClientAssumption ==
    /\ Nobody \notin Threads
    \* nested: locks a mutex while holding another one;
    \* misuse: unlocks mutexes it may not hold;
    \* late_init: initialises mutexes while threads already use others.
    /\ Habits \subseteq {"nested", "misuse", "late_init"}

VARIABLES
    pop, vop,   \* sem_op of the two shared sembufs
    op,         \* thread -> the sem_op the kernel copied for it
    sem,        \* value of the one semaphore behind all mutexes
    owner,      \* mutex -> mutex->tid
    status,     \* mutex -> mutex->status
    ready,      \* the mutexes that have been initialised
    gone,       \* the mutexes that have been destroyed
    pc,         \* thread -> its place in the library
    arg,        \* thread -> the mutex its current call is about
    held        \* thread -> the mutexes whose semaphore it has taken (history)

vars == <<pop, vop, op, sem, owner, status, ready, gone, pc, arg, held>>

Places == {"idle", "l_ops", "l_enter", "l_wait", "l_tid", "l_status",
           "u_ops", "u_tid", "u_status", "u_post", "u_cltid", "u_clstatus",
           "failed"}

\* A failed check calls exit(): the whole process ends.
Running == \A t \in Threads : pc[t] # "failed"

Goto(t, from, to) ==
    /\ Running
    /\ pc[t] = from
    /\ pc' = [pc EXCEPT ![t] = to]

Init ==
    /\ pop = 0 /\ vop = 0 /\ sem = 0
    /\ op = [t \in Threads |-> 0]
    /\ owner = [m \in Mutexes |-> Nobody]
    /\ status = [m \in Mutexes |-> 0]
    /\ ready = {} /\ gone = {}
    /\ pc = [t \in Threads |-> "idle"]
    /\ arg \in [Threads -> Mutexes] /\ \A t, u \in Threads : arg[t] = arg[u]
    /\ held = [t \in Threads |-> {}]

-----------------------------------------------------------------------------
(* foothread_mutex_init and foothread_mutex_destroy                        *)

MayInit(m) ==
    /\ Running /\ gone = {} /\ m \notin ready

\* Mutant: the semaphore is initialised to 2.
MutexInit_Two(m) ==
    /\ MayInit(m)
    /\ sem' = 2
    /\ owner' = [owner EXCEPT ![m] = Nobody]
    /\ status' = [status EXCEPT ![m] = 0]
    /\ ready' = ready \cup {m}
    /\ UNCHANGED <<pop, vop, op, gone, pc, arg, held>>

\* SETVAL 1 on the shared semaphore, then tid and status of this mutex.
\* Nobody uses m before it is initialised, so the stores are one step.
MutexInit(m) ==
    /\ MayInit(m)
    /\ sem' = 1
    /\ owner' = [owner EXCEPT ![m] = Nobody]
    /\ status' = [status EXCEPT ![m] = 0]
    /\ ready' = ready \cup {m}
    /\ UNCHANGED <<pop, vop, op, gone, pc, arg, held>>

\* IPC_RMID on the shared semaphore: the other mutexes lose theirs too, so
\* the client destroys its mutexes when it is done with all of them.
MutexDestroy(m) ==
    /\ Running /\ ready = Mutexes /\ m \notin gone
    /\ \A t \in Threads : pc[t] = "idle" /\ held[t] = {}
    /\ sem' = Removed
    /\ gone' = gone \cup {m}
    /\ UNCHANGED <<pop, vop, op, owner, status, ready, pc, arg, held>>

-----------------------------------------------------------------------------
(* The client: which calls a thread may make                               *)

\* A program that is not late initialises everything before it goes on.
Usable(m) ==
    /\ m \in ready /\ gone = {}
    /\ "late_init" \in Habits \/ ready = Mutexes

CallLock(t, m) ==
    /\ Usable(m) /\ m \notin held[t]
    /\ "nested" \in Habits \/ held[t] = {}
    /\ Goto(t, "idle", "l_ops")
    /\ arg' = [arg EXCEPT ![t] = m]
    /\ UNCHANGED <<pop, vop, op, sem, owner, status, ready, gone, held>>

CallUnlock(t, m) ==
    /\ Usable(m)
    /\ "misuse" \in Habits \/ m \in held[t]
    /\ Goto(t, "idle", "u_ops")
    /\ arg' = [arg EXCEPT ![t] = m]
    /\ UNCHANGED <<pop, vop, op, sem, owner, status, ready, gone, held>>

-----------------------------------------------------------------------------
(* foothread_mutex_lock and foothread_mutex_unlock                         *)

\* Both calls start by storing the same values in the shared sembufs.
SetOps(t) ==
    /\ \/ Goto(t, "l_ops", "l_enter")
       \/ Goto(t, "u_ops", "u_tid")
    /\ pop' = -1 /\ vop' = 1
    /\ UNCHANGED <<op, sem, owner, status, ready, gone, arg, held>>

\* wait(mutex->semaphore): the kernel copies pop ...
LockEnter(t) ==
    /\ Goto(t, "l_enter", "l_wait")
    /\ op' = [op EXCEPT ![t] = pop]
    /\ UNCHANGED <<pop, vop, sem, owner, status, ready, gone, arg, held>>

\* ... and lets the thread go when the semaphore can be decremented.
LockAcquire(t) ==
    /\ Ready(sem, op[t])
    /\ Goto(t, "l_wait", "l_tid")
    /\ sem' = Applied(sem, op[t])
    /\ held' = [held EXCEPT ![t] = @ \cup {arg[t]}]
    /\ UNCHANGED <<pop, vop, op, owner, status, ready, gone, arg>>

LockSetTid(t) ==
    /\ Goto(t, "l_tid", "l_status")
    /\ owner' = [owner EXCEPT ![arg[t]] = t]
    /\ UNCHANGED <<pop, vop, op, sem, status, ready, gone, arg, held>>

LockSetStatus(t) ==
    /\ Goto(t, "l_status", "idle")
    /\ status' = [status EXCEPT ![arg[t]] = 1]
    /\ UNCHANGED <<pop, vop, op, sem, owner, ready, gone, arg, held>>

\* Mutant: the caller's tid is not compared.
UnlockCheckTid_Any(t) ==
    /\ Goto(t, "u_tid", "u_status")
    /\ UNCHANGED <<pop, vop, op, sem, owner, status, ready, gone, arg, held>>

UnlockCheckTid(t) ==
    /\ \/ owner[arg[t]] = t /\ Goto(t, "u_tid", "u_status")
       \/ owner[arg[t]] # t /\ Goto(t, "u_tid", "failed")
    /\ UNCHANGED <<pop, vop, op, sem, owner, status, ready, gone, arg, held>>

UnlockCheckStatus(t) ==
    /\ \/ status[arg[t]] # 0 /\ Goto(t, "u_status", "u_post")
       \/ status[arg[t]] = 0 /\ Goto(t, "u_status", "failed")
    /\ UNCHANGED <<pop, vop, op, sem, owner, status, ready, gone, arg, held>>

\* Mutant: the semaphore is not signalled.
UnlockPost_Lost(t) ==
    /\ Goto(t, "u_post", "u_cltid")
    /\ held' = [held EXCEPT ![t] = @ \ {arg[t]}]
    /\ UNCHANGED <<pop, vop, op, sem, owner, status, ready, gone, arg>>

\* Mutant: the semaphore is signalled twice.
UnlockPost_Twice(t) ==
    /\ Goto(t, "u_post", "u_cltid")
    /\ sem' = Applied(Applied(sem, vop), vop)
    /\ held' = [held EXCEPT ![t] = @ \ {arg[t]}]
    /\ UNCHANGED <<pop, vop, op, owner, status, ready, gone, arg>>

\* signal(mutex->semaphore) never blocks; it comes before tid and status are
\* reset, so the next locker may already be running.
UnlockPost(t) ==
    /\ Goto(t, "u_post", "u_cltid")
    /\ sem' = Applied(sem, vop)
    /\ held' = [held EXCEPT ![t] = @ \ {arg[t]}]
    /\ UNCHANGED <<pop, vop, op, owner, status, ready, gone, arg>>

\* Mutant: tid keeps the name of the last holder.
UnlockClearTid_Kept(t) ==
    /\ Goto(t, "u_cltid", "u_clstatus")
    /\ UNCHANGED <<pop, vop, op, sem, owner, status, ready, gone, arg, held>>

UnlockClearTid(t) ==
    /\ Goto(t, "u_cltid", "u_clstatus")
    /\ owner' = [owner EXCEPT ![arg[t]] = Nobody]
    /\ UNCHANGED <<pop, vop, op, sem, status, ready, gone, arg, held>>

UnlockClearStatus(t) ==
    /\ Goto(t, "u_clstatus", "idle")
    /\ status' = [status EXCEPT ![arg[t]] = 0]
    /\ UNCHANGED <<pop, vop, op, sem, owner, ready, gone, arg, held>>

-----------------------------------------------------------------------------

Step(t) ==
    \/ SetOps(t) \/ LockEnter(t) \/ LockAcquire(t)
    \/ LockSetTid(t) \/ LockSetStatus(t)
    \/ UnlockCheckTid(t) \/ UnlockCheckStatus(t) \/ UnlockPost(t)
    \/ UnlockClearTid(t) \/ UnlockClearStatus(t)

Next ==
    \/ \E m \in Mutexes : MutexInit(m) \/ MutexDestroy(m)
    \/ \E t \in Threads :
          \/ \E m \in Mutexes : CallLock(t, m) \/ CallUnlock(t, m)
          \/ Step(t)

Spec == Init /\ [][Next]_vars

\* Runnable threads run, a holder eventually unlocks, and the kernel serves
\* the waiters of a semaphore in the order of their arrival.
Fairness ==
    \A t \in Threads :
        /\ WF_vars(Step(t))
        /\ SF_vars(LockAcquire(t))
        /\ WF_vars(\E m \in held[t] : CallUnlock(t, m))

FairSpec == Spec /\ Fairness

-----------------------------------------------------------------------------
(* Properties                                                              *)

\* The semaphore is binary (or gone) and every variable keeps its type.
TypeOK ==
    /\ pop \in {0, -1} /\ vop \in {0, 1}
    /\ op \in [Threads -> {0, -1}]
    /\ sem \in {Removed, 0, 1}
    /\ owner \in [Mutexes -> Threads \cup {Nobody}]
    /\ status \in [Mutexes -> {0, 1}]
    /\ ready \subseteq Mutexes /\ gone \subseteq ready
    /\ pc \in [Threads -> Places]
    /\ arg \in [Threads -> Mutexes]
    /\ held \in [Threads -> SUBSET Mutexes]

\* Two threads never hold the same mutex: foothread_mutex_lock returns only
\* to one of them until it unlocks.
MutualExclusion ==
    \A t, u \in Threads : t # u => held[t] \cap held[u] = {}

\* Since all mutexes share one semaphore, locking any of them excludes all
\* the others as well: at most one mutex of the process is held at a time.
OneHoldAtATime ==
    \A t, u \in Threads : \A m \in held[t], n \in held[u] : t = u /\ m = n

\* Only the holder gets past the two checks of foothread_mutex_unlock and
\* signals the semaphore, whatever the other threads' late resets of tid and
\* status do, and even if threads call unlock on mutexes they do not hold.
OnlyHolderPosts ==
    \A t \in Threads : pc[t] = "u_post" => arg[t] \in held[t]

\* Once every call has returned and nothing is held, each mutex says it is
\* unlocked: the late resets of tid and status leave no trace of old holders.
QuiescentUnlocked ==
    (\A t \in Threads : pc[t] = "idle" /\ held[t] = {}) =>
        \A m \in ready : owner[m] = Nobody /\ status[m] = 0

\* A thread blocked in foothread_mutex_lock gets the mutex, unless a failed
\* check ends the process, or some thread locks a mutex while it holds
\* another one: then it waits for itself and stops everybody.
Served(t) ==
    pc[t] = "l_wait" ~>
        \/ pc[t] # "l_wait" \/ ~Running
        \/ \E u \in Threads : pc[u] = "l_wait" /\ held[u] # {}

\* foothread.c:282 reports a failed unlock as an attempt from a different
\* thread: only threads that do not hold the mutex should be refused.
UnlockErrorIsReal ==
    \A t \in Threads : pc[t] = "failed" => arg[t] \notin held[t]

=============================================================================
