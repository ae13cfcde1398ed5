----------------------------- MODULE FooBarrier -----------------------------
(***************************************************************************)
(* The barriers of the foothread library (Assignment_07/foothread.c,       *)
(* foothread_barrier_*; Assignment_07/barrier.c is an earlier copy).       *)
(*                                                                         *)
(* The key of a barrier's mutex semaphore is built from the tid of the     *)
(* thread that initialises the barrier, so all barriers that the leader    *)
(* initialises share one mutex semaphore: msem.  The counting semaphore of *)
(* a barrier is its own (IPC_PRIVATE): bsem.                               *)
(*                                                                         *)
(* The sembuf vop is a global shared by all threads: the last arriver puts *)
(* count in it after it has released the mutex.  pop always holds -1 once  *)
(* a call has begun and is left out.  reached is reset outside the mutex,  *)
(* so its increment is modelled as a load and a store.                     *)
(***************************************************************************)
EXTENDS SysVSem, Sequences

CONSTANTS
    Threads,
    Barriers,
    Count,      \* barrier -> the count it is initialised with
    Plan        \* thread -> the barriers it waits at, in order

ASSUME BarrierAssumption ==
    /\ Count \in [Barriers -> Nat \ {0}]
    /\ Plan \in [Threads -> Seq(Barriers)]

VARIABLES
    vop,        \* sem_op of the shared sembuf of signal()
    msem,       \* value of the mutex semaphore behind all barriers
    bsem,       \* barrier -> value of barrier->semaphore
    count,      \* barrier -> barrier->count
    reached,    \* barrier -> barrier->reached
    ready,      \* the barriers that have been initialised
    gone,       \* the barriers that have been destroyed
    pc,         \* thread -> its place in foothread_barrier_wait
    reg,        \* thread -> the value of reached it has loaded
    arrived,    \* thread -> barriers it has counted itself at (history)
    left        \* thread -> barriers it has returned from

vars == <<vop, msem, bsem, count, reached, ready, gone, pc, reg, arrived, left>>

Places == {"idle", "ops", "lock", "load", "store", "test", "unlock",
           "last_unlock", "setcount", "post", "reset", "pass"}

Finished(t) == left[t] = Len(Plan[t])

\* The barrier of the call that t is in, or will make next.
Cur(t) == Plan[t][left[t] + 1]

Goto(t, from, to) ==
    /\ pc[t] = from
    /\ pc' = [pc EXCEPT ![t] = to]

Init ==
    /\ vop = 0 /\ msem = 0
    /\ bsem = [b \in Barriers |-> 0]
    /\ count = [b \in Barriers |-> 0]
    /\ reached = [b \in Barriers |-> 0]
    /\ ready = {} /\ gone = {}
    /\ pc = [t \in Threads |-> "idle"]
    /\ reg = [t \in Threads |-> 0]
    /\ arrived = [t \in Threads |-> 0]
    /\ left = [t \in Threads |-> 0]

-----------------------------------------------------------------------------
(* foothread_barrier_init and foothread_barrier_destroy, which the leader  *)
(* calls before it starts the threads and after all of them are done       *)

BarrierInit(b) ==
    /\ b \notin ready
    /\ bsem' = [bsem EXCEPT ![b] = 0]
    /\ msem' = 1
    /\ count' = [count EXCEPT ![b] = Count[b]]
    /\ reached' = [reached EXCEPT ![b] = 0]
    /\ ready' = ready \cup {b}
    /\ UNCHANGED <<vop, gone, pc, reg, arrived, left>>

BarrierDestroy(b) ==
    /\ b \in ready \ gone /\ ready = Barriers
    /\ \A t \in Threads : Finished(t)
    /\ bsem' = [bsem EXCEPT ![b] = Removed]
    /\ msem' = Removed
    /\ count' = [count EXCEPT ![b] = 0]
    /\ reached' = [reached EXCEPT ![b] = 0]
    /\ gone' = gone \cup {b}
    /\ UNCHANGED <<vop, ready, pc, reg, arrived, left>>

-----------------------------------------------------------------------------
(* foothread_barrier_wait                                                  *)

Call(t) ==
    /\ ready = Barriers /\ ~Finished(t)
    /\ Goto(t, "idle", "ops")
    /\ UNCHANGED <<vop, msem, bsem, count, reached, ready, gone, reg, arrived, left>>

SetOps(t) ==
    /\ Goto(t, "ops", "lock")
    /\ vop' = 1
    /\ UNCHANGED <<msem, bsem, count, reached, ready, gone, reg, arrived, left>>

LockMutex(t) ==
    /\ Ready(msem, -1)
    /\ Goto(t, "lock", "load")
    /\ msem' = Applied(msem, -1)
    /\ UNCHANGED <<vop, bsem, count, reached, ready, gone, reg, arrived, left>>

LoadReached(t) ==
    /\ Goto(t, "load", "store")
    /\ reg' = [reg EXCEPT ![t] = reached[Cur(t)]]
    /\ UNCHANGED <<vop, msem, bsem, count, reached, ready, gone, arrived, left>>

StoreReached(t) ==
    /\ Goto(t, "store", "test")
    /\ reached' = [reached EXCEPT ![Cur(t)] = reg[t] + 1]
    /\ arrived' = [arrived EXCEPT ![t] = @ + 1]
    /\ UNCHANGED <<vop, msem, bsem, count, ready, gone, reg, left>>

\* Mutant: the last but one arriver already opens the barrier.
TestCount_Early(t) ==
    /\ \/ Goto(t, "test", "last_unlock") /\ reached[Cur(t)] + 1 >= count[Cur(t)]
       \/ Goto(t, "test", "unlock") /\ reached[Cur(t)] + 1 < count[Cur(t)]
    /\ UNCHANGED <<vop, msem, bsem, count, reached, ready, gone, reg, arrived, left>>

TestCount(t) ==
    /\ \/ Goto(t, "test", "last_unlock") /\ reached[Cur(t)] = count[Cur(t)]
       \/ Goto(t, "test", "unlock") /\ reached[Cur(t)] # count[Cur(t)]
    /\ UNCHANGED <<vop, msem, bsem, count, reached, ready, gone, reg, arrived, left>>

\* Mutant: the sembuf already holds count when the mutex is released.
UnlockMutex_CountFirst(t) ==
    /\ \/ Goto(t, "unlock", "pass") /\ msem' = Applied(msem, vop)
       \/ Goto(t, "last_unlock", "setcount") /\ msem' = Applied(msem, count[Cur(t)])
    /\ UNCHANGED <<vop, bsem, count, reached, ready, gone, reg, arrived, left>>

\* signal(barrier->mutex_semaphore) in either branch.
UnlockMutex(t) ==
    /\ \/ Goto(t, "unlock", "pass")
       \/ Goto(t, "last_unlock", "setcount")
    /\ msem' = Applied(msem, vop)
    /\ UNCHANGED <<vop, bsem, count, reached, ready, gone, reg, arrived, left>>

SetCount(t) ==
    /\ Goto(t, "setcount", "post")
    /\ vop' = count[Cur(t)]
    /\ UNCHANGED <<msem, bsem, count, reached, ready, gone, reg, arrived, left>>

PostAll(t) ==
    /\ Goto(t, "post", "reset")
    /\ bsem' = [bsem EXCEPT ![Cur(t)] = Applied(@, vop)]
    /\ UNCHANGED <<vop, msem, count, reached, ready, gone, reg, arrived, left>>

ResetReached(t) ==
    /\ Goto(t, "reset", "pass")
    /\ reached' = [reached EXCEPT ![Cur(t)] = 0]
    /\ UNCHANGED <<vop, msem, bsem, count, ready, gone, reg, arrived, left>>

\* wait(barrier->semaphore): one token each, the last arriver included.
Pass(t) ==
    /\ Goto(t, "pass", "idle")
    /\ Ready(bsem[Cur(t)], -1)
    /\ bsem' = [bsem EXCEPT ![Cur(t)] = Applied(@, -1)]
    /\ left' = [left EXCEPT ![t] = @ + 1]
    /\ UNCHANGED <<vop, msem, count, reached, ready, gone, reg, arrived>>

-----------------------------------------------------------------------------

Step(t) ==
    \/ Call(t) \/ SetOps(t) \/ LockMutex(t)
    \/ LoadReached(t) \/ StoreReached(t) \/ TestCount(t) \/ UnlockMutex(t)
    \/ SetCount(t) \/ PostAll(t) \/ ResetReached(t) \/ Pass(t)

Next ==
    \/ \E b \in Barriers : BarrierInit(b) \/ BarrierDestroy(b)
    \/ \E t \in Threads : Step(t)

Spec == Init /\ [][Next]_vars

\* Runnable threads run, and the kernel serves the waiters of a semaphore in
\* the order of their arrival.
Fairness ==
    /\ WF_vars(\E b \in Barriers : BarrierInit(b))
    /\ \A t \in Threads :
          WF_vars(Step(t)) /\ SF_vars(LockMutex(t)) /\ SF_vars(Pass(t))

FairSpec == Spec /\ Fairness

-----------------------------------------------------------------------------
(* Properties                                                              *)

\* The mutex semaphore stays binary although V operations read a shared
\* sembuf that sometimes holds count; every variable keeps its type.
TypeOK ==
    /\ vop \in {0, 1} \cup {Count[b] : b \in Barriers}
    /\ msem \in {Removed, 0, 1}
    /\ \A b \in Barriers : bsem[b] \in Removed .. Count[b]
    /\ \A b \in Barriers : count[b] \in {0, Count[b]}
    /\ \A b \in Barriers : reached[b] \in 0 .. Count[b]
    /\ gone \subseteq ready /\ ready \subseteq Barriers
    /\ pc \in [Threads -> Places]
    /\ \A t \in Threads : reg[t] \in Nat
    /\ \A t \in Threads : left[t] <= arrived[t] /\ arrived[t] <= Len(Plan[t])

\* Threads in the counting section of foothread_barrier_wait exclude each
\* other, whatever the other threads put in the shared sembuf meanwhile.
CountingExclusive ==
    \A t, u \in Threads :
        {pc[t], pc[u]} \subseteq {"load", "store", "test", "unlock", "last_unlock"}
        => t = u

\* When every thread has passed the same number of barriers, no token and no
\* arrival is left behind, so each barrier can be used again.
NothingLeftBehind ==
    (\A t, u \in Threads : pc[t] = "idle" /\ left[t] = left[u]) =>
        \A b \in ready \ gone : bsem[b] = 0 /\ reached[b] = 0

\* What the states of the barriers satisfy when all threads follow one plan.
BarrierSound == TypeOK /\ CountingExclusive /\ NothingLeftBehind

\* The barriers implement the abstract barrier, for threads that all follow
\* the same plan: nobody is released before everyone has arrived.  That
\* everyone is released and ends his phases is Phase!Ended.
Phase == INSTANCE PhaseBarrier
         WITH Phases <- Len(Plan[CHOOSE t \in Threads : TRUE])
ImplementsPhases == Phase!Spec

\* The threads that wait at b, for plans that use b once.
Users(b) == {t \in Threads : \E i \in 1 .. Len(Plan[t]) : Plan[t][i] = b}

VisitOf(t, b) == CHOOSE i \in 1 .. Len(Plan[t]) : Plan[t][i] = b

\* foothread.c:356 says that the last arriver releases all threads once they
\* have reached the barrier: then all of them get past it.
AllReleased ==
    \A b \in Barriers :
        (\A t \in Users(b) : arrived[t] >= VisitOf(t, b))
        ~> (\A t \in Users(b) : left[t] >= VisitOf(t, b))

=============================================================================
