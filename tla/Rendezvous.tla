----------------------------- MODULE Rendezvous -----------------------------
(***************************************************************************)
(* pthread/pthread.c: N worker threads change random entries of an array   *)
(* until the master sets mdone; then each of them counts itself in wdone   *)
(* and waits for the last one, which wakes them all.  The wait is not in a *)
(* loop, so a wait that returns by itself lets its worker go early.        *)
(*                                                                         *)
(* A[i] stands for how often the entry has been changed; C[i] is the       *)
(* program's own count of that.                                            *)
(***************************************************************************)
EXTENDS Naturals, FiniteSetsExt

CONSTANTS
    N,              \* workers
    S,              \* entries of the arrays
    MAX_TURNS       \* bound: turns of a worker's loop

RendezvousAssumption == N \in Nat \ {0} /\ S \in Nat \ {0} /\ MAX_TURNS \in Nat

Workers == 1..N
Indices == 0..S - 1
Master == 0
Free == N + 1       \* the owner of a mutex that is free

VARIABLES
    master,         \* the place of the master
    next,           \* the worker it creates or joins next
    at,             \* worker -> its place
    donemutex, csmutex,
    mdone, wdone,
    A, C,
    i, s, count,    \* worker -> its local variables
    spurious        \* history: workers whose wait has returned by itself

arrays == <<A, C>>
locals == <<i, s, count>>
done == <<donemutex, mdone, wdone, spurious>>
vars == <<master, next, at, csmutex, arrays, locals, done>>

Init ==
    /\ master = "create" /\ next = 1 /\ at = [w \in Workers |-> "unborn"]
    /\ donemutex = Free /\ csmutex = Free
    /\ mdone = FALSE /\ wdone = 0 /\ spurious = {}
    /\ A = [k \in Indices |-> 0] /\ C = [k \in Indices |-> 0]
    /\ i = [w \in Workers |-> 0] /\ s = [w \in Workers |-> 0]
    /\ count = [w \in Workers |-> 0]

-----------------------------------------------------------------------------
(* The master: create_workers, do_work, wind_up                            *)

Goto(from, to) == master = from /\ master' = to

\* If a thread cannot be created the whole process ends.
CreateWorker ==
    /\ \/ /\ Goto("create", IF next = N THEN "sleep" ELSE "create")
          /\ at' = [at EXCEPT ![next] = "check"]
          /\ next' = IF next = N THEN 1 ELSE next + 1
       \/ Goto("create", "failed") /\ UNCHANGED <<at, next>>
    /\ UNCHANGED <<csmutex, arrays, locals, done>>

MasterLocks ==
    /\ Goto("sleep", "set") /\ donemutex = Free /\ donemutex' = Master
    /\ UNCHANGED <<next, at, csmutex, arrays, locals, mdone, wdone, spurious>>

SetDone ==
    /\ Goto("set", "join") /\ mdone' = TRUE /\ donemutex' = Free
    /\ UNCHANGED <<next, at, csmutex, arrays, locals, wdone, spurious>>

\* After the last one the mutexes and the condition variable are destroyed.
JoinWorker ==
    /\ at[next] = "over"
    /\ Goto("join", IF next = N THEN "over" ELSE "join")
    /\ next' = IF next = N THEN next ELSE next + 1
    /\ UNCHANGED <<at, csmutex, arrays, locals, done>>

-----------------------------------------------------------------------------
(* A worker: tmain                                                         *)

\* exit in the master takes the workers with it.
Move(w, from, to) ==
    /\ master \notin {"over", "failed"}
    /\ at[w] = from /\ at' = [at EXCEPT ![w] = to]
    /\ UNCHANGED <<master, next>>

\* Also the end of a wait: the worker has donemutex again and goes.
LockDone(w) ==
    /\ donemutex = Free /\ donemutex' = w
    /\ \/ Move(w, "check", "test") /\ (mdone \/ count[w] < MAX_TURNS)
       \/ Move(w, "woken", "leave")
    /\ UNCHANGED <<csmutex, arrays, locals, mdone, wdone, spurious>>

GoOn(w) ==
    /\ ~mdone /\ Move(w, "test", "work") /\ donemutex' = Free
    /\ UNCHANGED <<csmutex, arrays, locals, mdone, wdone, spurious>>

\* wdone is counted; the last worker broadcasts, the others wait and give
\* donemutex back.
CountIn(w) ==
    /\ mdone /\ wdone' = wdone + 1
    /\ IF wdone' < N
       THEN Move(w, "test", "wait") /\ donemutex' = Free
       ELSE /\ at[w] = "test" /\ UNCHANGED <<master, next, donemutex>>
            /\ at' = [v \in Workers |-> IF v = w THEN "leave"
                                        ELSE IF at[v] = "wait" THEN "woken" ELSE at[v]]
    /\ UNCHANGED <<csmutex, arrays, locals, mdone, spurious>>

\* pthread_cond_wait may return although nobody has signalled.
WakesUp(w) ==
    /\ Move(w, "wait", "woken") /\ spurious' = spurious \cup {w}
    /\ UNCHANGED <<csmutex, arrays, locals, donemutex, mdone, wdone>>

Leave(w) ==
    /\ Move(w, "leave", "over") /\ donemutex' = Free
    /\ UNCHANGED <<csmutex, arrays, locals, mdone, wdone, spurious>>

\* Mutant: the critical section is entered without csmutex.
EnterCS_Unlocked(w) ==
    /\ Move(w, "work", "read")
    /\ csmutex' = w
    /\ \E k \in Indices : i' = [i EXCEPT ![w] = k]
    /\ UNCHANGED <<arrays, s, count, done>>

EnterCS(w) ==
    /\ Move(w, "work", "read")
    /\ csmutex = Free /\ csmutex' = w
    /\ \E k \in Indices : i' = [i EXCEPT ![w] = k]
    /\ UNCHANGED <<arrays, s, count, done>>

ReadA(w) ==
    /\ Move(w, "read", "write") /\ s' = [s EXCEPT ![w] = A[i[w]]]
    /\ UNCHANGED <<csmutex, arrays, i, count, done>>

WriteA(w) ==
    /\ Move(w, "write", "count") /\ A' = [A EXCEPT ![i[w]] = s[w] + 1]
    /\ UNCHANGED <<csmutex, C, locals, done>>

CountChange(w) ==
    /\ Move(w, "count", "unlock") /\ C' = [C EXCEPT ![i[w]] = @ + 1]
    /\ UNCHANGED <<csmutex, A, locals, done>>

LeaveCS(w) ==
    /\ Move(w, "unlock", "check") /\ csmutex' = Free
    /\ count' = [count EXCEPT ![w] = @ + 1]
    /\ UNCHANGED <<arrays, i, s, done>>

-----------------------------------------------------------------------------

MasterStep == CreateWorker \/ MasterLocks \/ SetDone \/ JoinWorker

Worker(w) ==
    \/ LockDone(w) \/ GoOn(w) \/ CountIn(w) \/ Leave(w)
    \/ EnterCS(w) \/ ReadA(w) \/ WriteA(w) \/ CountChange(w) \/ LeaveCS(w)

System == MasterStep \/ \E w \in Workers : Worker(w)

Next == System \/ \E w \in Workers : WakesUp(w)

Spec == Init /\ [][Next]_vars

-----------------------------------------------------------------------------
(* Properties                                                              *)

TypeOK ==
    /\ master \in {"create", "sleep", "set", "join", "over", "failed"} /\ next \in Workers
    /\ at \in [Workers -> {"unborn", "check", "test", "wait", "woken", "leave", "over",
                           "work", "read", "write", "count", "unlock"}]
    /\ donemutex \in 0..N + 1 /\ csmutex \in 0..N + 1
    /\ mdone \in BOOLEAN /\ wdone \in 0..N
    /\ A \in [Indices -> Nat] /\ C \in [Indices -> Nat]
    /\ i \in [Workers -> Indices] /\ s \in [Workers -> Nat]
    /\ count \in [Workers -> 0..MAX_TURNS] /\ spurious \subseteq Workers

\* No worker goes before all have counted themselves, unless its wait returned by
\* itself (line 73); and no change of the arrays is lost: the workers' own counts
\* add up to C, and C is how often the entries were really changed.
LeaveTogether ==
    LET total(f, D) == MapThenSumSet(LAMBDA x : f[x], D)
        changing == {w \in Workers : at[w] \in {"count", "unlock"}}
        counted == {w \in Workers : at[w] = "unlock"}
    IN  /\ TypeOK
        /\ \A w \in Workers \ spurious : at[w] \in {"woken", "leave", "over"} => wdone = N
        /\ total(C, Indices) = total(count, Workers) + Cardinality(counted)
        /\ total(A, Indices) = total(count, Workers) + Cardinality(changing)

\* Everybody is joined, unless a thread could not be created.
Ended == master \in {"over", "failed"}

=============================================================================
