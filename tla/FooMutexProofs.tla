--------------------------- MODULE FooMutexProofs ---------------------------
(***************************************************************************)
(* The inductive invariant of FooMutex and what follows from it, for any   *)
(* set of threads and mutexes, of clients that initialise every mutex      *)
(* before they use one.                                                    *)
(***************************************************************************)
EXTENDS FooMutex, TLAPS

Orderly == "late_init" \notin Habits

\* The semaphore is removed only when nobody needs it any more.
Intact ==
    IF gone = {} THEN sem # Removed
    ELSE ready = Mutexes /\ \A t \in Threads : pc[t] = "idle" /\ held[t] = {}

\* A thread that has stored its sembufs finds them unchanged: no mutex call
\* stores anything else.
OpsStored ==
    /\ \A t \in Threads : pc[t] \notin {"idle", "l_ops", "u_ops"} =>
          pop = -1 /\ vop = 1
    /\ \A t \in Threads : pc[t] = "l_wait" => op[t] = -1

\* Initialisation comes first.
SetUpFirst ==
    ready # Mutexes => \A t \in Threads : pc[t] = "idle" /\ held[t] = {}

\* The semaphore is 0 while any mutex is held.
HoldExcludes == \A t \in Threads : \A m \in held[t] : sem = 0

HolderPlaces ==
    \A t \in Threads :
        pc[t] \in {"l_tid", "l_status", "u_status", "u_post"} => arg[t] \in held[t]

\* tid names a thread only while it holds the mutex or is about to reset tid.
OwnerReal ==
    \A t \in Threads, m \in Mutexes : owner[m] = t =>
        m \in held[t] \/ (pc[t] = "u_cltid" /\ arg[t] = m)

\* status is set only while somebody holds the mutex or is about to reset it.
StatusReal ==
    \A m \in Mutexes : status[m] # 0 => \E t \in Threads :
        m \in held[t] \/ (pc[t] \in {"u_cltid", "u_clstatus"} /\ arg[t] = m)

Consistent ==
    /\ Intact /\ OpsStored /\ SetUpFirst /\ HoldExcludes
    /\ OneHoldAtATime /\ HolderPlaces /\ OwnerReal /\ StatusReal

IInv == TypeOK /\ Consistent

\* The whole invariant holds of every step; checked here on small instances
\* (run mutex) before it is proved.

LEMMA InitIInv == Init => IInv
<1> SUFFICES ASSUME Init PROVE IInv
  OBVIOUS
<1>1. TypeOK
  BY ClientAssumption DEF Init, TypeOK, Places
<1>2. Consistent
  BY ClientAssumption DEF Init, Consistent, Intact, Removed, OpsStored, SetUpFirst,
     HoldExcludes, OneHoldAtATime, HolderPlaces, OwnerReal, StatusReal
<1> QED
  BY <1>1, <1>2 DEF IInv

LEMMA TypeStep ==
  ASSUME Orderly, IInv, [Next]_vars
  PROVE  TypeOK'
<1> USE DEF TypeOK, Places, Goto
<1>1. CASE UNCHANGED vars
  BY <1>1 DEF vars, IInv
<1>2. ASSUME NEW m \in Mutexes, MutexInit(m) PROVE TypeOK'
  BY <1>2 DEF MutexInit, MayInit, IInv
<1>3. ASSUME NEW m \in Mutexes, MutexDestroy(m) PROVE TypeOK'
  BY <1>3 DEF MutexDestroy, IInv
<1>4. ASSUME NEW t \in Threads, NEW m \in Mutexes, CallLock(t, m) \/ CallUnlock(t, m)
      PROVE TypeOK'
  BY <1>4 DEF CallLock, CallUnlock, IInv
<1>5. ASSUME NEW t \in Threads, Step(t) PROVE TypeOK'
  <2> USE DEF IInv
  <2>1. CASE SetOps(t)
    BY <2>1 DEF SetOps
  <2>2. CASE LockEnter(t)
    BY <2>2 DEF LockEnter
  <2>3. CASE LockAcquire(t)
    <3>1. op[t] = -1 /\ sem \in {0, 1}
      BY <2>3 DEF LockAcquire, Consistent, OpsStored, Intact
    <3>2. sem' = 0
      BY <2>3, <3>1 DEF LockAcquire, Ready, Applied, Removed
    <3> QED
      BY <2>3, <3>2 DEF LockAcquire
  <2>4. CASE LockSetTid(t) \/ LockSetStatus(t)
    BY <2>4 DEF LockSetTid, LockSetStatus
  <2>5. CASE UnlockCheckTid(t) \/ UnlockCheckStatus(t)
    BY <2>5 DEF UnlockCheckTid, UnlockCheckStatus
  <2>6. CASE UnlockPost(t)
    <3>1. sem = 0 /\ vop = 1
      BY <2>6 DEF UnlockPost, Consistent, OpsStored, HolderPlaces, HoldExcludes
    <3>2. sem' = 1
      BY <2>6, <3>1 DEF UnlockPost, Applied, Removed
    <3> QED
      BY <2>6, <3>2 DEF UnlockPost
  <2>7. CASE UnlockClearTid(t) \/ UnlockClearStatus(t)
    BY <2>7 DEF UnlockClearTid, UnlockClearStatus
  <2> QED
    BY <1>5, <2>1, <2>2, <2>3, <2>4, <2>5, <2>6, <2>7 DEF Step
<1> QED
  BY <1>1, <1>2, <1>3, <1>4, <1>5 DEF Next

LEMMA ConsistentStep ==
  ASSUME Orderly, IInv, [Next]_vars
  PROVE  Consistent'
<1> USE DEF TypeOK, Goto, IInv, Consistent, Intact, OpsStored, SetUpFirst,
            HoldExcludes, OneHoldAtATime, HolderPlaces, OwnerReal, StatusReal
<1>1. CASE UNCHANGED vars
  BY <1>1 DEF vars
<1>2. ASSUME NEW m \in Mutexes, MutexInit(m) PROVE Consistent'
  <2>1. \A t \in Threads : pc[t] = "idle" /\ held[t] = {}
    BY <1>2 DEF MutexInit, MayInit
  <2> QED
    BY <1>2, <2>1, ClientAssumption DEF MutexInit, MayInit, Removed
<1>3. ASSUME NEW m \in Mutexes, MutexDestroy(m) PROVE Consistent'
  BY <1>3 DEF MutexDestroy
<1>4. ASSUME NEW t \in Threads, NEW m \in Mutexes, CallLock(t, m) PROVE Consistent'
  BY <1>4 DEF CallLock, Usable, Orderly
<1>5. ASSUME NEW t \in Threads, NEW m \in Mutexes, CallUnlock(t, m) PROVE Consistent'
  BY <1>5 DEF CallUnlock, Usable, Orderly
<1>6. ASSUME NEW t \in Threads, SetOps(t) PROVE Consistent'
  BY <1>6 DEF SetOps
<1>7. ASSUME NEW t \in Threads, LockEnter(t) PROVE Consistent'
  BY <1>7 DEF LockEnter
<1>8. ASSUME NEW t \in Threads, LockAcquire(t) PROVE Consistent'
  <2>1. op[t] = -1 /\ sem = 1
    BY <1>8 DEF LockAcquire, Ready
  <2>2. sem' = 0 /\ \A u \in Threads : held[u] = {}
    BY <1>8, <2>1 DEF LockAcquire, Applied, Removed
  <2>3. \A u \in Threads : held'[u] = IF u = t THEN {arg[t]} ELSE {}
    <3>1. held'[t] = {} \cup {arg[t]}
      BY <1>8, <2>2 DEF LockAcquire
    <3>2. \A u \in Threads : u # t => held'[u] = {}
      BY <1>8, <2>2 DEF LockAcquire
    <3>3. held'[t] = {arg[t]}
      BY <3>1
    <3> QED
      BY <3>2, <3>3, Zenon
  <2> QED
    BY <1>8, <2>1, <2>2, <2>3 DEF LockAcquire, Removed
<1>9. ASSUME NEW t \in Threads, LockSetTid(t) PROVE Consistent'
  BY <1>9, ClientAssumption DEF LockSetTid
<1>10. ASSUME NEW t \in Threads, LockSetStatus(t) PROVE Consistent'
  BY <1>10 DEF LockSetStatus
<1>11. ASSUME NEW t \in Threads, UnlockCheckTid(t) PROVE Consistent'
  BY <1>11 DEF UnlockCheckTid
<1>12. ASSUME NEW t \in Threads, UnlockCheckStatus(t) PROVE Consistent'
  BY <1>12 DEF UnlockCheckStatus
<1>13. ASSUME NEW t \in Threads, UnlockPost(t) PROVE Consistent'
  <2>1. sem = 0 /\ vop = 1 /\ arg[t] \in held[t]
    BY <1>13 DEF UnlockPost
  <2>2. sem' = 1
    BY <1>13, <2>1 DEF UnlockPost, Applied, Removed
  <2>3. \A u \in Threads : held'[u] = {}
    BY <1>13, <2>1 DEF UnlockPost
  <2> QED
    BY <1>13, <2>1, <2>2, <2>3 DEF UnlockPost, Removed
<1>14. ASSUME NEW t \in Threads, UnlockClearTid(t) PROVE Consistent'
  BY <1>14, ClientAssumption DEF UnlockClearTid
<1>15. ASSUME NEW t \in Threads, UnlockClearStatus(t) PROVE Consistent'
  BY <1>15 DEF UnlockClearStatus
<1> QED
  BY <1>1, <1>2, <1>3, <1>4, <1>5, <1>6, <1>7, <1>8, <1>9, <1>10, <1>11,
     <1>12, <1>13, <1>14, <1>15 DEF Next, Step

\* The invariant, part by part, holds throughout: it is what the shared semaphore,
\* the sembufs, tid and status say of the threads between any two stores.
THEOREM Invariant == ASSUME Orderly PROVE Spec => []IInv
<1>1. Orderly /\ IInv /\ [Next]_vars => IInv'
  BY TypeStep, ConsistentStep DEF IInv
<1> QED
  BY InitIInv, <1>1, PTL DEF Spec

\* The variables keep their types; in particular the semaphore behind the
\* mutexes never exceeds 1, however locks and unlocks interleave.
THEOREM TypeCorrect == ASSUME Orderly PROVE Spec => []TypeOK
<1>1. IInv => TypeOK
  BY DEF IInv
<1> QED
  BY Invariant, <1>1, PTL

\* Two threads never hold the same mutex.
THEOREM MutexExcludes == ASSUME Orderly PROVE Spec => []MutualExclusion
<1>1. IInv => MutualExclusion
  BY DEF IInv, Consistent, OneHoldAtATime, MutualExclusion
<1> QED
  BY Invariant, <1>1, PTL

\* The shared semaphore serialises all mutexes of the process.
THEOREM MutexesSerialised == ASSUME Orderly PROVE Spec => []OneHoldAtATime
<1>1. IInv => OneHoldAtATime
  BY DEF IInv, Consistent
<1> QED
  BY Invariant, <1>1, PTL

\* The checks of foothread_mutex_unlock let only the holder through.
THEOREM UnlockByHolderOnly == ASSUME Orderly PROVE Spec => []OnlyHolderPosts
<1>1. IInv => OnlyHolderPosts
  BY DEF IInv, Consistent, HolderPlaces, OnlyHolderPosts
<1> QED
  BY Invariant, <1>1, PTL

\* When all calls have returned and nothing is held, every mutex says so.
THEOREM QuiescenceIsUnlocked == ASSUME Orderly PROVE Spec => []QuiescentUnlocked
<1>1. IInv => QuiescentUnlocked
  <2> SUFFICES ASSUME IInv, \A t \in Threads : pc[t] = "idle" /\ held[t] = {},
                      NEW m \in ready
               PROVE  owner[m] = Nobody /\ status[m] = 0
    BY DEF QuiescentUnlocked
  <2>1. m \in Mutexes
    BY DEF IInv, TypeOK
  <2>2. owner[m] = Nobody
    BY <2>1 DEF IInv, TypeOK, Consistent, OwnerReal
  <2>3. status[m] = 0
    BY <2>1 DEF IInv, TypeOK, Consistent, StatusReal
  <2> QED
    BY <2>2, <2>3
<1> QED
  BY Invariant, <1>1, PTL

=============================================================================
