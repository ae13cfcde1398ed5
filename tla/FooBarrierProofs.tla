-------------------------- MODULE FooBarrierProofs --------------------------
(***************************************************************************)
(* Barriers that a team of threads goes through in phases: all threads     *)
(* follow one plan, each barrier is initialised with the size of the team, *)
(* and the team does not wait at one barrier twice in a row.  (If it does, *)
(* the last arriver's late reset may wipe out an early arrival of the next *)
(* phase.)                                                                 *)
(*                                                                         *)
(* The invariant says in which round k the team is: everybody has arrived  *)
(* at the first k barriers of the plan and not everybody at the next one.  *)
(* Some threads are ahead, having arrived there already; others are still  *)
(* behind, on their way out of barrier k, one of them perhaps as its last  *)
(* arriver with work left to do.                                           *)
(***************************************************************************)
EXTENDS FooBarrier, FiniteSetTheorems, TLAPS

\* The plan of the team, and its size.
P == Plan[CHOOSE t \in Threads : TRUE]
Team == Cardinality(Threads)

Phased ==
    /\ IsFiniteSet(Threads) /\ Threads # {}
    /\ \A t \in Threads : Plan[t] = P
    /\ \A i \in 1 .. Len(P) : Count[P[i]] = Team
    /\ \A i \in 1 .. Len(P) - 1 : P[i] # P[i + 1]

Types ==
    /\ vop \in {0, 1} \cup {Count[b] : b \in Barriers}
    /\ msem \in {Removed, 0, 1}
    /\ bsem \in [Barriers -> Int]
    /\ count \in [Barriers -> Nat]
    /\ \A b \in Barriers : count[b] = IF b \in ready \ gone THEN Count[b] ELSE 0
    /\ reached \in [Barriers -> Nat]
    /\ gone \subseteq ready /\ ready \subseteq Barriers
    /\ pc \in [Threads -> Places]
    /\ reg \in [Threads -> Nat]
    /\ arrived \in [Threads -> Nat] /\ left \in [Threads -> Nat]

\* Waiting comes after all initialisations and before all removals.
SetUp ==
    /\ ready # Barriers => \A t \in Threads : pc[t] = "idle" /\ left[t] = 0
    /\ gone # {} => /\ ready = Barriers /\ msem = Removed
                    /\ \A t \in Threads : pc[t] = "idle" /\ left[t] = Len(P)

Inside == {"load", "store", "test", "unlock", "last_unlock"}

\* The mutex semaphore is 0 exactly while somebody counts himself.
Guarded ==
    /\ CountingExclusive
    /\ \A t \in Threads : pc[t] \in Inside => msem = 0
    /\ gone = {} /\ ready # {} /\ (\A t \in Threads : pc[t] \notin Inside) => msem = 1

\* The sembuf holds 1 when a mutex is going to be posted, and the size of
\* the team when the barrier is.
VopRight ==
    /\ \A t \in Threads : pc[t] \in {"lock"} \cup Inside => vop = 1
    /\ \A t \in Threads : pc[t] = "post" => vop = Team

Before == {"idle", "ops", "lock", "load", "store"}

\* Where the threads can be in round k.
PlacesOK(k) ==
    /\ \E t \in Threads : arrived[t] = k
    /\ \A t \in Threads :
          /\ arrived[t] = IF pc[t] \in Before THEN left[t] ELSE left[t] + 1
          /\ arrived[t] \in {k, k + 1} /\ left[t] \in {k - 1, k}
          /\ pc[t] # "idle" => left[t] < Len(P)
          /\ arrived[t] = k + 1 => pc[t] \in {"test", "unlock", "pass"}
          /\ left[t] = k - 1 =>
                pc[t] \in {"test", "last_unlock", "setcount", "post", "reset", "pass"}
          /\ pc[t] = "store" => reg[t] = reached[P[k + 1]]

Ahead(k) == {t \in Threads : arrived[t] = k + 1}
Behind(k) == {t \in Threads : left[t] = k - 1}

\* The last arriver of round k, while it has work left.
Last(k) == {t \in Behind(k) : pc[t] # "pass"}

LastOK(k) ==
    /\ \A t, u \in Last(k) : t = u
    /\ \A t \in Last(k) : pc[t] # "reset" => Behind(k) = Threads

\* Barrier k has been posted.
Open(k) == \A t \in Behind(k) : pc[t] \in {"reset", "pass"}

\* reached counts who is ahead; a token of barrier k is left for everyone behind.
CountsOK(k) ==
    /\ \A b \in Barriers :
          reached[b] = IF k < Len(P) /\ b = P[k + 1] THEN Cardinality(Ahead(k))
                       ELSE IF k > 0 /\ b = P[k] /\ Last(k) # {} THEN Team ELSE 0
    /\ \A b \in Barriers \ gone :
          bsem[b] = IF k > 0 /\ b = P[k] /\ Open(k) THEN Cardinality(Behind(k)) ELSE 0
    /\ \A b \in gone : bsem[b] = Removed

InRound(k) == k <= Len(P) /\ PlacesOK(k) /\ LastOK(k) /\ CountsOK(k)

Static == Types /\ SetUp /\ Guarded /\ VopRight

IInv == Static /\ \E k \in Nat : InRound(k)

-----------------------------------------------------------------------------

LEMMA PlanFacts ==
  ASSUME Phased
  PROVE  /\ Len(P) \in Nat /\ Team \in Nat \ {0}
         /\ \A i \in 1 .. Len(P) : P[i] \in Barriers
         /\ \A t \in Threads, i \in 1 .. Len(P) : Plan[t][i] = P[i]
         /\ \A t \in Threads : Len(Plan[t]) = Len(P)
<1>1. PICK t \in Threads : P = Plan[t]
  BY DEF Phased, P
<1>2. P \in Seq(Barriers)
  BY <1>1, BarrierAssumption
<1>3. Team \in Nat /\ Team # 0
  BY FS_CardinalityType, FS_EmptySet DEF Phased, Team
<1> QED
  BY <1>2, <1>3 DEF Phased

\* The barrier of a call.
LEMMA CurFacts ==
  ASSUME Phased, NEW t \in Threads, left[t] \in Nat, left[t] < Len(P)
  PROVE  Cur(t) = P[left[t] + 1] /\ Cur(t) \in Barriers /\ Count[Cur(t)] = Team
BY PlanFacts DEF Cur, Phased

LEMMA GroupsFinite ==
  ASSUME Phased, NEW S \in SUBSET Threads
  PROVE  /\ IsFiniteSet(S) /\ Cardinality(S) \in 0 .. Team
         /\ S # Threads => Cardinality(S) < Team
         /\ S # {} => Cardinality(S) > 0
BY FS_Subset, FS_CardinalityType, FS_EmptySet DEF Phased, Team

LEMMA InitIInv == ASSUME Phased PROVE Init => IInv
<1> SUFFICES ASSUME Init PROVE IInv
  OBVIOUS
<1> USE DEF Init
<1>1. Types
  BY DEF Types, Places
<1>2. SetUp /\ Guarded /\ VopRight
  BY DEF SetUp, Guarded, CountingExclusive, VopRight, Inside
<1>3. Ahead(0) = {} /\ Behind(0) = {}
  BY DEF Ahead, Behind
<1>4. InRound(0)
  <2>1. PlacesOK(0)
    BY DEF PlacesOK, Before, Phased
  <2>2. LastOK(0)
    BY <1>3 DEF LastOK, Last
  <2>3. CountsOK(0)
    <3>1. Cardinality(Ahead(0)) = 0
      BY <1>3, FS_EmptySet
    <3> QED
      BY <3>1 DEF CountsOK
  <2> QED
    BY <2>1, <2>2, <2>3, PlanFacts DEF InRound
<1> QED
  BY <1>1, <1>2, <1>4 DEF IInv, Static

-----------------------------------------------------------------------------
(* The parts that do not speak of rounds                                   *)

\* Whoever is not idle works at a barrier of the plan, and nothing is removed.
LEMMA Active ==
  ASSUME Phased, Static, NEW k \in Nat, InRound(k), NEW t \in Threads, pc[t] # "idle"
  PROVE  /\ ready = Barriers /\ gone = {} /\ ready # {}
         /\ left[t] \in Nat /\ left[t] < Len(P)
         /\ Cur(t) = P[left[t] + 1] /\ Cur(t) \in Barriers
         /\ count[Cur(t)] = Team /\ Count[Cur(t)] = Team
<1>1. ready = Barriers /\ gone = {}
  BY DEF Static, SetUp
<1>2. left[t] \in Nat /\ left[t] < Len(P)
  BY DEF Static, Types, InRound, PlacesOK
<1>3. Cur(t) = P[left[t] + 1] /\ Cur(t) \in Barriers /\ Count[Cur(t)] = Team
  BY <1>2, CurFacts
<1> QED
  BY <1>1, <1>2, <1>3 DEF Static, Types

\* The last arriver has the barrier for himself until he has posted it.
LEMMA LastAlone ==
  ASSUME Phased, Static, NEW k \in Nat, InRound(k), NEW t \in Threads,
         pc[t] \in {"last_unlock", "setcount", "post"}
  PROVE  /\ k > 0 /\ left[t] = k - 1 /\ t \in Last(k)
         /\ Behind(k) = Threads
         /\ \A u \in Threads : u # t => pc[u] = "pass"
<1>1. left[t] = k - 1 /\ k > 0
  <2>1. left[t] \in Nat /\ arrived[t] = left[t] + 1
    BY DEF Static, Types, InRound, PlacesOK, Before
  <2>2. arrived[t] \in {k, k + 1} /\ arrived[t] # k + 1
    BY DEF InRound, PlacesOK
  <2> QED
    BY <2>1, <2>2
<1>2. t \in Last(k)
  BY <1>1 DEF Last, Behind
<1>3. Behind(k) = Threads
  BY <1>2 DEF InRound, LastOK
<1> QED
  BY <1>1, <1>2, <1>3 DEF InRound, LastOK, Last

LEMMA StaticStep ==
  ASSUME Phased, Static, NEW k \in Nat, InRound(k), [Next]_vars
  PROVE  Static'
<1> USE DEF Static, Types, Places, Goto, SetUp, Guarded, CountingExclusive, VopRight, Inside
<1>1. CASE UNCHANGED vars
  BY <1>1 DEF vars
<1>2. ASSUME NEW b \in Barriers, BarrierInit(b) PROVE Static'
  <2>1. \A t \in Threads : pc[t] = "idle" /\ left[t] = 0
    BY <1>2 DEF BarrierInit
  <2>2. Types'
    <3>1. \A c \in Barriers : count'[c] = IF c \in ready' \ gone' THEN Count[c] ELSE 0
      BY <1>2 DEF BarrierInit
    <3>2. count' \in [Barriers -> Nat]
      BY <1>2, BarrierAssumption DEF BarrierInit
    <3> QED
      BY <1>2, <3>1, <3>2 DEF BarrierInit
  <2> QED
    BY <1>2, <2>1, <2>2 DEF BarrierInit
<1>3. ASSUME NEW b \in Barriers, BarrierDestroy(b) PROVE Static'
  <2>1. ASSUME NEW t \in Threads PROVE left[t] = Len(P) /\ pc[t] = "idle"
    <3>1. left[t] = Len(P)
      BY <1>3, PlanFacts DEF BarrierDestroy, Finished
    <3>2. pc[t] # "idle" => left[t] < Len(P)
      BY DEF InRound, PlacesOK
    <3> QED
      BY <3>1, <3>2, PlanFacts
  <2>2. Types'
    <3>1. \A c \in Barriers : count'[c] = IF c \in ready' \ gone' THEN Count[c] ELSE 0
      BY <1>3 DEF BarrierDestroy
    <3> QED
      BY <1>3, <3>1 DEF BarrierDestroy, Removed
  <2> QED
    BY <1>3, <2>1, <2>2 DEF BarrierDestroy
<1>4. ASSUME NEW t \in Threads, Call(t) PROVE Static'
  <2>1. left[t] # Len(P)
    BY <1>4, PlanFacts DEF Call, Finished
  <2>2. gone = {}
    BY <1>4, <2>1
  <2> QED
    BY <1>4, <2>2 DEF Call
<1>5. ASSUME NEW t \in Threads, SetOps(t) PROVE Static'
  <2>1. \A u \in Threads : pc[u] # "post"
    BY <1>5, LastAlone DEF SetOps
  <2>2. gone = {} /\ ready = Barriers
    BY <1>5, Active DEF SetOps
  <2> QED
    BY <1>5, <2>1, <2>2 DEF SetOps
<1>6. ASSUME NEW t \in Threads, LockMutex(t) PROVE Static'
  <2>1. gone = {} /\ ready = Barriers /\ ready # {}
    BY <1>6, Active DEF LockMutex
  <2>2. msem = 1
    BY <1>6, <2>1 DEF LockMutex, Ready, Removed
  <2>3. msem' = 0 /\ \A u \in Threads : pc[u] \notin Inside
    BY <1>6, <2>2 DEF LockMutex, Applied, Removed
  <2> QED
    BY <1>6, <2>1, <2>3 DEF LockMutex
<1>7. ASSUME NEW t \in Threads, LoadReached(t) PROVE Static'
  <2>1. gone = {} /\ ready = Barriers /\ Cur(t) \in Barriers
    BY <1>7, Active DEF LoadReached
  <2> QED
    BY <1>7, <2>1 DEF LoadReached
<1>8. ASSUME NEW t \in Threads, StoreReached(t) PROVE Static'
  <2>1. gone = {} /\ ready = Barriers
    BY <1>8, Active DEF StoreReached
  <2>2. Types'
    <3>1. reg[t] + 1 \in Nat /\ arrived[t] + 1 \in Nat
      OBVIOUS
    <3>2. reached' \in [Barriers -> Nat]
      BY <1>8, <3>1 DEF StoreReached
    <3>3. arrived' \in [Threads -> Nat]
      BY <1>8, <3>1 DEF StoreReached
    <3> QED
      BY <1>8, <3>2, <3>3 DEF StoreReached
  <2> QED
    BY <1>8, <2>1, <2>2 DEF StoreReached
<1>9. ASSUME NEW t \in Threads, TestCount(t) PROVE Static'
  <2>1. gone = {} /\ ready = Barriers
    BY <1>9, Active DEF TestCount
  <2> QED
    BY <1>9, <2>1 DEF TestCount
<1>10. ASSUME NEW t \in Threads, UnlockMutex(t) PROVE Static'
  <2>1. gone = {} /\ ready = Barriers
    BY <1>10, Active DEF UnlockMutex
  <2>2. vop = 1 /\ msem = 0
    BY <1>10 DEF UnlockMutex
  <2>3. msem' = 1
    BY <1>10, <2>2 DEF UnlockMutex, Applied, Removed
  <2>4. pc' = [pc EXCEPT ![t] = "pass"] \/ pc' = [pc EXCEPT ![t] = "setcount"]
    BY <1>10 DEF UnlockMutex
  <2>5. \A u \in Threads : u # t => pc[u] \notin Inside
    BY <1>10 DEF UnlockMutex
  <2> QED
    BY <1>10, <2>1, <2>3, <2>4, <2>5 DEF UnlockMutex
<1>11. ASSUME NEW t \in Threads, SetCount(t) PROVE Static'
  <2>1. gone = {} /\ ready = Barriers /\ Cur(t) \in Barriers
        /\ count[Cur(t)] = Team /\ Count[Cur(t)] = Team
    BY <1>11, Active DEF SetCount
  <2>2. \A u \in Threads : u # t => pc[u] = "pass"
    BY <1>11, LastAlone DEF SetCount
  <2> QED
    BY <1>11, <2>1, <2>2 DEF SetCount
<1>12. ASSUME NEW t \in Threads, PostAll(t) PROVE Static'
  <2>1. gone = {} /\ ready = Barriers /\ Cur(t) \in Barriers
    BY <1>12, Active DEF PostAll
  <2>2. bsem' \in [Barriers -> Int]
    BY <1>12, <2>1, BarrierAssumption DEF PostAll, Applied, Removed
  <2> QED
    BY <1>12, <2>1, <2>2 DEF PostAll
<1>13. ASSUME NEW t \in Threads, ResetReached(t) PROVE Static'
  <2>1. gone = {} /\ ready = Barriers
    BY <1>13, Active DEF ResetReached
  <2> QED
    BY <1>13, <2>1 DEF ResetReached
<1>14. ASSUME NEW t \in Threads, Pass(t) PROVE Static'
  <2>1. gone = {} /\ ready = Barriers /\ Cur(t) \in Barriers
    BY <1>14, Active DEF Pass
  <2>2. bsem' \in [Barriers -> Int]
    BY <1>14, <2>1 DEF Pass, Applied, Removed
  <2> QED
    BY <1>14, <2>1, <2>2 DEF Pass
<1> QED
  BY <1>1, <1>2, <1>3, <1>4, <1>5, <1>6, <1>7, <1>8, <1>9, <1>10, <1>11,
     <1>12, <1>13, <1>14 DEF Next, Step

-----------------------------------------------------------------------------
(* The rounds                                                              *)

LEMMA PlaceFacts ==
  ASSUME Phased, Static, NEW k \in Nat, InRound(k), NEW t \in Threads
  PROVE  /\ pc[t] \in Before => arrived[t] = k /\ left[t] = k /\ t \notin Behind(k)
         /\ pc[t] \notin Before =>
               \/ t \in Ahead(k) /\ arrived[t] = k + 1 /\ left[t] = k /\ t \notin Behind(k)
               \/ t \in Behind(k) /\ arrived[t] = k /\ left[t] = k - 1 /\ k > 0
<1>1. left[t] \in Nat /\ arrived[t] \in Nat
  BY DEF Static, Types
<1>2. /\ arrived[t] = IF pc[t] \in Before THEN left[t] ELSE left[t] + 1
      /\ arrived[t] \in {k, k + 1} /\ left[t] \in {k - 1, k}
  BY DEF InRound, PlacesOK
<1> QED
  BY <1>1, <1>2 DEF Ahead, Behind

LEMMA AheadFacts ==
  ASSUME Phased, Static, NEW k \in Nat, InRound(k)
  PROVE  /\ Ahead(k) \in SUBSET Threads /\ Behind(k) \in SUBSET Threads
         /\ Ahead(k) # Threads /\ Cardinality(Ahead(k)) < Team
         /\ Ahead(k) \cap Behind(k) = {}
         /\ k < Len(P) => P[k + 1] \in Barriers
         /\ k > 0 => P[k] \in Barriers /\ Count[P[k]] = Team
         /\ k > 0 /\ k < Len(P) => P[k] # P[k + 1]
<1>1. Ahead(k) \in SUBSET Threads /\ Behind(k) \in SUBSET Threads
  BY DEF Ahead, Behind
<1>2. Ahead(k) # Threads
  BY DEF InRound, PlacesOK, Ahead
<1>3. Ahead(k) \cap Behind(k) = {}
  BY PlaceFacts DEF Ahead, Behind, InRound, PlacesOK, Before
<1>4. k <= Len(P) /\ Len(P) \in Nat
  BY PlanFacts DEF InRound
<1> QED
  BY <1>1, <1>2, <1>3, <1>4, GroupsFinite, PlanFacts DEF Phased

\* A thread goes on before it counts itself.
LEMMA BeforeStep ==
  ASSUME Phased, Static, NEW k \in Nat, InRound(k), NEW t \in Threads, NEW x \in Before,
         pc[t] \in Before, pc' = [pc EXCEPT ![t] = x], left[t] < Len(P),
         \A u \in Threads : u # t => reg'[u] = reg[u],
         x = "store" => reg'[t] = reached[P[k + 1]],
         UNCHANGED <<arrived, left, reached, bsem, gone>>
  PROVE  InRound(k)'
<1>1. pc'[t] = x /\ \A u \in Threads : u # t => pc'[u] = pc[u]
  BY DEF Static, Types
<1>2. arrived[t] = k /\ left[t] = k /\ t \notin Behind(k)
  BY PlaceFacts
<1>3. Ahead(k)' = Ahead(k) /\ Behind(k)' = Behind(k)
  BY DEF Ahead, Behind
<1>4. Last(k)' = Last(k) /\ (Open(k)' <=> Open(k))
  BY <1>1, <1>2, <1>3 DEF Last, Open, Behind
<1>5. PlacesOK(k)'
  BY <1>1, <1>2 DEF InRound, PlacesOK, Before
<1>6. LastOK(k)'
  BY <1>1, <1>2, <1>3, <1>4 DEF InRound, LastOK, Last
<1>7. CountsOK(k)'
  BY <1>3, <1>4 DEF InRound, CountsOK
<1> QED
  BY <1>5, <1>6, <1>7 DEF InRound

\* A thread that is ahead goes on.
LEMMA AheadStep ==
  ASSUME Phased, Static, NEW k \in Nat, InRound(k), NEW t \in Threads,
         NEW x \in {"test", "unlock", "pass"},
         t \in Ahead(k), pc[t] \notin Before, pc' = [pc EXCEPT ![t] = x],
         UNCHANGED <<arrived, left, reached, bsem, gone, reg>>
  PROVE  InRound(k)'
<1>1. pc'[t] = x /\ \A u \in Threads : u # t => pc'[u] = pc[u]
  BY DEF Static, Types
<1>2. t \notin Behind(k) /\ left[t] = k /\ arrived[t] = k + 1
  BY PlaceFacts, AheadFacts
<1>3. Ahead(k)' = Ahead(k) /\ Behind(k)' = Behind(k)
  BY DEF Ahead, Behind
<1>4. Last(k)' = Last(k) /\ (Open(k)' <=> Open(k))
  BY <1>1, <1>2, <1>3 DEF Last, Open, Behind
<1>5. PlacesOK(k)'
  <2>1. pc[t] # "idle"
    BY DEF Before
  <2> QED
    BY <1>1, <1>2, <2>1 DEF InRound, PlacesOK, Before
<1>6. LastOK(k)'
  BY <1>1, <1>2, <1>3, <1>4 DEF InRound, LastOK, Last
<1>7. CountsOK(k)'
  BY <1>3, <1>4 DEF InRound, CountsOK
<1> QED
  BY <1>5, <1>6, <1>7 DEF InRound

\* The last arriver goes on before he posts the barrier.
LEMMA BehindStep ==
  ASSUME Phased, Static, NEW k \in Nat, InRound(k), NEW t \in Threads,
         NEW x \in {"last_unlock", "setcount", "post"},
         t \in Behind(k), pc[t] \in {"test", "last_unlock", "setcount"},
         pc' = [pc EXCEPT ![t] = x],
         UNCHANGED <<arrived, left, reached, bsem, gone, reg>>
  PROVE  InRound(k)'
<1>1. pc'[t] = x /\ \A u \in Threads : u # t => pc'[u] = pc[u]
  BY DEF Static, Types
<1>2. left[t] = k - 1 /\ arrived[t] = k /\ t \notin Ahead(k)
  BY PlaceFacts, AheadFacts DEF Before
<1>3. Ahead(k)' = Ahead(k) /\ Behind(k)' = Behind(k)
  BY DEF Ahead, Behind
<1>4. Last(k)' = Last(k) /\ t \in Last(k) /\ ~Open(k)' /\ ~Open(k)
  BY <1>1, <1>3 DEF Last, Open
<1>5. PlacesOK(k)'
  BY <1>1, <1>2 DEF InRound, PlacesOK, Before
<1>6. LastOK(k)'
  BY <1>1, <1>3, <1>4 DEF InRound, LastOK
<1>7. CountsOK(k)'
  BY <1>3, <1>4 DEF InRound, CountsOK
<1> QED
  BY <1>5, <1>6, <1>7 DEF InRound

\* A thread counts itself: everybody who is ahead has been counted.
LEMMA CountStep ==
  ASSUME Phased, Static, NEW k \in Nat, InRound(k), NEW t \in Threads, StoreReached(t)
  PROVE  \E j \in Nat : InRound(j)'
<1> USE DEF StoreReached, Goto
<1>1. pc[t] = "store" /\ pc'[t] = "test" /\ \A u \in Threads : u # t => pc'[u] = pc[u]
  BY DEF Static, Types
<1>2. arrived[t] = k /\ left[t] = k /\ t \notin Behind(k) /\ t \notin Ahead(k)
  BY <1>1, PlaceFacts DEF Before, Ahead
<1>3. k < Len(P) /\ Cur(t) = P[k + 1] /\ P[k + 1] \in Barriers
  BY <1>1, <1>2, Active
<1>4. arrived'[t] = k + 1 /\ \A u \in Threads : u # t => arrived'[u] = arrived[u]
  BY <1>2 DEF Static, Types
<1>5. Ahead(k)' = Ahead(k) \cup {t} /\ Behind(k)' = Behind(k)
  BY <1>4 DEF Ahead, Behind
<1>6. Cardinality(Ahead(k)') = Cardinality(Ahead(k)) + 1
  BY <1>2, <1>5, AheadFacts, GroupsFinite, FS_AddElement
<1>7. /\ reached'[P[k + 1]] = Cardinality(Ahead(k)')
      /\ \A b \in Barriers : b # P[k + 1] => reached'[b] = reached[b]
  <2>1. reg[t] = reached[P[k + 1]] /\ reached[P[k + 1]] = Cardinality(Ahead(k))
    BY <1>1, <1>3 DEF InRound, PlacesOK, CountsOK
  <2> QED
    BY <1>3, <1>6, <2>1 DEF Static, Types
<1>8. \A u \in Threads : u # t => pc[u] \notin Inside
  BY <1>1 DEF Static, Guarded, CountingExclusive, Inside
<1>9. CASE Ahead(k)' # Threads
  <2>1. Last(k)' = Last(k) /\ (Open(k)' <=> Open(k))
    BY <1>1, <1>2, <1>5 DEF Last, Open, Behind
  <2>2. PlacesOK(k)'
    <3>1. \E u \in Threads : arrived'[u] = k
      BY <1>2, <1>4, <1>5, <1>9 DEF InRound, PlacesOK, Ahead
    <3>2. \A u \in Threads : pc'[u] # "store"
      BY <1>1, <1>8 DEF Inside
    <3> QED
      BY <1>1, <1>2, <1>4, <3>1, <3>2 DEF InRound, PlacesOK, Before
  <2>3. LastOK(k)'
    BY <1>1, <1>2, <1>5, <2>1 DEF InRound, LastOK, Last
  <2>4. CountsOK(k)'
    BY <1>3, <1>5, <1>7, <2>1, AheadFacts DEF InRound, CountsOK
  <2> QED
    BY <2>2, <2>3, <2>4 DEF InRound
<1>10. CASE Ahead(k)' = Threads
  <2>1. \A u \in Threads : u # t => arrived[u] = k + 1 /\ left[u] = k /\ pc[u] = "pass"
    <3>1. \A u \in Threads : u # t => u \in Ahead(k)
      BY <1>5, <1>10
    <3>2. \A u \in Threads : u # t => arrived[u] = k + 1
                                     /\ pc[u] \in {"test", "unlock", "pass"}
      BY <3>1 DEF Ahead, InRound, PlacesOK
    <3> QED
      BY <1>8, <3>2, PlaceFacts, AheadFacts DEF Before, Inside
  <2>2. \A u \in Threads : arrived'[u] = k + 1 /\ left'[u] = k
    BY <1>2, <1>4, <2>1
  <2>3. Behind(k) = {} /\ Last(k) = {}
    BY <1>2, <2>1 DEF Behind, Last
  <2>4. /\ Behind(k + 1)' = Threads /\ Ahead(k + 1)' = {}
        /\ Last(k + 1)' = {t} /\ ~Open(k + 1)'
    BY <1>1, <2>1, <2>2 DEF Behind, Ahead, Last, Open
  <2>5. PlacesOK(k + 1)'
    BY <1>1, <1>3, <2>1, <2>2, PlanFacts DEF PlacesOK, Before
  <2>6. LastOK(k + 1)'
    BY <2>4 DEF LastOK
  <2>7. CountsOK(k + 1)'
    <3>1. reached'[P[k + 1]] = Team
      BY <1>7, <1>10 DEF Team
    <3>2. \A b \in Barriers : b # P[k + 1] => reached'[b] = 0
      BY <1>7, <2>3 DEF InRound, CountsOK
    <3>3. \A b \in Barriers \ gone : bsem[b] = 0
      BY <2>3, FS_EmptySet DEF InRound, CountsOK
    <3>4. Cardinality(Ahead(k + 1)') = 0
      BY <2>4, FS_EmptySet
    <3>5. k + 1 < Len(P) => P[k + 1] # P[k + 1 + 1]
      BY PlanFacts DEF Phased
    <3>6. ASSUME NEW b \in Barriers
          PROVE  reached'[b] = IF k + 1 < Len(P) /\ b = P[k + 1 + 1]
                               THEN Cardinality(Ahead(k + 1)')
                               ELSE IF k + 1 > 0 /\ b = P[k + 1] /\ Last(k + 1)' # {}
                               THEN Team ELSE 0
      BY <2>4, <3>1, <3>2, <3>4, <3>5
    <3>7. \A b \in gone : bsem[b] = Removed
      BY DEF InRound, CountsOK
    <3> QED
      BY <2>4, <3>3, <3>6, <3>7 DEF CountsOK
  <2>8. k + 1 <= Len(P)
    BY <1>3, PlanFacts
  <2> QED
    BY <2>5, <2>6, <2>7, <2>8 DEF InRound
<1> QED
  BY <1>9, <1>10

\* Only the last arriver finds the full count.
LEMMA TestStep ==
  ASSUME Phased, Static, NEW k \in Nat, InRound(k), NEW t \in Threads, TestCount(t)
  PROVE  InRound(k)'
<1> USE DEF TestCount, Goto
<1>1. pc[t] = "test" /\ pc[t] \notin Before
  BY DEF Before
<1>2. /\ left[t] < Len(P) /\ Cur(t) = P[left[t] + 1]
      /\ Cur(t) \in Barriers /\ count[Cur(t)] = Team
  BY <1>1, Active
<1>3. CASE t \in Ahead(k)
  <2>1. left[t] = k
    BY <1>1, <1>3, PlaceFacts, AheadFacts
  <2>2. reached[Cur(t)] = Cardinality(Ahead(k))
    BY <1>2, <2>1, AheadFacts DEF InRound, CountsOK
  <2>3. reached[Cur(t)] # count[Cur(t)]
    BY <1>2, <2>2, AheadFacts, PlanFacts
  <2> QED
    BY <1>1, <1>3, <2>3, AheadStep
<1>4. CASE t \in Behind(k)
  <2>1. left[t] = k - 1 /\ k > 0 /\ t \in Last(k)
    BY <1>1, <1>4, PlaceFacts, AheadFacts DEF Last
  <2>2. Cur(t) = P[k]
    BY <1>2, <2>1
  <2>3. reached[Cur(t)] = count[Cur(t)]
    BY <1>2, <2>1, <2>2, AheadFacts DEF InRound, CountsOK
  <2> QED
    BY <1>1, <1>4, <2>3, BehindStep
<1> QED
  BY <1>1, <1>3, <1>4, PlaceFacts

\* The last arriver puts a token for everybody, while everybody waits.
LEMMA PostStep ==
  ASSUME Phased, Static, NEW k \in Nat, InRound(k), NEW t \in Threads, PostAll(t)
  PROVE  InRound(k)'
<1> USE DEF PostAll, Goto
<1>1. pc[t] = "post" /\ pc'[t] = "reset" /\ \A u \in Threads : u # t => pc'[u] = pc[u]
  BY DEF Static, Types
<1>2. /\ k > 0 /\ left[t] = k - 1 /\ t \in Last(k) /\ Behind(k) = Threads
      /\ \A u \in Threads : u # t => pc[u] = "pass"
  BY <1>1, LastAlone
<1>3. Cur(t) = P[k] /\ Cur(t) \in Barriers /\ gone = {}
  BY <1>1, <1>2, Active
<1>4. Ahead(k)' = Ahead(k) /\ Behind(k)' = Behind(k)
  BY DEF Ahead, Behind
<1>5. Last(k) = {t} /\ Last(k)' = {t} /\ Open(k)' /\ ~Open(k)
  BY <1>1, <1>2, <1>4 DEF Last, Open
<1>6. PlacesOK(k)'
  BY <1>1, <1>2 DEF InRound, PlacesOK, Before
<1>7. LastOK(k)'
  BY <1>1, <1>5 DEF LastOK
<1>8. CountsOK(k)'
  <2>1. bsem[P[k]] = 0 /\ vop = Team
    BY <1>1, <1>3, <1>5 DEF InRound, CountsOK, Static, VopRight
  <2>2. bsem'[P[k]] = Team /\ \A b \in Barriers : b # P[k] => bsem'[b] = bsem[b]
    BY <1>3, <2>1, PlanFacts DEF Static, Types, Applied, Removed
  <2>3. Cardinality(Behind(k)') = Team
    BY <1>2, <1>4 DEF Team
  <2> QED
    BY <1>2, <1>3, <1>4, <1>5, <2>2, <2>3 DEF InRound, CountsOK
<1> QED
  BY <1>6, <1>7, <1>8 DEF InRound

\* The last arriver resets reached, of a barrier nobody can have come back to.
LEMMA ResetStep ==
  ASSUME Phased, Static, NEW k \in Nat, InRound(k), NEW t \in Threads, ResetReached(t)
  PROVE  InRound(k)'
<1> USE DEF ResetReached, Goto
<1>1. pc[t] = "reset" /\ pc'[t] = "pass" /\ \A u \in Threads : u # t => pc'[u] = pc[u]
  BY DEF Static, Types
<1>2. k > 0 /\ left[t] = k - 1 /\ arrived[t] = k /\ t \in Behind(k)
  <2>1. t \notin Ahead(k)
    BY <1>1 DEF InRound, PlacesOK, Ahead
  <2> QED
    BY <1>1, <2>1, PlaceFacts DEF Before
<1>3. Cur(t) = P[k] /\ Cur(t) \in Barriers /\ gone = {}
  BY <1>1, <1>2, Active
<1>4. Ahead(k)' = Ahead(k) /\ Behind(k)' = Behind(k)
  BY DEF Ahead, Behind
<1>5. Last(k) = {t} /\ Last(k)' = {}
  <2>1. Last(k) = {t}
    BY <1>1, <1>2 DEF Last, InRound, LastOK
  <2> QED
    BY <1>1, <1>4, <2>1 DEF Last
<1>6. Open(k)' <=> Open(k)
  BY <1>1, <1>4 DEF Open, Behind
<1>7. PlacesOK(k)'
  <2>1. \A u \in Threads : pc'[u] = "store" => reg[u] = reached'[P[k + 1]]
    <3>1. ASSUME NEW u \in Threads, pc'[u] = "store" PROVE reg[u] = reached'[P[k + 1]]
      <4>1. pc[u] = "store" /\ left[u] = k
        BY <1>1, <3>1, PlaceFacts DEF Before
      <4>2. P[k + 1] # P[k] /\ P[k + 1] \in Barriers
        BY <1>2, <4>1, AheadFacts DEF InRound, PlacesOK
      <4>3. reached'[P[k + 1]] = reached[P[k + 1]]
        BY <1>3, <4>2 DEF Static, Types
      <4> QED
        BY <4>1, <4>3 DEF InRound, PlacesOK
    <3> QED
      BY <3>1
  <2> QED
    BY <1>1, <1>2, <2>1 DEF InRound, PlacesOK, Before
<1>8. LastOK(k)'
  BY <1>5 DEF LastOK
<1>9. CountsOK(k)'
  <2>1. reached'[P[k]] = 0 /\ \A b \in Barriers : b # P[k] => reached'[b] = reached[b]
    BY <1>3 DEF Static, Types
  <2> QED
    BY <1>2, <1>3, <1>4, <1>5, <1>6, <2>1, AheadFacts DEF InRound, CountsOK
<1> QED
  BY <1>7, <1>8, <1>9 DEF InRound

\* Who passes is behind, the barrier has been posted, and one token goes.
LEMMA PassFacts ==
  ASSUME Phased, Static, NEW k \in Nat, InRound(k), NEW t \in Threads, Pass(t)
  PROVE  /\ k > 0 /\ left[t] = k - 1 /\ arrived[t] = k /\ t \in Behind(k)
         /\ Cur(t) = P[k] /\ Cur(t) \in Barriers /\ gone = {}
         /\ Open(k) /\ bsem[P[k]] = Cardinality(Behind(k))
<1> USE DEF Pass, Goto
<1>1. pc[t] = "pass" /\ pc[t] \notin Before
  BY DEF Before
<1>2. /\ left[t] < Len(P) /\ Cur(t) = P[left[t] + 1]
      /\ Cur(t) \in Barriers /\ gone = {}
  BY <1>1, Active
<1>3. t \notin Ahead(k)
  <2> SUFFICES ASSUME t \in Ahead(k) PROVE FALSE
    OBVIOUS
  <2>1. left[t] = k
    BY <1>1, PlaceFacts, AheadFacts
  <2>2. bsem[Cur(t)] = 0
    BY <1>2, <2>1, AheadFacts DEF InRound, CountsOK
  <2> QED
    BY <2>2 DEF Ready, Removed
<1>4. t \in Behind(k) /\ arrived[t] = k /\ left[t] = k - 1 /\ k > 0
  BY <1>1, <1>3, PlaceFacts
<1>5. Cur(t) = P[k]
  BY <1>2, <1>4
<1>6. Open(k)
  <2>1. ~Open(k) => bsem[P[k]] = 0
    BY <1>2, <1>5 DEF InRound, CountsOK
  <2> QED
    BY <1>5, <2>1 DEF Ready, Removed
<1> QED
  BY <1>2, <1>4, <1>5, <1>6 DEF InRound, CountsOK

LEMMA PassStep ==
  ASSUME Phased, Static, NEW k \in Nat, InRound(k), NEW t \in Threads, Pass(t)
  PROVE  InRound(k)'
<1> USE DEF Pass, Goto
<1>1. pc[t] = "pass" /\ pc'[t] = "idle" /\ \A u \in Threads : u # t => pc'[u] = pc[u]
  BY DEF Static, Types
<1>2. /\ k > 0 /\ left[t] = k - 1 /\ arrived[t] = k /\ t \in Behind(k)
      /\ Cur(t) = P[k] /\ Cur(t) \in Barriers /\ gone = {}
      /\ Open(k) /\ bsem[P[k]] = Cardinality(Behind(k))
  BY PassFacts
<1>3. left'[t] = k /\ \A u \in Threads : u # t => left'[u] = left[u]
  BY <1>2 DEF Static, Types
<1>4. Ahead(k)' = Ahead(k) /\ Behind(k)' = Behind(k) \ {t}
  BY <1>3 DEF Ahead, Behind
<1>5. Last(k)' = Last(k) /\ Open(k)'
  BY <1>1, <1>2, <1>4 DEF Last, Open, Behind
<1>6. PlacesOK(k)'
  BY <1>1, <1>2, <1>3 DEF InRound, PlacesOK, Before
<1>7. LastOK(k)'
  <2>1. \A u \in Last(k) : u # t /\ pc[u] = "reset"
    BY <1>1, <1>2 DEF Open, Last
  <2> QED
    BY <1>1, <1>5, <2>1 DEF InRound, LastOK, Last, Behind
<1>8. CountsOK(k)'
  <2>1. Cardinality(Behind(k)') = Cardinality(Behind(k)) - 1
    BY <1>2, <1>4, AheadFacts, GroupsFinite, FS_RemoveElement
  <2>2. Cardinality(Behind(k)) \in Nat
    BY AheadFacts, GroupsFinite
  <2>3. /\ bsem'[P[k]] = Cardinality(Behind(k)')
        /\ \A b \in Barriers : b # P[k] => bsem'[b] = bsem[b]
    BY <1>2, <2>1, <2>2 DEF Static, Types, Applied, Removed
  <2> QED
    BY <1>2, <1>4, <1>5, <2>3 DEF InRound, CountsOK
<1> QED
  BY <1>6, <1>7, <1>8 DEF InRound

LEMMA QuietStep ==
  ASSUME NEW k \in Nat, InRound(k),
         UNCHANGED <<pc, arrived, left, reached, bsem, gone, reg>>
  PROVE  InRound(k)'
<1>1. Ahead(k)' = Ahead(k) /\ Behind(k)' = Behind(k)
  BY DEF Ahead, Behind
<1>2. Last(k)' = Last(k) /\ (Open(k)' <=> Open(k))
  BY <1>1 DEF Last, Open
<1>3. PlacesOK(k)'
  BY DEF InRound, PlacesOK
<1>4. LastOK(k)'
  BY <1>1, <1>2 DEF InRound, LastOK
<1>5. CountsOK(k)'
  BY <1>1, <1>2 DEF InRound, CountsOK
<1> QED
  BY <1>3, <1>4, <1>5 DEF InRound

LEMMA RoundStep ==
  ASSUME Phased, Static, NEW k \in Nat, InRound(k), [Next]_vars
  PROVE  \E j \in Nat : InRound(j)'
<1>1. CASE UNCHANGED vars
  <2>1. InRound(k)'
    BY <1>1, QuietStep DEF vars
  <2> QED
    BY <2>1
<1>2. ASSUME NEW b \in Barriers, BarrierInit(b) PROVE InRound(k)'
  <2>1. b \notin gone
    BY <1>2 DEF BarrierInit, Static, Types
  <2>2. \A t \in Threads : pc[t] = "idle" /\ left[t] = 0
    BY <1>2 DEF BarrierInit, Static, SetUp
  <2>3. \A t \in Threads : arrived[t] = k /\ left[t] = k /\ t \notin Behind(k)
    BY <2>2, PlaceFacts DEF Before
  <2>4. k = 0 /\ Ahead(k) = {} /\ Behind(k) = {}
    BY <2>2, <2>3 DEF Ahead, Behind, Phased
  <2>5. Cardinality(Ahead(k)) = 0
    BY <2>4, FS_EmptySet
  <2>6. reached' = reached /\ bsem' = bsem
    <3>1. reached[b] = 0 /\ bsem[b] = 0
      BY <2>1, <2>4, <2>5 DEF InRound, CountsOK
    <3> QED
      BY <1>2, <3>1 DEF BarrierInit, Static, Types
  <2> QED
    BY <1>2, <2>6, QuietStep DEF BarrierInit
<1>3. ASSUME NEW b \in Barriers, BarrierDestroy(b) PROVE InRound(k)'
  <2>1. \A t \in Threads : left[t] = Len(P)
    BY <1>3, PlanFacts DEF BarrierDestroy, Finished
  <2>2. \A t \in Threads : pc[t] = "idle"
    BY <2>1, PlanFacts DEF InRound, PlacesOK
  <2>3. k = Len(P) /\ Ahead(k) = {} /\ Behind(k) = {}
    <3>1. \A t \in Threads : arrived[t] = k /\ left[t] = k /\ t \notin Behind(k)
      BY <2>2, PlaceFacts DEF Before
    <3> QED
      BY <2>1, <3>1 DEF Phased, Ahead, Behind
  <2>4. Last(k) = {} /\ Last(k)' = {} /\ Behind(k)' = {} /\ Cardinality({}) = 0
    BY <1>3, <2>3, FS_EmptySet DEF BarrierDestroy, Last, Behind
  <2>5. PlacesOK(k)'
    BY <1>3, <2>2 DEF BarrierDestroy, InRound, PlacesOK, Before
  <2>6. LastOK(k)'
    BY <2>4 DEF LastOK
  <2>7. CountsOK(k)'
    <3>1. \A c \in Barriers : reached[c] = 0 /\ reached'[c] = 0
      <4>1. \A c \in Barriers : reached[c] = 0
        BY <2>3, <2>4, PlanFacts DEF InRound, CountsOK
      <4> QED
        BY <1>3, <4>1 DEF BarrierDestroy, Static, Types
    <3>2. \A c \in Barriers \ gone' : bsem'[c] = 0
      BY <1>3, <2>3, <2>4 DEF BarrierDestroy, InRound, CountsOK, Static, Types
    <3>3. \A c \in gone' : bsem'[c] = Removed
      BY <1>3 DEF BarrierDestroy, InRound, CountsOK, Static, Types
    <3> QED
      BY <2>3, <2>4, <3>1, <3>2, <3>3, PlanFacts DEF CountsOK
  <2> QED
    BY <2>5, <2>6, <2>7 DEF InRound
<1>4. ASSUME NEW t \in Threads, Step(t) PROVE \E j \in Nat : InRound(j)'
  <2> USE DEF Goto
  <2>1. CASE Call(t)
    <3>1. left[t] < Len(P)
      BY <2>1, PlanFacts, PlaceFacts DEF Call, Finished, Before, InRound
    <3>2. InRound(k)'
      BY <2>1, <3>1, BeforeStep DEF Call, Before
    <3> QED
      BY <3>2
  <2>2. CASE SetOps(t)
    <3>1. InRound(k)'
      BY <2>2, Active, BeforeStep DEF SetOps, Before
    <3> QED
      BY <3>1
  <2>3. CASE LockMutex(t)
    <3>1. InRound(k)'
      BY <2>3, Active, BeforeStep DEF LockMutex, Before
    <3> QED
      BY <3>1
  <2>4. CASE LoadReached(t)
    <3>1. pc[t] = "load" /\ left[t] < Len(P) /\ Cur(t) = P[left[t] + 1]
      BY <2>4, Active DEF LoadReached
    <3>2. left[t] = k
      BY <3>1, PlaceFacts DEF Before
    <3>3. reg'[t] = reached[P[k + 1]] /\ \A u \in Threads : u # t => reg'[u] = reg[u]
      BY <2>4, <3>1, <3>2 DEF LoadReached, Static, Types
    <3>4. InRound(k)'
      BY <2>4, <3>1, <3>3, BeforeStep DEF LoadReached, Before
    <3> QED
      BY <3>4
  <2>5. CASE StoreReached(t)
    BY <2>5, CountStep
  <2>6. CASE TestCount(t)
    BY <2>6, TestStep
  <2>7. CASE UnlockMutex(t)
    <3>1. CASE pc[t] = "unlock"
      <4>1. t \in Ahead(k) /\ pc[t] \notin Before
        BY <3>1, PlaceFacts DEF Before, InRound, PlacesOK
      <4> QED
        BY <2>7, <3>1, <4>1, AheadStep DEF UnlockMutex
    <3>2. CASE pc[t] = "last_unlock"
      BY <2>7, <3>2, LastAlone, BehindStep DEF UnlockMutex
    <3> QED
      BY <2>7, <3>1, <3>2 DEF UnlockMutex
  <2>8. CASE SetCount(t)
    BY <2>8, LastAlone, BehindStep DEF SetCount
  <2>9. CASE PostAll(t)
    BY <2>9, PostStep
  <2>10. CASE ResetReached(t)
    BY <2>10, ResetStep
  <2>11. CASE Pass(t)
    BY <2>11, PassStep
  <2> QED
    BY <1>4, <2>1, <2>2, <2>3, <2>4, <2>5, <2>6, <2>7, <2>8, <2>9, <2>10, <2>11 DEF Step
<1> QED
  BY <1>1, <1>2, <1>3, <1>4 DEF Next

LEMMA AlwaysIInv == ASSUME Phased PROVE Spec => []IInv
<1>1. IInv /\ [Next]_vars => IInv'
  BY StaticStep, RoundStep DEF IInv
<1> QED
  BY InitIInv, <1>1, PTL DEF Spec

-----------------------------------------------------------------------------

LEMMA RoundTyped ==
  ASSUME Phased, Static, NEW k \in Nat, InRound(k)
  PROVE  TypeOK
<1> USE DEF Static, Types
<1>1. \A b \in Barriers : Count[b] \in Nat \ {0}
  BY BarrierAssumption
<1>2. Cardinality(Ahead(k)) \in 0 .. Team /\ Cardinality(Behind(k)) \in 0 .. Team
  BY AheadFacts, GroupsFinite
<1>3. k \in 0 .. Len(P) /\ \A i \in 1 .. Len(P) : Count[P[i]] = Team
  BY PlanFacts DEF InRound, Phased
<1>4. ASSUME NEW b \in Barriers PROVE reached[b] \in 0 .. Count[b]
  <2>1. k < Len(P) => Count[P[k + 1]] = Team
    <3>1. k < Len(P) => k + 1 \in 1 .. Len(P)
      BY <1>3, PlanFacts
    <3> QED
      BY <1>3, <3>1
  <2>2. k > 0 => Count[P[k]] = Team
    BY <1>3
  <2>3. reached[b] = IF k < Len(P) /\ b = P[k + 1] THEN Cardinality(Ahead(k))
                     ELSE IF k > 0 /\ b = P[k] /\ Last(k) # {} THEN Team ELSE 0
    BY DEF InRound, CountsOK
  <2> QED
    BY <1>1, <1>2, <2>1, <2>2, <2>3, PlanFacts
<1>5. ASSUME NEW b \in Barriers PROVE bsem[b] \in Removed .. Count[b]
  <2>1. CASE b \in gone
    BY <1>1, <2>1 DEF InRound, CountsOK, Removed
  <2>2. CASE b \notin gone
    <3>1. k > 0 => Count[P[k]] = Team
      BY <1>3
    <3>2. bsem[b] = IF k > 0 /\ b = P[k] /\ Open(k) THEN Cardinality(Behind(k)) ELSE 0
      BY <2>2 DEF InRound, CountsOK
    <3> QED
      BY <1>1, <1>2, <3>1, <3>2, PlanFacts DEF Removed
  <2> QED
    BY <2>1, <2>2
<1>6. ASSUME NEW t \in Threads
      PROVE  left[t] <= arrived[t] /\ arrived[t] <= Len(Plan[t])
  <2>1. Len(Plan[t]) = Len(P) /\ left[t] \in Nat /\ arrived[t] \in Nat
    BY PlanFacts
  <2>2. arrived[t] = IF pc[t] \in Before THEN left[t] ELSE left[t] + 1
    BY DEF InRound, PlacesOK
  <2>3. pc[t] # "idle" => left[t] < Len(P)
    BY DEF InRound, PlacesOK
  <2>4. pc[t] = "idle" => arrived[t] = k
    BY PlaceFacts DEF Before
  <2>5. pc[t] \notin Before => pc[t] # "idle"
    BY DEF Before
  <2> QED
    BY <1>3, <2>1, <2>2, <2>3, <2>4, <2>5, PlanFacts
<1> QED
  BY <1>4, <1>5, <1>6 DEF TypeOK

\* The variables keep their types: the mutex semaphore behind all barriers stays
\* binary although it is posted with a shared sembuf, and no barrier ever holds
\* more tokens than it has threads.
THEOREM TypeCorrect == ASSUME Phased PROVE Spec => []TypeOK
<1>1. IInv => TypeOK
  BY RoundTyped DEF IInv
<1> QED
  BY AlwaysIInv, <1>1, PTL

\* Threads that count themselves exclude each other.
THEOREM CountingGuarded == ASSUME Phased PROVE Spec => []CountingExclusive
<1>1. IInv => CountingExclusive
  BY DEF IInv, Static, Guarded
<1> QED
  BY AlwaysIInv, <1>1, PTL

LEMMA RoundClean ==
  ASSUME Phased, Static, NEW k \in Nat, InRound(k),
         \A t, u \in Threads : pc[t] = "idle" /\ left[t] = left[u],
         NEW b \in ready \ gone
  PROVE  bsem[b] = 0 /\ reached[b] = 0
<1>1. \A t \in Threads : arrived[t] = k /\ t \notin Behind(k)
  BY PlaceFacts DEF Before
<1>2. Ahead(k) = {} /\ Behind(k) = {} /\ Last(k) = {}
  BY <1>1 DEF Ahead, Behind, Last
<1>3. b \in Barriers \ gone /\ Cardinality({}) = 0
  BY FS_EmptySet DEF Static, Types
<1> QED
  BY <1>2, <1>3 DEF InRound, CountsOK

\* Whenever the team has passed a barrier together, all barriers are as new:
\* neither a token nor a counted arrival is left for a later phase.
THEOREM BarriersReusable == ASSUME Phased PROVE Spec => []NothingLeftBehind
<1>1. IInv => NothingLeftBehind
  BY RoundClean DEF IInv, NothingLeftBehind
<1> QED
  BY AlwaysIInv, <1>1, PTL

\* All that the run checks of the barriers' states, for every team and plan.
THEOREM Sound == ASSUME Phased PROVE Spec => []BarrierSound
<1>1. TypeOK /\ CountingExclusive /\ NothingLeftBehind <=> BarrierSound
  BY DEF BarrierSound
<1> QED
  BY TypeCorrect, CountingGuarded, BarriersReusable, <1>1, PTL

LEMMA PhaseStep ==
  ASSUME Phased, Static, NEW k \in Nat, InRound(k), [Next]_vars
  PROVE  [Phase!Next]_Phase!vars
<1>1. CASE UNCHANGED <<arrived, left>>
  BY <1>1 DEF Phase!vars
<1>2. ASSUME NEW t \in Threads, StoreReached(t) PROVE Phase!Arrive(t)
  <2>1. arrived[t] = left[t] /\ left[t] < Len(P)
    BY <1>2, PlaceFacts, Active DEF StoreReached, Goto, Before
  <2> QED
    BY <1>2, <2>1 DEF StoreReached, Phase!Arrive, P
<1>3. ASSUME NEW t \in Threads, Pass(t) PROVE Phase!Leave(t)
  <2>1. arrived[t] = k /\ left[t] = k - 1
    BY <1>3, PassFacts
  <2>2. \A u \in Threads : arrived[u] >= k
    BY DEF InRound, PlacesOK
  <2> QED
    BY <1>3, <2>1, <2>2 DEF Pass, Phase!Leave
<1>4. ASSUME NEW t \in Threads, Step(t), ~StoreReached(t), ~Pass(t)
      PROVE  UNCHANGED <<arrived, left>>
  BY <1>4 DEF Step, Call, SetOps, LockMutex, LoadReached, TestCount, UnlockMutex,
     SetCount, PostAll, ResetReached
<1>5. ASSUME NEW b \in Barriers, BarrierInit(b) \/ BarrierDestroy(b)
      PROVE  UNCHANGED <<arrived, left>>
  BY <1>5 DEF BarrierInit, BarrierDestroy
<1> QED
  BY <1>1, <1>2, <1>3, <1>4, <1>5 DEF Next, vars, Phase!Next

\* The library's barriers implement the abstract barrier: every counted arrival
\* is an Arrive, every return a Leave, and all else stutters.  Nobody leaves a
\* phase before everyone has arrived in it, however far the fast ones are ahead.
THEOREM PhasesImplemented == ASSUME Phased PROVE Spec => ImplementsPhases
<1>1. Init => Phase!Init
  BY DEF Init, Phase!Init
<1>2. IInv /\ [Next]_vars => [Phase!Next]_Phase!vars
  BY PhaseStep DEF IInv
<1> QED
  BY AlwaysIInv, <1>1, <1>2, PTL DEF Spec, ImplementsPhases, Phase!Spec

=============================================================================
