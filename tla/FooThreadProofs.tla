-------------------------- MODULE FooThreadProofs ---------------------------
(***************************************************************************)
(* Creation and exit of foothreads, for any number of threads, any table   *)
(* and any scripts: the thread table is never worked on by two threads at  *)
(* once, though the sembuf of the P operations that guard it is shared.    *)
(*                                                                         *)
(* What the table and the semaphores of its entries contain is proved for  *)
(* scripts in which each creation creates a thread of its own (Tree), and  *)
(* the joins for clients that join their children one by one (OneByOne).   *)
(***************************************************************************)
EXTENDS FooThread, FiniteSetTheorems, WellFoundedInduction, TLAPS

-----------------------------------------------------------------------------
(* The mutex of the table                                                  *)

Holding == {"c_table", "c_post", "x_scan", "x_post", "x_free", "x_post2"}
Entering == {"c_enter", "x_enter", "x_jenter", "x_enter2"}
Waiting == {"c_wait", "x_wait", "x_jwait", "x_wait2"}

Types ==
    /\ pc \in [Threads -> Places]
    /\ ip \in [Threads -> Nat] /\ mychild \in [Threads -> SUBSET Slots]
    /\ pop \in -MaxThreads .. 0 /\ op \in [Threads -> -MaxThreads .. 0]
    /\ init \in BOOLEAN /\ msem \in {0, 1}

\* Nobody waits for mutex_semaphore before it is set up, but a leader that
\* exits before it creates a thread.
SetUp ==
    ~init => /\ msem = 0
             /\ pc[Leader] \in {"idle", "c_ops", "x_ops", "x_enter", "x_wait"}
             /\ \A t \in Threads \ {Leader} : pc[t] = "off"

\* A P operation takes at least 1, whoever stored last into the sembuf: the
\* only other number stored counts children, and it is stored when there are
\* some.
OpsTake ==
    \A t \in Threads :
        /\ pc[t] \in Entering => pop # 0
        /\ pc[t] \in Waiting => op[t] # 0
        /\ pc[t] = "x_setpop" => mychild[t] # {}

Guarded ==
    \A t, u \in Threads :
        pc[t] \in Holding => msem = 0 /\ (pc[u] \in Holding => t = u)

Locking == Types /\ SetUp /\ OpsTake /\ Guarded

\* A set of slots is finite and has at most MaxThreads elements.
LEMMA SlotSets ==
  ASSUME NEW S \in SUBSET Slots
  PROVE  /\ IsFiniteSet(S) /\ Cardinality(S) \in 0 .. MaxThreads
         /\ S # {} => Cardinality(S) # 0
<1>1. IsFiniteSet(Slots) /\ Cardinality(Slots) = MaxThreads
  BY FS_Interval, ThreadAssumption DEF Slots
<1>2. IsFiniteSet(S) /\ Cardinality(S) <= Cardinality(Slots)
  BY <1>1, FS_Subset
<1> QED
  BY <1>1, <1>2, FS_CardinalityType, FS_EmptySet, ThreadAssumption

\* Nobody works on the table at the start.
LEMMA InitLocking == Init => Locking
<1> SUFFICES ASSUME Init PROVE Locking
  OBVIOUS
<1> USE ThreadAssumption DEF Init
<1>1. Types
  <2>1. 0 \in -MaxThreads .. 0
    OBVIOUS
  <2>2. pc \in [Threads -> Places]
    BY DEF Places
  <2> QED
    BY <2>1, <2>2 DEF Types
<1>2. SetUp /\ OpsTake /\ Guarded
  BY DEF SetUp, OpsTake, Guarded, Entering, Waiting, Holding
<1> QED
  BY <1>1, <1>2 DEF Locking

\* The semaphore stays a mutex: only its holder posts it.
LEMMA TypesStep ==
  ASSUME Locking, [Next]_vars
  PROVE  Types'
<1> USE ThreadAssumption DEF Locking, Types, Places, Goto
<1>1. CASE UNCHANGED vars
  BY <1>1 DEF vars
<1>2. ASSUME NEW t \in Threads, CallCreate(t) PROVE Types'
  BY <1>2 DEF CallCreate
<1>3. ASSUME NEW t \in Threads, CreateOps(t) PROVE Types'
  BY <1>3 DEF CreateOps
<1>4. ASSUME NEW t \in Threads, Register(t) PROVE Types'
  BY <1>4 DEF Register, Fill
<1>5. ASSUME NEW t \in Threads, TableFull(t) PROVE Types'
  <2>1. msem = 0
    BY <1>5 DEF TableFull, Guarded, Holding
  <2> QED
    BY <1>5, <2>1 DEF TableFull, Applied, Removed
<1>6. ASSUME NEW t \in Threads, CreatePost(t) PROVE Types'
  <2>1. msem = 0
    BY <1>6 DEF CreatePost, Guarded, Holding
  <2> QED
    BY <1>6, <2>1 DEF CreatePost, Applied, Removed
<1>7. ASSUME NEW t \in Threads, CallExit(t) PROVE Types'
  BY <1>7 DEF CallExit
<1>8. ASSUME NEW t \in Threads, ExitOps(t) PROVE Types'
  BY <1>8 DEF ExitOps
<1>9. ASSUME NEW t \in Threads, ExitScan(t) PROVE Types'
  <2>1. ChildSlots(t) \in SUBSET Slots
    BY DEF ChildSlots, Valid
  <2> QED
    BY <1>9, <2>1 DEF ExitScan, Scan
<1>10. ASSUME NEW t \in Threads, ExitPost(t) PROVE Types'
  <2>1. msem = 0
    BY <1>10 DEF ExitPost, Guarded, Holding
  <2>2. msem' = 1
    BY <1>10, <2>1 DEF ExitPost, Applied, Removed
  <2>3. pc' \in [Threads -> Places]
    BY <1>10 DEF ExitPost
  <2> QED
    BY <1>10, <2>2, <2>3 DEF ExitPost
<1>11. ASSUME NEW t \in Threads, SetJoinCount(t) PROVE Types'
  <2>1. Cardinality(mychild[t]) \in 0 .. MaxThreads
    BY SlotSets
  <2> QED
    BY <1>11, <2>1 DEF SetJoinCount
<1>12. ASSUME NEW t \in Threads, Join(t) PROVE Types'
  BY <1>12 DEF Join
<1>13. ASSUME NEW t \in Threads, RestorePop(t) PROVE Types'
  BY <1>13 DEF RestorePop
<1>14. ASSUME NEW t \in Threads, FreeChildren(t) PROVE Types'
  BY <1>14 DEF FreeChildren
<1>15. ASSUME NEW t \in Threads, ExitPost2(t) PROVE Types'
  <2>1. msem = 0
    BY <1>15 DEF ExitPost2, Guarded, Holding
  <2> QED
    BY <1>15, <2>1 DEF ExitPost2, Applied, Removed
<1>16. ASSUME NEW t \in Threads, EnterWait(t) PROVE Types'
  BY <1>16 DEF EnterWait
<1>17. ASSUME NEW t \in Threads, LockTable(t) PROVE Types'
  <2>1. op[t] # 0
    BY <1>17 DEF LockTable, OpsTake, Waiting
  <2>2. msem' \in {0, 1}
    BY <1>17, <2>1 DEF LockTable, Ready, Applied, Removed
  <2>3. pc' \in [Threads -> Places]
    BY <1>17 DEF LockTable
  <2> QED
    BY <1>17, <2>2, <2>3 DEF LockTable
<1> QED
  BY <1>1, <1>2, <1>3, <1>4, <1>5, <1>6, <1>7, <1>8, <1>9, <1>10, <1>11, <1>12, <1>13, <1>14, <1>15, <1>16, <1>17 DEF Next, Step

\* Only the leader runs before the first creation.
LEMMA SetUpStep ==
  ASSUME Locking, [Next]_vars
  PROVE  SetUp'
<1> USE ThreadAssumption DEF Locking, Types, SetUp, Goto
<1>1. CASE UNCHANGED vars
  BY <1>1 DEF vars
<1>2. ASSUME NEW t \in Threads, CallCreate(t) PROVE SetUp'
  BY <1>2 DEF CallCreate
<1>3. ASSUME NEW t \in Threads, CreateOps(t) PROVE SetUp'
  BY <1>3 DEF CreateOps
<1>4. ASSUME NEW t \in Threads, Register(t) PROVE SetUp'
  BY <1>4 DEF Register, Fill
<1>5. ASSUME NEW t \in Threads, TableFull(t) PROVE SetUp'
  BY <1>5 DEF TableFull, Applied, Removed
<1>6. ASSUME NEW t \in Threads, CreatePost(t) PROVE SetUp'
  BY <1>6 DEF CreatePost, Applied, Removed
<1>7. ASSUME NEW t \in Threads, CallExit(t) PROVE SetUp'
  BY <1>7 DEF CallExit
<1>8. ASSUME NEW t \in Threads, ExitOps(t) PROVE SetUp'
  BY <1>8 DEF ExitOps
<1>9. ASSUME NEW t \in Threads, ExitScan(t) PROVE SetUp'
  BY <1>9 DEF ExitScan, Scan
<1>10. ASSUME NEW t \in Threads, ExitPost(t) PROVE SetUp'
  BY <1>10 DEF ExitPost, Applied, Removed
<1>11. ASSUME NEW t \in Threads, SetJoinCount(t) PROVE SetUp'
  BY <1>11 DEF SetJoinCount
<1>12. ASSUME NEW t \in Threads, Join(t) PROVE SetUp'
  BY <1>12 DEF Join
<1>13. ASSUME NEW t \in Threads, RestorePop(t) PROVE SetUp'
  BY <1>13 DEF RestorePop
<1>14. ASSUME NEW t \in Threads, FreeChildren(t) PROVE SetUp'
  BY <1>14 DEF FreeChildren
<1>15. ASSUME NEW t \in Threads, ExitPost2(t) PROVE SetUp'
  BY <1>15 DEF ExitPost2, Applied, Removed
<1>16. ASSUME NEW t \in Threads, EnterWait(t) PROVE SetUp'
  BY <1>16 DEF EnterWait
<1>17. ASSUME NEW t \in Threads, LockTable(t) PROVE SetUp'
  <2>1. op[t] < 0
    BY <1>17 DEF LockTable, OpsTake, Waiting
  <2> QED
    BY <1>17, <2>1 DEF LockTable, Ready, Removed
<1> QED
  BY <1>1, <1>2, <1>3, <1>4, <1>5, <1>6, <1>7, <1>8, <1>9, <1>10, <1>11, <1>12, <1>13, <1>14, <1>15, <1>16, <1>17 DEF Next, Step

\* Only SetJoinCount stores anything but -1.
LEMMA OpsTakeStep ==
  ASSUME Locking, [Next]_vars
  PROVE  OpsTake'
<1> USE DEF Locking, Types, OpsTake, Entering, Waiting, Goto
<1>1. CASE UNCHANGED vars
  BY <1>1 DEF vars
<1>2. ASSUME NEW t \in Threads, CallCreate(t) PROVE OpsTake'
  BY <1>2 DEF CallCreate
<1>3. ASSUME NEW t \in Threads, CreateOps(t) PROVE OpsTake'
  BY <1>3 DEF CreateOps
<1>4. ASSUME NEW t \in Threads, Register(t) PROVE OpsTake'
  BY <1>4 DEF Register, Fill
<1>5. ASSUME NEW t \in Threads, TableFull(t) PROVE OpsTake'
  BY <1>5 DEF TableFull, Applied, Removed
<1>6. ASSUME NEW t \in Threads, CreatePost(t) PROVE OpsTake'
  BY <1>6 DEF CreatePost, Applied, Removed
<1>7. ASSUME NEW t \in Threads, CallExit(t) PROVE OpsTake'
  BY <1>7 DEF CallExit
<1>8. ASSUME NEW t \in Threads, ExitOps(t) PROVE OpsTake'
  BY <1>8 DEF ExitOps
<1>9. ASSUME NEW t \in Threads, ExitScan(t) PROVE OpsTake'
  BY <1>9 DEF ExitScan, Scan
<1>10. ASSUME NEW t \in Threads, ExitPost(t) PROVE OpsTake'
  BY <1>10 DEF ExitPost, Applied, Removed
<1>11. ASSUME NEW t \in Threads, SetJoinCount(t) PROVE OpsTake'
  <2>1. Cardinality(mychild[t]) \in 1 .. MaxThreads
    BY <1>11, SlotSets DEF SetJoinCount
  <2>2. pop' # 0
    BY <1>11, <2>1, ThreadAssumption DEF SetJoinCount
  <2> QED
    BY <1>11, <2>2 DEF SetJoinCount
<1>12. ASSUME NEW t \in Threads, Join(t) PROVE OpsTake'
  BY <1>12 DEF Join
<1>13. ASSUME NEW t \in Threads, RestorePop(t) PROVE OpsTake'
  BY <1>13 DEF RestorePop
<1>14. ASSUME NEW t \in Threads, FreeChildren(t) PROVE OpsTake'
  BY <1>14 DEF FreeChildren
<1>15. ASSUME NEW t \in Threads, ExitPost2(t) PROVE OpsTake'
  BY <1>15 DEF ExitPost2, Applied, Removed
<1>16. ASSUME NEW t \in Threads, EnterWait(t) PROVE OpsTake'
  BY <1>16 DEF EnterWait
<1>17. ASSUME NEW t \in Threads, LockTable(t) PROVE OpsTake'
  BY <1>17 DEF LockTable, Ready, Applied, Removed
<1> QED
  BY <1>1, <1>2, <1>3, <1>4, <1>5, <1>6, <1>7, <1>8, <1>9, <1>10, <1>11, <1>12, <1>13, <1>14, <1>15, <1>16, <1>17 DEF Next, Step

\* Who gets through LockTable has taken the only token.
LEMMA GuardedStep ==
  ASSUME Locking, [Next]_vars
  PROVE  Guarded'
<1> USE DEF Locking, Types, Guarded, Holding, Goto
<1>1. CASE UNCHANGED vars
  BY <1>1 DEF vars
<1>2. ASSUME NEW t \in Threads, CallCreate(t) PROVE Guarded'
  BY <1>2 DEF CallCreate
<1>3. ASSUME NEW t \in Threads, CreateOps(t) PROVE Guarded'
  BY <1>3, ThreadAssumption DEF CreateOps, SetUp
<1>4. ASSUME NEW t \in Threads, Register(t) PROVE Guarded'
  BY <1>4 DEF Register, Fill
<1>5. ASSUME NEW t \in Threads, TableFull(t) PROVE Guarded'
  BY <1>5 DEF TableFull, Applied, Removed
<1>6. ASSUME NEW t \in Threads, CreatePost(t) PROVE Guarded'
  BY <1>6 DEF CreatePost, Applied, Removed
<1>7. ASSUME NEW t \in Threads, CallExit(t) PROVE Guarded'
  BY <1>7 DEF CallExit
<1>8. ASSUME NEW t \in Threads, ExitOps(t) PROVE Guarded'
  BY <1>8 DEF ExitOps
<1>9. ASSUME NEW t \in Threads, ExitScan(t) PROVE Guarded'
  BY <1>9 DEF ExitScan, Scan
<1>10. ASSUME NEW t \in Threads, ExitPost(t) PROVE Guarded'
  BY <1>10 DEF ExitPost, Applied, Removed
<1>11. ASSUME NEW t \in Threads, SetJoinCount(t) PROVE Guarded'
  BY <1>11 DEF SetJoinCount
<1>12. ASSUME NEW t \in Threads, Join(t) PROVE Guarded'
  BY <1>12 DEF Join
<1>13. ASSUME NEW t \in Threads, RestorePop(t) PROVE Guarded'
  BY <1>13 DEF RestorePop
<1>14. ASSUME NEW t \in Threads, FreeChildren(t) PROVE Guarded'
  BY <1>14 DEF FreeChildren
<1>15. ASSUME NEW t \in Threads, ExitPost2(t) PROVE Guarded'
  BY <1>15 DEF ExitPost2, Applied, Removed
<1>16. ASSUME NEW t \in Threads, EnterWait(t) PROVE Guarded'
  BY <1>16 DEF EnterWait
<1>17. ASSUME NEW t \in Threads, LockTable(t) PROVE Guarded'
  <2>1. op[t] < 0
    BY <1>17, ThreadAssumption DEF LockTable, OpsTake, Waiting
  <2>2. msem = 1 /\ msem' = 0
    BY <1>17, <2>1, ThreadAssumption DEF LockTable, Ready, Applied, Removed
  <2> QED
    BY <1>17, <2>2 DEF LockTable
<1> QED
  BY <1>1, <1>2, <1>3, <1>4, <1>5, <1>6, <1>7, <1>8, <1>9, <1>10, <1>11, <1>12, <1>13, <1>14, <1>15, <1>16, <1>17 DEF Next, Step

\* The mutex of the table works for every client.
LEMMA AlwaysLocking == Spec => []Locking
<1>1. Locking /\ [Next]_vars => Locking'
  BY TypesStep, SetUpStep, OpsTakeStep, GuardedStep DEF Locking
<1> QED
  BY InitLocking, <1>1, PTL DEF Spec

\* For every client program: threads that work on the table exclude each
\* other (foothread.c:112-167, 190-247), whatever the others have stored into
\* the sembuf of their P operations.
THEOREM TableGuarded == Spec => []TableExclusive
<1>1. Locking => TableExclusive
  BY DEF Locking, Guarded, Holding, TableExclusive
<1> QED
  BY AlwaysLocking, <1>1, PTL

-----------------------------------------------------------------------------
(* The table                                                               *)

\* Each creation of the scripts creates a thread of its own: clone() gives
\* every thread an id of its own, and the leader was there before.
Tree ==
    /\ \A t, u \in Threads : \A i \in 1 .. Len(Script[t]), j \in 1 .. Len(Script[u]) :
          Script[t][i] = Script[u][j] /\ Script[t][i] # Exit => t = u /\ i = j
    /\ \A t \in Threads : \A i \in 1 .. Len(Script[t]) : Script[t][i] # Leader

Creating == {"c_ops", "c_enter", "c_wait", "c_table", "c_post", "failed"}
Exiting == {"x_ops", "x_enter", "x_wait", "x_scan", "x_post", "x_setpop", "x_jenter",
            "x_jwait", "x_restore", "x_enter2", "x_wait2", "x_free", "x_post2"}

\* The creation at position i of the script of t has had its effect.
Done(t, i) == i < ip[t] \/ (i = ip[t] /\ pc[t] = "c_post")

\* Where the threads are in their scripts, and who has been created.
Scripted ==
    /\ pc[Leader] # "off"
    /\ \A t \in Threads :
          /\ ip[t] \in 1 .. Len(Script[t]) + 1
          /\ pc[t] = "off" => ip[t] = 1
          /\ pc[t] \in Creating => ip[t] <= Len(Script[t]) /\ Script[t][ip[t]] # Exit
          /\ pc[t] \in Exiting => ip[t] <= Len(Script[t]) /\ Script[t][ip[t]] = Exit
    /\ \A t \in Threads : \A i \in 1 .. Len(Script[t]) :
          Script[t][i] # Exit => (Script[t][i] \in Created <=> Done(t, i))
    /\ \A c \in Created : \E t \in Threads : \E i \in 1 .. Len(Script[t]) : Script[t][i] = c

\* A script is a sequence of threads and Exits.
LEMMA ScriptFacts ==
  ASSUME NEW t \in Threads
  PROVE  /\ Len(Script[t]) \in Nat
         /\ \A i \in 1 .. Len(Script[t]) : Script[t][i] \in Threads \cup {Exit}
         /\ Exit \notin Threads
<1>1. Script[t] \in Seq(Threads \cup {Exit})
  BY ThreadAssumption
<1> QED
  BY <1>1, ThreadAssumption

\* The parent of a thread is the one whose script creates it.
LEMMA ParentFacts ==
  ASSUME Tree, NEW t \in Threads, NEW i \in 1 .. Len(Script[t]), Script[t][i] # Exit
  PROVE  /\ Parent(Script[t][i]) = t
         /\ Script[t][i] \in Threads \ {Leader}
<1>1. Script[t][i] \in Threads \ {Leader}
  BY ScriptFacts DEF Tree
<1> DEFINE Is(u) == \E j \in 1 .. Len(Script[u]) : Script[u][j] = Script[t][i]
<1>2. t \in Threads /\ Is(t)
  OBVIOUS
<1>3. \A u \in Threads : Is(u) => u = t
  BY DEF Tree
<1>4. Parent(Script[t][i]) = CHOOSE u \in Threads : Is(u)
  BY DEF Parent
<1> HIDE DEF Is
<1>5. (CHOOSE u \in Threads : Is(u)) = t
  BY <1>2, <1>3
<1> QED
  BY <1>1, <1>4, <1>5

\* A nonempty set of slots has a first one.
LEMMA FirstSlot ==
  ASSUME NEW S \in SUBSET Slots, S # {}
  PROVE  \E s \in S : \A r \in S : s <= r
<1>1. S \subseteq Nat
  BY ThreadAssumption DEF Slots
<1>2. PICK s \in S : \A r \in S : <<r, s>> \notin OpToRel(<, Nat)
  BY <1>1, WFMin, NatLessThanWellFounded, Zenon
<1>3. \A r \in S : ~ (r < s)
  BY <1>1, <1>2, Zenon DEF OpToRel
<1> QED
  BY <1>1, <1>3

\* A step other than Register moves one thread and creates none.
LEMMA Moves ==
  ASSUME Types, NEW t \in Threads, Step(t), ~Register(t)
  PROVE  /\ pc[t] # "off" /\ pc'[t] # "off"
         /\ \A u \in Threads : u # t => pc'[u] = pc[u]
         /\ Created' = Created
<1> USE DEF Types, Goto
<1> DEFINE Moved == /\ pc[t] # "off" /\ pc'[t] # "off"
                    /\ \A u \in Threads : u # t => pc'[u] = pc[u]
<1>1. ASSUME CallCreate(t) PROVE Moved
  BY <1>1 DEF CallCreate
<1>2. ASSUME CreateOps(t) PROVE Moved
  BY <1>2 DEF CreateOps
<1>3. ASSUME TableFull(t) PROVE Moved
  BY <1>3 DEF TableFull
<1>4. ASSUME CreatePost(t) PROVE Moved
  BY <1>4 DEF CreatePost
<1>5. ASSUME CallExit(t) PROVE Moved
  BY <1>5 DEF CallExit
<1>6. ASSUME ExitOps(t) PROVE Moved
  BY <1>6 DEF ExitOps
<1>7. ASSUME ExitScan(t) PROVE Moved
  BY <1>7 DEF ExitScan, Scan
<1>8. ASSUME ExitPost(t) PROVE Moved
  BY <1>8 DEF ExitPost
<1>9. ASSUME SetJoinCount(t) PROVE Moved
  BY <1>9 DEF SetJoinCount
<1>10. ASSUME Join(t) PROVE Moved
  BY <1>10 DEF Join
<1>11. ASSUME RestorePop(t) PROVE Moved
  BY <1>11 DEF RestorePop
<1>12. ASSUME FreeChildren(t) PROVE Moved
  BY <1>12 DEF FreeChildren
<1>13. ASSUME ExitPost2(t) PROVE Moved
  BY <1>13 DEF ExitPost2
<1>14. ASSUME EnterWait(t) PROVE Moved
  BY <1>14 DEF EnterWait
<1>15. ASSUME LockTable(t) PROVE Moved
  BY <1>15 DEF LockTable
<1>16. Moved
  BY <1>1, <1>2, <1>3, <1>4, <1>5, <1>6, <1>7, <1>8, <1>9, <1>10, <1>11, <1>12, <1>13, <1>14, <1>15 DEF Step
<1>17. Created' = Created
  BY <1>16 DEF Created
<1> QED
  BY <1>16, <1>17

\* What Register does: the new thread has not run before, and its slot is free.
LEMMA Registers ==
  ASSUME Tree, Types, Scripted, NEW t \in Threads, Register(t)
  PROVE  /\ ip[t] \in 1 .. Len(Script[t]) /\ pc[t] = "c_table"
         /\ Script[t][ip[t]] \in Threads \ {Leader, t}
         /\ pc[Script[t][ip[t]]] = "off" /\ Script[t][ip[t]] \notin Created
         /\ Parent(Script[t][ip[t]]) = t
         /\ pc' = [pc EXCEPT ![t] = "c_post", ![Script[t][ip[t]]] = "idle"]
         /\ Created' = Created \cup {Script[t][ip[t]]}
<1> DEFINE c == Script[t][ip[t]]
<1>1. /\ pc[t] = "c_table"
      /\ ip[t] \in 1 .. Len(Script[t]) /\ c # Exit
  BY ScriptFacts DEF Register, Scripted, Creating
<1>2. Parent(c) = t /\ c \in Threads \ {Leader}
  BY <1>1, ParentFacts
<1>3. c \notin Created
  BY <1>1 DEF Scripted, Done
<1>4. pc[c] = "off" /\ c # t
  BY <1>1, <1>2, <1>3 DEF Created
<1>5. pc' = [pc EXCEPT ![t] = "c_post", ![c] = "idle"]
  BY DEF Register, Fill
<1>6. Created' = Created \cup {c}
  BY <1>1, <1>2, <1>4, <1>5 DEF Created, Types
<1> QED
  BY <1>1, <1>2, <1>3, <1>4, <1>5, <1>6

\* The scripts go on one call at a time, and a creation is done when its
\* thread runs.
LEMMA ScriptedStep ==
  ASSUME Tree, Types, Scripted, [Next]_vars
  PROVE  Scripted'
<1> DEFINE At(t) == /\ ip[t] \in 1 .. Len(Script[t]) + 1
                    /\ pc[t] = "off" => ip[t] = 1
                    /\ pc[t] \in Creating => ip[t] <= Len(Script[t]) /\ Script[t][ip[t]] # Exit
                    /\ pc[t] \in Exiting => ip[t] <= Len(Script[t]) /\ Script[t][ip[t]] = Exit
           Upto(t) == \A i \in 1 .. Len(Script[t]) :
                         Script[t][i] # Exit => (Script[t][i] \in Created <=> Done(t, i))
           Has(c) == \E t \in Threads : \E i \in 1 .. Len(Script[t]) : Script[t][i] = c
<1>0. /\ pc[Leader] # "off" /\ Leader \in Threads
      /\ \A t \in Threads : At(t) /\ Upto(t)
      /\ \A c \in Created : Has(c)
  BY ThreadAssumption DEF Scripted
<1>1. CASE UNCHANGED vars
  BY <1>1 DEF vars, Scripted, Created, Done
<1>2. ASSUME NEW t \in Threads, Register(t) PROVE Scripted'
  <2> DEFINE c == Script[t][ip[t]]
  <2>1. /\ ip[t] \in 1 .. Len(Script[t]) /\ pc[t] = "c_table" /\ c \in Threads \ {Leader, t}
        /\ pc[c] = "off"
        /\ Created' = Created \cup {c} /\ ip' = ip
    BY <1>2, Registers DEF Register
  <2>2. \A u \in Threads : pc'[u] = IF u = c THEN "idle" ELSE IF u = t THEN "c_post" ELSE pc[u]
    BY <1>2, <2>1, Registers DEF Types
  <2>7. \A u \in Threads : \A i \in 1 .. Len(Script[u]) :
            Script[u][i] # Exit => (Script[u][i] = c <=> u = t /\ i = ip[t])
    BY <2>1, ThreadAssumption DEF Tree
  <2> HIDE DEF c
  <2>3. pc'[Leader] # "off"
    BY <2>1, <2>2, ThreadAssumption DEF Scripted
  <2>4. ASSUME NEW u \in Threads PROVE At(u)'
    <3>1. At(u)
      BY <1>0
    <3>2. u # c => (pc[u] = pc'[u] \/ (u = t /\ pc'[u] = "c_post" /\ pc[u] = "c_table"))
      BY <2>1, <2>2
    <3>3. u = c => pc'[u] = "idle" /\ pc[u] = "off"
      BY <2>1, <2>2
    <3> QED
      BY <2>1, <3>1, <3>2, <3>3 DEF Creating, Exiting
  <2>5. ASSUME NEW u \in Threads, NEW i \in 1 .. Len(Script[u]), Script[u][i] # Exit
        PROVE  Script[u][i] \in Created' <=> Done(u, i)'
    <3>1. Script[u][i] = c <=> u = t /\ i = ip[t]
      BY <2>5, <2>7
    <3>2. Done(u, i)' <=> Done(u, i) \/ (u = t /\ i = ip[t])
      <4>1. u = t => pc'[u] = "c_post" /\ pc[u] = "c_table"
        BY <2>1, <2>2
      <4>2. u # t => (pc'[u] = "c_post" <=> pc[u] = "c_post")
        BY <2>1, <2>2
      <4>3. ip[u] \in Nat
        BY <1>0, ScriptFacts
      <4> QED
        BY <2>1, <4>1, <4>2, <4>3 DEF Done
    <3> QED
      BY <1>0, <2>1, <2>5, <3>1, <3>2
  <2>6. \A d \in Created' : Has(d)
    <3>1. Has(c)
      BY <2>1 DEF c
    <3> HIDE DEF Has
    <3> QED
      BY <1>0, <2>1, <3>1
  <2> QED
    BY <2>3, <2>4, <2>5, <2>6 DEF Scripted
<1>3. ASSUME NEW t \in Threads, Step(t), ~Register(t), At(t)',
             \A i \in 1 .. Len(Script[t]) :
                 Script[t][i] # Exit => (Done(t, i) <=> Done(t, i)'),
             \A u \in Threads : u # t => ip'[u] = ip[u]
      PROVE  Scripted'
  <2>1. /\ pc'[t] # "off" /\ \A u \in Threads : u # t => pc'[u] = pc[u]
        /\ Created' = Created
    BY <1>3, Moves
  <2>2. pc'[Leader] # "off"
    BY <1>0, <2>1
  <2>3. \A u \in Threads : At(u)'
    BY <1>0, <1>3, <2>1
  <2>4. \A u \in Threads : \A i \in 1 .. Len(Script[u]) :
            Script[u][i] # Exit => (Script[u][i] \in Created' <=> Done(u, i)')
    BY <1>0, <1>3, <2>1 DEF Done
  <2> QED
    BY <1>0, <2>1, <2>2, <2>3, <2>4 DEF Scripted
<1> USE DEF Goto
<1> DEFINE Keeps(t) == /\ At(t)'
                       /\ \A i \in 1 .. Len(Script[t]) :
                              Script[t][i] # Exit => (Done(t, i) <=> Done(t, i)')
                       /\ \A u \in Threads : u # t => ip'[u] = ip[u]
<1>4. ASSUME NEW t \in Threads, CallCreate(t) PROVE Keeps(t)
  BY <1>0, <1>4, ScriptFacts DEF CallCreate, Types, Creating, Exiting, Done
<1>5. ASSUME NEW t \in Threads, CreateOps(t) PROVE Keeps(t)
  BY <1>0, <1>5, ScriptFacts DEF CreateOps, Types, Creating, Exiting, Done
<1>6. ASSUME NEW t \in Threads, TableFull(t) PROVE Keeps(t)
  BY <1>0, <1>6, ScriptFacts DEF TableFull, Types, Creating, Exiting, Done
<1>7. ASSUME NEW t \in Threads, CreatePost(t) PROVE Keeps(t)
  <2>1. /\ pc[t] = "c_post" /\ pc'[t] = "idle" /\ ip[t] \in Nat /\ ip[t] <= Len(Script[t])
    BY <1>0, <1>7, ScriptFacts DEF CreatePost, Types, Creating
  <2>5. /\ ip'[t] = ip[t] + 1 /\ \A u \in Threads : u # t => ip'[u] = ip[u]
    BY <1>7 DEF CreatePost, Types
  <2>2. Len(Script[t]) \in Nat
    BY ScriptFacts
  <2>3. \A i \in 1 .. Len(Script[t]) : Done(t, i) <=> Done(t, i)'
    BY <2>1, <2>2, <2>5 DEF Done
  <2>4. At(t)'
    BY <1>0, <2>1, <2>2, <2>5 DEF Creating, Exiting
  <2> QED
    BY <2>5, <2>3, <2>4
<1>8. ASSUME NEW t \in Threads, CallExit(t) PROVE Keeps(t)
  BY <1>0, <1>8, ScriptFacts DEF CallExit, Types, Creating, Exiting, Done
<1>9. ASSUME NEW t \in Threads, ExitOps(t) PROVE Keeps(t)
  BY <1>0, <1>9, ScriptFacts DEF ExitOps, Types, Creating, Exiting, Done
<1>10. ASSUME NEW t \in Threads, ExitScan(t) PROVE Keeps(t)
  BY <1>0, <1>10, ScriptFacts DEF ExitScan, Scan, Types, Creating, Exiting, Done
<1>11. ASSUME NEW t \in Threads, ExitPost(t) PROVE Keeps(t)
  BY <1>0, <1>11, ScriptFacts DEF ExitPost, Types, Creating, Exiting, Done
<1>12. ASSUME NEW t \in Threads, SetJoinCount(t) PROVE Keeps(t)
  BY <1>0, <1>12, ScriptFacts DEF SetJoinCount, Types, Creating, Exiting, Done
<1>13. ASSUME NEW t \in Threads, Join(t) PROVE Keeps(t)
  BY <1>0, <1>13, ScriptFacts DEF Join, Types, Creating, Exiting, Done
<1>14. ASSUME NEW t \in Threads, RestorePop(t) PROVE Keeps(t)
  BY <1>0, <1>14, ScriptFacts DEF RestorePop, Types, Creating, Exiting, Done
<1>15. ASSUME NEW t \in Threads, FreeChildren(t) PROVE Keeps(t)
  BY <1>0, <1>15, ScriptFacts DEF FreeChildren, Types, Creating, Exiting, Done
<1>16. ASSUME NEW t \in Threads, ExitPost2(t) PROVE Keeps(t)
  BY <1>0, <1>16, ScriptFacts DEF ExitPost2, Types, Creating, Exiting, Done
<1>17. ASSUME NEW t \in Threads, EnterWait(t) PROVE Keeps(t)
  BY <1>0, <1>17, ScriptFacts DEF EnterWait, Types, Creating, Exiting, Done
<1>18. ASSUME NEW t \in Threads, LockTable(t) PROVE Keeps(t)
  BY <1>0, <1>18, ScriptFacts DEF LockTable, Types, Creating, Exiting, Done
<1>19. ASSUME NEW t \in Threads, Step(t), ~Register(t) PROVE Keeps(t)
  BY <1>19, <1>4, <1>5, <1>6, <1>7, <1>8, <1>9, <1>10, <1>11, <1>12, <1>13, <1>14, <1>15, <1>16, <1>17, <1>18 DEF Step
<1> HIDE DEF At, Upto, Has
<1> QED
  BY <1>1, <1>2, <1>3, <1>19 DEF Next

\* The places at which a thread has collected its children, and those at
\* which it has stopped waiting for them.
Through == {"x_restore", "x_enter2", "x_wait2", "x_free"}
Collected == {"x_post", "x_setpop", "x_jenter", "x_jwait"} \cup Through

EntryType == [valid : {TRUE}, tid : Threads, parent_tid : Threads, joinable : BOOLEAN]

\* Slot 0 is the leader's from the first creation on.  Every other entry is
\* as the creator of its thread wrote it, and no two are of one thread.
Tabled ==
    /\ table \in [Slots -> {Free} \cup EntryType]
    /\ table[0].valid => init /\ table[0] = Entry(Leader, Leader, TRUE)
    /\ ~table[0].valid => Created = {} /\ Valid = {}
    /\ \A s \in Valid \ {0} :
          /\ table[s].tid \in Created
          /\ table[s] = Entry(table[s].tid, Parent(table[s].tid), table[s].tid \in Joinable)
    /\ \A s, r \in Valid : table[s].tid = table[r].tid => s = r
    /\ \A c \in Created \ joined : \E s \in Valid : table[s].tid = c

\* What a thread has collected stays what it was: entries of its joinable
\* children.  They are given back only after the thread has stopped waiting.
Collecting ==
    /\ joined \subseteq Created
    /\ \A t \in Threads : pc[t] \in Collected => \A s \in mychild[t] :
          /\ s \in Valid /\ table[s].parent_tid = t /\ table[s].joinable /\ table[s].tid # t
          /\ pc[t] \in Through => table[s].tid \in joined

\* Register writes the new thread's entry into a free slot other than 0, and
\* the leader's into slot 0 if it is the first.
LEMMA Writes ==
  ASSUME Tree, Types, SetUp, Scripted, Tabled, NEW t \in Threads, Register(t)
  PROVE  /\ init /\ (~table[0].valid => t = Leader)
         /\ \E slot \in Slots \ {0} :
               /\ ~table[slot].valid
               /\ table' = [s \in Slots |->
                     IF s = slot
                     THEN Entry(Script[t][ip[t]], t, Script[t][ip[t]] \in Joinable)
                     ELSE IF s = 0 /\ ~table[0].valid THEN Entry(t, t, TRUE) ELSE table[s]]
         /\ jsem' = [u \in Threads |->
                        IF u = Script[t][ip[t]] \/ (u = t /\ ~table[0].valid) THEN 0 ELSE jsem[u]]
<1> DEFINE c == Script[t][ip[t]]
           slot == IF FirstFree = 0 THEN 1 ELSE FirstFree
<1>1. /\ pc[t] = "c_table" /\ Slots \ Valid # {}
      /\ Fill(t, c, slot)
  BY DEF Register
<1>2. FirstFree \in Slots \ Valid
  <2>1. \E s \in Slots \ Valid : \A r \in Slots \ Valid : s <= r
    BY <1>1, FirstSlot
  <2> QED
    BY <2>1 DEF FirstFree
<1>3. 0 \in Slots /\ 1 \in Slots
  BY ThreadAssumption DEF Slots
<1>4. slot \in Slots \ {0} /\ ~table[slot].valid
  BY <1>2, <1>3 DEF Tabled, Valid
<1>5. init /\ (~table[0].valid => t = Leader)
  BY <1>1 DEF SetUp, Tabled, Created, Types
<1> HIDE DEF slot, c
<1>6. /\ table' = [s \in Slots |->
                     IF s = slot THEN Entry(c, t, c \in Joinable)
                     ELSE IF s = 0 /\ ~table[0].valid THEN Entry(t, t, TRUE) ELSE table[s]]
      /\ jsem' = [u \in Threads |->
                     IF u = c \/ (u = t /\ ~table[0].valid) THEN 0 ELSE jsem[u]]
  BY <1>1 DEF Fill
<1> QED
  BY <1>4, <1>5, <1>6 DEF c

\* What has been collected are the slots of created threads.
LEMMA CollectedSlots ==
  ASSUME Types, Tabled, Collecting, NEW t \in Threads, pc[t] \in Collected, NEW s \in mychild[t]
  PROVE  /\ s \in Slots \ {0} /\ table[s].valid /\ table[s].tid \in Created
         /\ table[s].parent_tid = t /\ Parent(table[s].tid) = t /\ table[s].tid \in Joinable
         /\ pc[t] \in Through => table[s].tid \in joined
<1>1. /\ s \in Slots /\ table[s].valid /\ table[s].parent_tid = t /\ table[s].joinable
      /\ table[s].tid # t /\ (pc[t] \in Through => table[s].tid \in joined)
  BY DEF Collecting, Valid
<1>2. s # 0
  BY <1>1 DEF Tabled, Entry
<1>3. /\ table[s].tid \in Created
      /\ table[s] = Entry(table[s].tid, Parent(table[s].tid), table[s].tid \in Joinable)
  BY <1>1, <1>2 DEF Tabled, Valid
<1>4. /\ table[s].parent_tid = Parent(table[s].tid)
      /\ table[s].joinable = (table[s].tid \in Joinable)
  BY <1>3 DEF Entry
<1> QED
  BY <1>1, <1>2, <1>3, <1>4

\* Tabled is about these parts of the state only.
LEMMA TableKept ==
  ASSUME Tabled, Created' = Created, UNCHANGED <<table, joined>>, init => init'
  PROVE  Tabled'
BY DEF Tabled, Valid

\* The table is empty before the library is set up, so that setting it up
\* changes nothing.
LEMMA SetUpKeeps ==
  ASSUME Tabled, NEW t \in Threads, CreateOps(t)
  PROVE  table' = table
<1>1. CASE init
  BY <1>1 DEF CreateOps
<1>2. CASE ~init
  <2>1. \A s \in Slots : ~table[s].valid
    BY <1>2 DEF Tabled, Valid
  <2>2. \A s \in Slots : table[s] = Free
    BY <2>1 DEF Tabled, EntryType
  <2>3. table' = [s \in Slots |-> Free] /\ table = [s \in Slots |-> table[s]]
    BY <1>2 DEF CreateOps, Tabled
  <2> QED
    BY <2>2, <2>3
<1> QED
  BY <1>1, <1>2

\* Entries are written by Register and wiped out by FreeChildren.
LEMMA TabledStep ==
  ASSUME Tree, Types, SetUp, Scripted, Tabled, Collecting, [Next]_vars
  PROVE  Tabled'
<1>1. CASE UNCHANGED vars
  <2>1. Created' = Created
    BY <1>1 DEF vars, Created
  <2> QED
    BY <1>1, <2>1, TableKept DEF vars
<1>2. ASSUME NEW t \in Threads, Step(t), ~Register(t), UNCHANGED <<table, joined>>, init => init'
      PROVE  Tabled'
  BY <1>2, Moves, TableKept
<1>3. ASSUME NEW t \in Threads, CreateOps(t) PROVE UNCHANGED <<table, joined>> /\ (init => init')
  BY <1>3, SetUpKeeps DEF CreateOps
<1>4. ASSUME NEW t \in Threads, Register(t) PROVE Tabled'
  <2> DEFINE c == Script[t][ip[t]]
  <2>1. /\ c \in Threads \ {Leader, t} /\ c \notin Created /\ Parent(c) = t
        /\ Created' = Created \cup {c}
    BY <1>4, Registers
  <2>2. init /\ (~table[0].valid => t = Leader)
    BY <1>4, Writes
  <2>3. PICK slot \in Slots \ {0} :
           /\ ~table[slot].valid
           /\ table' = [s \in Slots |->
                     IF s = slot THEN Entry(c, t, c \in Joinable)
                     ELSE IF s = 0 /\ ~table[0].valid THEN Entry(t, t, TRUE) ELSE table[s]]
    BY <1>4, Writes
  <2> HIDE DEF c
  <2>4. init' = init /\ joined' = joined
    BY <1>4 DEF Register
  <2>5. 0 \in Slots
    BY ThreadAssumption DEF Slots
  <2>6. /\ table'[slot] = Entry(c, t, c \in Joinable) /\ table'[slot].tid = c
        /\ table'[slot].valid
    BY <2>3 DEF Entry
  <2>7. table'[0] = Entry(Leader, Leader, TRUE) /\ table'[0].valid /\ table'[0].tid = Leader
    <3>1. table'[0] = IF ~table[0].valid THEN Entry(t, t, TRUE) ELSE table[0]
      BY <2>3, <2>5
    <3>2. table'[0] = Entry(Leader, Leader, TRUE)
      BY <2>2, <3>1 DEF Tabled
    <3> QED
      BY <3>2 DEF Entry
  <2>8. \A s \in Slots \ {0, slot} : table'[s] = table[s]
    BY <2>3
  <2>9. Valid' = Valid \cup {slot, 0}
    BY <2>5, <2>6, <2>7, <2>8 DEF Valid
  <2>10. \A s \in Valid : s # slot /\ table[s].tid # c
    BY <2>1, <2>3 DEF Valid, Tabled, Entry
  <2>11. \A s \in Valid \ {0} : table[s].tid # Leader
    BY DEF Tabled, Created
  <2>12. table' \in [Slots -> {Free} \cup EntryType]
    <3>1. Entry(c, t, c \in Joinable) \in EntryType /\ Entry(t, t, TRUE) \in EntryType
      BY <2>1 DEF Entry, EntryType
    <3>2. \A s \in Slots : table[s] \in {Free} \cup EntryType
      BY DEF Tabled
    <3> QED
      BY <2>3, <3>1, <3>2
  <2>13. \A s \in Valid' \ {0} :
            /\ table'[s].tid \in Created'
            /\ table'[s] = Entry(table'[s].tid, Parent(table'[s].tid), table'[s].tid \in Joinable)
    <3>1. \A s \in Valid \ {0} : s # slot /\ table'[s] = table[s]
      BY <2>8, <2>10 DEF Valid
    <3> QED
      BY <2>1, <2>6, <2>9, <3>1 DEF Tabled
  <2>14. \A s, r \in Valid' : table'[s].tid = table'[r].tid => s = r
    <3>1. \A s \in Valid \ {0} : s # slot /\ table'[s].tid = table[s].tid
      BY <2>8, <2>10 DEF Valid
    <3>2. \A s \in Valid \ {0} : table'[s].tid # c /\ table'[s].tid # Leader
      BY <2>10, <2>11, <3>1
    <3>3. \A s, r \in Valid \ {0} : table'[s].tid = table'[r].tid => s = r
      BY <3>1 DEF Tabled
    <3>4. table'[slot].tid = c /\ table'[0].tid = Leader /\ c # Leader
      BY <2>1, <2>6, <2>7
    <3> QED
      BY <2>9, <3>2, <3>3, <3>4
  <2>15. \A d \in Created' \ joined' : \E s \in Valid' : table'[s].tid = d
    <3>1. ASSUME NEW d \in Created \ joined PROVE \E s \in Valid' : table'[s].tid = d
      <4>1. PICK s \in Valid : table[s].tid = d
        BY DEF Tabled
      <4>2. s # 0
        BY <4>1 DEF Tabled, Created, Entry, Valid
      <4> QED
        BY <2>8, <2>9, <2>10, <4>1, <4>2 DEF Valid
    <3> QED
      BY <2>1, <2>4, <2>6, <2>9, <3>1
  <2> QED
    BY <2>2, <2>4, <2>7, <2>12, <2>13, <2>14, <2>15 DEF Tabled
<1>5. ASSUME NEW t \in Threads, Join(t) PROVE Tabled'
  <2>1. Created' = Created /\ table' = table /\ init' = init /\ joined \subseteq joined'
    BY <1>5, Moves DEF Join, Step, Register, Goto
  <2> QED
    BY <2>1 DEF Tabled, Valid
<1>6. ASSUME NEW t \in Threads, FreeChildren(t) PROVE Tabled'
  <2>1. Created' = Created /\ init' = init /\ joined' = joined /\ pc[t] \in Through
    BY <1>6, Moves DEF FreeChildren, Step, Register, Goto, Through
  <2>2. \A s \in mychild[t] : s # 0 /\ table[s].tid \in joined
    BY <2>1, CollectedSlots DEF Collected
  <2>3. /\ table' \in [Slots -> {Free} \cup EntryType]
        /\ \A s \in Slots : table'[s] = table[s] \/ (s \in mychild[t] /\ table'[s] = Free)
    BY <1>6 DEF FreeChildren, Tabled
  <2>4. table'[0] = table[0]
    BY <2>2, <2>3, ThreadAssumption DEF Slots
  <2>5. Valid' \subseteq Valid /\ \A s \in Valid' : table'[s] = table[s]
    BY <2>3 DEF Valid, Free
  <2>6. \A s \in Valid \ Valid' : table[s].tid \in joined
    BY <2>2, <2>3 DEF Valid
  <2>7. \A c \in Created \ joined : \E s \in Valid' : table'[s].tid = c
    BY <2>5, <2>6 DEF Tabled
  <2>8. /\ table'[0].valid => init' /\ table'[0] = Entry(Leader, Leader, TRUE)
        /\ ~table'[0].valid => Created' = {} /\ Valid' = {}
    BY <2>1, <2>4, <2>5 DEF Tabled
  <2>9. /\ \A s \in Valid' \ {0} :
             /\ table'[s].tid \in Created'
             /\ table'[s] = Entry(table'[s].tid, Parent(table'[s].tid), table'[s].tid \in Joinable)
        /\ \A s, r \in Valid' : table'[s].tid = table'[r].tid => s = r
    BY <2>1, <2>5 DEF Tabled
  <2> QED
    BY <2>1, <2>3, <2>7, <2>8, <2>9 DEF Tabled
<1>7. ASSUME NEW t \in Threads, CallCreate(t) PROVE UNCHANGED <<table, joined>> /\ (init => init')
  BY <1>7 DEF CallCreate
<1>8. ASSUME NEW t \in Threads, TableFull(t) PROVE UNCHANGED <<table, joined>> /\ (init => init')
  BY <1>8 DEF TableFull
<1>9. ASSUME NEW t \in Threads, CreatePost(t) PROVE UNCHANGED <<table, joined>> /\ (init => init')
  BY <1>9 DEF CreatePost
<1>10. ASSUME NEW t \in Threads, CallExit(t) PROVE UNCHANGED <<table, joined>> /\ (init => init')
  BY <1>10 DEF CallExit
<1>11. ASSUME NEW t \in Threads, ExitOps(t) PROVE UNCHANGED <<table, joined>> /\ (init => init')
  BY <1>11 DEF ExitOps
<1>12. ASSUME NEW t \in Threads, ExitScan(t) PROVE UNCHANGED <<table, joined>> /\ (init => init')
  BY <1>12 DEF ExitScan, Scan
<1>13. ASSUME NEW t \in Threads, ExitPost(t) PROVE UNCHANGED <<table, joined>> /\ (init => init')
  BY <1>13 DEF ExitPost
<1>14. ASSUME NEW t \in Threads, SetJoinCount(t) PROVE UNCHANGED <<table, joined>> /\ (init => init')
  BY <1>14 DEF SetJoinCount
<1>15. ASSUME NEW t \in Threads, RestorePop(t) PROVE UNCHANGED <<table, joined>> /\ (init => init')
  BY <1>15 DEF RestorePop
<1>16. ASSUME NEW t \in Threads, ExitPost2(t) PROVE UNCHANGED <<table, joined>> /\ (init => init')
  BY <1>16 DEF ExitPost2
<1>17. ASSUME NEW t \in Threads, EnterWait(t) PROVE UNCHANGED <<table, joined>> /\ (init => init')
  BY <1>17 DEF EnterWait
<1>18. ASSUME NEW t \in Threads, LockTable(t) PROVE UNCHANGED <<table, joined>> /\ (init => init')
  BY <1>18 DEF LockTable
<1> QED
  BY <1>1, <1>2, <1>3, <1>4, <1>5, <1>6, <1>7, <1>8, <1>9, <1>10, <1>11, <1>12, <1>13, <1>14, <1>15, <1>16, <1>17, <1>18
     DEF Next, Step

\* A thread that goes on keeps what it has collected, if it collects nothing
\* new, and its children are joined when it leaves the wait.
LEMMA CollectionKept ==
  ASSUME Types, Tabled, Collecting, NEW t \in Threads,
         Step(t), ~Register(t), UNCHANGED <<table, joined>>,
         \A u \in Threads : u # t => mychild'[u] = mychild[u],
         pc'[t] \in Collected => mychild'[t] = mychild[t] /\ pc[t] \in Collected,
         pc'[t] \in Through => pc[t] \in Through \/ mychild[t] = {}
  PROVE  Collecting'
<1>1. Created' = Created /\ \A u \in Threads : u # t => pc'[u] = pc[u]
  BY Moves
<1>2. Valid' = Valid
  BY DEF Valid
<1> QED
  BY <1>1, <1>2 DEF Collecting

\* Nobody wipes out or overwrites what another thread has collected.
LEMMA CollectingStep ==
  ASSUME Tree, Types, SetUp, Scripted, Tabled, Collecting, [Next]_vars
  PROVE  Collecting'
<1>1. CASE UNCHANGED vars
  BY <1>1 DEF vars, Collecting, Created, Valid
<1> DEFINE Keeps(t) ==
             /\ UNCHANGED <<table, joined>>
             /\ \A u \in Threads : u # t => mychild'[u] = mychild[u]
             /\ pc'[t] \in Collected => mychild'[t] = mychild[t] /\ pc[t] \in Collected
             /\ pc'[t] \in Through => pc[t] \in Through \/ mychild[t] = {}
<1>2. ASSUME NEW t \in Threads, Step(t), ~Register(t), Keeps(t) PROVE Collecting'
  BY <1>2, CollectionKept
<1>3. ASSUME NEW t \in Threads, CreateOps(t) PROVE Keeps(t)
  <2>1. table' = table
    BY <1>3, SetUpKeeps
  <2> QED
    BY <1>3, <2>1 DEF CreateOps, Types, Goto, Collected, Through
<1>4. ASSUME NEW t \in Threads, Register(t) PROVE Collecting'
  <2> DEFINE c == Script[t][ip[t]]
  <2>1. /\ c \in Threads \ {Leader, t} /\ pc[c] = "off" /\ Created' = Created \cup {c}
        /\ pc' = [pc EXCEPT ![t] = "c_post", ![c] = "idle"]
    BY <1>4, Registers
  <2>2. PICK slot \in Slots \ {0} :
           /\ ~table[slot].valid
           /\ table' = [s \in Slots |->
                     IF s = slot THEN Entry(c, t, c \in Joinable)
                     ELSE IF s = 0 /\ ~table[0].valid THEN Entry(t, t, TRUE) ELSE table[s]]
    BY <1>4, Writes
  <2> HIDE DEF c
  <2>3. mychild' = mychild /\ joined' = joined
    BY <1>4 DEF Register
  <2>4. \A s \in Valid : table'[s] = table[s] /\ s \in Valid'
    BY <2>2 DEF Valid
  <2>5. \A u \in Threads : pc'[u] \in Collected => pc'[u] = pc[u]
    BY <2>1 DEF Types, Collected, Through
  <2>6. ASSUME NEW u \in Threads, pc'[u] \in Collected, NEW s \in mychild'[u]
        PROVE  /\ s \in Valid' /\ table'[s].parent_tid = u /\ table'[s].joinable /\ table'[s].tid # u
               /\ pc'[u] \in Through => table'[s].tid \in joined'
    BY <2>3, <2>4, <2>5, <2>6 DEF Collecting
  <2> QED
    BY <2>1, <2>3, <2>6 DEF Collecting
<1>5. ASSUME NEW t \in Threads, ExitScan(t) PROVE Collecting'
  <2>1. /\ Created' = Created /\ table' = table /\ joined' = joined
        /\ pc'[t] = "x_post" /\ \A u \in Threads : u # t => pc'[u] = pc[u]
        /\ mychild'[t] = ChildSlots(t) /\ \A u \in Threads : u # t => mychild'[u] = mychild[u]
    BY <1>5, Moves DEF ExitScan, Scan, Types, Goto, Step, Register
  <2>2. Valid' = Valid
    BY <2>1 DEF Valid
  <2>3. \A s \in ChildSlots(t) :
            s \in Valid /\ table[s].parent_tid = t /\ table[s].joinable /\ table[s].tid # t
    BY DEF ChildSlots
  <2> QED
    BY <2>1, <2>2, <2>3 DEF Collecting, Through
<1>6. ASSUME NEW t \in Threads, Join(t) PROVE Collecting'
  <2>1. /\ Created' = Created /\ table' = table /\ mychild' = mychild
        /\ joined' = joined \cup {table[s].tid : s \in mychild[t]}
        /\ pc[t] = "x_jwait" /\ pc'[t] = "x_restore"
        /\ \A u \in Threads : u # t => pc'[u] = pc[u]
    BY <1>6, Moves DEF Join, Types, Goto, Step, Register
  <2>2. \A s \in mychild[t] : table[s].tid \in Created
    BY <2>1, CollectedSlots DEF Collected
  <2>3. Valid' = Valid
    BY <2>1 DEF Valid
  <2>4. joined' \subseteq Created' /\ joined \subseteq joined'
    BY <2>1, <2>2 DEF Collecting
  <2>5. ASSUME NEW u \in Threads, pc'[u] \in Collected, NEW s \in mychild'[u]
        PROVE  /\ s \in Valid' /\ table'[s].parent_tid = u /\ table'[s].joinable /\ table'[s].tid # u
               /\ pc'[u] \in Through => table'[s].tid \in joined'
    BY <2>1, <2>3, <2>4, <2>5 DEF Collecting, Collected
  <2> QED
    BY <2>4, <2>5 DEF Collecting
<1>7. ASSUME NEW t \in Threads, FreeChildren(t) PROVE Collecting'
  <2>1. /\ Created' = Created /\ joined' = joined /\ mychild' = mychild
        /\ pc[t] = "x_free" /\ pc'[t] = "x_post2"
        /\ \A u \in Threads : u # t => pc'[u] = pc[u]
    BY <1>7, Moves DEF FreeChildren, Types, Goto, Step, Register
  <2>2. \A s \in Slots : s \notin mychild[t] => table'[s] = table[s]
    BY <1>7 DEF FreeChildren
  <2>3. ASSUME NEW u \in Threads, pc'[u] \in Collected, NEW s \in mychild'[u]
        PROVE  /\ s \in Valid' /\ table'[s].parent_tid = u /\ table'[s].joinable /\ table'[s].tid # u
               /\ pc'[u] \in Through => table'[s].tid \in joined'
    <3>1. u # t /\ pc[u] = pc'[u] /\ s \in mychild[u]
      BY <2>1, <2>3 DEF Collected, Through
    <3>2. /\ s \in Slots /\ table[s].valid /\ table[s].parent_tid = u /\ table[s].joinable
          /\ table[s].tid # u /\ (pc[u] \in Through => table[s].tid \in joined)
      BY <2>3, <3>1 DEF Collecting, Valid
    <3>3. s \notin mychild[t]
      BY <2>1, <3>1, <3>2 DEF Collecting, Collected, Through
    <3> QED
      BY <2>1, <2>2, <3>1, <3>2, <3>3 DEF Valid
  <2> QED
    BY <2>1, <2>3 DEF Collecting
<1>8. ASSUME NEW t \in Threads, CallCreate(t) PROVE Keeps(t)
  BY <1>8 DEF CallCreate, Types, Goto, Collected, Through
<1>9. ASSUME NEW t \in Threads, TableFull(t) PROVE Keeps(t)
  BY <1>9 DEF TableFull, Types, Goto, Collected, Through
<1>10. ASSUME NEW t \in Threads, CreatePost(t) PROVE Keeps(t)
  BY <1>10 DEF CreatePost, Types, Goto, Collected, Through
<1>11. ASSUME NEW t \in Threads, CallExit(t) PROVE Keeps(t)
  BY <1>11 DEF CallExit, Types, Goto, Collected, Through
<1>12. ASSUME NEW t \in Threads, ExitOps(t) PROVE Keeps(t)
  BY <1>12 DEF ExitOps, Types, Goto, Collected, Through
<1>13. ASSUME NEW t \in Threads, ExitPost(t) PROVE Keeps(t)
  BY <1>13 DEF ExitPost, Types, Goto, Collected, Through
<1>14. ASSUME NEW t \in Threads, SetJoinCount(t) PROVE Keeps(t)
  BY <1>14 DEF SetJoinCount, Types, Goto, Collected, Through
<1>15. ASSUME NEW t \in Threads, RestorePop(t) PROVE Keeps(t)
  BY <1>15 DEF RestorePop, Types, Goto, Collected, Through
<1>16. ASSUME NEW t \in Threads, ExitPost2(t) PROVE Keeps(t)
  BY <1>16 DEF ExitPost2, Types, Goto, Collected, Through
<1>17. ASSUME NEW t \in Threads, EnterWait(t) PROVE Keeps(t)
  BY <1>17 DEF EnterWait, Types, Goto, Collected, Through
<1>18. ASSUME NEW t \in Threads, LockTable(t) PROVE Keeps(t)
  BY <1>18 DEF LockTable, Types, Goto, Collected, Through
<1>19. ASSUME NEW t \in Threads, Step(t), ~Register(t), ~ExitScan(t), ~Join(t), ~FreeChildren(t)
      PROVE  Keeps(t)
  BY <1>3, <1>19, <1>8, <1>9, <1>10, <1>11, <1>12, <1>13, <1>14, <1>15, <1>16, <1>17, <1>18 DEF Step
<1> HIDE DEF Keeps
<1> QED
  BY <1>1, <1>2, <1>4, <1>5, <1>6, <1>7, <1>19 DEF Next

\* The table is right for every client that creates a thread once.
LEMMA AlwaysTabled ==
  ASSUME Tree
  PROVE  Spec => [](Locking /\ Scripted /\ Tabled /\ Collecting)
<1>1. Init => Locking /\ Scripted /\ Tabled /\ Collecting
  <2> SUFFICES ASSUME Init PROVE Locking /\ Scripted /\ Tabled /\ Collecting
    OBVIOUS
  <2>1. Created = {} /\ Valid = {} /\ 0 \in Slots
    BY ThreadAssumption DEF Init, Created, Valid, Free, Slots
  <2>2. Scripted
    BY <2>1, ScriptFacts, ThreadAssumption DEF Init, Scripted, Creating, Exiting, Done
  <2>3. Tabled
    BY <2>1 DEF Init, Tabled, Free
  <2>4. Collecting
    BY <2>1 DEF Init, Collecting, Collected, Through
  <2> QED
    BY <2>2, <2>3, <2>4, InitLocking
<1>2. /\ Locking /\ Scripted /\ Tabled /\ Collecting
      /\ [Next]_vars
      => (Locking /\ Scripted /\ Tabled /\ Collecting)'
  BY TypesStep, SetUpStep, OpsTakeStep, GuardedStep, ScriptedStep, TabledStep, CollectingStep
     DEF Locking
<1> QED
  BY <1>1, <1>2, PTL DEF Spec

\* A thread that has been created and not joined has one entry, and it is as
\* its creator wrote it.
LEMMA OwnEntry ==
  ASSUME Tabled, NEW c \in Created \ joined
  PROVE  \E s \in Slots \ {0} : /\ s \in Valid /\ EntriesOf(c) = {s} /\ Own(c) = s
                                /\ table[s] = Entry(c, Parent(c), c \in Joinable)
<1>1. PICK s \in Valid : table[s].tid = c
  BY DEF Tabled
<1>2. s # 0
  BY <1>1 DEF Tabled, Created, Entry, Valid
<1>3. EntriesOf(c) = {s}
  BY <1>1 DEF EntriesOf, Tabled
<1>4. Own(c) = s
  BY <1>3, <1>1, ThreadAssumption DEF Own, Valid, Slots
<1> QED
  BY <1>1, <1>2, <1>3, <1>4 DEF Tabled, Valid

\* However slots are given back and taken again (foothread.c:118-160,
\* 230-241), every thread that has been created and not joined has exactly one
\* entry, with the right parent and join type.
THEOREM NoEntryLost == ASSUME Tree PROVE Spec => []EntriesKept
<1>1. Tabled => EntriesKept
  <2> SUFFICES ASSUME Tabled, NEW c \in Created \ joined
               PROVE  \E s \in Valid : /\ EntriesOf(c) = {s}
                                       /\ table[s].parent_tid = Parent(c)
                                       /\ table[s].joinable = (c \in Joinable)
    BY DEF EntriesKept
  <2>1. PICK s \in Valid : EntriesOf(c) = {s} /\ table[s] = Entry(c, Parent(c), c \in Joinable)
    BY OwnEntry
  <2> QED
    BY <2>1 DEF Entry
<1> QED
  BY AlwaysTabled, <1>1, PTL

-----------------------------------------------------------------------------
(* Joins                                                                   *)

\* Clients that join their children one by one: between two creations of
\* joinable threads there is a call of foothread_exit.  A joinable thread
\* calls it once, at its end, and has no joinable children of its own.
OneByOne ==
    /\ \A t \in Threads : \A i, j \in 1 .. Len(Script[t]) :
          i < j /\ Script[t][i] \in Joinable /\ Script[t][j] \in Joinable =>
             \E k \in i + 1 .. j - 1 : Script[t][k] = Exit
    /\ \A t \in Joinable : \A i \in 1 .. Len(Script[t]) :
          /\ Script[t][i] \notin Joinable
          /\ Script[t][i] = Exit => i = Len(Script[t])

\* The joinable threads that nobody has joined yet.
Unjoined == (Created \cap Joinable) \ joined

\* Thread t has left the join of its call at position k.
Left(t, k) == k < ip[t] \/ (k = ip[t] /\ pc[t] \in Through \cup {"x_post2"})

JoinTypes ==
    /\ index \in [Threads -> Slots \cup {-1}] /\ jsem \in [Threads -> {0, 1}]
    /\ signalled \subseteq Created \cap Joinable /\ joined \subseteq signalled

\* A thread signals in its last call.
SignalledLast ==
    \A c \in signalled : ip[c] > Len(Script[c]) \/ pc[c] \in Collected \cup {"x_post2"}

\* A thread that waits has an entry of its own and waits for all its children.
Expecting ==
    /\ \A t \in Threads : pc[t] \in Collected /\ mychild[t] # {} => index[t] # -1
    /\ \A t \in Threads : pc[t] \in {"x_setpop", "x_jenter", "x_jwait"} => mychild[t] # {}
    /\ \A c \in Unjoined :
          pc[Parent(c)] \in Collected => \E s \in mychild[Parent(c)] : table[s].tid = c

\* A thread leaves the wait when all children it has created are joined.
NoneLeft ==
    \A t \in Threads : \A i, k \in 1 .. Len(Script[t]) :
       Script[t][k] = Exit /\ Left(t, k) /\ i < k /\ Script[t][i] \in Joinable =>
          Script[t][i] \in joined

\* The semaphore of a parent has a token when its child has signalled and is
\* not joined yet.
Tokens == \A t \in Threads : jsem[t] = 1 <=> \E c \in signalled \ joined : Parent(c) = t

Joining == JoinTypes /\ SignalledLast /\ Expecting /\ NoneLeft /\ Tokens /\ JoinedGivenBack

Sound == Locking /\ Scripted /\ Tabled /\ Collecting /\ Joining

\* Created threads are in the script of their parent.
LEMMA InScript ==
  ASSUME Tree, Scripted, NEW c \in Created
  PROVE  /\ c \in Threads \ {Leader} /\ Parent(c) \in Threads
         /\ \E i \in 1 .. Len(Script[Parent(c)]) : Script[Parent(c)][i] = c /\ Done(Parent(c), i)
<1>1. c \in Threads /\ c # Exit /\ c # Leader
  BY ThreadAssumption DEF Created
<1>2. PICK t \in Threads : \E i \in 1 .. Len(Script[t]) : Script[t][i] = c
  BY DEF Scripted
<1>3. PICK i \in 1 .. Len(Script[t]) : Script[t][i] = c
  BY <1>2
<1>4. Parent(c) = t
  BY <1>1, <1>3, ParentFacts
<1>5. Done(t, i)
  BY <1>1, <1>3 DEF Scripted
<1> QED
  BY <1>1, <1>3, <1>4, <1>5

\* The parent of a joinable thread is not joinable and has an entry.
LEMMA ParentEntry ==
  ASSUME Tree, OneByOne, Scripted, Tabled, Collecting, JoinTypes, NEW c \in Created \cap Joinable
  PROVE  /\ Parent(c) \in Threads \ Joinable /\ Parent(c) # c
         /\ pc[Parent(c)] # "off"
         /\ \E s \in Slots : s \in Valid /\ EntriesOf(Parent(c)) = {s} /\ Own(Parent(c)) = s
<1>1. Parent(c) \in Threads \ Joinable /\ Parent(c) # c
  BY InScript DEF OneByOne
<1>2. pc[Parent(c)] # "off"
  <2>1. PICK i \in 1 .. Len(Script[Parent(c)]) : Done(Parent(c), i)
    BY InScript
  <2>2. ip[Parent(c)] = 1 => pc[Parent(c)] = "c_post"
    BY <2>1 DEF Done
  <2> QED
    BY <1>1, <2>2 DEF Scripted
<1>3. CASE Parent(c) = Leader
  <2>1. 0 \in Valid /\ table[0].tid = Leader
    BY ThreadAssumption DEF Tabled, Valid, Slots, Entry
  <2>2. EntriesOf(Leader) = {0}
    BY <2>1 DEF EntriesOf, Tabled
  <2>3. Own(Leader) = 0
    BY <2>2 DEF Own
  <2> QED
    BY <1>1, <1>2, <1>3, <2>1, <2>2, <2>3 DEF Valid
<1>4. CASE Parent(c) # Leader
  <2>1. Parent(c) \in Created \ joined
    BY <1>1, <1>2, <1>4 DEF Created, JoinTypes
  <2> QED
    BY <1>1, <1>2, <2>1, OwnEntry
<1> QED
  BY <1>3, <1>4

\* A thread has at most one child that it has not joined.
LEMMA AtMostOne ==
  ASSUME Tree, OneByOne, Types, Scripted, JoinTypes, NoneLeft,
         NEW c \in Unjoined, NEW d \in Unjoined, Parent(c) = Parent(d)
  PROVE  c = d
<1> DEFINE t == Parent(c)
<1>1. /\ t \in Threads /\ ip[t] \in Nat /\ Len(Script[t]) \in Nat
      /\ \E i \in 1 .. Len(Script[t]) : Script[t][i] = c /\ Done(t, i)
      /\ \E i \in 1 .. Len(Script[t]) : Script[t][i] = d /\ Done(t, i)
      /\ {c, d} \subseteq Joinable \ joined
  BY InScript, ScriptFacts DEF Unjoined, Types
<1> HIDE DEF t
<1>2. ASSUME NEW i \in 1 .. Len(Script[t]), NEW j \in 1 .. Len(Script[t]), i < j,
             Script[t][i] \in Joinable \ joined, Script[t][j] \in Joinable, Done(t, j)
      PROVE  FALSE
  <2>1. PICK k \in i + 1 .. j - 1 : Script[t][k] = Exit
    BY <1>1, <1>2 DEF OneByOne
  <2>2. k \in 1 .. Len(Script[t]) /\ i < k /\ k < ip[t]
    BY <1>1, <1>2 DEF Done
  <2>3. Left(t, k)
    BY <2>2 DEF Left
  <2> QED
    BY <1>1, <1>2, <2>1, <2>2, <2>3 DEF NoneLeft
<1>3. PICK i \in 1 .. Len(Script[t]) : Script[t][i] = c /\ Done(t, i)
  BY <1>1
<1>4. PICK j \in 1 .. Len(Script[t]) : Script[t][j] = d /\ Done(t, j)
  BY <1>1
<1>5. ~(i < j) /\ ~(j < i)
  BY <1>1, <1>2, <1>3, <1>4
<1> QED
  BY <1>1, <1>3, <1>4, <1>5

\* A thread with a collected child has collected exactly its one unjoined child
\* as long as it waits.
LEMMA WaitedFor ==
  ASSUME Tree, OneByOne, Types, Scripted, Tabled, Collecting, Joining,
         NEW t \in Threads, pc[t] \in Collected \ Through, NEW s \in mychild[t]
  PROVE  /\ table[s].tid \in Unjoined /\ Parent(table[s].tid) = t
         /\ s \in Slots /\ table[s].valid
<1>1. /\ s \in Slots \ {0} /\ table[s].valid /\ table[s].tid \in Created
      /\ table[s].parent_tid = t /\ Parent(table[s].tid) = t /\ table[s].tid \in Joinable
  BY CollectedSlots
<1>2. table[s].tid \notin joined
  BY <1>1 DEF Joining, JoinedGivenBack, Valid, Through
<1> QED
  BY <1>1, <1>2 DEF Unjoined

\* The parent of an entry is a thread.
LEMMA EntryParents == ASSUME Tabled PROVE \A s \in Valid : table[s].parent_tid \in Threads
<1>1. \A s \in Valid : table[s] \in EntryType
  BY DEF Tabled, Valid, Free
<1> QED
  BY <1>1 DEF EntryType

\* The steps that have nothing to do with joins.
Aside(t) ==
    /\ UNCHANGED <<table, joined, signalled, jsem>>
    /\ UNCHANGED <<index, mychild>>
    /\ pc'[t] \in Collected => pc[t] \in Collected
    /\ pc'[t] \in {"x_setpop", "x_jenter", "x_jwait"} => mychild[t] # {}
    /\ pc[t] \in Through => pc'[t] \in Through
    /\ t \in signalled => ip'[t] > Len(Script[t]) \/ pc'[t] \in Collected \cup {"x_post2"}
    /\ \A k \in 1 .. Len(Script[t]) : Script[t][k] = Exit /\ Left(t, k)' =>
          Left(t, k) \/ (k = ip[t] /\ pc[t] = "x_post" /\ mychild[t] = {})
    /\ \A u \in Threads : u # t => ip'[u] = ip[u]

\* They leave the joins alone; a thread with no children to wait for has none.
LEMMA AsideKeeps ==
  ASSUME Tree, OneByOne, Types, Scripted, Tabled, Collecting, Joining,
         NEW t \in Threads, Step(t), ~Register(t), Aside(t)
  PROVE  Joining'
<1>1. /\ pc[t] # "off" /\ pc'[t] # "off" /\ Created' = Created
      /\ \A u \in Threads : u # t => pc'[u] = pc[u]
  BY Moves
<1>2. Valid' = Valid /\ Unjoined' = Unjoined
  BY <1>1 DEF Aside, Valid, Unjoined
<1>3. JoinTypes'
  BY <1>1 DEF Aside, Joining, JoinTypes
<1>4. SignalledLast'
  <2>1. signalled \subseteq Threads
    BY DEF Joining, JoinTypes, Created
  <2> QED
    BY <1>1, <2>1 DEF Aside, Joining, SignalledLast
<1>5. Expecting'
  <2>1. \A c \in Unjoined : Parent(c) \in Threads
    BY InScript DEF Unjoined
  <2> QED
    BY <1>1, <1>2, <2>1 DEF Aside, Joining, Expecting
<1>6. NoneLeft'
  <2> SUFFICES ASSUME NEW u \in Threads, NEW i \in 1 .. Len(Script[u]), NEW k \in 1 .. Len(Script[u]),
                      Script[u][k] = Exit, Left(u, k)', i < k, Script[u][i] \in Joinable
               PROVE  Script[u][i] \in joined
    BY DEF NoneLeft, Aside
  <2>1. CASE Left(u, k)
    BY <2>1 DEF Joining, NoneLeft
  <2>2. CASE ~Left(u, k)
    <3>1. u = t
      BY <1>1, <2>2 DEF Left, Aside
    <3>2. k = ip[t] /\ pc[t] = "x_post" /\ mychild[t] = {}
      BY <2>2, <3>1 DEF Aside
    <3>3. i < ip[t] /\ Script[t][i] # Exit
      BY <3>1, <3>2, ThreadAssumption
    <3>4. Script[t][i] \in Created /\ Parent(Script[t][i]) = t
      BY <3>1, <3>3, ParentFacts DEF Scripted, Done
    <3> QED
      BY <3>1, <3>2, <3>4 DEF Joining, Expecting, Unjoined, Collected
  <2> QED
    BY <2>1, <2>2
<1>7. Tokens'
  BY DEF Aside, Joining, Tokens
<1>8. JoinedGivenBack'
  <2>1. \A s \in Valid : table[s].parent_tid \in Threads
    BY EntryParents
  <2> QED
    BY <1>1, <1>2, <2>1 DEF Aside, Joining, JoinedGivenBack, Through
<1> QED
  BY <1>3, <1>4, <1>5, <1>6, <1>7, <1>8 DEF Joining

\* A new thread has not signalled and has no children.
LEMMA RegisterJoining ==
  ASSUME Tree, OneByOne, Types, SetUp, Scripted, Tabled, Collecting, Joining,
         NEW t \in Threads, Register(t)
  PROVE  Joining'
<1> DEFINE c == Script[t][ip[t]]
<1>1. /\ c \in Threads \ {Leader, t} /\ pc[c] = "off" /\ c \notin Created /\ Parent(c) = t
      /\ Created' = Created \cup {c} /\ pc[t] = "c_table"
      /\ pc' = [pc EXCEPT ![t] = "c_post", ![c] = "idle"]
  BY Registers
<1>2. /\ ~table[0].valid => t = Leader
      /\ jsem' = [u \in Threads |-> IF u = c \/ (u = t /\ ~table[0].valid) THEN 0 ELSE jsem[u]]
  BY Writes
<1>3. PICK slot \in Slots \ {0} :
         /\ ~table[slot].valid
         /\ table' = [s \in Slots |->
                   IF s = slot THEN Entry(c, t, c \in Joinable)
                   ELSE IF s = 0 /\ ~table[0].valid THEN Entry(t, t, TRUE) ELSE table[s]]
  BY Writes
<1> HIDE DEF c
<1>4. /\ UNCHANGED <<index, mychild, joined, signalled, ip>>
      /\ \A u \in Threads : pc'[u] = IF u = c THEN "idle" ELSE IF u = t THEN "c_post" ELSE pc[u]
  BY <1>1 DEF Register, Types
<1>5. \A s \in Valid : s \in Valid' /\ table'[s] = table[s]
  BY <1>3 DEF Valid
<1>6. JoinTypes'
  BY <1>1, <1>2, <1>4 DEF Joining, JoinTypes
<1>7. SignalledLast'
  <2>1. \A d \in signalled : d \in Threads /\ d # c
    BY <1>1 DEF Joining, JoinTypes, Created
  <2>2. t \notin signalled
    BY <1>1, ScriptFacts DEF Joining, SignalledLast, Scripted, Creating, Collected, Through
  <2> QED
    BY <1>4, <2>1, <2>2 DEF Joining, SignalledLast
<1>8. \A u \in Threads : pc'[u] \in Collected \/ pc'[u] \in Through \cup {"x_post2"} =>
                            pc[u] = pc'[u] /\ u # t /\ u # c
  BY <1>4 DEF Collected, Through
<1>9. Expecting'
  <2>1. \A d \in Unjoined' : d \in Unjoined \/ d = c
    BY <1>1, <1>4 DEF Unjoined
  <2>2. ASSUME NEW d \in Unjoined', pc'[Parent(d)] \in Collected
        PROVE  \E s \in mychild'[Parent(d)] : table'[s].tid = d
    <3>1. d \in Unjoined /\ Parent(d) \in Threads
      BY <1>1, <1>8, <2>1, <2>2, InScript DEF Unjoined
    <3>2. pc[Parent(d)] \in Collected
      BY <1>8, <2>2, <3>1
    <3>3. PICK s \in mychild[Parent(d)] : table[s].tid = d
      BY <3>1, <3>2 DEF Joining, Expecting
    <3>4. s \in Valid
      BY <3>1, <3>2 DEF Collecting
    <3> QED
      BY <1>4, <1>5, <3>3, <3>4
  <2>3. \A u \in Threads : pc'[u] \in {"x_setpop", "x_jenter", "x_jwait"} => pc'[u] = pc[u]
    BY <1>4
  <2> QED
    BY <1>4, <1>8, <2>2, <2>3 DEF Joining, Expecting
<1>10. NoneLeft'
  <2>1. \A u \in Threads : \A k \in 1 .. Len(Script[u]) : Left(u, k)' => Left(u, k)
    BY <1>4, <1>8 DEF Left
  <2> QED
    BY <1>4, <2>1 DEF Joining, NoneLeft
<1>11. Tokens'
  <2>1. \A d \in signalled : Parent(d) # c /\ Created # {}
    BY <1>1, ParentEntry DEF Joining, JoinTypes
  <2>2. ~table[0].valid => signalled = {}
    BY <2>1 DEF Tabled
  <2> QED
    BY <1>2, <1>4, <2>1, <2>2 DEF Joining, Tokens
<1>12. JoinedGivenBack'
  <2>1. c \notin joined /\ Leader \notin joined
    BY <1>1 DEF Joining, JoinTypes, Created
  <2>2. ASSUME NEW s \in Valid', table'[s].tid \in joined
        PROVE  s \in Valid /\ table'[s] = table[s]
    <3>1. s # slot
      BY <1>3, <2>1, <2>2 DEF Entry
    <3>2. ~(s = 0 /\ ~table[0].valid)
      <4>1. ~table[0].valid => table'[0] = Entry(Leader, Leader, TRUE)
        <5>1. 0 \in Slots
          BY ThreadAssumption DEF Slots
        <5>2. ~table[0].valid => table'[0] = Entry(t, t, TRUE)
          BY <1>3, <5>1
        <5> QED
          BY <1>2, <5>2
      <4>2. ~table[0].valid => table'[0].tid = Leader
        BY <4>1 DEF Entry
      <4> QED
        BY <2>1, <2>2, <4>2
    <3> QED
      BY <1>3, <2>2, <3>1, <3>2 DEF Valid
  <2>3. ASSUME NEW s \in Valid, table[s].tid \in joined
        PROVE  /\ s \in mychild[table[s].parent_tid]
               /\ pc'[table[s].parent_tid] = pc[table[s].parent_tid]
               /\ pc[table[s].parent_tid] \in {"x_restore", "x_enter2", "x_wait2", "x_free"}
    <3>1. /\ s \in mychild[table[s].parent_tid]
          /\ pc[table[s].parent_tid] \in {"x_restore", "x_enter2", "x_wait2", "x_free"}
      BY <2>3 DEF Joining, JoinedGivenBack
    <3>2. table[s].parent_tid \in Threads
      BY <2>3, EntryParents
    <3> QED
      BY <1>1, <1>4, <3>1, <3>2
  <2> QED
    BY <1>4, <2>2, <2>3 DEF JoinedGivenBack
<1> QED
  BY <1>6, <1>7, <1>9, <1>10, <1>11, <1>12 DEF Joining

\* A joinable thread finds its parent's entry and puts the one token there.
LEMMA ScanJoining ==
  ASSUME Tree, OneByOne, Types, SetUp, Scripted, Tabled, Collecting, Joining,
         NEW t \in Threads, ExitScan(t)
  PROVE  Joining'
<1>1. /\ pc[t] = "x_scan" /\ pc'[t] = "x_post" /\ Created' = Created
      /\ \A u \in Threads : u # t => pc'[u] = pc[u]
  BY Moves DEF ExitScan, Scan, Types, Goto, Step, Register
<1>2. /\ UNCHANGED <<ip, table, joined>>
      /\ signalled' = signalled \cup ({t} \cap Joinable)
      /\ mychild'[t] = ChildSlots(t)
      /\ \A u \in Threads : u # t => mychild'[u] = mychild[u] /\ index'[u] = index[u]
      /\ index'[t] = IF EntriesOf(t) = {} THEN -1 ELSE Own(t)
      /\ index' = [index EXCEPT ![t] = IF EntriesOf(t) = {} THEN -1 ELSE Own(t)]
      /\ jsem' = [u \in Threads |-> IF u \in Told(t) THEN Applied(jsem[u], 1) ELSE jsem[u]]
  BY DEF ExitScan, Scan, Types, Joining, JoinTypes
<1>3. Valid' = Valid /\ Unjoined' = Unjoined
  BY <1>1, <1>2 DEF Valid, Unjoined
<1>4. t \notin signalled /\ t \notin joined
  <2>1. ip[t] <= Len(Script[t]) /\ ip[t] \in Nat /\ Len(Script[t]) \in Nat
    BY <1>1, ScriptFacts DEF Scripted, Exiting, Types
  <2>2. t \notin signalled
    BY <1>1, <2>1 DEF Joining, SignalledLast, Collected, Through
  <2> QED
    BY <2>2 DEF Joining, JoinTypes
<1>5. t # Leader => t \in Created \ joined
  BY <1>1, <1>4 DEF Created
<1>6. EntriesOf(t) # {} =>
         /\ Own(t) \in Valid
         /\ table[Own(t)] = IF t = Leader THEN Entry(t, t, TRUE)
                            ELSE Entry(t, Parent(t), t \in Joinable)
  <2>1. CASE t = Leader
    <3>1. EntriesOf(t) \subseteq {0}
      BY <2>1 DEF EntriesOf, Tabled, Created
    <3>2. EntriesOf(t) # {} => EntriesOf(t) = {0} /\ Own(t) = 0
      BY <3>1 DEF Own
    <3> QED
      BY <2>1, <3>2 DEF EntriesOf, Tabled, Valid
  <2>2. CASE t # Leader
    BY <1>5, <2>2, OwnEntry
  <2> QED
    BY <2>1, <2>2
<1>7. t \notin Joinable => Told(t) = {} /\ signalled' = signalled
  <2>1. ASSUME t \notin Joinable, NEW u \in Told(t) PROVE FALSE
    <3>1. /\ EntriesOf(t) # {} /\ u # t
          /\ table[Own(t)].joinable /\ table[Own(t)].parent_tid = u
      BY <2>1 DEF Told
    <3> QED
      <4>1. t = Leader => table[Own(t)].parent_tid = t
        BY <1>6, <3>1 DEF Entry
      <4>2. t # Leader => table[Own(t)].joinable = (t \in Joinable)
        <5>1. t # Leader => table[Own(t)] = Entry(t, Parent(t), t \in Joinable)
          BY <1>6, <3>1
        <5> QED
          BY <5>1 DEF Entry
      <4> QED
        BY <2>1, <3>1, <4>1, <4>2
  <2> QED
    BY <1>2, <2>1
<1>8. t \in Joinable => /\ t \in Created \cap Joinable /\ t \in Unjoined
                        /\ Told(t) = {Parent(t)} /\ signalled' = signalled \cup {t}
                        /\ Parent(t) \in Threads
  <2> SUFFICES ASSUME t \in Joinable
               PROVE  /\ t \in Created \cap Joinable /\ t \in Unjoined
                      /\ Told(t) = {Parent(t)} /\ signalled' = signalled \cup {t}
                      /\ Parent(t) \in Threads
    OBVIOUS
  <2>1. t # Leader /\ t \in Created \ joined
    BY <1>5, ThreadAssumption
  <2>2. t \in Unjoined /\ t \in Created \cap Joinable
    BY <2>1 DEF Unjoined
  <2>3. EntriesOf(t) # {} /\ table[Own(t)] = Entry(t, Parent(t), TRUE)
    BY <2>1, OwnEntry
  <2>4. Parent(t) \in Threads /\ Parent(t) # t /\ EntriesOf(Parent(t)) # {}
    BY <2>2, ParentEntry DEF Joining
  <2>5. table[Own(t)].joinable /\ table[Own(t)].parent_tid = Parent(t)
    BY <2>3 DEF Entry
  <2>6. Told(t) = {Parent(t)}
    BY <2>3, <2>4, <2>5 DEF Told
  <2> QED
    BY <1>2, <2>2, <2>4, <2>6
<1>9. \A u \in Told(t) : jsem[u] = 0
  <2> SUFFICES ASSUME t \in Joinable, jsem[Parent(t)] # 0
               PROVE  FALSE
    BY <1>7, <1>8
  <2>1. jsem[Parent(t)] = 1
    BY <1>8 DEF Joining, JoinTypes
  <2>2. PICK d \in signalled \ joined : Parent(d) = Parent(t)
    BY <1>8, <2>1 DEF Joining, Tokens
  <2>3. d \in Unjoined
    BY <2>2 DEF Joining, JoinTypes, Unjoined
  <2>4. d = t
    BY <1>8, <2>2, <2>3, AtMostOne DEF Joining
  <2> QED
    BY <1>4, <2>2, <2>4
<1>10. jsem' = [u \in Threads |-> IF u \in Told(t) THEN 1 ELSE jsem[u]]
  BY <1>2, <1>9 DEF Applied, Removed
<1>11. JoinTypes'
  <2>1. index'[t] \in Slots \cup {-1}
    BY <1>2, <1>6 DEF Valid
  <2>2. index' \in [Threads -> Slots \cup {-1}]
    BY <1>2, <2>1 DEF Joining, JoinTypes
  <2>3. jsem' \in [Threads -> {0, 1}]
    BY <1>10 DEF Joining, JoinTypes
  <2>4. signalled' \subseteq Created' \cap Joinable /\ joined' \subseteq signalled'
    BY <1>1, <1>2, <1>7, <1>8 DEF Joining, JoinTypes
  <2> QED
    BY <2>2, <2>3, <2>4 DEF JoinTypes
<1>12. SignalledLast'
  <2>1. signalled \subseteq Threads
    BY DEF Joining, JoinTypes, Created
  <2> QED
    BY <1>1, <1>2, <1>7, <1>8, <2>1 DEF Joining, SignalledLast, Collected
<1>13. Expecting'
  <2>1. \A s \in ChildSlots(t) : /\ s \in Valid /\ table[s].parent_tid = t
                                 /\ table[s].joinable /\ table[s].tid # t
    BY DEF ChildSlots
  <2>2. ASSUME NEW s \in ChildSlots(t) PROVE EntriesOf(t) # {}
    <3>1. s # 0
      BY <2>1 DEF Tabled, Entry
    <3>2. /\ table[s].tid \in Created
          /\ table[s] = Entry(table[s].tid, Parent(table[s].tid), table[s].tid \in Joinable)
      BY <2>1, <3>1 DEF Tabled
    <3>4. /\ table[s].parent_tid = Parent(table[s].tid)
          /\ table[s].joinable = (table[s].tid \in Joinable)
      BY <3>2 DEF Entry
    <3>3. table[s].tid \in Created \cap Joinable /\ Parent(table[s].tid) = t
      BY <2>1, <3>2, <3>4
    <3> QED
      BY <3>3, ParentEntry DEF Joining
  <2>3. mychild'[t] # {} => index'[t] # -1
    <3>1. mychild'[t] # {} => index'[t] = Own(t) /\ Own(t) \in Slots
      BY <1>2, <1>6, <2>2 DEF Valid
    <3> QED
      BY <3>1, ThreadAssumption DEF Slots
  <2>4. ASSUME NEW c \in Unjoined, Parent(c) = t PROVE \E s \in ChildSlots(t) : table[s].tid = c
    <3>1. PICK s \in Valid : table[s] = Entry(c, t, TRUE)
      BY <2>4, OwnEntry DEF Unjoined
    <3>2. c # t
      BY <2>4, ParentEntry DEF Unjoined, Joining
    <3> QED
      BY <3>1, <3>2 DEF ChildSlots, Entry
  <2>5. ASSUME NEW c \in Unjoined, pc'[Parent(c)] \in Collected
        PROVE  \E s \in mychild'[Parent(c)] : table'[s].tid = c
    <3>1. CASE Parent(c) = t
      BY <1>2, <2>4, <3>1
    <3>2. CASE Parent(c) # t
      <4>1. Parent(c) \in Threads
        BY InScript DEF Unjoined
      <4> QED
        BY <1>1, <1>2, <2>5, <3>2, <4>1 DEF Joining, Expecting
    <3> QED
      BY <3>1, <3>2
  <2> QED
    BY <1>1, <1>2, <1>3, <2>3, <2>5 DEF Joining, Expecting
<1>14. NoneLeft'
  <2>1. \A u \in Threads : \A k \in 1 .. Len(Script[u]) : Left(u, k)' => Left(u, k)
    BY <1>1, <1>2 DEF Left, Through
  <2> QED
    BY <1>2, <2>1 DEF Joining, NoneLeft
<1>15. Tokens'
  <2>1. CASE t \notin Joinable
    BY <1>2, <1>7, <1>10, <2>1 DEF Joining, Tokens
  <2>2. CASE t \in Joinable
    BY <1>2, <1>4, <1>8, <1>10, <2>2 DEF Joining, Tokens
  <2> QED
    BY <2>1, <2>2
<1>16. JoinedGivenBack'
  <2>1. ASSUME NEW s \in Valid, table[s].tid \in joined
        PROVE  /\ table[s].parent_tid \in Threads \ {t}
               /\ s \in mychild[table[s].parent_tid]
               /\ pc[table[s].parent_tid] \in {"x_restore", "x_enter2", "x_wait2", "x_free"}
    BY <1>1, <2>1, EntryParents DEF Joining, JoinedGivenBack
  <2> QED
    BY <1>1, <1>2, <1>3, <2>1 DEF JoinedGivenBack
<1> QED
  BY <1>11, <1>12, <1>13, <1>14, <1>15, <1>16 DEF Joining

\* The one token is taken when the one child has signalled.
LEMMA JoinJoining ==
  ASSUME Tree, OneByOne, Types, SetUp, OpsTake, Scripted, Tabled, Collecting, Joining,
         NEW t \in Threads, Join(t)
  PROVE  Joining'
<1>1. /\ pc[t] = "x_jwait" /\ pc'[t] = "x_restore" /\ Created' = Created
      /\ \A u \in Threads : u # t => pc'[u] = pc[u]
  BY Moves DEF Join, Types, Goto, Step, Register
<1>2. /\ UNCHANGED <<ip, table, mychild, index, signalled>>
      /\ joined' = joined \cup {table[s].tid : s \in mychild[t]}
  BY DEF Join
<1>3. Valid' = Valid
  BY <1>2 DEF Valid
<1>4. mychild[t] # {} /\ index[t] # -1
  BY <1>1 DEF Joining, Expecting, Collected
<1>5. jsem[t] = 1 /\ jsem' = [jsem EXCEPT ![t] = 0]
  <2>1. op[t] \in Int /\ op[t] < 0
    BY <1>1, ThreadAssumption DEF OpsTake, Types, Waiting
  <2>2. jsem[t] \in {0, 1}
    BY DEF Joining, JoinTypes
  <2>3. Ready(jsem[t], op[t]) /\ jsem' = [jsem EXCEPT ![t] = IF jsem[t] = Removed THEN @ ELSE Applied(jsem[t], op[t])]
    BY <1>4 DEF Join
  <2>4. jsem[t] = 1 /\ op[t] = -1
    BY <2>1, <2>2, <2>3 DEF Ready, Removed
  <2> QED
    BY <2>3, <2>4 DEF Applied, Removed, Joining, JoinTypes
<1>6. PICK c \in signalled \ joined : Parent(c) = t
  BY <1>5 DEF Joining, Tokens
<1>7. c \in Unjoined
  BY <1>6 DEF Joining, JoinTypes, Unjoined
<1>8. \A d \in Unjoined : Parent(d) = t => d = c
  BY <1>6, <1>7, AtMostOne DEF Joining
<1>9. \A s \in mychild[t] : table[s].tid = c
  BY <1>1, <1>8, WaitedFor DEF Collected, Through
<1>10. joined' = joined \cup {c}
  BY <1>2, <1>4, <1>9
<1>11. JoinTypes'
  BY <1>1, <1>2, <1>5, <1>6, <1>10 DEF Joining, JoinTypes
<1>12. SignalledLast'
  <2>1. signalled \subseteq Threads
    BY DEF Joining, JoinTypes, Created
  <2> QED
    BY <1>1, <1>2, <2>1 DEF Joining, SignalledLast, Collected, Through
<1>13. Expecting'
  <2>1. Unjoined' \subseteq Unjoined /\ \A d \in Unjoined : Parent(d) \in Threads
    BY <1>1, <1>10, InScript DEF Unjoined
  <2>2. \A d \in Unjoined' : Parent(d) # t
    BY <1>8, <1>10, <2>1 DEF Unjoined
  <2>3. \A d \in Unjoined' : pc'[Parent(d)] \in Collected =>
                                \E s \in mychild'[Parent(d)] : table'[s].tid = d
    BY <1>1, <1>2, <2>1, <2>2 DEF Joining, Expecting
  <2>4. \A u \in Threads : pc'[u] \in Collected => pc[u] \in Collected
    BY <1>1 DEF Collected
  <2>5. \A u \in Threads : pc'[u] \in {"x_setpop", "x_jenter", "x_jwait"} => pc'[u] = pc[u]
    BY <1>1
  <2> QED
    BY <1>2, <2>3, <2>4, <2>5 DEF Joining, Expecting
<1>14. NoneLeft'
  <2> SUFFICES ASSUME NEW u \in Threads, NEW i \in 1 .. Len(Script[u]), NEW k \in 1 .. Len(Script[u]),
                      Script[u][k] = Exit, Left(u, k)', i < k, Script[u][i] \in Joinable
               PROVE  Script[u][i] \in joined'
    BY DEF NoneLeft
  <2>1. CASE Left(u, k)
    BY <1>10, <2>1 DEF Joining, NoneLeft
  <2>2. CASE ~Left(u, k)
    <3>1. u = t /\ k = ip[t]
      BY <1>1, <1>2, <2>2 DEF Left
    <3>2. i < ip[t] /\ Script[t][i] # Exit
      BY <3>1, ThreadAssumption
    <3>3. Script[t][i] \in Created /\ Parent(Script[t][i]) = t
      BY <3>1, <3>2, ParentFacts DEF Scripted, Done
    <3> QED
      BY <1>8, <1>10, <3>1, <3>3 DEF Unjoined
  <2> QED
    BY <2>1, <2>2
<1>15. Tokens'
  <2>1. \A d \in signalled \ joined : d \in Unjoined
    BY DEF Joining, JoinTypes, Unjoined
  <2>2. ASSUME NEW u \in Threads
        PROVE  jsem'[u] = 1 <=> \E d \in signalled \ (joined \cup {c}) : Parent(d) = u
    <3>1. CASE u = t
      BY <1>5, <1>8, <2>1, <3>1 DEF Joining, JoinTypes
    <3>2. CASE u # t
      BY <1>5, <1>6, <3>2 DEF Joining, JoinTypes, Tokens
    <3> QED
      BY <3>1, <3>2
  <2> QED
    BY <1>2, <1>10, <2>2 DEF Tokens
<1>16. JoinedGivenBack'
  <2>1. ASSUME NEW s \in Valid, table[s].tid \in joined
        PROVE  /\ s \in mychild[table[s].parent_tid]
               /\ pc'[table[s].parent_tid] \in {"x_restore", "x_enter2", "x_wait2", "x_free"}
    <3>1. /\ s \in mychild[table[s].parent_tid]
          /\ pc[table[s].parent_tid] \in {"x_restore", "x_enter2", "x_wait2", "x_free"}
      BY <2>1 DEF Joining, JoinedGivenBack
    <3>2. table[s].parent_tid \in Threads
      BY <2>1, EntryParents
    <3> QED
      BY <1>1, <3>1, <3>2
  <2>2. ASSUME NEW s \in Valid, table[s].tid = c
        PROVE  s \in mychild[t] /\ table[s].parent_tid = t
    <3>1. PICK r \in mychild[t] : table[r].tid = c
      BY <1>4, <1>9
    <3>2. r \in Valid /\ table[r].parent_tid = t
      BY <1>1, <3>1 DEF Collecting, Collected
    <3> QED
      BY <2>2, <3>1, <3>2 DEF Tabled
  <2> QED
    BY <1>1, <1>2, <1>3, <1>10, <2>1, <2>2 DEF JoinedGivenBack
<1> QED
  BY <1>11, <1>12, <1>13, <1>14, <1>15, <1>16 DEF Joining

\* Only entries of joined threads are given back.
LEMMA FreeJoining ==
  ASSUME Tree, OneByOne, Types, SetUp, Scripted, Tabled, Collecting, Joining,
         NEW t \in Threads, FreeChildren(t)
  PROVE  Joining'
<1>1. /\ pc[t] = "x_free" /\ pc'[t] = "x_post2" /\ Created' = Created
      /\ \A u \in Threads : u # t => pc'[u] = pc[u]
  BY Moves DEF FreeChildren, Types, Goto, Step, Register
<1>2. /\ UNCHANGED <<ip, mychild, index, signalled, joined, jsem>>
      /\ table' = [s \in Slots |-> IF s \in mychild[t] /\ index[t] # -1 THEN Free ELSE table[s]]
  BY DEF FreeChildren
<1>3. \A s \in mychild[t] : s \in Slots /\ table[s].parent_tid = t /\ table[s].tid \in joined
  BY <1>1, CollectedSlots DEF Collected, Through
<1>4. \A s \in Valid' : s \in Valid /\ s \notin mychild[t] /\ table'[s] = table[s]
  <2>1. mychild[t] # {} => index[t] # -1
    BY <1>1 DEF Joining, Expecting, Collected, Through
  <2> QED
    BY <1>2, <2>1 DEF Valid, Free
<1>5. JoinTypes'
  BY <1>1, <1>2 DEF Joining, JoinTypes
<1>6. SignalledLast'
  <2>1. signalled \subseteq Threads
    BY DEF Joining, JoinTypes, Created
  <2> QED
    BY <1>1, <1>2, <2>1 DEF Joining, SignalledLast
<1>7. Expecting'
  <2>1. Unjoined' = Unjoined /\ \A d \in Unjoined : Parent(d) \in Threads
    BY <1>1, <1>2, InScript DEF Unjoined
  <2>2. ASSUME NEW d \in Unjoined, pc'[Parent(d)] \in Collected
        PROVE  \E s \in mychild[Parent(d)] : table'[s].tid = d
    <3>1. pc[Parent(d)] \in Collected
      BY <1>1, <2>1, <2>2 DEF Collected, Through
    <3>2. PICK s \in mychild[Parent(d)] : table[s].tid = d
      BY <3>1 DEF Joining, Expecting
    <3>3. s \in Slots
      BY <2>1, <3>2 DEF Types
    <3>4. s \notin mychild[t]
      BY <1>3, <3>2 DEF Unjoined
    <3> QED
      BY <1>2, <3>2, <3>3, <3>4
  <2>3. \A u \in Threads : /\ pc'[u] \in Collected => pc[u] \in Collected
                           /\ pc'[u] \in {"x_setpop", "x_jenter", "x_jwait"} => pc'[u] = pc[u]
    BY <1>1 DEF Collected, Through
  <2> QED
    BY <1>2, <2>1, <2>2, <2>3 DEF Joining, Expecting
<1>8. NoneLeft'
  <2>1. \A u \in Threads : \A k \in 1 .. Len(Script[u]) : Left(u, k)' => Left(u, k)
    BY <1>1, <1>2 DEF Left, Through
  <2> QED
    BY <1>2, <2>1 DEF Joining, NoneLeft
<1>9. Tokens'
  BY <1>2 DEF Joining, Tokens
<1>10. JoinedGivenBack'
  <2>1. ASSUME NEW s \in Valid', table'[s].tid \in joined
        PROVE  /\ s \in mychild[table'[s].parent_tid]
               /\ pc'[table'[s].parent_tid] \in {"x_restore", "x_enter2", "x_wait2", "x_free"}
    <3>1. s \in Valid /\ s \notin mychild[t] /\ table'[s] = table[s]
      BY <1>4
    <3>2. /\ s \in mychild[table[s].parent_tid]
          /\ pc[table[s].parent_tid] \in {"x_restore", "x_enter2", "x_wait2", "x_free"}
      BY <2>1, <3>1 DEF Joining, JoinedGivenBack
    <3>3. table[s].parent_tid \in Threads \ {t}
      BY <3>1, <3>2, EntryParents
    <3> QED
      BY <1>1, <3>1, <3>2, <3>3
  <2> QED
    BY <1>2, <2>1 DEF JoinedGivenBack
<1> QED
  BY <1>5, <1>6, <1>7, <1>8, <1>9, <1>10 DEF Joining

\* A joinable thread that exits is in its last call.
LEMMA LastCall ==
  ASSUME OneByOne, Types, Scripted, JoinTypes, NEW t \in signalled, pc[t] \in Exiting
  PROVE  ip[t] = Len(Script[t])
<1>1. t \in Threads /\ t \in Joinable
  BY ThreadAssumption DEF JoinTypes
<1>2. ip[t] \in 1 .. Len(Script[t]) /\ Script[t][ip[t]] = Exit
  BY <1>1, ScriptFacts DEF Scripted
<1> QED
  BY <1>1, <1>2 DEF OneByOne

\* Every other step leaves the joins alone.
LEMMA JoiningStep ==
  ASSUME Tree, OneByOne, Types, SetUp, OpsTake, Scripted, Tabled, Collecting, Joining, [Next]_vars
  PROVE  Joining'
<1>1. CASE UNCHANGED vars
  BY <1>1 DEF vars, Joining, JoinTypes, SignalledLast, Expecting, NoneLeft, Tokens, JoinedGivenBack,
              Created, Valid, Unjoined, Left
<1>2. ASSUME NEW t \in Threads, Step(t), ~Register(t), Aside(t) PROVE Joining'
  BY <1>2, AsideKeeps
<1>3. ASSUME NEW t \in Threads
      PROVE  /\ ip[t] \in Nat /\ Len(Script[t]) \in Nat
             /\ ip[t] > Len(Script[t]) => pc[t] \notin Creating /\ pc[t] \notin Exiting
             /\ pc[t] \in Creating => Script[t][ip[t]] # Exit
             /\ t \in signalled => ip[t] > Len(Script[t]) \/ pc[t] \in Collected \cup {"x_post2"}
             /\ pc[t] \in {"x_setpop", "x_jenter"} => mychild[t] # {}
  BY ScriptFacts DEF Types, Scripted, Joining, SignalledLast, Expecting
<1>4. ASSUME NEW t \in Threads, CallCreate(t) PROVE Aside(t)
  BY <1>3, <1>4 DEF CallCreate, Aside, Goto, Types, Left, Creating, Exiting, Collected, Through
<1>5. ASSUME NEW t \in Threads, CreateOps(t) PROVE Aside(t)
  <2>1. table' = table
    BY <1>5, SetUpKeeps
  <2> QED
    BY <1>3, <1>5, <2>1 DEF CreateOps, Aside, Goto, Types, Left, Creating, Exiting, Collected, Through
<1>6. ASSUME NEW t \in Threads, TableFull(t) PROVE Aside(t)
  BY <1>3, <1>6 DEF TableFull, Aside, Goto, Types, Left, Creating, Exiting, Collected, Through
<1>7. ASSUME NEW t \in Threads, CreatePost(t) PROVE Aside(t)
  <2>1. /\ pc[t] = "c_post" /\ pc'[t] = "idle" /\ ip'[t] = ip[t] + 1
        /\ UNCHANGED <<table, joined, signalled, jsem>> /\ UNCHANGED <<index, mychild>>
        /\ \A u \in Threads : u # t => ip'[u] = ip[u]
    BY <1>7 DEF CreatePost, Goto, Types
  <2>2. t \in signalled => ip'[t] > Len(Script[t])
    BY <1>3, <2>1, LastCall DEF Creating, Collected, Through, Scripted, Exiting, Joining
  <2>3. \A k \in 1 .. Len(Script[t]) : Script[t][k] = Exit /\ Left(t, k)' => Left(t, k)
    BY <1>3, <2>1 DEF Left, Through, Creating
  <2> QED
    BY <2>1, <2>2, <2>3 DEF Aside, Collected, Through
<1>8. ASSUME NEW t \in Threads, CallExit(t) PROVE Aside(t)
  BY <1>3, <1>8 DEF CallExit, Aside, Goto, Types, Left, Creating, Exiting, Collected, Through
<1>9. ASSUME NEW t \in Threads, ExitOps(t) PROVE Aside(t)
  BY <1>3, <1>9 DEF ExitOps, Aside, Goto, Types, Left, Creating, Exiting, Collected, Through
<1>10. ASSUME NEW t \in Threads, ExitPost(t) PROVE Aside(t)
  BY <1>3, <1>10 DEF ExitPost, Aside, Goto, Types, Left, Creating, Exiting, Collected, Through
<1>11. ASSUME NEW t \in Threads, SetJoinCount(t) PROVE Aside(t)
  BY <1>3, <1>11 DEF SetJoinCount, Aside, Goto, Types, Left, Creating, Exiting, Collected, Through
<1>12. ASSUME NEW t \in Threads, RestorePop(t) PROVE Aside(t)
  BY <1>3, <1>12 DEF RestorePop, Aside, Goto, Types, Left, Creating, Exiting, Collected, Through
<1>13. ASSUME NEW t \in Threads, ExitPost2(t) PROVE Aside(t)
  <2>1. /\ pc[t] = "x_post2" /\ pc'[t] = "idle" /\ ip'[t] = ip[t] + 1
        /\ UNCHANGED <<table, joined, signalled, jsem>> /\ UNCHANGED <<index, mychild>>
        /\ \A u \in Threads : u # t => ip'[u] = ip[u]
    BY <1>13 DEF ExitPost2, Goto, Types
  <2>2. t \in signalled => ip'[t] > Len(Script[t])
    BY <1>3, <2>1, LastCall DEF Creating, Collected, Through, Scripted, Exiting, Joining
  <2>3. \A k \in 1 .. Len(Script[t]) : Script[t][k] = Exit /\ Left(t, k)' => Left(t, k)
    BY <1>3, <2>1 DEF Left, Through, Creating
  <2> QED
    BY <2>1, <2>2, <2>3 DEF Aside, Collected, Through
<1>14. ASSUME NEW t \in Threads, EnterWait(t) PROVE Aside(t)
  <2>1. /\ UNCHANGED <<table, joined, signalled, jsem>> /\ UNCHANGED <<index, mychild>>
        /\ ip' = ip
    BY <1>14 DEF EnterWait
  <2>2. \/ pc[t] = "c_enter" /\ pc'[t] = "c_wait"
        \/ pc[t] = "x_enter" /\ pc'[t] = "x_wait"
        \/ pc[t] = "x_jenter" /\ pc'[t] = "x_jwait"
        \/ pc[t] = "x_enter2" /\ pc'[t] = "x_wait2"
    BY <1>14 DEF EnterWait, Goto, Types
  <2> QED
    BY <1>3, <2>1, <2>2 DEF Aside, Left, Creating, Exiting, Collected, Through
<1>15. ASSUME NEW t \in Threads, LockTable(t) PROVE Aside(t)
  BY <1>3, <1>15 DEF LockTable, Aside, Goto, Types, Left, Creating, Exiting, Collected, Through
<1>16. ASSUME NEW t \in Threads, Step(t), ~Register(t), ~ExitScan(t), ~Join(t), ~FreeChildren(t)
      PROVE  Aside(t)
  BY <1>16, <1>4, <1>5, <1>6, <1>7, <1>8, <1>9, <1>10, <1>11, <1>12, <1>13, <1>14, <1>15 DEF Step
<1> QED
  BY <1>1, <1>2, <1>16, RegisterJoining, ScanJoining, JoinJoining, FreeJoining DEF Next

\* The invariant for clients that join their children one by one.
LEMMA AlwaysSound == ASSUME Tree, OneByOne PROVE Spec => []Sound
<1>1. Init => Sound
  <2> SUFFICES ASSUME Init PROVE Sound
    OBVIOUS
  <2>1. Created = {} /\ Valid = {} /\ 0 \in Slots
    BY ThreadAssumption DEF Init, Created, Valid, Free, Slots
  <2>2. Scripted
    BY <2>1, ScriptFacts, ThreadAssumption DEF Init, Scripted, Creating, Exiting, Done
  <2>3. Tabled
    BY <2>1 DEF Init, Tabled, Free
  <2>4. Collecting
    BY <2>1 DEF Init, Collecting, Collected, Through
  <2>5. JoinTypes /\ SignalledLast /\ Tokens /\ JoinedGivenBack
    BY <2>1 DEF Init, JoinTypes, SignalledLast, Tokens, JoinedGivenBack
  <2>6. Expecting
    BY <2>1 DEF Init, Expecting, Collected, Through, Unjoined
  <2>7. NoneLeft
    BY DEF Init, NoneLeft, Left, Through
  <2> QED
    BY <2>2, <2>3, <2>4, <2>5, <2>6, <2>7, InitLocking DEF Sound, Joining
<1>2. Sound /\ [Next]_vars => Sound'
  BY TypesStep, SetUpStep, OpsTakeStep, GuardedStep, ScriptedStep, TabledStep, CollectingStep,
     JoiningStep DEF Sound, Locking
<1> QED
  BY <1>1, <1>2, PTL DEF Spec

\* For clients that join their children one by one (foothread.c:190-222): a
\* parent stops waiting only for a child that has called foothread_exit, and
\* its semaphore holds one token for each child that has done so and has not
\* been joined yet.
THEOREM JoinsExact == ASSUME Tree, OneByOne PROVE Spec => []JoinsCountKids
<1>1. Sound => JoinsCountKids
  <2> SUFFICES ASSUME Sound PROVE JoinsCountKids
    OBVIOUS
  <2>1. ASSUME NEW t \in Threads
        PROVE  jsem[t] = Cardinality({c \in signalled \ joined : Parent(c) = t})
    <3> DEFINE K == {c \in signalled \ joined : Parent(c) = t}
    <3>1. CASE jsem[t] = 1
      <4>1. PICK c \in signalled \ joined : Parent(c) = t
        BY <3>1 DEF Sound, Joining, Tokens
      <4>2. \A d \in signalled \ joined : d \in Unjoined
        BY DEF Sound, Joining, JoinTypes, Unjoined
      <4>3. \A d \in K : d = c
        BY <4>1, <4>2, AtMostOne DEF Sound, Locking, Joining
      <4>4. K = {c}
        BY <4>1, <4>3
      <4> QED
        BY <3>1, <4>4, FS_Singleton
    <3>2. CASE jsem[t] # 1
      <4>1. K = {}
        BY <3>2 DEF Sound, Joining, Tokens
      <4>2. jsem[t] = 0
        BY <3>2 DEF Sound, Joining, JoinTypes
      <4> QED
        BY <4>1, <4>2, FS_EmptySet
    <3> QED
      BY <3>1, <3>2
  <2> QED
    BY <2>1 DEF JoinsCountKids, Sound, Joining, JoinTypes
<1> QED
  BY AlwaysSound, <1>1, PTL

\* The table is right for these clients, and entries of joined threads are
\* given back before their parent goes on (foothread.c:230-241).
THEOREM TableRight == ASSUME Tree, OneByOne PROVE Spec => []TableSound
<1>1. Sound => TypeOK /\ JoinedGivenBack
  <2> SUFFICES ASSUME Sound PROVE TypeOK /\ JoinedGivenBack
    OBVIOUS
  <2>1. /\ pop \in -MaxThreads .. 0 /\ op \in [Threads -> -MaxThreads .. 0]
        /\ init \in BOOLEAN /\ msem \in {0, 1} /\ pc \in [Threads -> Places]
        /\ mychild \in [Threads -> SUBSET Slots]
    BY DEF Sound, Locking, Types
  <2>2. \A s \in Slots : table[s] # Free =>
            {table[s].tid, table[s].parent_tid} \subseteq Threads /\ table[s].joinable \in BOOLEAN
    <3>1. \A s \in Slots : table[s] \in {Free} \cup EntryType
      BY DEF Sound, Tabled
    <3> QED
      BY <3>1 DEF EntryType
  <2>3. \A t \in Threads : jsem[t] \in 0 .. MaxThreads
    <3>1. \A t \in Threads : jsem[t] \in {0, 1}
      BY DEF Sound, Joining, JoinTypes
    <3> QED
      BY <3>1, ThreadAssumption
  <2>4. \A t \in Threads : ip[t] \in 1 .. Len(Script[t]) + 1
    BY DEF Sound, Scripted
  <2>5. /\ index \in [Threads -> Slots \cup {-1}]
        /\ signalled \subseteq Created /\ joined \subseteq Created
    BY DEF Sound, Joining, JoinTypes
  <2> QED
    BY <2>1, <2>2, <2>3, <2>4, <2>5 DEF TypeOK, Sound, Joining
<1>2. TypeOK /\ JoinedGivenBack /\ TableExclusive /\ EntriesKept => TableSound
  BY DEF TableSound
<1> QED
  BY AlwaysSound, TableGuarded, NoEntryLost, <1>1, <1>2, PTL

=============================================================================
