----------------------------- MODULE FooThread ------------------------------
(***************************************************************************)
(* Thread creation and termination in the foothread library                *)
(* (Assignment_07/foothread.c, foothread_create and foothread_exit): the   *)
(* shared thread table, the semaphore mutex_semaphore that guards it, and  *)
(* the semaphore of each table entry, on which a thread waits for its      *)
(* joinable children.                                                      *)
(*                                                                         *)
(* The table is read and written only between P and V of mutex_semaphore,  *)
(* so what a call does to it is one step.  The sembuf pop is a global that *)
(* every call stores in and every P operation reads without a lock; vop    *)
(* always holds 1 here and is left out.  Each entry has a semaphore of its *)
(* own (IPC_PRIVATE) and each thread at most one entry, so these           *)
(* semaphores are indexed by thread.                                       *)
(***************************************************************************)
EXTENDS SysVSem, Sequences, FiniteSets

CONSTANTS
    Threads,
    Leader,     \* the thread that runs main()
    Joinable,   \* the threads created FOOTHREAD_JOINABLE
    Exit,       \* a call of foothread_exit in a script
    Script,     \* thread -> what it does: threads it creates and Exits
    MaxThreads  \* length of thread_table (50 in the source)

ASSUME ThreadAssumption ==
    /\ Leader \in Threads /\ Joinable \subseteq Threads \ {Leader}
    /\ Exit \notin Threads
    /\ Script \in [Threads -> Seq(Threads \cup {Exit})]
    /\ MaxThreads \in Nat \ {0, 1}

Slots == 0 .. MaxThreads - 1

\* An entry whose valid flag is 0.
Free == [valid |-> FALSE]

VARIABLES
    pop,        \* sem_op of the shared sembuf of wait()
    op,         \* thread -> the sem_op the kernel copied for it
    init,       \* the library's init flag
    msem,       \* value of mutex_semaphore
    table,      \* slot -> thread_table entry
    jsem,       \* thread -> value of the semaphore of its entry
    pc,         \* thread -> its place; "off" before it is created
    ip,         \* thread -> its position in its script
    mychild,    \* thread -> the slots of the children it waits for
    index,      \* thread -> its own slot as its exit found it, or -1
    signalled,  \* threads that have told their parent they exit (history)
    joined      \* threads whose parent has stopped waiting for them (history)

vars == <<pop, op, init, msem, table, jsem, pc, ip, mychild, index, signalled, joined>>

Places == {"off", "idle",
           "c_ops", "c_enter", "c_wait", "c_table", "c_post", "failed",
           "x_ops", "x_enter", "x_wait", "x_scan", "x_post",
           "x_setpop", "x_jenter", "x_jwait", "x_restore",
           "x_enter2", "x_wait2", "x_free", "x_post2"}

Finished(t) == pc[t] = "idle" /\ ip[t] > Len(Script[t])

\* A failed call of exit() ends the process.
Running == \A t \in Threads : pc[t] # "failed"

Goto(t, from, to) ==
    /\ Running
    /\ pc[t] = from
    /\ pc' = [pc EXCEPT ![t] = to]

Valid == {s \in Slots : table[s].valid}

Entry(tid, parent, joinable) ==
    [valid |-> TRUE, tid |-> tid, parent_tid |-> parent, joinable |-> joinable]

EntriesOf(t) == {s \in Valid : table[s].tid = t}

Init ==
    /\ pop = 0 /\ init = FALSE /\ msem = 0
    /\ op = [t \in Threads |-> 0]
    /\ table = [s \in Slots |-> Free]
    /\ jsem = [t \in Threads |-> 0]
    /\ pc = [t \in Threads |-> IF t = Leader THEN "idle" ELSE "off"]
    /\ ip = [t \in Threads |-> 1]
    /\ mychild = [t \in Threads |-> {}]
    /\ index = [t \in Threads |-> -1]
    /\ signalled = {} /\ joined = {}

-----------------------------------------------------------------------------
(* foothread_create                                                        *)

CallCreate(t) ==
    /\ ip[t] <= Len(Script[t]) /\ Script[t][ip[t]] \in Threads
    /\ Goto(t, "idle", "c_ops")
    /\ UNCHANGED <<pop, op, init, msem, table, jsem, ip, mychild, index, signalled, joined>>

\* Stores the sembufs; the first call of the process sets the library up.
CreateOps(t) ==
    /\ Goto(t, "c_ops", "c_enter")
    /\ pop' = -1
    /\ init' = TRUE
    /\ msem' = IF init THEN msem ELSE 1
    /\ table' = IF init THEN table ELSE [s \in Slots |-> Free]
    /\ UNCHANGED <<op, jsem, ip, mychild, index, signalled, joined>>

\* The first free slot; a caller that finds slot 0 free takes it for itself
\* and goes on with slot 1 without looking at it.
FirstFree == CHOOSE s \in Slots \ Valid : \A r \in Slots \ Valid : s <= r

\* Writes the entry of the thread t creates into slot, and t's own entry
\* into slot 0 if that one is free; clone() starts the new thread.
Fill(t, child, slot) ==
    /\ table' = [s \in Slots |->
                    IF s = slot THEN Entry(child, t, child \in Joinable)
                    ELSE IF s = 0 /\ ~table[0].valid THEN Entry(t, t, TRUE) ELSE table[s]]
    /\ jsem' = [u \in Threads |->
                    IF u = child \/ (u = t /\ ~table[0].valid) THEN 0 ELSE jsem[u]]
    /\ pc' = [pc EXCEPT ![t] = "c_post", ![child] = "idle"]

\* Mutant: the search for a free slot is off by one.
Register_Previous(t) ==
    /\ Running /\ pc[t] = "c_table" /\ Slots \ Valid # {}
    /\ Fill(t, Script[t][ip[t]], IF FirstFree = 0 THEN 1 ELSE FirstFree - 1)
    /\ UNCHANGED <<pop, op, init, msem, ip, mychild, index, signalled, joined>>

\* The new thread runs at once, but it cannot get at the table before the
\* creator releases the mutex, and by then its entry is complete.
Register(t) ==
    /\ Running /\ pc[t] = "c_table" /\ Slots \ Valid # {}
    /\ Fill(t, Script[t][ip[t]], IF FirstFree = 0 THEN 1 ELSE FirstFree)
    /\ UNCHANGED <<pop, op, init, msem, ip, mychild, index, signalled, joined>>

\* "Maximum number of threads reached": signal(mutex_semaphore) and exit().
TableFull(t) ==
    /\ Slots \ Valid = {}
    /\ Goto(t, "c_table", "failed")
    /\ msem' = Applied(msem, 1)
    /\ UNCHANGED <<pop, op, init, table, jsem, ip, mychild, index, signalled, joined>>

\* Mutant: mutex_semaphore is not released.
CreatePost_Lost(t) ==
    /\ Goto(t, "c_post", "idle")
    /\ ip' = [ip EXCEPT ![t] = @ + 1]
    /\ UNCHANGED <<pop, op, init, msem, table, jsem, mychild, index, signalled, joined>>

CreatePost(t) ==
    /\ Goto(t, "c_post", "idle")
    /\ msem' = Applied(msem, 1)
    /\ ip' = [ip EXCEPT ![t] = @ + 1]
    /\ UNCHANGED <<pop, op, init, table, jsem, mychild, index, signalled, joined>>

-----------------------------------------------------------------------------
(* foothread_exit                                                          *)

CallExit(t) ==
    /\ ip[t] <= Len(Script[t]) /\ Script[t][ip[t]] = Exit
    /\ Goto(t, "idle", "x_ops")
    /\ UNCHANGED <<pop, op, init, msem, table, jsem, ip, mychild, index, signalled, joined>>

ExitOps(t) ==
    /\ Goto(t, "x_ops", "x_enter")
    /\ pop' = -1
    /\ UNCHANGED <<op, init, msem, table, jsem, ip, mychild, index, signalled, joined>>

\* Entries t waits for: its joinable children.
ChildSlots(t) ==
    {s \in Valid : /\ table[s].parent_tid = t
                   /\ table[s].joinable
                   /\ table[s].tid # t}

\* The thread's own entry, the first one with its tid.
Own(t) == CHOOSE s \in EntriesOf(t) : \A r \in EntriesOf(t) : s <= r

\* The thread whose entry is signalled, if t is joinable and its parent has
\* an entry.
Told(t) ==
    {u \in Threads \ {t} : /\ EntriesOf(t) # {} /\ EntriesOf(u) # {}
                           /\ table[Own(t)].joinable
                           /\ table[Own(t)].parent_tid = u}

Scan(t, told) ==
    /\ Goto(t, "x_scan", "x_post")
    /\ index' = [index EXCEPT ![t] = IF EntriesOf(t) = {} THEN -1 ELSE Own(t)]
    /\ jsem' = [u \in Threads |-> IF u \in told THEN Applied(jsem[u], 1) ELSE jsem[u]]
    /\ mychild' = [mychild EXCEPT ![t] = ChildSlots(t)]
    /\ signalled' = signalled \cup ({t} \cap Joinable)
    /\ UNCHANGED <<pop, op, init, msem, table, ip, joined>>

\* Mutant: every joinable thread signals, the leader itself as well.
ExitScan_Leader(t) == Scan(t, IF EntriesOf(t) = {} THEN {} ELSE {table[Own(t)].parent_tid})

\* The thread looks itself up, signals its parent and collects its joinable
\* children.
ExitScan(t) == Scan(t, Told(t))

ExitPost(t) ==
    /\ \/ Goto(t, "x_post", "x_setpop") /\ mychild[t] # {}
       \/ Goto(t, "x_post", "x_restore") /\ mychild[t] = {}
    /\ msem' = Applied(msem, 1)
    /\ UNCHANGED <<pop, op, init, table, jsem, ip, mychild, index, signalled, joined>>

\* pop.sem_op = -count, with the mutex no longer held.
SetJoinCount(t) ==
    /\ Goto(t, "x_setpop", "x_jenter")
    /\ pop' = -Cardinality(mychild[t])
    /\ UNCHANGED <<op, init, msem, table, jsem, ip, mychild, index, signalled, joined>>

\* wait(semaphore): granted when op[t] can be taken; a thread without an
\* entry passes the semaphore id -1, which semop refuses at once.
Join(t) ==
    LET val == IF index[t] = -1 THEN Removed ELSE jsem[t]
    IN  /\ Goto(t, "x_jwait", "x_restore")
        /\ Ready(val, op[t])
        /\ jsem' = [jsem EXCEPT ![t] = IF val = Removed THEN @ ELSE Applied(val, op[t])]
        /\ joined' = joined \cup {table[s].tid : s \in mychild[t]}
        /\ UNCHANGED <<pop, op, init, msem, table, ip, mychild, index, signalled>>

RestorePop(t) ==
    /\ Goto(t, "x_restore", "x_enter2")
    /\ pop' = -1
    /\ UNCHANGED <<op, init, msem, table, jsem, ip, mychild, index, signalled, joined>>

\* The entries of the children are given back, if the thread has its own.
FreeChildren(t) ==
    /\ Goto(t, "x_free", "x_post2")
    /\ table' = [s \in Slots |->
                    IF s \in mychild[t] /\ index[t] # -1 THEN Free ELSE table[s]]
    /\ UNCHANGED <<pop, op, init, msem, jsem, ip, mychild, index, signalled, joined>>

ExitPost2(t) ==
    /\ Goto(t, "x_post2", "idle")
    /\ msem' = Applied(msem, 1)
    /\ ip' = [ip EXCEPT ![t] = @ + 1]
    /\ UNCHANGED <<pop, op, init, table, jsem, mychild, index, signalled, joined>>

-----------------------------------------------------------------------------
(* wait(s): the kernel copies the shared sembuf pop when semop is entered  *)

EnterWait(t) ==
    /\ \/ Goto(t, "c_enter", "c_wait")
       \/ Goto(t, "x_enter", "x_wait")
       \/ Goto(t, "x_jenter", "x_jwait")
       \/ Goto(t, "x_enter2", "x_wait2")
    /\ op' = [op EXCEPT ![t] = pop]
    /\ UNCHANGED <<pop, init, msem, table, jsem, ip, mychild, index, signalled, joined>>

LockTable(t) ==
    /\ Ready(msem, op[t])
    /\ \/ Goto(t, "c_wait", "c_table")
       \/ Goto(t, "x_wait", "x_scan")
       \/ Goto(t, "x_wait2", "x_free")
    /\ msem' = Applied(msem, op[t])
    /\ UNCHANGED <<pop, op, init, table, jsem, ip, mychild, index, signalled, joined>>

-----------------------------------------------------------------------------

Step(t) ==
    \/ CallCreate(t) \/ CreateOps(t) \/ Register(t) \/ TableFull(t) \/ CreatePost(t)
    \/ CallExit(t) \/ ExitOps(t) \/ ExitScan(t) \/ ExitPost(t) \/ SetJoinCount(t)
    \/ Join(t) \/ RestorePop(t) \/ FreeChildren(t) \/ ExitPost2(t)
    \/ EnterWait(t) \/ LockTable(t)

Next == \E t \in Threads : Step(t)

Spec == Init /\ [][Next]_vars

\* Runnable threads run, and the kernel serves the waiters of a semaphore in
\* the order of their arrival.
FairSpec ==
    /\ Spec
    /\ \A t \in Threads :
          WF_vars(Step(t)) /\ SF_vars(LockTable(t)) /\ SF_vars(Join(t))

-----------------------------------------------------------------------------
(* Properties                                                              *)

Created == {t \in Threads : pc[t] # "off"} \ {Leader}

Parent(c) == CHOOSE t \in Threads : \E i \in 1 .. Len(Script[t]) : Script[t][i] = c

TypeOK ==
    /\ pop \in -MaxThreads .. 0
    /\ op \in [Threads -> -MaxThreads .. 0]
    /\ init \in BOOLEAN /\ msem \in {0, 1}
    /\ \A s \in Slots : table[s] # Free =>
          /\ {table[s].tid, table[s].parent_tid} \subseteq Threads
          /\ table[s].joinable \in BOOLEAN
    /\ \A t \in Threads : jsem[t] \in 0 .. MaxThreads
    /\ pc \in [Threads -> Places]
    /\ \A t \in Threads : ip[t] \in 1 .. Len(Script[t]) + 1
    /\ mychild \in [Threads -> SUBSET Slots]
    /\ index \in [Threads -> Slots \cup {-1}]
    /\ signalled \subseteq Created /\ joined \subseteq Created

\* Threads that work on the table exclude each other.
TableExclusive ==
    \A t, u \in Threads :
        {pc[t], pc[u]} \subseteq {"c_table", "c_post", "x_scan", "x_post", "x_free", "x_post2"}
        => t = u

\* Each created thread has exactly one entry, with the right parent and join
\* type, until its parent has joined it.
EntriesKept ==
    \A c \in Created \ joined :
        \E s \in Valid : /\ EntriesOf(c) = {s}
                         /\ table[s].parent_tid = Parent(c)
                         /\ table[s].joinable = (c \in Joinable)

\* The entry of a joined thread is in use only until its parent has been
\* through the table once more.
JoinedGivenBack ==
    \A s \in Valid : table[s].tid \in joined =>
        LET p == table[s].parent_tid
        IN  s \in mychild[p] /\ pc[p] \in {"x_restore", "x_enter2", "x_wait2", "x_free"}

\* The table is right: the threads that work on it exclude each other, although
\* the sembuf their P operations read is shared and unprotected; nobody's entry
\* is lost or overwritten while it is needed, however slots are given back and
\* taken again, and entries do not leak through joins.
TableSound == TypeOK /\ TableExclusive /\ EntriesKept /\ JoinedGivenBack

\* foothread.c:190 says that an exiting joinable thread signals its parent:
\* a parent stops waiting only for children that have called foothread_exit,
\* and its semaphore holds one token for each child that has done so and has
\* not been joined yet.
JoinsCountKids ==
    /\ joined \subseteq signalled
    /\ \A t \in Threads :
          jsem[t] = Cardinality({c \in signalled \ joined : Parent(c) = t})

\* Every thread gets through its calls and, in the end, only the leader and
\* the detached threads still have an entry, unless a creation finds the
\* table full and ends the process.
AllFinish ==
    \/ <>[](/\ \A t \in Threads : Finished(t)
           /\ \A s \in Valid : s = 0 \/ table[s].tid \notin Joinable)
    \/ <>[]~Running

=============================================================================
