------------------------------ MODULE TopoSort ------------------------------
(***************************************************************************)
(* The topological sort by n worker processes and a boss                   *)
(* (Assignment_05/LA5/boss.c and worker.c).  The boss sets up shared       *)
(* memory and semaphores, the workers attach to them, each waits for one   *)
(* token per incoming edge, writes itself into T under sem_mtx, posts one  *)
(* token per outgoing edge and notifies the boss.                          *)
(*                                                                         *)
(* The boss announces "Setup done" (boss.c:64) before it sets anything up, *)
(* so workers started at that message race with the setup.  A worker that  *)
(* finds no shared memory dereferences (void * ) -1 and crashes; one that  *)
(* finds no semaphore goes on without waiting, since the result of semop   *)
(* is ignored.                                                             *)
(*                                                                         *)
(* The n semaphores sem_sync are created, initialised and looked up in one *)
(* step, and the matrix A is filled in one step.                           *)
(***************************************************************************)
EXTENDS SysVSem, Sequences, TopoCheck

CONSTANTS
    Graphs,     \* the graphs that graph.txt may contain: sets of edges
    EarlyStart  \* the workers may start before the boss has set up

ASSUME GraphsAssumption ==
    /\ Graphs \subseteq SUBSET (Nodes \X Nodes)
    /\ EarlyStart \in BOOLEAN

Resources == <<"A", "T", "idx", "mtx", "ntfy", "sync">>

VARIABLES
    graph,      \* the contents of graph.txt
    made,       \* the IPC objects that exist
    bpc,        \* the place of the boss
    bk,         \* the resource it sets up, or the notifications it has got
    verdict,    \* the result of its check
    A,          \* shared memory: the edges
    T, idx,     \* shared memory: the listing and its length
    mtx, ntfy,  \* semaphores
    sync,       \* node -> semaphore
    wpc,        \* worker -> its place
    wk,         \* worker -> its position in Resources or in the row of A
    got,        \* worker -> the IPC objects it has found
    reg         \* worker -> the value of *idx it has loaded

shared == <<A, T, idx, mtx, ntfy, sync>>
boss == <<bpc, bk, verdict, made>>
workers == <<wpc, wk, got, reg>>
vars == <<graph, shared, boss, workers>>

Init ==
    /\ graph \in Graphs
    /\ made = {} /\ bpc = "create" /\ bk = 1 /\ verdict = "none"
    /\ A = {} /\ T = [k \in Nodes |-> 0] /\ idx = 0
    /\ mtx = 0 /\ ntfy = 0 /\ sync = [w \in Nodes |-> 0]
    /\ wpc = [w \in Nodes |-> "attach"]
    /\ wk = [w \in Nodes |-> 1]
    /\ got = [w \in Nodes |-> {}]
    /\ reg = [w \in Nodes |-> 0]

-----------------------------------------------------------------------------
(* The boss                                                                *)

\* shmget and semget: zeroed memory, semaphores of value 0.
Create ==
    /\ bpc = "create" /\ bpc' = "initialise"
    /\ made' = made \cup {Resources[bk]}
    /\ UNCHANGED <<graph, shared, bk, verdict, workers>>

\* Mutant: sem_sync starts at 1.
Initialise_SyncOne ==
    /\ bpc = "initialise"
    /\ bpc' = IF bk = Len(Resources) THEN "collect" ELSE "create"
    /\ bk' = IF bk = Len(Resources) THEN 0 ELSE bk + 1
    /\ A' = IF Resources[bk] = "A" THEN graph ELSE A
    /\ idx' = IF Resources[bk] = "idx" THEN 0 ELSE idx
    /\ mtx' = IF Resources[bk] = "mtx" THEN 1 ELSE mtx
    /\ ntfy' = IF Resources[bk] = "ntfy" THEN 0 ELSE ntfy
    /\ sync' = IF Resources[bk] = "sync" THEN [w \in Nodes |-> 1] ELSE sync
    /\ UNCHANGED <<graph, T, verdict, made, workers>>

\* The graph is read into A, idx is set to 0, SETVAL on the semaphores.
Initialise ==
    /\ bpc = "initialise"
    /\ bpc' = IF bk = Len(Resources) THEN "collect" ELSE "create"
    /\ bk' = IF bk = Len(Resources) THEN 0 ELSE bk + 1
    /\ A' = IF Resources[bk] = "A" THEN graph ELSE A
    /\ idx' = IF Resources[bk] = "idx" THEN 0 ELSE idx
    /\ mtx' = IF Resources[bk] = "mtx" THEN 1 ELSE mtx
    /\ ntfy' = IF Resources[bk] = "ntfy" THEN 0 ELSE ntfy
    /\ sync' = IF Resources[bk] = "sync" THEN [w \in Nodes |-> 0] ELSE sync
    /\ UNCHANGED <<graph, T, verdict, made, workers>>

\* P(sem_ntfy), once for each worker.
Collect ==
    /\ bpc = "collect" /\ bk < N
    /\ Ready(ntfy, -1)
    /\ ntfy' = Applied(ntfy, -1)
    /\ bk' = bk + 1
    /\ UNCHANGED <<graph, A, T, idx, mtx, sync, bpc, verdict, made, workers>>

\* Mutant: the boss checks after the first notification.
Check_Early ==
    /\ bpc = "collect" /\ bk >= 1
    /\ verdict' = IF IsTopologicalSortValid(A, T) THEN "valid" ELSE "invalid"
    /\ bpc' = "done" /\ made' = {}
    /\ mtx' = Removed /\ ntfy' = Removed /\ sync' = [w \in Nodes |-> Removed]
    /\ UNCHANGED <<graph, A, T, idx, bk, workers>>

\* Checks the listing and removes everything; attached memory stays usable.
Check ==
    /\ bpc = "collect" /\ bk = N
    /\ verdict' = IF IsTopologicalSortValid(A, T) THEN "valid" ELSE "invalid"
    /\ bpc' = "done" /\ made' = {}
    /\ mtx' = Removed /\ ntfy' = Removed /\ sync' = [w \in Nodes |-> Removed]
    /\ UNCHANGED <<graph, A, T, idx, bk, workers>>

-----------------------------------------------------------------------------
(* A worker                                                                *)

Goto(w, from, to) ==
    /\ wpc[w] = from
    /\ wpc' = [wpc EXCEPT ![w] = to]

\* P or V of a semaphore the worker may have failed to find.
SemOf(w, r, val) == IF r \in got[w] THEN val ELSE Removed

Attach(w) ==
    /\ EarlyStart \/ bpc \in {"collect", "done"}
    /\ Goto(w, "attach", IF wk[w] = Len(Resources) THEN "in" ELSE "attach")
    /\ got' = [got EXCEPT ![w] = @ \cup ({Resources[wk[w]]} \cap made)]
    /\ wk' = [wk EXCEPT ![w] = IF wk[w] = Len(Resources) THEN 0 ELSE @ + 1]
    /\ UNCHANGED <<graph, shared, boss, reg>>

\* The next iteration of a loop over the nodes.
Iterate(w, from, to) ==
    /\ Goto(w, from, IF wk[w] = N - 1 THEN to ELSE from)
    /\ wk' = [wk EXCEPT ![w] = IF wk[w] = N - 1 THEN 0 ELSE @ + 1]

\* Mutant: the worker waits for one incoming edge only.
ScanIn_First(w) ==
    /\ Iterate(w, "in", "lock")
    /\ "A" \in got[w]
    /\ LET i == wk[w]
           edge == <<i, w>> \in A /\ i # w /\ \A j \in 0 .. i - 1 : <<j, w>> \notin A
       IN  /\ edge => Ready(SemOf(w, "sync", sync[w]), -1)
           /\ sync' = IF edge /\ "sync" \in got[w]
                      THEN [sync EXCEPT ![w] = Applied(@, -1)] ELSE sync
    /\ UNCHANGED <<graph, A, T, idx, mtx, ntfy, boss, got, reg>>

\* P(sem_sync[id]) for an incoming edge from node wk[w].
ScanIn(w) ==
    /\ Iterate(w, "in", "lock")
    /\ "A" \in got[w]
    /\ LET edge == <<wk[w], w>> \in A /\ wk[w] # w
       IN  /\ edge => Ready(SemOf(w, "sync", sync[w]), -1)
           /\ sync' = IF edge /\ "sync" \in got[w]
                      THEN [sync EXCEPT ![w] = Applied(@, -1)] ELSE sync
    /\ UNCHANGED <<graph, A, T, idx, mtx, ntfy, boss, got, reg>>

LockList(w) ==
    /\ Goto(w, "lock", "load")
    /\ Ready(SemOf(w, "mtx", mtx), -1)
    /\ mtx' = IF "mtx" \in got[w] THEN Applied(mtx, -1) ELSE mtx
    /\ UNCHANGED <<graph, A, T, idx, ntfy, sync, boss, wk, got, reg>>

LoadIdx(w) ==
    /\ Goto(w, "load", "store")
    /\ "idx" \in got[w]
    /\ reg' = [reg EXCEPT ![w] = idx]
    /\ UNCHANGED <<graph, shared, boss, wk, got>>

StoreT(w) ==
    /\ Goto(w, "store", "incr")
    /\ "T" \in got[w]
    /\ T' = [T EXCEPT ![reg[w]] = w]
    /\ UNCHANGED <<graph, A, idx, mtx, ntfy, sync, boss, wk, got, reg>>

IncrIdx(w) ==
    /\ Goto(w, "incr", "unlock")
    /\ idx' = idx + 1
    /\ UNCHANGED <<graph, A, T, mtx, ntfy, sync, boss, wk, got, reg>>

UnlockList(w) ==
    /\ Goto(w, "unlock", "out")
    /\ mtx' = IF "mtx" \in got[w] THEN Applied(mtx, 1) ELSE mtx
    /\ UNCHANGED <<graph, A, T, idx, ntfy, sync, boss, wk, got, reg>>

\* V(sem_sync[wk[w]]) for an outgoing edge.
ScanOut(w) ==
    /\ Iterate(w, "out", "notify")
    /\ sync' = IF <<w, wk[w]>> \in A /\ wk[w] # w /\ "sync" \in got[w]
               THEN [sync EXCEPT ![wk[w]] = Applied(@, 1)] ELSE sync
    /\ UNCHANGED <<graph, A, T, idx, mtx, ntfy, boss, got, reg>>

Notify(w) ==
    /\ Goto(w, "notify", "done")
    /\ ntfy' = IF "ntfy" \in got[w] THEN Applied(ntfy, 1) ELSE ntfy
    /\ UNCHANGED <<graph, A, T, idx, mtx, sync, boss, wk, got, reg>>

\* A segment that was not there when the worker looked for it is used.
Crash(w) ==
    /\ \/ Goto(w, "in", "crashed") /\ "A" \notin got[w]
       \/ Goto(w, "load", "crashed") /\ "idx" \notin got[w]
       \/ Goto(w, "store", "crashed") /\ "T" \notin got[w]
    /\ UNCHANGED <<graph, shared, boss, wk, got, reg>>

-----------------------------------------------------------------------------

Boss == Create \/ Initialise \/ Collect \/ Check

Worker(w) ==
    \/ Attach(w) \/ ScanIn(w) \/ LockList(w) \/ LoadIdx(w) \/ StoreT(w)
    \/ IncrIdx(w) \/ UnlockList(w) \/ ScanOut(w) \/ Notify(w) \/ Crash(w)

Next == Boss \/ \E w \in Nodes : Worker(w)

Spec == Init /\ [][Next]_vars

\* The processes run; a waiter of sem_mtx is served in its turn.
FairSpec ==
    /\ Spec
    /\ WF_vars(Boss)
    /\ \A w \in Nodes : WF_vars(Worker(w)) /\ SF_vars(LockList(w))

-----------------------------------------------------------------------------
(* Properties                                                              *)

WorkerPlaces == {"attach", "in", "lock", "load", "store", "incr", "unlock",
                 "out", "notify", "done", "crashed"}

\* The mutex is binary, idx stays within T, no semaphore gets more tokens
\* than there are nodes.
TypeOK ==
    /\ graph \in Graphs /\ A \in {{}, graph}
    /\ bpc \in {"create", "initialise", "collect", "done"}
    /\ bk \in 0 .. N + Len(Resources)
    /\ verdict \in {"none", "valid", "invalid"}
    /\ T \in [Nodes -> Nodes] /\ idx \in 0 .. N
    /\ mtx \in {Removed, 0, 1}
    /\ ntfy \in Removed .. N /\ sync \in [Nodes -> Removed .. N]
    /\ wpc \in [Nodes -> WorkerPlaces]
    /\ wk \in [Nodes -> 0 .. N + Len(Resources)]
    /\ reg \in [Nodes -> 0 .. N]

\* Only one worker at a time is between P and V of sem_mtx.
ListExclusive ==
    \A v, w \in Nodes :
        {wpc[v], wpc[w]} \subseteq {"load", "store", "incr", "unlock"} => v = w

\* A worker writes itself into T only after all its predecessors have: the
\* tokens it has taken from its semaphore came from each of them.
ListedInOrder ==
    \A w \in Nodes : wpc[w] \notin {"attach", "in"} =>
        \A p \in Nodes : <<p, w>> \in graph /\ p # w =>
            \E k \in 0 .. idx - 1 : T[k] = p

\* The team implements the abstract listing, and finishes it.
Listing == INSTANCE TopoListing WITH listing <- [k \in 1 .. idx |-> T[k - 1]]
ImplementsListing == Listing!Spec

\* When the boss has heard of every worker, the listing is a topological
\* sort and the boss says so; the tokens have all been used.
BossVerdict ==
    /\ bpc = "done" => verdict = "valid" /\ IsTopologicalSort(graph, T)
    /\ bpc = "collect" /\ bk = N => ntfy = 0 /\ \A w \in Nodes : sync[w] = 0

\* A listing without repetitions, which is what correctly started workers
\* write, is accepted by isTopologicalSortValid exactly if it is a topological
\* sort; no topological sort is ever rejected.
CheckExact ==
    bpc = "done" => \A L \in [Nodes -> Nodes] :
        /\ (\A k, l \in Nodes : L[k] = L[l] => k = l) =>
              (IsTopologicalSortValid(A, L) <=> IsTopologicalSort(A, L))
        /\ IsTopologicalSort(A, L) => IsTopologicalSortValid(A, L)

\* The boss never ends before every worker has notified it, even if workers
\* started too early and crashed or ran without semaphores.
BossWaitsForAll ==
    bpc = "done" => \A w \in Nodes : wpc[w] = "done"

\* boss.c:36 calls its test a check that the order is a valid topological
\* sort: what the boss reports as valid is one.
ValidMeansValid == verdict = "valid" => IsTopologicalSort(graph, T)

=============================================================================
