--------------------------- MODULE TopoSortProofs ---------------------------
(***************************************************************************)
(* Workers that start after the boss has set up list themselves one at a   *)
(* time and each after its predecessors, for every number of nodes and     *)
(* every set of graphs (cyclic ones, which deadlock, included).            *)
(*                                                                         *)
(* The heart of the invariant is Tokens: the value of a worker's semaphore *)
(* is the number of predecessors that have posted it less the number of    *)
(* predecessors it has waited for.                                         *)
(***************************************************************************)
EXTENDS TopoSort, FiniteSetTheorems, SequenceTheorems, TLAPS

AllResources == {"A", "T", "idx", "mtx", "ntfy", "sync"}

Types ==
    /\ graph \in Graphs
    /\ bpc \in {"create", "initialise", "collect", "done"}
    /\ bk \in Nat
    /\ made \subseteq AllResources
    /\ T \in [Nodes -> Nodes]
    /\ idx \in Nat /\ mtx \in Int /\ ntfy \in Int
    /\ sync \in [Nodes -> Int]
    /\ wpc \in [Nodes -> WorkerPlaces]
    /\ wk \in [Nodes -> Nat]
    /\ got \in [Nodes -> SUBSET AllResources]
    /\ reg \in [Nodes -> Nat]

\* What the boss has set up before the workers start.
SettingUp ==
    bpc \in {"create", "initialise"} =>
        /\ bk \in 1 .. 6
        /\ made = {Resources[i] : i \in 1 .. IF bpc = "create" THEN bk - 1 ELSE bk}
        /\ A = IF bk > 1 THEN graph ELSE {}
        /\ mtx = IF bk > 4 THEN 1 ELSE 0
        /\ idx = 0 /\ ntfy = 0 /\ sync = [w \in Nodes |-> 0]
        /\ \A w \in Nodes : wpc[w] = "attach" /\ wk[w] = 1 /\ got[w] = {}

Critical == {"load", "store", "incr", "unlock"}

\* While the boss collects notifications everything is in place; a worker
\* that has attached has found it all.
Working ==
    /\ bpc = "collect" => made = AllResources /\ A = graph /\ mtx \in {0, 1}
    /\ bpc = "done" => \A w \in Nodes : wpc[w] = "done"
    /\ \A w \in Nodes :
          /\ wpc[w] = "attach" =>
                wk[w] \in 1 .. 6 /\ got[w] = {Resources[i] : i \in 1 .. wk[w] - 1}
          /\ wpc[w] # "attach" => got[w] = AllResources
          /\ wpc[w] \in {"in", "out"} => wk[w] \in Nodes
          /\ wpc[w] \in {"lock"} \cup Critical => wk[w] = 0
          /\ wpc[w] # "crashed"

\* sem_mtx is 0 while a worker is in its critical section.
Guarded ==
    /\ \A w \in Nodes : wpc[w] \in Critical => mtx = 0
    /\ ListExclusive

\* The workers that have listed themselves.
Wrote == {w \in Nodes : wpc[w] \in {"unlock", "out", "notify", "done"}}

\* T[0] .. T[idx-1] are these workers, and the one in the critical section
\* writes to T[idx].
Listed ==
    /\ idx = Cardinality(Wrote)
    /\ \A w \in Wrote : \E k \in 0 .. idx - 1 : T[k] = w
    /\ \A w \in Nodes : wpc[w] \in {"store", "incr"} => reg[w] = idx
    /\ \A w \in Nodes : wpc[w] = "incr" => T[idx] = w

\* The workers that have notified the boss.
Notifiers == {w \in Nodes : wpc[w] = "done"}

Notified ==
    bpc = "collect" => ntfy \in Nat /\ ntfy + bk = Cardinality(Notifiers) /\ bk <= N

Preds(w) == {p \in Nodes : <<p, w>> \in graph /\ p # w}

\* The predecessors that have posted a token for w.
Posted(w) ==
    {p \in Preds(w) : wpc[p] \in {"notify", "done"} \/ (wpc[p] = "out" /\ wk[p] > w)}

\* The predecessors for which w has taken a token.
Taken(w) ==
    {p \in Preds(w) : wpc[w] # "attach" /\ (wpc[w] = "in" => p < wk[w])}

Tokens ==
    bpc = "collect" => \A w \in Nodes :
        /\ sync[w] >= 0
        /\ sync[w] = Cardinality(Posted(w)) - Cardinality(Taken(w))

\* What TypeOK says beyond Types.
Bounded ==
    /\ A \in {{}, graph}
    /\ verdict \in {"none", "valid", "invalid"}
    /\ bk \in 0 .. N + 6
    /\ wk \in [Nodes -> 0 .. N + 6]
    /\ reg \in [Nodes -> 0 .. N]
    /\ bpc = "done" => mtx = Removed /\ ntfy = Removed
                       /\ \A w \in Nodes : sync[w] = Removed

IInv ==
    /\ Bounded
    /\ Types /\ SettingUp /\ Working /\ Guarded /\ Listed /\ Notified /\ Tokens

-----------------------------------------------------------------------------

LEMMA ResourceFacts ==
  /\ Len(Resources) = 6
  /\ \A i \in 1 .. 6 : Resources[i] \in AllResources
  /\ {Resources[i] : i \in 1 .. 6} = AllResources
  /\ Resources[1] = "A" /\ Resources[4] = "mtx" /\ Resources[6] = "sync"
  /\ \A i \in 1 .. 6 : /\ Resources[i] = "A" <=> i = 1
                       /\ Resources[i] = "mtx" <=> i = 4
<1>1. Len(Resources) = 6
  BY DEF Resources
<1>2. /\ Resources[1] = "A" /\ Resources[2] = "T" /\ Resources[3] = "idx"
      /\ Resources[4] = "mtx" /\ Resources[5] = "ntfy" /\ Resources[6] = "sync"
  BY DEF Resources
<1>3. \A i \in 1 .. 6 : i = 1 \/ i = 2 \/ i = 3 \/ i = 4 \/ i = 5 \/ i = 6
  OBVIOUS
<1>4. \A i \in 1 .. 6 : Resources[i] \in AllResources
  BY <1>2, <1>3 DEF AllResources
<1>5. {Resources[i] : i \in 1 .. 6} = AllResources
  BY <1>2, <1>3 DEF AllResources
<1> QED
  BY <1>1, <1>2, <1>3, <1>4, <1>5

LEMMA NodesFinite ==
  /\ IsFiniteSet(Nodes) /\ Cardinality(Nodes) = N
  /\ \A S \in SUBSET Nodes : IsFiniteSet(S) /\ Cardinality(S) \in 0 .. N
<1>1. IsFiniteSet(Nodes) /\ Cardinality(Nodes) = N
  BY FS_Interval, NAssumption DEF Nodes
<1>2. ASSUME NEW S \in SUBSET Nodes PROVE IsFiniteSet(S) /\ Cardinality(S) \in 0 .. N
  BY <1>1, FS_Subset, FS_CardinalityType, NAssumption
<1> QED
  BY <1>1, <1>2

LEMMA NextNode == \A i \in Nodes : i # N - 1 => i + 1 \in Nodes
BY NAssumption DEF Nodes

LEMMA NodeOrder ==
  /\ \A p, k \in Nodes : p < k + 1 <=> p < k \/ p = k
  /\ \A p, k \in Nodes : k = N - 1 => p < k \/ p = k
  /\ \A p, k \in Nodes : k = N - 1 => k > p \/ p = k
  /\ \A p, k \in Nodes : k + 1 > p <=> k > p \/ p = k
BY NAssumption DEF Nodes

LEMMA CountsFinite ==
  ASSUME NEW w \in Nodes
  PROVE  /\ IsFiniteSet(Posted(w)) /\ Cardinality(Posted(w)) \in Nat
         /\ IsFiniteSet(Taken(w)) /\ Cardinality(Taken(w)) \in Nat
<1>1. Posted(w) \in SUBSET Nodes /\ Taken(w) \in SUBSET Nodes
  BY DEF Posted, Taken, Preds
<1> QED
  BY <1>1, NodesFinite, FS_CardinalityType

LEMMA InitIInv == Init => IInv
<1> SUFFICES ASSUME Init PROVE IInv
  OBVIOUS
<1> USE DEF Init
<1>1. Types
  BY NAssumption, GraphsAssumption DEF Types, WorkerPlaces, Nodes, AllResources
<1>2. SettingUp
  <2>1. {Resources[i] : i \in 1 .. 1 - 1} = {}
    OBVIOUS
  <2> QED
    BY <2>1 DEF SettingUp
<1>3. Working
  BY DEF Working, Critical
<1>4. Guarded
  BY DEF Guarded, ListExclusive, Critical
<1>5. Listed
  <2>1. Wrote = {}
    BY DEF Wrote
  <2> QED
    BY <2>1, FS_EmptySet DEF Listed
<1>6. Notified /\ Tokens
  BY DEF Notified, Tokens
<1>7. Bounded
  BY NAssumption DEF Bounded, Nodes
<1> QED
  BY <1>1, <1>2, <1>3, <1>4, <1>5, <1>6, <1>7 DEF IInv

LEMMA TypesStep ==
  ASSUME ~EarlyStart, IInv, [Next]_vars
  PROVE  Types'
<1> USE DEF Types, WorkerPlaces, Goto
<1>0. Types /\ Working
  BY DEF IInv
<1>1. CASE UNCHANGED vars
  BY <1>0, <1>1 DEF vars, shared, boss, workers
<1>2. CASE Create
  <2>1. Resources[bk] \in AllResources
    BY <1>2, ResourceFacts DEF Create, IInv, SettingUp
  <2> QED
    BY <1>0, <1>2, <2>1 DEF Create, shared, workers
<1>3. CASE Initialise
  BY <1>0, <1>3 DEF Initialise, workers
<1>4. CASE Collect
  BY <1>0, <1>4 DEF Collect, workers, Applied, Removed
<1>5. CASE Check
  BY <1>0, <1>5 DEF Check, workers, Removed
<1>6. ASSUME NEW w \in Nodes, Worker(w) PROVE Types'
  <2>1. CASE Attach(w)
    BY <1>0, <2>1 DEF Attach, shared, boss
  <2>2. CASE ScanIn(w)
    BY <1>0, <2>2 DEF ScanIn, Iterate, boss, Applied, Removed
  <2>3. CASE LockList(w)
    BY <1>0, <2>3 DEF LockList, boss, Applied, Removed
  <2>4. CASE LoadIdx(w)
    BY <1>0, <2>4 DEF LoadIdx, boss, shared
  <2>5. CASE StoreT(w)
    BY <1>0, <2>5 DEF StoreT, boss
  <2>6. CASE IncrIdx(w)
    BY <1>0, <2>6 DEF IncrIdx, boss
  <2>7. CASE UnlockList(w)
    BY <1>0, <2>7 DEF UnlockList, boss, Applied, Removed
  <2>8. CASE ScanOut(w)
    <3>1. \A x \in Int : Applied(x, 1) \in Int
      BY DEF Applied, Removed
    <3>2. sync' \in [Nodes -> Int]
      BY <1>0, <2>8, <3>1 DEF ScanOut
    <3>3. wk' \in [Nodes -> Nat] /\ wpc' \in [Nodes -> WorkerPlaces]
      BY <1>0, <2>8, NAssumption DEF ScanOut, Iterate
    <3> QED
      BY <1>0, <2>8, <3>2, <3>3 DEF ScanOut, boss
  <2>9. CASE Notify(w)
    BY <1>0, <2>9 DEF Notify, boss, Applied, Removed
  <2>10. CASE Crash(w)
    BY <1>0, <2>10 DEF Crash, boss, shared
  <2> QED
    BY <1>6, <2>1, <2>2, <2>3, <2>4, <2>5, <2>6, <2>7, <2>8, <2>9, <2>10 DEF Worker
<1> QED
  BY <1>1, <1>2, <1>3, <1>4, <1>5, <1>6 DEF Next, Boss

\* Workers move only once the boss collects notifications, and never crash.
LEMMA WorkerMoves ==
  ASSUME ~EarlyStart, IInv, NEW w \in Nodes, Worker(w)
  PROVE  /\ bpc = "collect" /\ bpc' = "collect"
         /\ made = AllResources /\ A = graph
         /\ UNCHANGED <<graph, A, made, bk>>
         /\ ~Crash(w)
         /\ wpc[w] # "attach" => got[w] = AllResources
<1> USE DEF IInv, Types, Working, SettingUp, Goto
<1>1. bpc = "collect"
  <2>1. wpc[w] # "done"
    BY DEF Worker, Attach, ScanIn, Iterate, LockList, LoadIdx, StoreT, IncrIdx,
           UnlockList, ScanOut, Notify, Crash
  <2>2. bpc \notin {"create", "initialise"}
    BY DEF Worker, Attach, ScanIn, Iterate, LockList, LoadIdx, StoreT, IncrIdx,
           UnlockList, ScanOut, Notify, Crash
  <2> QED
    BY <2>1, <2>2
<1>2. ~Crash(w)
  BY DEF Crash, AllResources
<1>3. UNCHANGED <<graph, A, made, bk, bpc>>
  BY DEF Worker, Attach, ScanIn, Iterate, LockList, LoadIdx, StoreT, IncrIdx,
         UnlockList, ScanOut, Notify, Crash, boss, shared
<1> QED
  BY <1>1, <1>2, <1>3

LEMMA SettingUpStep ==
  ASSUME ~EarlyStart, IInv, [Next]_vars
  PROVE  SettingUp'
<1> USE DEF IInv, Types, SettingUp
<1>1. CASE UNCHANGED vars
  BY <1>1 DEF vars, shared, boss, workers
<1>2. CASE Create
  <2>1. made' = {Resources[i] : i \in 1 .. bk}
    <3>1. 1 .. bk = (1 .. bk - 1) \cup {bk}
      BY <1>2 DEF Create
    <3>2. made' = {Resources[i] : i \in 1 .. bk - 1} \cup {Resources[bk]}
      BY <1>2 DEF Create
    <3> QED
      BY <3>1, <3>2
  <2> QED
    BY <1>2, <2>1 DEF Create, shared, workers
<1>3. CASE Initialise
  <2>1. CASE bk = 6
    BY <1>3, <2>1, ResourceFacts DEF Initialise
  <2>2. CASE bk # 6
    <3>1. bk \in 1 .. 5 /\ bk' = bk + 1 /\ bpc' = "create"
      BY <1>3, <2>2, ResourceFacts DEF Initialise
    <3>2. A' = graph' /\ idx' = 0 /\ ntfy' = 0 /\ sync' = [w \in Nodes |-> 0]
      BY <1>3, <3>1, ResourceFacts DEF Initialise
    <3>3. mtx' = IF bk' > 4 THEN 1 ELSE 0
      BY <1>3, <3>1, ResourceFacts DEF Initialise
    <3>4. made' = {Resources[i] : i \in 1 .. bk' - 1}
      BY <1>3, <3>1 DEF Initialise
    <3> QED
      BY <1>3, <3>1, <3>2, <3>3, <3>4 DEF Initialise, workers
  <2> QED
    BY <2>1, <2>2
<1>4. CASE Collect \/ Check
  BY <1>4 DEF Collect, Check
<1>5. ASSUME NEW w \in Nodes, Worker(w) PROVE SettingUp'
  BY <1>5, WorkerMoves
<1> QED
  BY <1>1, <1>2, <1>3, <1>4, <1>5 DEF Next, Boss

LEMMA WorkingStep ==
  ASSUME ~EarlyStart, IInv, [Next]_vars
  PROVE  Working'
<1> USE DEF IInv, Types, Working, Goto
<1>1. CASE UNCHANGED vars
  BY <1>1 DEF vars, shared, boss, workers
<1>2. CASE Create
  BY <1>2 DEF Create, shared, workers
<1>3. CASE Initialise
  <2>1. CASE bk = 6
    <3>1. made' = AllResources /\ A' = graph' /\ mtx' \in {0, 1}
      <4>1. made = {Resources[i] : i \in 1 .. 6} /\ A = graph /\ mtx = 1
        BY <1>3, <2>1 DEF Initialise, SettingUp
      <4>2. made' = made /\ A' = graph' /\ mtx' = 1
        BY <1>3, <2>1, <4>1, ResourceFacts DEF Initialise
      <4> QED
        BY <4>1, <4>2, ResourceFacts
    <3> QED
      BY <1>3, <2>1, <3>1, ResourceFacts DEF Initialise, workers
  <2>2. CASE bk # 6
    BY <1>3, <2>2, ResourceFacts DEF Initialise, workers
  <2> QED
    BY <2>1, <2>2
<1>4. CASE Collect
  BY <1>4 DEF Collect, workers
<1>5. CASE Check
  <2>1. Cardinality(Notifiers) = Cardinality(Nodes) /\ Notifiers \in SUBSET Nodes
    <3>1. Cardinality(Notifiers) \in 0 .. N /\ Cardinality(Notifiers) >= N
      BY <1>5, NodesFinite, NAssumption DEF Check, Notified, Notifiers
    <3> QED
      BY <3>1, NodesFinite, NAssumption DEF Notifiers
  <2>2. Notifiers = Nodes
    BY <2>1, NodesFinite, FS_Subset
  <2> QED
    BY <1>5, <2>2 DEF Check, workers, Notifiers
<1>6. ASSUME NEW w \in Nodes, Worker(w) PROVE Working'
  <2>0. /\ bpc = "collect" /\ bpc' = "collect" /\ made = AllResources /\ A = graph
        /\ UNCHANGED <<graph, A, made, bk>> /\ ~Crash(w)
        /\ wpc[w] # "attach" => got[w] = AllResources
    BY <1>6, WorkerMoves
  <2>1. CASE Attach(w)
    <3>1. Resources[wk[w]] \in AllResources /\ wk[w] \in 1 .. 6
      BY <2>1, ResourceFacts DEF Attach
    <3>2. got'[w] = got[w] \cup {Resources[wk[w]]}
      BY <2>0, <2>1, <3>1 DEF Attach
    <3>3. 1 .. wk[w] = (1 .. wk[w] - 1) \cup {wk[w]}
      BY <3>1
    <3>4. got'[w] = {Resources[i] : i \in 1 .. wk[w]}
      <4>1. got[w] = {Resources[i] : i \in 1 .. wk[w] - 1}
        BY <2>1 DEF Attach
      <4> QED
        BY ONLY <3>2, <3>3, <4>1
    <3>5. mtx' = mtx
      BY <2>1 DEF Attach, shared
    <3>6. CASE wk[w] = 6
      <4>1. wpc'[w] = "in" /\ wk'[w] = 0 /\ got'[w] = AllResources
        BY <2>1, <3>4, <3>6, ResourceFacts DEF Attach
      <4>2. 0 \in Nodes
        BY NAssumption DEF Nodes
      <4>3. \A v \in Nodes : v # w =>
               wpc'[v] = wpc[v] /\ wk'[v] = wk[v] /\ got'[v] = got[v]
        BY <2>1 DEF Attach
      <4> QED
        BY <2>0, <3>5, <4>1, <4>2, <4>3 DEF Critical
    <3>7. CASE wk[w] # 6
      <4>1. wpc'[w] = "attach" /\ wk'[w] = wk[w] + 1 /\ wk'[w] \in 1 .. 6
        BY <2>1, <3>1, <3>7, ResourceFacts DEF Attach
      <4>2. got'[w] = {Resources[i] : i \in 1 .. wk'[w] - 1}
        BY <3>1, <3>4, <4>1
      <4> QED
        BY <2>0, <2>1, <3>5, <4>1, <4>2 DEF Attach, Critical
    <3> QED
      BY <3>6, <3>7
  <2>2. CASE ScanIn(w)
    <3>1. wk[w] # N - 1 => wk[w] + 1 \in Nodes
      <4>1. wk[w] \in Nodes
        BY <2>2 DEF ScanIn, Iterate
      <4> QED
        BY <4>1, NextNode
    <3> QED
      BY <2>0, <2>2, <3>1 DEF ScanIn, Iterate, Critical
  <2>3. CASE LockList(w)
    BY <2>0, <2>3 DEF LockList, Ready, Applied, SemOf, Removed, AllResources, Critical
  <2>4. CASE LoadIdx(w) \/ StoreT(w) \/ IncrIdx(w)
    BY <2>0, <2>4 DEF LoadIdx, StoreT, IncrIdx, shared, Critical
  <2>5. CASE UnlockList(w)
    <3>1. mtx = 0
      BY <2>5 DEF UnlockList, Guarded, Critical
    <3>2. mtx' = 1
      BY <2>0, <2>5, <3>1 DEF UnlockList, Applied, Removed, AllResources
    <3>3. wpc'[w] = "out" /\ wk[w] = 0 /\ 0 \in Nodes
      BY <2>5, NAssumption DEF UnlockList, Critical, Nodes
    <3> QED
      BY <2>0, <2>5, <3>2, <3>3 DEF UnlockList, Critical
  <2>6. CASE ScanOut(w)
    <3>1. wk[w] # N - 1 => wk[w] + 1 \in Nodes
      <4>1. wk[w] \in Nodes
        BY <2>6 DEF ScanOut, Iterate
      <4> QED
        BY <4>1, NextNode
    <3>2. mtx' = mtx
      BY <2>6 DEF ScanOut
    <3>3. wpc'[w] = "out" => wk'[w] \in Nodes
      BY <2>6, <3>1 DEF ScanOut, Iterate
    <3>4. wpc'[w] \in {"out", "notify"}
      BY <2>6 DEF ScanOut, Iterate
    <3> QED
      BY <2>0, <2>6, <3>2, <3>3, <3>4 DEF ScanOut, Iterate, Critical
  <2>7. CASE Notify(w)
    BY <2>0, <2>7 DEF Notify, Critical
  <2> QED
    BY <1>6, <2>0, <2>1, <2>2, <2>3, <2>4, <2>5, <2>6, <2>7 DEF Worker
<1> QED
  BY <1>1, <1>2, <1>3, <1>4, <1>5, <1>6 DEF Next, Boss

LEMMA GuardedStep ==
  ASSUME ~EarlyStart, IInv, [Next]_vars
  PROVE  Guarded'
<1> USE DEF IInv, Types, Guarded, ListExclusive, Critical, Goto
<1>1. CASE UNCHANGED vars
  BY <1>1 DEF vars, shared, boss, workers
<1>2. CASE Create
  BY <1>2 DEF Create, shared, workers
<1>3. CASE Initialise
  BY <1>3 DEF Initialise, workers, SettingUp
<1>4. CASE Collect
  BY <1>4 DEF Collect, workers
<1>5. CASE Check
  <2>1. \A w \in Nodes : wpc'[w] = "done"
    BY <1>5, WorkingStep DEF Check, Working
  <2> QED
    BY <2>1
<1>6. ASSUME NEW w \in Nodes, Worker(w) PROVE Guarded'
  <2>0. /\ bpc = "collect" /\ ~Crash(w)
        /\ wpc[w] # "attach" => got[w] = AllResources
    BY <1>6, WorkerMoves
  <2>1. CASE Attach(w)
    BY <2>1 DEF Attach, shared
  <2>2. CASE ScanIn(w)
    BY <2>2 DEF ScanIn, Iterate
  <2>3. CASE LockList(w)
    <3>1. mtx = 1 /\ mtx' = 0
      BY <2>0, <2>3 DEF LockList, Ready, Applied, SemOf, Removed, AllResources, Working
    <3>2. \A v \in Nodes : wpc[v] \notin Critical
      BY <3>1
    <3> QED
      BY <2>3, <3>1, <3>2 DEF LockList
  <2>4. CASE LoadIdx(w) \/ StoreT(w) \/ IncrIdx(w)
    BY <2>4 DEF LoadIdx, StoreT, IncrIdx, shared
  <2>5. CASE UnlockList(w)
    <3>1. \A v \in Nodes : v # w => wpc[v] \notin Critical
      BY <2>5 DEF UnlockList
    <3>2. \A v \in Nodes : wpc'[v] \notin Critical
      BY <2>5, <3>1 DEF UnlockList
    <3> QED
      BY <3>2
  <2>6. CASE ScanOut(w)
    BY <2>6 DEF ScanOut, Iterate
  <2>7. CASE Notify(w)
    BY <2>7 DEF Notify
  <2> QED
    BY <1>6, <2>0, <2>1, <2>2, <2>3, <2>4, <2>5, <2>6, <2>7 DEF Worker
<1> QED
  BY <1>1, <1>2, <1>3, <1>4, <1>5, <1>6 DEF Next, Boss

LEMMA ListedStep ==
  ASSUME ~EarlyStart, IInv, [Next]_vars
  PROVE  Listed'
<1> USE DEF IInv, Types, Listed, Goto
<1>1. CASE UNCHANGED vars
  BY <1>1 DEF vars, shared, boss, workers, Wrote
<1>2. CASE Create
  BY <1>2 DEF Create, shared, workers, Wrote
<1>3. CASE Initialise
  <2>1. idx' = 0 /\ idx = 0
    BY <1>3 DEF Initialise, SettingUp
  <2> QED
    BY <1>3, <2>1 DEF Initialise, workers, Wrote
<1>4. CASE Collect \/ Check
  BY <1>4 DEF Collect, Check, workers, Wrote
<1>6. ASSUME NEW w \in Nodes, Worker(w) PROVE Listed'
  <2>0. ~Crash(w)
    BY <1>6, WorkerMoves
  <2>1. CASE Attach(w)
    <3>1. Wrote' = Wrote
      BY <2>1 DEF Attach, Wrote
    <3> QED
      BY <2>1, <3>1 DEF Attach, shared
  <2>2. CASE ScanIn(w)
    <3>1. Wrote' = Wrote
      BY <2>2 DEF ScanIn, Iterate, Wrote
    <3> QED
      BY <2>2, <3>1 DEF ScanIn, Iterate
  <2>3. CASE LockList(w)
    <3>1. Wrote' = Wrote
      BY <2>3 DEF LockList, Wrote
    <3> QED
      BY <2>3, <3>1 DEF LockList
  <2>4. CASE LoadIdx(w)
    <3>1. Wrote' = Wrote
      BY <2>4 DEF LoadIdx, Wrote
    <3> QED
      BY <2>4, <3>1 DEF LoadIdx, shared
  <2>5. CASE StoreT(w)
    <3>1. Wrote' = Wrote
      BY <2>5 DEF StoreT, Wrote
    <3>2. idx \in Nodes
      <4>1. Wrote \in SUBSET Nodes /\ w \notin Wrote
        BY <2>5 DEF StoreT, Wrote
      <4>2. Cardinality(Wrote) \in 0 .. N /\ Cardinality(Wrote) # N
        BY <4>1, NodesFinite, FS_Subset
      <4> QED
        BY <4>2, NAssumption DEF Nodes
    <3>3. reg[w] = idx /\ T' = [T EXCEPT ![idx] = w] /\ idx' = idx
      BY <2>5 DEF StoreT
    <3>4. T'[idx] = w /\ \A k \in 0 .. idx - 1 : T'[k] = T[k]
      BY <3>2, <3>3, NAssumption DEF Nodes
    <3>5. \A v \in Nodes : v # w => wpc[v] # "incr"
      BY <2>5 DEF StoreT, Guarded, ListExclusive
    <3>6. \A v \in Wrote' : \E k \in 0 .. idx' - 1 : T'[k] = v
      BY <3>1, <3>3, <3>4
    <3> QED
      BY <2>5, <3>1, <3>3, <3>4, <3>5, <3>6 DEF StoreT
  <2>6. CASE IncrIdx(w)
    <3>1. Wrote' = Wrote \cup {w} /\ w \notin Wrote
      BY <2>6 DEF IncrIdx, Wrote
    <3>2. IsFiniteSet(Wrote)
      BY NodesFinite DEF Wrote
    <3>3. idx' = idx + 1 /\ idx' = Cardinality(Wrote')
      BY <2>6, <3>1, <3>2, FS_AddElement DEF IncrIdx
    <3>4. T[idx] = w /\ T' = T
      BY <2>6 DEF IncrIdx
    <3>5. \A v \in Wrote' : \E k \in 0 .. idx' - 1 : T'[k] = v
      <4>1. idx \in 0 .. idx' - 1 /\ \A k \in 0 .. idx - 1 : k \in 0 .. idx' - 1
        BY <3>3
      <4> QED
        BY <3>1, <3>4, <4>1
    <3>6. \A v \in Nodes : wpc'[v] \notin {"store", "incr"}
      BY <2>6 DEF IncrIdx, Guarded, ListExclusive
    <3> QED
      BY <3>3, <3>5, <3>6
  <2>7. CASE UnlockList(w)
    <3>1. Wrote' = Wrote
      BY <2>7 DEF UnlockList, Wrote
    <3> QED
      BY <2>7, <3>1 DEF UnlockList
  <2>8. CASE ScanOut(w)
    <3>1. Wrote' = Wrote
      BY <2>8 DEF ScanOut, Iterate, Wrote
    <3> QED
      BY <2>8, <3>1 DEF ScanOut, Iterate
  <2>9. CASE Notify(w)
    <3>1. Wrote' = Wrote
      BY <2>9 DEF Notify, Wrote
    <3> QED
      BY <2>9, <3>1 DEF Notify
  <2> QED
    BY <1>6, <2>0, <2>1, <2>2, <2>3, <2>4, <2>5, <2>6, <2>7, <2>8, <2>9 DEF Worker
<1> QED
  BY <1>1, <1>2, <1>3, <1>4, <1>6 DEF Next, Boss

LEMMA NotifiedStep ==
  ASSUME ~EarlyStart, IInv, [Next]_vars
  PROVE  Notified'
<1> USE DEF IInv, Types, Notified, Goto
<1>1. CASE UNCHANGED vars
  BY <1>1 DEF vars, shared, boss, workers, Notifiers
<1>2. CASE Create
  BY <1>2 DEF Create
<1>3. CASE Initialise
  <2>1. ntfy' = 0 /\ Notifiers' = {}
    BY <1>3 DEF Initialise, SettingUp, workers, Notifiers
  <2>2. bpc' = "collect" => bk' = 0
    BY <1>3, ResourceFacts DEF Initialise
  <2> QED
    BY <2>1, <2>2, FS_EmptySet, NAssumption
<1>4. CASE Collect
  <2>1. Notifiers' = Notifiers
    BY <1>4 DEF Collect, workers, Notifiers
  <2>2. ntfy' = ntfy - 1 /\ ntfy >= 1 /\ bk' = bk + 1 /\ bk < N
    BY <1>4 DEF Collect, Ready, Applied, Removed
  <2> QED
    BY <1>4, <2>1, <2>2, NAssumption DEF Collect
<1>5. CASE Check
  BY <1>5 DEF Check
<1>6. ASSUME NEW w \in Nodes, Worker(w) PROVE Notified'
  <2>0. /\ bpc = "collect" /\ bpc' = "collect" /\ bk' = bk /\ ~Crash(w)
        /\ wpc[w] # "attach" => got[w] = AllResources
    BY <1>6, WorkerMoves
  <2>1. CASE Notify(w)
    <3>1. Notifiers' = Notifiers \cup {w} /\ w \notin Notifiers
      BY <2>1 DEF Notify, Notifiers
    <3>2. IsFiniteSet(Notifiers)
      BY NodesFinite DEF Notifiers
    <3>3. Cardinality(Notifiers') = Cardinality(Notifiers) + 1
      BY <3>1, <3>2, FS_AddElement
    <3>4. ntfy' = ntfy + 1 /\ ntfy \in Nat
      BY <2>0, <2>1 DEF Notify, Applied, Removed, AllResources
    <3> QED
      BY <2>0, <3>3, <3>4
  <2>2. CASE ~Notify(w)
    <3>1. ntfy' = ntfy /\ Notifiers' = Notifiers
      BY <1>6, <2>0, <2>2 DEF Worker, Attach, ScanIn, Iterate, LockList, LoadIdx,
         StoreT, IncrIdx, UnlockList, ScanOut, shared, Notifiers
    <3> QED
      BY <2>0, <3>1
  <2> QED
    BY <2>1, <2>2
<1> QED
  BY <1>1, <1>2, <1>3, <1>4, <1>5, <1>6 DEF Next, Boss

\* A step that changes neither sem_sync nor who has posted or taken tokens.
LEMMA TokensKept ==
  ASSUME Tokens, bpc = "collect",
         graph' = graph, sync' = sync,
         NEW w \in Nodes,
         wpc \in [Nodes -> WorkerPlaces],
         \A v \in Nodes : v # w => wpc'[v] = wpc[v] /\ wk'[v] = wk[v],
         wpc[w] \notin {"attach", "in", "out", "notify"},
         wpc'[w] \notin {"attach", "in", "notify", "done"},
         wpc'[w] = "out" => wk'[w] = 0,
         wpc[w] # "done"
  PROVE  Tokens'
<1>1. ASSUME NEW v \in Nodes PROVE Posted(v)' = Posted(v) /\ Taken(v)' = Taken(v)
  <2>1. Preds(v)' = Preds(v)
    BY DEF Preds
  <2>2. ASSUME NEW p \in Preds(v) PROVE p \in Posted(v)' <=> p \in Posted(v)
    <3>1. p \in Nodes /\ p # v /\ ~(0 > v)
      BY <2>2 DEF Preds, Nodes
    <3> QED
      BY <2>1, <2>2, <3>1 DEF Posted
  <2>3. ASSUME NEW p \in Preds(v) PROVE p \in Taken(v)' <=> p \in Taken(v)
    BY <2>1, <2>3 DEF Taken
  <2>4. /\ Posted(v)' \subseteq Preds(v) /\ Posted(v) \subseteq Preds(v)
        /\ Taken(v)' \subseteq Preds(v) /\ Taken(v) \subseteq Preds(v)
    BY <2>1 DEF Posted, Taken
  <2> QED
    BY <2>2, <2>3, <2>4
<1> QED
  BY <1>1 DEF Tokens

LEMMA TokensStep ==
  ASSUME ~EarlyStart, IInv, [Next]_vars
  PROVE  Tokens'
<1> USE DEF IInv, Types, Goto
<1>1. CASE UNCHANGED vars
  <2>1. \A w \in Nodes : Posted(w)' = Posted(w) /\ Taken(w)' = Taken(w)
    BY <1>1 DEF vars, workers, Posted, Taken, Preds
  <2> QED
    BY <1>1, <2>1 DEF Tokens, vars, shared, boss
<1>2. CASE Create \/ Check
  BY <1>2 DEF Create, Check, Tokens
<1>3. CASE Initialise
  <2>1. \A w \in Nodes : sync'[w] = 0 /\ wpc'[w] = "attach"
    BY <1>3 DEF Initialise, SettingUp, workers
  <2>2. \A w \in Nodes : Posted(w)' = {} /\ Taken(w)' = {}
    BY <2>1 DEF Posted, Taken, Preds
  <2>3. \A w \in Nodes : Cardinality(Posted(w)') = 0 /\ Cardinality(Taken(w)') = 0
    BY <2>2, FS_EmptySet
  <2>4. \A w \in Nodes : sync'[w] >= 0
                         /\ sync'[w] = Cardinality(Posted(w)') - Cardinality(Taken(w)')
    BY <2>1, <2>3
  <2> QED
    BY <2>4 DEF Tokens
<1>4. CASE Collect
  <2>1. \A w \in Nodes : Posted(w)' = Posted(w) /\ Taken(w)' = Taken(w)
    BY <1>4 DEF Collect, workers, Posted, Taken, Preds
  <2> QED
    BY <1>4, <2>1 DEF Collect, Tokens
<1>5. ASSUME NEW w \in Nodes, Worker(w) PROVE Tokens'
  <2>0. /\ bpc = "collect" /\ bpc' = "collect" /\ A = graph /\ graph' = graph /\ ~Crash(w)
        /\ wpc[w] # "attach" => got[w] = AllResources
    BY <1>5, WorkerMoves
  <2>1. \A v \in Nodes : v # w => wpc'[v] = wpc[v] /\ wk'[v] = wk[v]
    BY <1>5, <2>0 DEF Worker, Attach, ScanIn, Iterate, LockList, LoadIdx, StoreT,
       IncrIdx, UnlockList, ScanOut, Notify
  <2>2. CASE LockList(w) \/ LoadIdx(w) \/ StoreT(w) \/ IncrIdx(w) \/ UnlockList(w)
    <3>1. sync' = sync /\ wk' = wk
      BY <2>2 DEF LockList, LoadIdx, StoreT, IncrIdx, UnlockList, shared
    <3>2. wk[w] = 0
      BY <2>2 DEF LockList, LoadIdx, StoreT, IncrIdx, UnlockList, Working, Critical
    <3>3. wpc[w] \in {"lock", "load", "store", "incr", "unlock"}
      BY <2>2 DEF LockList, LoadIdx, StoreT, IncrIdx, UnlockList
    <3>4. wpc'[w] \in {"load", "store", "incr", "unlock", "out"}
      BY <2>2 DEF LockList, LoadIdx, StoreT, IncrIdx, UnlockList
    <3> QED
      BY <2>0, <2>1, <3>1, <3>2, <3>3, <3>4, TokensKept
  <2>3. CASE Attach(w)
    <3>1. wpc[w] = "attach" /\ wpc'[w] \in {"attach", "in"} /\ sync' = sync
      BY <2>3 DEF Attach, shared
    <3>2. wpc'[w] = "in" => wk'[w] = 0
      BY <2>3, ResourceFacts, <3>1 DEF Attach
    <3>3. ASSUME NEW v \in Nodes PROVE Posted(v)' = Posted(v)
      BY <2>0, <2>1, <3>1 DEF Posted, Preds
    <3>4. ASSUME NEW v \in Nodes PROVE Taken(v)' = Taken(v)
      <4>1. \A p \in Nodes : ~(p < 0)
        BY NAssumption DEF Nodes
      <4> QED
        BY <2>0, <2>1, <3>1, <3>2, <4>1 DEF Taken, Preds
    <3> QED
      BY <2>0, <3>1, <3>3, <3>4 DEF Tokens
  <2>4. CASE ScanIn(w)
    <3>1. wpc[w] = "in" /\ wpc'[w] \in {"in", "lock"} /\ wk[w] \in Nodes
      BY <2>4 DEF ScanIn, Iterate, Working
    <3>2. ASSUME NEW v \in Nodes PROVE Posted(v)' = Posted(v)
      BY <2>0, <2>1, <3>1 DEF Posted, Preds
    <3>3. ASSUME NEW v \in Nodes, v # w PROVE Taken(v)' = Taken(v) /\ sync'[v] = sync[v]
      <4>1. Taken(v)' = Taken(v)
        BY <2>0, <2>1, <3>3 DEF Taken, Preds
      <4>2. sync'[v] = sync[v]
        BY <2>4, <3>3 DEF ScanIn
      <4> QED
        BY <4>1, <4>2
    <3>0. (wpc'[w] = "in" => wk'[w] = wk[w] + 1) /\ (wpc'[w] = "lock" => wk[w] = N - 1)
      BY <2>4 DEF ScanIn, Iterate
    <3>4. \A p \in Nodes : wpc'[w] = "in" => (p < wk'[w] <=> p < wk[w] \/ p = wk[w])
      BY <3>0, <3>1, NodeOrder
    <3>5. \A p \in Nodes : wpc'[w] = "lock" => (p < wk[w] \/ p = wk[w])
      BY <3>0, <3>1, NodeOrder
    <3>6. Taken(w)' = Taken(w) \cup ({wk[w]} \cap Preds(w))
      <4>1. Preds(w)' = Preds(w) /\ Preds(w) \subseteq Nodes
        BY <2>0 DEF Preds
      <4>2. \A p \in Preds(w) : p \in Taken(w)' <=> p \in Taken(w) \/ p = wk[w]
        BY <3>1, <3>4, <3>5, <4>1 DEF Taken
      <4> QED
        BY <4>1, <4>2 DEF Taken
    <3>7. wk[w] \notin Taken(w) /\ IsFiniteSet(Taken(w))
      <4>1. Taken(w) \in SUBSET Nodes
        BY DEF Taken, Preds
      <4>2. wk[w] \notin Taken(w)
        BY <3>1, NAssumption DEF Taken, Nodes
      <4> QED
        BY <4>1, <4>2, NodesFinite
    <3>8. CASE wk[w] \in Preds(w)
      <4>1. Taken(w)' = Taken(w) \cup {wk[w]}
        BY <3>6, <3>8
      <4>2. Cardinality(Taken(w)') = Cardinality(Taken(w)) + 1
        BY <3>7, <4>1, FS_AddElement
      <4>3. sync[w] >= 1 /\ sync'[w] = sync[w] - 1
        <5>1. <<wk[w], w>> \in A /\ wk[w] # w /\ "sync" \in got[w]
          BY <2>0, <3>1, <3>8 DEF Preds, AllResources
        <5>2. Ready(sync[w], -1) /\ sync' = [sync EXCEPT ![w] = Applied(sync[w], -1)]
          BY <2>4, <5>1 DEF ScanIn, SemOf
        <5>3. sync[w] >= 0 /\ sync[w] \in Int
          BY <2>0 DEF Tokens
        <5>4. sync[w] >= 1 /\ Applied(sync[w], -1) = sync[w] - 1
          BY <5>2, <5>3 DEF Ready, Applied, Removed
        <5> QED
          BY <5>2, <5>4
      <4>4. Cardinality(Posted(w)) \in Nat /\ Cardinality(Taken(w)) \in Nat
        BY CountsFinite
      <4>5. sync'[w] >= 0 /\ sync'[w] = Cardinality(Posted(w)) - Cardinality(Taken(w)')
        BY <2>0, <4>2, <4>3, <4>4 DEF Tokens
      <4> QED
        BY <2>0, <3>2, <3>3, <4>5 DEF Tokens
    <3>9. CASE wk[w] \notin Preds(w)
      <4>1. Taken(w)' = Taken(w)
        BY <3>6, <3>9
      <4>2. sync'[w] = sync[w]
        BY <2>0, <2>4, <3>1, <3>9 DEF ScanIn, Preds
      <4> QED
        BY <2>0, <3>2, <3>3, <4>1, <4>2 DEF Tokens
    <3> QED
      BY <3>8, <3>9
  <2>5. CASE ScanOut(w)
    <3>1. wpc[w] = "out" /\ wpc'[w] \in {"out", "notify"} /\ wk[w] \in Nodes
      BY <2>5 DEF ScanOut, Iterate, Working
    <3>2. ASSUME NEW v \in Nodes PROVE Taken(v)' = Taken(v)
      BY <2>0, <2>1, <3>1 DEF Taken, Preds
    <3> PICK c \in Nodes : c = wk[w]
      BY <3>1
    <3>0. (wpc'[w] = "out" => wk'[w] = c + 1) /\ (wpc'[w] = "notify" => c = N - 1)
      BY <2>5 DEF ScanOut, Iterate
    <3>3. \A v \in Nodes : wpc'[w] = "out" => (wk'[w] > v <=> wk[w] > v \/ v = c)
      BY <3>0, NodeOrder
    <3>4. \A v \in Nodes : wpc'[w] = "notify" => (wk[w] > v \/ v = c)
      BY <3>0, NodeOrder
    <3>5. ASSUME NEW v \in Nodes
          PROVE  Posted(v)' = Posted(v) \cup (IF v = c THEN {w} \cap Preds(v) ELSE {})
      <4>1. Preds(v)' = Preds(v) /\ Preds(v) \subseteq Nodes
        BY <2>0 DEF Preds
      <4>2. \A p \in Preds(v) : p # w => (p \in Posted(v)' <=> p \in Posted(v))
        BY <2>1, <4>1 DEF Posted
      <4>3. w \in Preds(v) => (w \in Posted(v)' <=> w \in Posted(v) \/ v = c)
        BY <3>1, <3>3, <3>4, <4>1 DEF Posted
      <4>4. Posted(v) \subseteq Preds(v) /\ Posted(v)' \subseteq Preds(v)
        BY <4>1 DEF Posted
      <4> QED
        BY <4>2, <4>3, <4>4
    <3>6. ASSUME NEW v \in Nodes, v # c
          PROVE  Posted(v)' = Posted(v) /\ sync'[v] = sync[v]
      <4>1. sync'[v] = sync[v]
        BY <2>5, <3>6 DEF ScanOut
      <4> QED
        BY <3>5, <3>6, <4>1
    <3>7. CASE w \in Preds(c)
      <4>1. Posted(c)' = Posted(c) \cup {w} /\ w \notin Posted(c)
        <5>1. w \notin Posted(c)
          BY <3>1, NAssumption DEF Posted, Nodes
        <5>2. Posted(c)' = Posted(c) \cup ({w} \cap Preds(c))
          BY <3>5
        <5> QED
          BY <3>7, <5>1, <5>2
      <4>2. Cardinality(Posted(c)') = Cardinality(Posted(c)) + 1
        <5>1. Cardinality(Posted(c) \cup {w}) = Cardinality(Posted(c)) + 1
          BY <4>1, CountsFinite, FS_AddElement
        <5> QED
          BY <4>1, <5>1
      <4>3. sync'[c] = sync[c] + 1
        <5>1. sync[c] >= 0 /\ sync[c] \in Int
          BY <2>0 DEF Tokens
        <5>2. Applied(sync[c], 1) = sync[c] + 1
          BY <5>1 DEF Applied, Removed
        <5>3. sync' = [sync EXCEPT ![c] = Applied(sync[c], 1)]
          BY <2>0, <2>5, <3>1, <3>7 DEF ScanOut, Preds, AllResources
        <5> QED
          BY <5>2, <5>3
      <4>4. Cardinality(Posted(c)) \in Nat /\ Cardinality(Taken(c)) \in Nat
        BY CountsFinite
      <4>5. sync'[c] >= 0 /\ sync'[c] = Cardinality(Posted(c)') - Cardinality(Taken(c)')
        <5>1. sync[c] >= 0 /\ sync[c] = Cardinality(Posted(c)) - Cardinality(Taken(c))
          BY <2>0 DEF Tokens
        <5> QED
          BY <3>2, <4>2, <4>3, <4>4, <5>1
      <4>6. ASSUME NEW v \in Nodes, v # c
            PROVE  sync'[v] >= 0 /\ sync'[v] = Cardinality(Posted(v)') - Cardinality(Taken(v)')
        BY <2>0, <3>2, <3>6, <4>6 DEF Tokens
      <4> QED
        BY <4>5, <4>6 DEF Tokens
    <3>8. CASE w \notin Preds(c)
      <4>1. sync' = sync
        BY <2>0, <2>5, <3>1, <3>8 DEF ScanOut, Preds
      <4>2. ASSUME NEW v \in Nodes PROVE Posted(v)' = Posted(v)
        <5>1. CASE v = c
          <6>1. {w} \cap Preds(v) = {}
            BY <3>8, <5>1
          <6> QED
            BY <3>5, <5>1, <6>1
        <5>2. CASE v # c
          BY <3>6, <5>2
        <5> QED
          BY <5>1, <5>2
      <4> QED
        BY <2>0, <3>2, <4>1, <4>2 DEF Tokens
    <3> QED
      BY <3>7, <3>8
  <2>6. CASE Notify(w)
    <3>1. wpc[w] = "notify" /\ wpc'[w] = "done" /\ sync' = sync
      BY <2>6 DEF Notify
    <3>2. \A v \in Nodes : Posted(v)' = Posted(v) /\ Taken(v)' = Taken(v)
      BY <2>0, <2>1, <3>1 DEF Posted, Taken, Preds
    <3> QED
      BY <2>0, <3>1, <3>2 DEF Tokens
  <2> QED
    BY <1>5, <2>0, <2>2, <2>3, <2>4, <2>5, <2>6 DEF Worker
<1> QED
  BY <1>1, <1>2, <1>3, <1>4, <1>5 DEF Next, Boss

LEMMA BoundedStep ==
  ASSUME ~EarlyStart, IInv, [Next]_vars
  PROVE  Bounded'
<1> USE NAssumption DEF IInv, Bounded, Goto
<1>1. CASE UNCHANGED vars
  BY <1>1 DEF vars, shared, boss, workers
<1>2. CASE Create
  BY <1>2 DEF Create, shared, workers
<1>3. CASE Initialise
  BY <1>3, ResourceFacts DEF Initialise, SettingUp, workers
<1>4. CASE Collect
  BY <1>4 DEF Collect, Types, workers
<1>5. CASE Check
  BY <1>5 DEF Check, workers
<1>6. ASSUME NEW w \in Nodes, Worker(w) PROVE Bounded'
  <2>0. bpc' = "collect" /\ UNCHANGED <<A, graph, bk>> /\ ~Crash(w)
    BY <1>6, WorkerMoves
  <2>1. verdict' = verdict
    BY <1>6, <2>0 DEF Worker, Attach, ScanIn, Iterate, LockList, LoadIdx, StoreT,
       IncrIdx, UnlockList, ScanOut, Notify, boss
  <2>2. wk' \in [Nodes -> 0 .. N + 6]
    <3>1. \/ wk' = [wk EXCEPT ![w] = 0]
          \/ wk' = [wk EXCEPT ![w] = @ + 1] /\ wk[w] < N + 6
          \/ wk' = wk
      <4>1. CASE Attach(w)
        <5>1. wk[w] \in 1 .. 6
          BY <4>1 DEF Attach, Working
        <5>2. wk' = [wk EXCEPT ![w] = IF wk[w] = 6 THEN 0 ELSE wk[w] + 1]
          BY <4>1, ResourceFacts DEF Attach
        <5>3. CASE wk[w] = 6
          BY <5>2, <5>3
        <5>4. CASE wk[w] # 6
          <6>1. wk' = [wk EXCEPT ![w] = wk[w] + 1]
            BY <5>2, <5>4
          <6> QED
            BY <5>1, <6>1
        <5> QED
          BY <5>3, <5>4
      <4>2. CASE ScanIn(w) \/ ScanOut(w)
        <5>1. wk[w] \in Nodes
          BY <4>2 DEF ScanIn, ScanOut, Iterate, Working
        <5>2. wk[w] < N + 6
          BY <5>1 DEF Nodes
        <5> QED
          BY <4>2, <5>2 DEF ScanIn, ScanOut, Iterate
      <4>3. CASE ~Attach(w) /\ ~ScanIn(w) /\ ~ScanOut(w)
        BY <1>6, <2>0, <4>3 DEF Worker, LockList, LoadIdx, StoreT, IncrIdx, UnlockList,
           Notify
      <4> QED
        BY <4>1, <4>2, <4>3
    <3> QED
      BY <3>1
  <2>3. reg' \in [Nodes -> 0 .. N]
    <3>1. idx \in 0 .. N
      BY NodesFinite DEF Listed, Wrote
    <3>2. reg' = reg \/ reg' = [reg EXCEPT ![w] = idx]
      BY <1>6, <2>0 DEF Worker, Attach, ScanIn, Iterate, LockList, LoadIdx, StoreT,
         IncrIdx, UnlockList, ScanOut, Notify
    <3> QED
      BY <3>1, <3>2
  <2> QED
    BY <2>0, <2>1, <2>2, <2>3
<1> QED
  BY <1>1, <1>2, <1>3, <1>4, <1>5, <1>6 DEF Next, Boss

LEMMA AlwaysIInv == ASSUME ~EarlyStart PROVE Spec => []IInv
<1>1. IInv /\ [Next]_vars => IInv'
  BY TypesStep, SettingUpStep, WorkingStep, GuardedStep, ListedStep, NotifiedStep,
     TokensStep, BoundedStep DEF IInv
<1> QED
  BY InitIInv, <1>1, PTL DEF Spec

\* Every variable keeps its type: the mutex is binary, idx never leaves T,
\* and no semaphore ever holds more tokens than there are nodes.
THEOREM TypeCorrect == ASSUME ~EarlyStart PROVE Spec => []TypeOK
<1>1. IInv => TypeOK
  <2> SUFFICES ASSUME IInv PROVE TypeOK
    OBVIOUS
  <2> USE NAssumption DEF IInv
  <2>1. idx \in 0 .. N
    BY NodesFinite DEF Listed, Wrote
  <2>2. mtx \in {Removed, 0, 1}
    BY DEF Bounded, Types, SettingUp, Working
  <2>3. ntfy \in Removed .. N
    <3>1. bpc = "collect" => ntfy \in 0 .. N
      BY NodesFinite DEF Notified, Notifiers, Types
    <3> QED
      BY <3>1 DEF Bounded, Types, SettingUp, Removed
  <2>4. sync \in [Nodes -> Removed .. N]
    <3>1. ASSUME NEW w \in Nodes, bpc = "collect" PROVE sync[w] \in 0 .. N
      <4>1. Cardinality(Posted(w)) \in 0 .. N /\ Cardinality(Taken(w)) \in Nat
        BY CountsFinite, NodesFinite DEF Posted, Preds
      <4> QED
        BY <3>1, <4>1 DEF Tokens, Types
    <3>2. ASSUME NEW w \in Nodes PROVE sync[w] \in Removed .. N
      BY <3>1 DEF Bounded, Types, SettingUp, Removed
    <3> QED
      BY <3>2 DEF Types
  <2> QED
    BY <2>1, <2>2, <2>3, <2>4, ResourceFacts DEF TypeOK, Types, Bounded
<1> QED
  BY AlwaysIInv, <1>1, PTL

\* Only one worker at a time updates T and idx.
THEOREM ListingGuarded == ASSUME ~EarlyStart PROVE Spec => []ListExclusive
<1>1. IInv => ListExclusive
  BY DEF IInv, Guarded
<1> QED
  BY AlwaysIInv, <1>1, PTL

LEMMA InOrder == ASSUME IInv PROVE ListedInOrder
<1> SUFFICES ASSUME NEW w \in Nodes, wpc[w] \notin {"attach", "in"},
                    NEW p \in Nodes, <<p, w>> \in graph, p # w
             PROVE  \E k \in 0 .. idx - 1 : T[k] = p
  BY DEF ListedInOrder
<1> USE DEF IInv
<1>1. p \in Preds(w)
  BY DEF Preds
<1>2. bpc \in {"collect", "done"}
  BY DEF Types, SettingUp
<1>3. CASE bpc = "done"
  <2>1. p \in Wrote
    BY <1>3 DEF Working, Wrote
  <2> QED
    BY <2>1 DEF Listed
<1>4. CASE bpc = "collect"
  <2>1. Taken(w) = Preds(w)
    BY DEF Taken
  <2>2. Preds(w) \in SUBSET Nodes /\ Posted(w) \in SUBSET Preds(w)
    BY DEF Preds, Posted
  <2>3. IsFiniteSet(Preds(w)) /\ IsFiniteSet(Posted(w))
    BY <2>2, NodesFinite, FS_Subset
  <2>4. Cardinality(Posted(w)) >= Cardinality(Preds(w))
    BY <1>4, <2>1, <2>3, FS_CardinalityType DEF Tokens
  <2>5. Posted(w) = Preds(w)
    BY <2>2, <2>3, <2>4, FS_Subset, FS_CardinalityType
  <2>6. p \in Wrote
    BY <1>1, <2>5 DEF Posted, Wrote
  <2> QED
    BY <2>6 DEF Listed
<1> QED
  BY <1>2, <1>3, <1>4

\* Every worker lists itself after all its predecessors.
THEOREM PrecedenceRespected == ASSUME ~EarlyStart PROVE Spec => []ListedInOrder
<1>1. IInv => ListedInOrder
  BY InOrder
<1> QED
  BY AlwaysIInv, <1>1, PTL

-----------------------------------------------------------------------------
(* Workers that start too early                                            *)

\* However early the workers start, notifications come from workers that are done.
Heard ==
    /\ bpc \in {"create", "initialise", "collect", "done"} /\ bk \in Nat
    /\ wpc \in [Nodes -> WorkerPlaces]
    /\ bpc # "done" =>
          ntfy \in Nat /\ ntfy + (IF bpc = "collect" THEN bk ELSE 0) <= Cardinality(Notifiers)
    /\ bpc = "done" => \A w \in Nodes : wpc[w] = "done"

LEMMA HeardStep == ASSUME Heard, [Next]_vars PROVE Heard'
<1> USE DEF Heard, Goto
<1>0. Notifiers \in SUBSET Nodes /\ Cardinality(Notifiers) \in 0 .. N
  BY NodesFinite DEF Notifiers
<1>1. CASE UNCHANGED vars
  BY <1>1 DEF vars, shared, boss, workers, Notifiers
<1>2. CASE Create
  BY <1>2 DEF Create, shared, workers, Notifiers
<1>3. CASE Initialise
  <2>1. Notifiers' = Notifiers /\ ntfy' \in {0, ntfy}
    BY <1>3 DEF Initialise, workers, Notifiers
  <2>2. bpc' \in {"create", "collect"} /\ (bpc' = "collect" => bk' = 0) /\ bk' \in Nat
    BY <1>3 DEF Initialise
  <2>3. ntfy' \in Nat /\ ntfy' <= Cardinality(Notifiers')
    BY <1>0, <1>3, <2>1 DEF Initialise
  <2>4. ntfy' + (IF bpc' = "collect" THEN bk' ELSE 0) <= Cardinality(Notifiers')
    BY <2>2, <2>3
  <2> QED
    BY <1>3, <2>2, <2>3, <2>4 DEF Initialise, workers
<1>4. CASE Collect
  <2>1. ntfy >= 1 /\ ntfy' = ntfy - 1 /\ bk' = bk + 1
    BY <1>4 DEF Collect, Ready, Applied, Removed
  <2> QED
    BY <1>0, <1>4, <2>1 DEF Collect, workers, Notifiers
<1>5. CASE Check
  <2>1. Cardinality(Notifiers) = N
    BY <1>0, <1>5, NAssumption DEF Check
  <2>2. Notifiers = Nodes
    BY <1>0, <2>1, NodesFinite, FS_Subset
  <2> QED
    BY <1>5, <2>2 DEF Check, workers, Notifiers
<1>6. ASSUME NEW w \in Nodes, Worker(w) PROVE Heard'
  <2>1. wpc[w] # "done" /\ bpc # "done" /\ bpc' = bpc /\ bk' = bk
    BY <1>6 DEF Worker, Attach, ScanIn, Iterate, LockList, LoadIdx, StoreT,
       IncrIdx, UnlockList, ScanOut, Notify, Crash, boss, shared
  <2>2. \A v \in Nodes : v # w => wpc'[v] = wpc[v]
    BY <1>6 DEF Worker, Attach, ScanIn, Iterate, LockList, LoadIdx, StoreT,
       IncrIdx, UnlockList, ScanOut, Notify, Crash
  <2>3. wpc' \in [Nodes -> WorkerPlaces]
    BY <1>6 DEF Worker, Attach, ScanIn, Iterate, LockList, LoadIdx, StoreT,
       IncrIdx, UnlockList, ScanOut, Notify, Crash, WorkerPlaces
  <2>4. CASE Notify(w)
    <3>1. Notifiers' = Notifiers \cup {w} /\ w \notin Notifiers
      BY <2>1, <2>4 DEF Notify, Notifiers
    <3>2. Cardinality(Notifiers') = Cardinality(Notifiers) + 1
      BY <1>0, <3>1, NodesFinite, FS_AddElement
    <3>3. ntfy' \in {ntfy, ntfy + 1}
      BY <2>1, <2>4 DEF Notify, Applied, Removed
    <3> QED
      BY <1>0, <2>1, <2>3, <3>2, <3>3
  <2>5. CASE ~Notify(w)
    <3>1. wpc'[w] # "done" /\ ntfy' = ntfy
      BY <1>6, <2>5 DEF Worker, Attach, ScanIn, Iterate, LockList, LoadIdx, StoreT,
         IncrIdx, UnlockList, ScanOut, Crash, shared
    <3>2. Notifiers' = Notifiers
      BY <2>1, <2>2, <3>1 DEF Notifiers
    <3> QED
      BY <2>1, <2>3, <3>1, <3>2
  <2> QED
    BY <2>4, <2>5
<1> QED
  BY <1>1, <1>2, <1>3, <1>4, <1>5, <1>6 DEF Next, Boss

\* The boss ends only after every worker has notified it, also if workers started
\* before the setup and crashed or ran without semaphores.
THEOREM BossIsLast == Spec => []BossWaitsForAll
<1>1. Init => Heard
  <2> SUFFICES ASSUME Init PROVE Heard
    OBVIOUS
  <2>1. Cardinality(Notifiers) \in 0 .. N
    BY NodesFinite DEF Notifiers
  <2> QED
    BY <2>1 DEF Init, Heard, WorkerPlaces
<1>2. Heard /\ [Next]_vars => Heard'
  BY HeardStep
<1>3. Heard => BossWaitsForAll
  BY DEF Heard, BossWaitsForAll
<1> QED
  BY <1>1, <1>2, <1>3, PTL DEF Spec

-----------------------------------------------------------------------------
(* The boss's check                                                        *)

OneToOne(L) == \A k, l \in Nodes : L[k] = L[l] => k = l

\* All predecessors of j are among the first k nodes of L.
AllBefore(G, L, k, j) ==
    \A p \in Nodes : <<p, j>> \in G => \E i \in 0 .. k - 1 : L[i] = p

\* In a listing without repetitions the in-degree of j is 0 after k nodes have
\* been taken away exactly if all predecessors of j are among them.
LEMMA EarlierPreds ==
  ASSUME NEW G, NEW L \in [Nodes -> Nodes], OneToOne(L), NEW k \in Nodes, NEW j \in Nodes
  PROVE  InDegree(G, L, k)[j] = 0 <=> AllBefore(G, L, k, j)
<1> DEFINE In == {i \in Nodes : <<i, j>> \in G}
           Out == {i \in 0 .. k - 1 : <<L[i], j>> \in G}
           Image == {p \in In : \E i \in 0 .. k - 1 : L[i] = p}
           f == [i \in Out |-> L[i]]
<1>1. 0 .. k - 1 \subseteq Nodes /\ Out \in SUBSET Nodes
  BY NAssumption DEF Nodes
<1>2. In \in SUBSET Nodes /\ Image \in SUBSET In
  OBVIOUS
<1>3. f \in Bijection(Out, Image)
  <2>1. \A i \in Out : L[i] \in Image
    BY <1>1
  <2>2. f \in Injection(Out, Image)
    BY <1>1, <2>1 DEF Injection, IsInjective, OneToOne
  <2>3. f \in Surjection(Out, Image)
    BY <1>1, <2>1 DEF Surjection
  <2> QED
    BY <2>2, <2>3 DEF Bijection
<1>4. IsFiniteSet(Out) /\ IsFiniteSet(In)
  BY <1>1, <1>2, NodesFinite
<1>5. Cardinality(Image) = Cardinality(Out)
  BY <1>3, <1>4, FS_Bijection DEF ExistsBijection
<1>6. /\ Cardinality(In) \in Nat /\ Cardinality(Out) \in Nat
      /\ Cardinality(In) = Cardinality(Image) <=> In = Image
  BY <1>2, <1>4, FS_CardinalityType, FS_Subset
<1>7. InDegree(G, L, k)[j] = Cardinality(In) - Cardinality(Out)
  BY DEF InDegree
<1>8. InDegree(G, L, k)[j] = 0 <=> In = Image
  BY <1>5, <1>6, <1>7
<1> QED
  BY <1>8 DEF AllBefore

\* Counting in-degrees down recognises the topological sorts among the listings
\* without repetitions.
LEMMA CheckAccepts ==
  ASSUME NEW G, NEW L \in [Nodes -> Nodes], OneToOne(L)
  PROVE  IsTopologicalSortValid(G, L) <=> IsTopologicalSort(G, L)
<1>1. \A w \in Nodes : \E k \in Nodes : L[k] = w
  <2>1. L \in Injection(Nodes, Nodes)
    BY DEF Injection, IsInjective, OneToOne
  <2>2. L \in Surjection(Nodes, Nodes)
    BY <2>1, NodesFinite, FS_Injection
  <2> QED
    BY <2>2 DEF Surjection
<1>2. \A k, i \in Nodes : i \in 0 .. k - 1 <=> i < k
  BY NAssumption DEF Nodes
<1>3. \A k \in Nodes : 0 .. k - 1 \subseteq Nodes
  BY NAssumption DEF Nodes
<1>4. ASSUME IsTopologicalSortValid(G, L), NEW k \in Nodes, NEW l \in Nodes,
             <<L[k], L[l]>> \in G
      PROVE  k < l
  <2>1. InDegree(G, L, l)[L[l]] = 0
    BY <1>4 DEF IsTopologicalSortValid
  <2>2. L[k] \in Nodes /\ L[l] \in Nodes
    OBVIOUS
  <2>3. AllBefore(G, L, l, L[l])
    BY <2>1, <2>2, EarlierPreds
  <2>4. \E i \in 0 .. l - 1 : L[i] = L[k]
    BY <1>4, <2>2, <2>3 DEF AllBefore
  <2> QED
    BY <1>2, <1>3, <2>4 DEF OneToOne
<1>5. ASSUME IsTopologicalSort(G, L), NEW k \in Nodes
      PROVE  InDegree(G, L, k)[L[k]] = 0
  <2>1. ASSUME NEW p \in Nodes, <<p, L[k]>> \in G PROVE \E i \in 0 .. k - 1 : L[i] = p
    <3>1. PICK i \in Nodes : L[i] = p
      BY <1>1
    <3>2. i < k
      BY <1>5, <2>1, <3>1 DEF IsTopologicalSort
    <3> QED
      BY <1>2, <3>1, <3>2
  <2>2. AllBefore(G, L, k, L[k])
    BY <2>1 DEF AllBefore
  <2>3. L[k] \in Nodes
    OBVIOUS
  <2> QED
    BY <2>2, <2>3, EarlierPreds
<1> QED
  BY <1>1, <1>4, <1>5 DEF IsTopologicalSort, IsTopologicalSortValid

LEMMA SortIsOneToOne ==
  ASSUME NEW G, NEW L \in [Nodes -> Nodes], IsTopologicalSort(G, L)
  PROVE  OneToOne(L)
<1>1. L \in Surjection(Nodes, Nodes)
  BY DEF IsTopologicalSort, Surjection
<1>2. L \in Injection(Nodes, Nodes)
  BY <1>1, NodesFinite, FS_Surjection
<1> QED
  BY <1>2 DEF Injection, IsInjective, OneToOne

\* The check tells topological sorts from other listings without repetitions,
\* and never rejects a topological sort: for every matrix, early workers or not.
THEOREM CheckDecides == Spec => []CheckExact
<1>1. CheckExact
  BY CheckAccepts, SortIsOneToOne DEF CheckExact, OneToOne
<1> QED
  BY <1>1, PTL

-----------------------------------------------------------------------------
(* The listing, and what the boss makes of it                              *)

\* T lists the workers that have written, each after its predecessors.
Ordered ==
    /\ \A k \in 0 .. idx - 1 : T[k] \in Wrote
    /\ \A k \in 0 .. idx - 1 : \A p \in Preds(T[k]) : \E i \in 0 .. k - 1 : T[i] = p

\* No node is its own predecessor: the graphs of gengraph.c have no cycles.
Loopless == \A g \in Graphs : \A w \in Nodes : <<w, w>> \notin g

Judged == bpc = "done" => verdict = "valid" /\ IsTopologicalSort(graph, T)

\* What a worker's step does to the listing: it writes at the first free place, or
\* makes what it has written count, or leaves the listing alone.
LEMMA ListingMoves ==
  ASSUME ~EarlyStart, IInv, [Next]_vars
  PROVE  \/ idx' = idx /\ graph' = graph /\ Wrote' = Wrote
            /\ \A k \in 0 .. idx - 1 : T'[k] = T[k]
         \/ \E w \in Nodes : IncrIdx(w) /\ graph' = graph /\ T' = T
               /\ idx' = idx + 1 /\ T[idx] = w /\ w \notin Wrote /\ Wrote' = Wrote \cup {w}
<1> USE DEF IInv, Types, Goto
<1>1. CASE UNCHANGED vars
  BY <1>1 DEF vars, shared, workers, Wrote
<1>2. CASE Create \/ Collect \/ Check
  BY <1>2 DEF Create, Collect, Check, shared, workers, Wrote
<1>3. CASE Initialise
  <2>1. idx' = 0 /\ idx = 0
    BY <1>3 DEF Initialise, SettingUp
  <2> QED
    BY <1>3, <2>1 DEF Initialise, workers, Wrote
<1>4. ASSUME NEW w \in Nodes, Worker(w), ~IncrIdx(w)
      PROVE  /\ idx' = idx /\ graph' = graph /\ Wrote' = Wrote
             /\ \A k \in 0 .. idx - 1 : T'[k] = T[k]
  <2>0. ~Crash(w) /\ graph' = graph
    BY <1>4, WorkerMoves
  <2>1. CASE StoreT(w)
    <3>1. T' = [T EXCEPT ![idx] = w] /\ idx' = idx /\ wpc[w] = "store" /\ wpc'[w] = "incr"
      BY <2>1 DEF StoreT, Listed
    <3>2. Wrote' = Wrote
      BY <2>1 DEF StoreT, Wrote
    <3>3. \A k \in 0 .. idx - 1 : T'[k] = T[k]
      <4>1. idx \in 0 .. N
        BY NodesFinite DEF Listed, Wrote
      <4>2. \A k \in 0 .. idx - 1 : k \in Nodes /\ k # idx
        BY ONLY <4>1, NAssumption DEF Nodes
      <4> QED
        BY <3>1, <4>2
    <3> QED
      BY <2>0, <3>1, <3>2, <3>3
  <2>2. CASE ~StoreT(w)
    <3>1. Wrote' = Wrote
      BY <1>4, <2>0, <2>2 DEF Worker, Attach, ScanIn, Iterate, LockList, LoadIdx,
         UnlockList, ScanOut, Notify, Wrote
    <3>2. T' = T /\ idx' = idx
      BY <1>4, <2>0, <2>2 DEF Worker, Attach, ScanIn, LockList, LoadIdx,
         UnlockList, ScanOut, Notify, shared
    <3> QED
      BY <2>0, <3>1, <3>2
  <2> QED
    BY <2>1, <2>2
<1>5. ASSUME NEW w \in Nodes, IncrIdx(w)
      PROVE  /\ graph' = graph /\ T' = T /\ idx' = idx + 1 /\ T[idx] = w
             /\ w \notin Wrote /\ Wrote' = Wrote \cup {w}
  BY <1>5 DEF IncrIdx, Listed, Wrote
<1> QED
  BY <1>1, <1>2, <1>3, <1>4, <1>5 DEF Next, Boss

LEMMA OrderedStep ==
  ASSUME ~EarlyStart, IInv, Ordered, [Next]_vars
  PROVE  Ordered'
<1>1. CASE idx' = idx /\ graph' = graph /\ Wrote' = Wrote
           /\ \A k \in 0 .. idx - 1 : T'[k] = T[k]
  <2>1. idx \in Nat
    BY DEF IInv, Types
  <2>2. \A k \in 0 .. idx - 1 : \A i \in 0 .. k - 1 : i \in 0 .. idx - 1
    BY <2>1
  <2>3. \A k \in 0 .. idx' - 1 : T'[k] \in Wrote'
    BY <1>1 DEF Ordered
  <2>4. ASSUME NEW k \in 0 .. idx' - 1, NEW p \in Nodes, <<p, T'[k]>> \in graph', p # T'[k]
        PROVE  \E i \in 0 .. k - 1 : T'[i] = p
    <3>1. k \in 0 .. idx - 1 /\ T'[k] = T[k] /\ p \in Preds(T[k])
      BY <1>1, <2>4 DEF Preds
    <3>2. PICK i \in 0 .. k - 1 : T[i] = p
      BY <3>1 DEF Ordered
    <3> QED
      BY <1>1, <2>2, <3>1, <3>2
  <2> QED
    BY <2>3, <2>4 DEF Ordered, Preds
<1>2. ASSUME NEW w \in Nodes, IncrIdx(w), graph' = graph, T' = T, idx' = idx + 1,
             T[idx] = w, Wrote' = Wrote \cup {w}
      PROVE  Ordered'
  <2>1. idx \in Nat
    BY DEF IInv, Types
  <2>2. \A k \in 0 .. idx' - 1 : k \in 0 .. idx - 1 \/ k = idx
    BY <1>2, <2>1
  <2>3. \A p \in Preds(w) : \E i \in 0 .. idx - 1 : T[i] = p
    BY <1>2, InOrder DEF IncrIdx, Goto, ListedInOrder, Preds
  <2>4. \A x : Preds(x)' = Preds(x)
    BY <1>2 DEF Preds
  <2> QED
    BY <1>2, <2>2, <2>3, <2>4 DEF Ordered
<1> QED
  BY <1>1, <1>2, ListingMoves

LEMMA JudgedStep ==
  ASSUME ~EarlyStart, Loopless, IInv, Ordered, Judged, [Next]_vars
  PROVE  Judged'
<1> USE DEF IInv
<1>1. CASE Check
  <2>1. \A w \in Nodes : wpc[w] = "done"
    BY <1>1, WorkingStep DEF Check, Working, workers
  <2>2. Wrote = Nodes /\ idx = N
    BY <2>1, NodesFinite DEF Wrote, Listed
  <2>3. 0 .. idx - 1 = Nodes
    BY <2>2 DEF Nodes
  <2>4. \A w \in Nodes : \E k \in Nodes : T[k] = w
    BY <2>2, <2>3 DEF Listed
  <2>5. ASSUME NEW k \in Nodes, NEW l \in Nodes, <<T[k], T[l]>> \in graph PROVE k < l
    <3>1. T[k] \in Nodes /\ T[l] \in Nodes /\ T[k] # T[l]
      BY <2>5 DEF Loopless, Types
    <3>2. PICK i \in 0 .. l - 1 : T[i] = T[k]
      BY <2>3, <2>5, <3>1 DEF Ordered, Preds
    <3>3. T \in Injection(Nodes, Nodes)
      <4>1. T \in Surjection(Nodes, Nodes)
        BY <2>4 DEF Surjection, Types
      <4> QED
        BY <4>1, NodesFinite, FS_Surjection
    <3>4. i \in Nodes /\ i < l
      BY <3>2, NAssumption DEF Nodes
    <3> QED
      BY <3>2, <3>3, <3>4 DEF Injection, IsInjective
  <2>6. IsTopologicalSort(graph, T) /\ T \in [Nodes -> Nodes]
    BY <2>4, <2>5 DEF IsTopologicalSort, Types
  <2>7. IsTopologicalSortValid(graph, T)
    BY <2>6, CheckAccepts, SortIsOneToOne
  <2>8. A = graph /\ graph' = graph /\ T' = T
    BY <1>1 DEF Check, Working
  <2> QED
    BY <1>1, <2>6, <2>7, <2>8 DEF Check, Judged
<1>2. CASE Create \/ Initialise \/ Collect
  BY <1>2 DEF Create, Initialise, Collect, Judged
<1>3. ASSUME NEW w \in Nodes, Worker(w) PROVE Judged'
  BY <1>3, WorkerMoves DEF Judged
<1>4. CASE UNCHANGED vars
  BY <1>4 DEF vars, shared, boss, Judged
<1> QED
  BY <1>1, <1>2, <1>3, <1>4 DEF Next, Boss

LEMMA AlwaysOrdered == ASSUME ~EarlyStart PROVE Spec => [](IInv /\ Ordered)
<1>1. Init => IInv /\ Ordered
  BY InitIInv DEF Init, Ordered
<1>2. IInv /\ Ordered /\ [Next]_vars => IInv' /\ Ordered'
  BY OrderedStep, TypesStep, SettingUpStep, WorkingStep, GuardedStep, ListedStep,
     NotifiedStep, TokensStep, BoundedStep DEF IInv
<1> QED
  BY <1>1, <1>2, PTL DEF Spec

\* When the boss has heard of everyone all tokens are used; what it then finds in
\* T is a topological sort of the graph, and it says so.
THEOREM VerdictRight == ASSUME ~EarlyStart, Loopless PROVE Spec => []BossVerdict
<1>1. Init => Judged
  BY DEF Init, Judged
<1>2. IInv /\ Ordered /\ Judged /\ [Next]_vars => Judged'
  BY JudgedStep
<1>3. IInv /\ Judged => BossVerdict
  <2> SUFFICES ASSUME IInv, bpc = "collect", bk = N
               PROVE  ntfy = 0 /\ \A w \in Nodes : sync[w] = 0
    BY DEF BossVerdict, Judged
  <2> USE DEF IInv
  <2>1. ntfy \in Nat /\ ntfy + N = Cardinality(Notifiers) /\ Cardinality(Notifiers) \in 0 .. N
    BY NodesFinite DEF Notified, Notifiers
  <2>2. ntfy = 0 /\ Cardinality(Notifiers) = N
    BY <2>1, NAssumption
  <2>3. Notifiers = Nodes
    BY <2>2, NodesFinite, FS_Subset DEF Notifiers
  <2>4. ASSUME NEW w \in Nodes PROVE sync[w] = 0
    <3>1. Posted(w) = Preds(w) /\ Taken(w) = Preds(w)
      BY <2>3 DEF Notifiers, Posted, Taken, Preds
    <3>2. Cardinality(Posted(w)) \in Nat
      BY CountsFinite
    <3> QED
      BY <3>1, <3>2 DEF Tokens
  <2> QED
    BY <2>2, <2>4
<1> QED
  BY AlwaysOrdered, <1>1, <1>2, <1>3, PTL DEF Spec

-----------------------------------------------------------------------------
(* The team implements the abstract listing                                *)

\* A sequence given as a function on 1 .. n, and what appending to it gives.
LEMMA WrittenSeq ==
  ASSUME NEW n \in Nat, NEW f, \A i \in 0 .. n - 1 : f[i] \in Nodes
  PROVE  /\ [k \in 1 .. n |-> f[k - 1]] \in Seq(Nodes)
         /\ Len([k \in 1 .. n |-> f[k - 1]]) = n
<1>1. \A k \in 1 .. n : k - 1 \in 0 .. n - 1
  OBVIOUS
<1>2. [k \in 1 .. n |-> f[k - 1]] \in [1 .. n -> Nodes]
  BY <1>1
<1>3. [k \in 1 .. n |-> f[k - 1]] \in Seq(Nodes)
  BY <1>2, SeqDef
<1> QED
  BY <1>3, LenProperties

LEMMA WrittenAppend ==
  ASSUME NEW n \in Nat, NEW f, \A i \in 0 .. n : f[i] \in Nodes
  PROVE  [k \in 1 .. n + 1 |-> f[k - 1]] = Append([k \in 1 .. n |-> f[k - 1]], f[n])
<1> DEFINE s == [k \in 1 .. n |-> f[k - 1]]
           t == [k \in 1 .. n + 1 |-> f[k - 1]]
<1>1. s \in Seq(Nodes) /\ Len(s) = n
  BY WrittenSeq
<1>2. t \in Seq(Nodes) /\ Len(t) = n + 1
  BY WrittenSeq
<1>3. f[n] \in Nodes
  OBVIOUS
<1> HIDE DEF s
<1>4. /\ Append(s, f[n]) \in Seq(Nodes) /\ Len(Append(s, f[n])) = n + 1
      /\ \A k \in 1 .. n + 1 : Append(s, f[n])[k] = IF k <= n THEN s[k] ELSE f[n]
  BY <1>1, <1>3, AppendProperties
<1>5. \A k \in 1 .. n + 1 : t[k] = Append(s, f[n])[k]
  BY <1>1, <1>4 DEF s
<1> HIDE DEF t
<1> QED
  BY <1>2, <1>4, <1>5, SeqEqual DEF s, t

\* What Listing!Spec says of states and steps, without its fairness.
ListsInOrder == Listing!Init /\ [][Listing!Next]_(Listing!vars)

LEMMA ListingStep ==
  ASSUME ~EarlyStart, IInv, Ordered, [Next]_vars
  PROVE  [Listing!Next]_(Listing!vars)
<1> DEFINE s == [k \in 1 .. idx |-> T[k - 1]]
<1>1. idx \in 0 .. N /\ T \in [Nodes -> Nodes]
  BY NodesFinite DEF IInv, Types, Listed, Wrote
<1>2. \A i \in 0 .. idx - 1 : i \in Nodes /\ T[i] \in Nodes
  BY <1>1, NAssumption DEF Nodes
<1>3. CASE idx' = idx /\ graph' = graph /\ \A k \in 0 .. idx - 1 : T'[k] = T[k]
  <2>1. \A k \in 1 .. idx : T'[k - 1] = T[k - 1]
    BY <1>1, <1>3
  <2>2. [k \in 1 .. idx' |-> T'[k - 1]] = s
    BY <1>3, <2>1
  <2> QED
    BY <1>3, <2>2 DEF Listing!vars
<1>4. ASSUME NEW w \in Nodes, IncrIdx(w), graph' = graph, T' = T, idx' = idx + 1,
             T[idx] = w, w \notin Wrote
      PROVE  Listing!List(w)
  <2>1. Len(s) = idx
    BY <1>1, <1>2, WrittenSeq
  <2>2. \A x : x \in Listing!Listed <=> \E i \in 0 .. idx - 1 : T[i] = x
    <3>1. \A x : x \in Listing!Listed <=> \E k \in 1 .. idx : T[k - 1] = x
      BY <2>1 DEF Listing!Listed
    <3>2. \A k \in 1 .. idx : k - 1 \in 0 .. idx - 1
      BY <1>1
    <3>3. \A i \in 0 .. idx - 1 : i + 1 \in 1 .. idx /\ (i + 1) - 1 = i
      BY <1>1
    <3> QED
      BY <3>1, <3>2, <3>3
  <2>3. w \notin Listing!Listed
    BY <1>4, <2>2 DEF Ordered
  <2>4. \A p \in Nodes : <<p, w>> \in graph /\ p # w => p \in Listing!Listed
    BY <1>4, <2>2, InOrder DEF IncrIdx, Goto, ListedInOrder
  <2>5. [k \in 1 .. idx' |-> T'[k - 1]] = Append(s, w)
    <3>1. \A i \in 0 .. idx : T[i] \in Nodes
      BY <1>1, <1>2, <1>4
    <3>2. [k \in 1 .. idx + 1 |-> T[k - 1]] = Append(s, T[idx])
      BY <1>1, <3>1, WrittenAppend
    <3> QED
      BY <1>4, <3>2
  <2> QED
    BY <1>4, <2>3, <2>4, <2>5 DEF Listing!List
<1> QED
  BY <1>3, <1>4, ListingMoves DEF Listing!Next

\* The workers list the nodes of the graph as the abstract team does: once each,
\* one at a time, each after its predecessors.  (That they list all of them, which
\* ImplementsListing adds, needs fairness.)
THEOREM ListingImplemented == ASSUME ~EarlyStart PROVE Spec => ListsInOrder
<1>1. Init => Listing!Init
  <2> SUFFICES ASSUME Init PROVE Listing!Init
    OBVIOUS
  <2>1. graph \in SUBSET (Nodes \X Nodes)
    BY GraphsAssumption DEF Init
  <2>2. [k \in 1 .. idx |-> T[k - 1]] = << >>
    <3>1. [k \in 1 .. idx |-> T[k - 1]] \in Seq(Nodes)
          /\ Len([k \in 1 .. idx |-> T[k - 1]]) = 0
      BY WrittenSeq DEF Init
    <3> QED
      BY <3>1, EmptySeq
  <2> QED
    BY <2>1, <2>2 DEF Listing!Init
<1>2. IInv /\ Ordered /\ [Next]_vars => [Listing!Next]_(Listing!vars)
  BY ListingStep
<1> QED
  BY AlwaysOrdered, <1>1, <1>2, PTL DEF Spec, ListsInOrder

=============================================================================
