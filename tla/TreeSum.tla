------------------------------ MODULE TreeSum -------------------------------
(***************************************************************************)
(* The tree sum of Assignment_07 (computesum.c), composed with the calls   *)
(* of the foothread library it makes.  A thread for each node of a tree    *)
(* waits at a barrier of its own for its children, adds up their sums and  *)
(* goes to the barrier of its parent; the leader creates the threads,      *)
(* joins them with foothread_exit and prints the sum of the root.          *)
(*                                                                         *)
(* Every call of the library writes the two sembufs pop and vop that all   *)
(* threads share, and semop reads them when it is called.  A thread is the *)
(* sequence of the steps its calls consist of; each kind of step is an     *)
(* action.  The table of threads is the set of the nodes entered in it.    *)
(***************************************************************************)
EXTENDS Integers, Sequences, FiniteSetsExt

CONSTANTS
    num_nodes,
    Parent,         \* node -> its parent, -1 for the root
    Value           \* node -> the value read for it; 0 unless it is a leaf

Nodes == 0..num_nodes - 1

\* The input file is that of a tree: one root, and all nodes below it.
TreeAssumption ==
    /\ num_nodes \in Nat \ {0} /\ Value \in [Nodes -> Int]
    /\ \A k \in Nodes : Parent[k] \in -1..num_nodes - 1
    /\ Cardinality({k \in Nodes : Parent[k] = -1}) = 1
    /\ \E height \in [Nodes -> Nodes] :
          \A k \in Nodes : Parent[k] # -1 => height[k] < height[Parent[k]]

Leader == num_nodes
Tids == 0..num_nodes
Root == CHOOSE k \in Nodes : Parent[k] = -1
Children(k) == {c \in Nodes : Parent[c] = k}

\* The semaphores: the one of a barrier is its node, and these.
Table == -1         \* mutex_semaphore of the library
Joined == -2        \* the one of the leader's entry in the table
Mutex == -3         \* the program's mutex
Arrival == -4       \* mutex_semaphore of all barriers
Semaphores == Nodes \cup {Table, Joined, Mutex, Arrival}

-----------------------------------------------------------------------------
(* The calls, as sequences of steps                                        *)

Step(op, what) == [op |-> op, what |-> what]

Lock == <<Step("reset", 0), Step("P", Mutex), Step("own", 0), Step("lock", 0)>>
Unlock ==
    <<Step("reset", 0), Step("check", 0), Step("status", 0), Step("V", Mutex),
      Step("disown", 0), Step("free", 0)>>

\* foothread_barrier_wait: all but the last arriver skip three steps.
Await(b) ==
    <<Step("reset", 0), Step("P", Arrival), Step("load", b), Step("store", b),
      Step("test", b), Step("V", Arrival),
      Step("count", b), Step("post", b), Step("zero", b),
      Step("P", b)>>

Create(k) ==
    <<Step("reset", 0), Step("P", Table), Step("clone", k), Step("enter", k), Step("V", Table)>>

\* foothread_exit in a node, whose entry is found, and in the leader.
NodeExit ==
    <<Step("reset", 0), Step("P", Table), Step("signal", 0), Step("V", Table),
      Step("pop", -1), Step("P", Table), Step("V", Table)>>

LeaderExit ==
    <<Step("reset", 0), Step("P", Table), Step("V", Table),
      Step("pop", -num_nodes), Step("P", Joined),
      Step("pop", -1), Step("P", Table), Step("clear", 0), Step("V", Table)>>

\* What a node does for its own sum: it waits for its children, if it has any.
SumUp(k) ==
    IF Children(k) = {} THEN <<Step("leaf", k)>>
    ELSE Await(k) \o Lock \o <<Step("add", k)>> \o Unlock

NodeThread(k) ==
    SumUp(k)
    \o (IF k = Root THEN <<>> ELSE Await(Parent[k]))
    \o (IF Children(k) = {} THEN <<>> ELSE Lock \o Unlock)
    \o NodeExit

\* main creates the threads of the nodes one after the other.
Creation == [i \in 1..5 * num_nodes |->
                LET k == (i - 1) \div 5 IN Create(k)[i - 5 * k]]

Main == Creation \o LeaderExit \o Lock \o <<Step("print", Root)>> \o Unlock

Code == [t \in Tids |-> IF t = Leader THEN Main ELSE NodeThread(t)]

-----------------------------------------------------------------------------

VARIABLES
    pop, vop,       \* sem_op of the two shared sembufs
    sem,            \* semaphore -> its value
    owner, status,  \* mutex.tid and mutex.status
    reached,        \* node -> reached of its barrier
    entered,        \* the nodes in the table
    sum,            \* node -> its sum
    at,             \* thread -> the next step of its code; 0 before it starts
    want,           \* thread -> the sembuf it sleeps with, or 0
    reg,            \* thread -> what it has loaded
    ended,          \* the process: FALSE, "error" or "returned"
    mixed,          \* history: a semop has used what another thread had stored
    printed         \* history: the sum that has been printed, or -1

library == <<pop, vop, sem, owner, status, reached, entered>>
vars == <<library, sum, at, want, reg, ended, mixed, printed>>

Init ==
    /\ pop = 0 /\ vop = 0 /\ owner = -1 /\ status = 0
    /\ sem = [s \in Semaphores |-> IF s \in {Table, Mutex, Arrival} THEN 1 ELSE 0]
    /\ reached = [k \in Nodes |-> 0] /\ entered = {}
    /\ sum = [k \in Nodes |-> 0]
    /\ at = [t \in Tids |-> IF t = Leader THEN 1 ELSE 0]
    /\ want = [t \in Tids |-> 0] /\ reg = [t \in Tids |-> 0]
    /\ ended = "not" /\ mixed = FALSE /\ printed = -1

Now(t) == Code[t][at[t]]
Does(t, op) ==
    LET code == Code[t]
    IN  ended = "not" /\ want[t] = 0 /\ at[t] \in 1..Len(code) /\ code[at[t]].op = op
Skip(t, n) == at' = [at EXCEPT ![t] = @ + 1 + n]

Reset(t) ==
    /\ Does(t, "reset") /\ Skip(t, 0)
    /\ pop' = -1 /\ vop' = 1
    /\ UNCHANGED <<sem, owner, status, reached, entered, sum, want, reg, ended, mixed, printed>>

SetPop(t) ==
    /\ Does(t, "pop") /\ Skip(t, 0)
    /\ pop' = Now(t).what
    /\ UNCHANGED <<vop, sem, owner, status, reached, entered, sum, want, reg, ended, mixed, printed>>

\* What the thread itself has put into pop for this semop.
Meant(t) == IF t = Leader /\ Now(t).what = Joined THEN -num_nodes ELSE -1

\* wait(s): semop copies pop, and sleeps with the copy if it has to.
Down(t) ==
    /\ Does(t, "P")
    /\ mixed' = (mixed \/ pop # Meant(t))
    /\ IF sem[Now(t).what] + pop >= 0
       THEN Skip(t, 0) /\ sem' = [sem EXCEPT ![Now(t).what] = @ + pop] /\ UNCHANGED want
       ELSE want' = [want EXCEPT ![t] = pop] /\ UNCHANGED <<at, sem>>
    /\ UNCHANGED <<pop, vop, owner, status, reached, entered, sum, reg, ended, printed>>

Wake(t) ==
    /\ ended = "not" /\ want[t] # 0 /\ sem[Now(t).what] + want[t] >= 0
    /\ Skip(t, 0) /\ sem' = [sem EXCEPT ![Now(t).what] = @ + want[t]]
    /\ want' = [want EXCEPT ![t] = 0]
    /\ UNCHANGED <<pop, vop, owner, status, reached, entered, sum, reg, ended, mixed, printed>>

\* signal(s)
Raise(s, meant) ==
    /\ sem' = [sem EXCEPT ![s] = @ + vop]
    /\ mixed' = (mixed \/ vop # meant)

Up(t) ==
    /\ Does(t, "V") /\ Skip(t, 0) /\ Raise(Now(t).what, 1)
    /\ UNCHANGED <<pop, vop, owner, status, reached, entered, sum, want, reg, ended, printed>>

\* foothread_exit signals the leader if it finds its own entry in the table.
SignalLeader(t) ==
    /\ Does(t, "signal") /\ Skip(t, 0)
    /\ IF t \in entered THEN Raise(Joined, 1) ELSE UNCHANGED <<sem, mixed>>
    /\ UNCHANGED <<pop, vop, owner, status, reached, entered, sum, want, reg, ended, printed>>

-----------------------------------------------------------------------------
(* The mutex                                                               *)

Own(t) ==
    /\ Does(t, "own") /\ Skip(t, 0) /\ owner' = t
    /\ UNCHANGED <<pop, vop, sem, status, reached, entered, sum, want, reg, ended, mixed, printed>>

SetStatus(t) ==
    /\ Does(t, "lock") /\ Skip(t, 0) /\ status' = 1
    /\ UNCHANGED <<pop, vop, sem, owner, reached, entered, sum, want, reg, ended, mixed, printed>>

\* An unlock by another thread than the owner ends the whole process ...
CheckOwner(t) ==
    /\ Does(t, "check") /\ Skip(t, 0)
    /\ ended' = IF owner = t THEN ended ELSE "error"
    /\ UNCHANGED <<library, sum, want, reg, mixed, printed>>

\* ... and so does one of a mutex that is not locked.
CheckStatus(t) ==
    /\ Does(t, "status") /\ Skip(t, 0)
    /\ ended' = IF status = 0 THEN "error" ELSE ended
    /\ UNCHANGED <<library, sum, want, reg, mixed, printed>>

Disown(t) ==
    /\ Does(t, "disown") /\ Skip(t, 0) /\ owner' = -1
    /\ UNCHANGED <<pop, vop, sem, status, reached, entered, sum, want, reg, ended, mixed, printed>>

ClearStatus(t) ==
    /\ Does(t, "free") /\ Skip(t, 0) /\ status' = 0
    /\ UNCHANGED <<pop, vop, sem, owner, reached, entered, sum, want, reg, ended, mixed, printed>>

-----------------------------------------------------------------------------
(* The barriers                                                            *)

Load(t) ==
    /\ Does(t, "load") /\ Skip(t, 0)
    /\ reg' = [reg EXCEPT ![t] = reached[Now(t).what]]
    /\ UNCHANGED <<library, sum, want, ended, mixed, printed>>

Store(t) ==
    /\ Does(t, "store") /\ Skip(t, 0)
    /\ reached' = [reached EXCEPT ![Now(t).what] = reg[t] + 1]
    /\ UNCHANGED <<pop, vop, sem, owner, status, entered, sum, want, reg, ended, mixed, printed>>

\* Mutant: a barrier does not wait for its own node.
BarrierCount_Children(k) == Cardinality(Children(k))

\* Mutant: a barrier waits for one thread too many.
BarrierCount_OneMore(k) == 2 + Cardinality(Children(k))

\* A barrier is initialised for the children of its node and the node.
BarrierCount(k) == 1 + Cardinality(Children(k))

\* The last arriver keeps the count in reg, the others 0.
Test(t) ==
    /\ Does(t, "test") /\ Skip(t, 0)
    /\ reg' = [reg EXCEPT ![t] = IF reached[Now(t).what] = BarrierCount(Now(t).what)
                                 THEN BarrierCount(Now(t).what) ELSE 0]
    /\ UNCHANGED <<library, sum, want, ended, mixed, printed>>

SetCount(t) ==
    /\ Does(t, "count")
    /\ IF reg[t] = 0 THEN Skip(t, 2) /\ UNCHANGED vop ELSE Skip(t, 0) /\ vop' = reg[t]
    /\ UNCHANGED <<pop, sem, owner, status, reached, entered, sum, want, reg, ended, mixed, printed>>

Post(t) ==
    /\ Does(t, "post") /\ Skip(t, 0) /\ Raise(Now(t).what, reg[t])
    /\ UNCHANGED <<pop, vop, owner, status, reached, entered, sum, want, reg, ended, printed>>

Zero(t) ==
    /\ Does(t, "zero") /\ Skip(t, 0)
    /\ reached' = [reached EXCEPT ![Now(t).what] = 0]
    /\ UNCHANGED <<pop, vop, sem, owner, status, entered, sum, want, reg, ended, mixed, printed>>

-----------------------------------------------------------------------------
(* The threads and their sums                                              *)

Clone(t) ==
    /\ Does(t, "clone") /\ at' = [at EXCEPT ![t] = @ + 1, ![Now(t).what] = 1]
    /\ UNCHANGED <<library, sum, want, reg, ended, mixed, printed>>

Enter(t) ==
    /\ Does(t, "enter") /\ Skip(t, 0) /\ entered' = entered \cup {Now(t).what}
    /\ UNCHANGED <<pop, vop, sem, owner, status, reached, sum, want, reg, ended, mixed, printed>>

Clear(t) ==
    /\ Does(t, "clear") /\ Skip(t, 0) /\ entered' = {}
    /\ UNCHANGED <<pop, vop, sem, owner, status, reached, sum, want, reg, ended, mixed, printed>>

Leaf(t) ==
    /\ Does(t, "leaf") /\ Skip(t, 0) /\ sum' = [sum EXCEPT ![t] = Value[t]]
    /\ UNCHANGED <<library, want, reg, ended, mixed, printed>>

\* The loop over the children is one step: their sums no longer change when their parent
\* is past its barrier (SumsRight), and nobody reads its own before it has gone on to the
\* barrier above.
AddUp(t) ==
    /\ Does(t, "add") /\ Skip(t, 0)
    /\ sum' = [sum EXCEPT ![t] = Value[t] + MapThenSumSet(LAMBDA c : sum[c], Children(t))]
    /\ UNCHANGED <<library, want, reg, ended, mixed, printed>>

PrintTotal(t) ==
    /\ Does(t, "print") /\ Skip(t, 0) /\ printed' = sum[Root]
    /\ UNCHANGED <<library, sum, want, reg, ended, mixed>>

\* cleanup, and the end of main, which ends all threads.
Return ==
    /\ ended = "not" /\ at[Leader] > Len(Main) /\ ended' = "returned"
    /\ UNCHANGED <<library, sum, at, want, reg, mixed, printed>>

-----------------------------------------------------------------------------

Thread(t) ==
    \/ Reset(t) \/ SetPop(t) \/ Down(t) \/ Wake(t) \/ Up(t) \/ SignalLeader(t)
    \/ Own(t) \/ SetStatus(t) \/ CheckOwner(t) \/ CheckStatus(t) \/ Disown(t) \/ ClearStatus(t)
    \/ Load(t) \/ Store(t) \/ Test(t) \/ SetCount(t) \/ Post(t) \/ Zero(t)
    \/ Clone(t) \/ Enter(t) \/ Clear(t) \/ Leaf(t) \/ AddUp(t) \/ PrintTotal(t)

Next == Return \/ \E t \in Tids : Thread(t)

Spec == Init /\ [][Next]_vars

-----------------------------------------------------------------------------
(* Properties                                                              *)

Total[k \in Nodes] ==
    Value[k] + MapThenSumSet(LAMBDA c : Total[c], Children(k))

\* computesum.c:72, "Print total sum at root node": what is printed is the sum of
\* the tree.
PrintedRight == printed \in {-1, Total[Root]}

\* A node that is past its own sum, and above all one whose sum its parent may
\* read, has the sum of its subtree, whatever is in the shared sembufs: they can
\* make a barrier too strict, but never open it early (line 104).  And as long as
\* no semop has used a number that was meant for another, main prints the sum of
\* the tree: foothread_exit has waited for all nodes (line 66).
SumsRight ==
    /\ pop \in {0, -1, -num_nodes} /\ vop \in {0, 1} \cup {BarrierCount(k) : k \in Nodes}
    /\ \A k \in Nodes :
          sum[k] # 0 => sum[k] = Total[k]
    /\ \A k \in Nodes : at[k] > 0 =>
          \A i \in 1..at[k] - 1 : Code[k][i].op \in {"leaf", "add"} => sum[k] = Total[k]
    /\ ~mixed => PrintedRight

\* Unless a semop has used a number that was meant for another, the program comes
\* to its end.
Ended == ended # "not" \/ mixed

=============================================================================
