--------------------------- MODULE BoundedBuffer ----------------------------
(***************************************************************************)
(* pthread/producer_consumer.c: a producer and a consumer thread, a buffer *)
(* that is used as a stack, one mutex, and one condition variable (full)   *)
(* for both the producer, who waits for room, and the consumer, who waits  *)
(* for items.  A wait may return without a signal.                         *)
(***************************************************************************)
EXTENDS Naturals, Sequences

CONSTANTS
    BUFFER_SIZE,
    ITEMS,          \* turns of each thread's loop; 10 in the source
    MAX_SPURIOUS    \* bound: waits that return without a signal

BufferAssumption ==
    BUFFER_SIZE \in Nat \ {0} /\ ITEMS \in Nat \ {0} /\ MAX_SPURIOUS \in Nat

Sides == {"producer", "consumer"}

VARIABLES
    main,           \* "create" the threads, "join" them, "over"
    buffer, count,
    i,              \* thread -> turns of its loop
    at,             \* thread -> its place; in "test" to "unlock" it has the mutex
    consumed,       \* history: what the consumer has printed
    spurious        \* history: waits that have returned without a signal

data == <<buffer, count, consumed>>
vars == <<main, data, i, at, spurious>>

Locked == {"test", "use", "signal", "unlock"}

Init ==
    /\ main = "create" /\ count = 0 /\ consumed = <<>>
    /\ buffer = [k \in 0..BUFFER_SIZE - 1 |-> 0]
    /\ i = [t \in Sides |-> 0] /\ at = [t \in Sides |-> "unborn"]
    /\ spurious = 0

Move(t, from, to) == at[t] = from /\ at' = [at EXCEPT ![t] = to]

Create ==
    /\ main = "create" /\ main' = "join"
    /\ at' = [t \in Sides |-> "lock"]
    /\ UNCHANGED <<data, i, spurious>>

Join ==
    /\ main = "join" /\ main' = "over" /\ \A t \in Sides : at[t] = "over"
    /\ UNCHANGED <<data, i, at, spurious>>

\* Also the end of a wait that was signalled: the thread has the mutex again.
Lock(t) ==
    /\ \A u \in Sides : at[u] \notin Locked
    /\ Move(t, "lock", "test")
    /\ UNCHANGED <<main, data, i, spurious>>

\* Mutant: the producer waits too late, when more is in the buffer than it has places.
MustWait_OneLeft(t) == IF t = "producer" THEN count > BUFFER_SIZE ELSE count = 0

MustWait(t) == IF t = "producer" THEN count = BUFFER_SIZE ELSE count = 0

Test(t) ==
    /\ IF MustWait(t) THEN Move(t, "test", "waiting") ELSE Move(t, "test", "use")
    /\ UNCHANGED <<main, data, i, spurious>>

\* A wait that returns by itself.
Spurious(t) ==
    /\ Move(t, "waiting", "lock")
    /\ spurious < MAX_SPURIOUS /\ spurious' = spurious + 1
    /\ UNCHANGED <<main, data, i>>

Produce ==
    /\ Move("producer", "use", "signal")
    /\ buffer' = [buffer EXCEPT ![count] = i["producer"]]
    /\ count' = count + 1
    /\ UNCHANGED <<main, consumed, i, spurious>>

Consume ==
    /\ Move("consumer", "use", "signal")
    /\ count' = count - 1
    /\ consumed' = Append(consumed, buffer[count - 1])
    /\ UNCHANGED <<main, buffer, i, spurious>>

\* pthread_cond_signal(&full) wakes the other one, if it waits.
Signal(t) ==
    /\ at[t] = "signal"
    /\ at' = [u \in Sides |-> IF u = t THEN "unlock"
                                ELSE IF at[u] = "waiting" THEN "lock" ELSE at[u]]
    /\ UNCHANGED <<main, data, i, spurious>>

Unlock(t) ==
    /\ Move(t, "unlock", IF i[t] + 1 = ITEMS THEN "over" ELSE "lock")
    /\ i' = [i EXCEPT ![t] = @ + 1]
    /\ UNCHANGED <<main, data, spurious>>

System ==
    \/ Create \/ Join \/ Produce \/ Consume
    \/ \E t \in Sides : Lock(t) \/ Test(t) \/ Signal(t) \/ Unlock(t)

Next == System \/ \E t \in Sides : Spurious(t)

Spec == Init /\ [][Next]_vars

-----------------------------------------------------------------------------
(* Properties                                                              *)

TypeOK ==
    /\ main \in {"create", "join", "over"} /\ count \in 0..BUFFER_SIZE
    /\ buffer \in [0..BUFFER_SIZE - 1 -> 0..ITEMS] /\ i \in [Sides -> 0..ITEMS]
    /\ spurious \in 0..MAX_SPURIOUS
    /\ at \in [Sides -> {"unborn", "lock", "waiting", "over"} \cup Locked]
    /\ \A k \in DOMAIN consumed : consumed[k] \in 0..ITEMS

\* Each item is either in the buffer or has been consumed, once; and though both
\* wait on the same condition variable, they never both wait (line 18, 34).
EachItemOnce ==
    LET held == {buffer[k] : k \in 0..count - 1}
        gone == {consumed[k] : k \in DOMAIN consumed}
        made == i["producer"] + IF at["producer"] \in {"signal", "unlock"} THEN 1 ELSE 0
    IN  /\ TypeOK
        /\ held \cup gone = 0..made - 1 /\ count + Len(consumed) = made
        /\ \E t \in Sides : at[t] # "waiting"

\* Both threads come to an end.
Ended == main = "over"

=============================================================================
