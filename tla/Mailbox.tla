------------------------------ MODULE Mailbox -------------------------------
(***************************************************************************)
(* The producer and consumers of Assignment_04 (prodcons.c).  They share   *)
(* two words: M0 names the consumer an item is for, and M1 is the item.    *)
(* Everybody polls M0.  The producer stores M0 before M1 (and sleeps in    *)
(* between when built with SLEEP), so the two words are separate steps     *)
(* here.  Items are numbered in the order they are produced; 0 is what the *)
(* segment holds at first.  The loads and stores are those of the source:  *)
(* no compiler moves them or takes the polling loops apart.                *)
(***************************************************************************)
EXTENDS Naturals

CONSTANTS
    n,              \* consumers
    t               \* items

MailboxAssumption == n \in Nat \ {0} /\ t \in Nat \ {0}

Consumers == 1..n
Nobody == 0
Stop == n + 1       \* -1 in the source

VARIABLES
    M0, M1,
    producer,       \* its place
    i,              \* items produced, the one in hand included
    c,              \* the consumer of the item in hand
    forked,         \* consumers that are forked
    num_items,      \* consumer -> items meant for it
    consumer,       \* consumer -> its place
    count,          \* consumer -> items it has read
    item            \* consumer -> the item it has read last

mine == <<producer, i, c, forked, num_items>>
theirs == <<consumer, count, item>>
vars == <<M0, M1, mine, theirs>>

Init ==
    /\ M0 = Nobody /\ M1 = 0
    /\ producer = "fork" /\ i = 0 /\ c = Nobody /\ forked = 0
    /\ num_items = [k \in Consumers |-> 0]
    /\ consumer = [k \in Consumers |-> "unborn"]
    /\ count = [k \in Consumers |-> 0] /\ item = [k \in Consumers |-> 0]

Goto(from, to) == producer = from /\ producer' = to

\* A fork that fails ends the producer; the consumers go on polling.
Fork ==
    /\ forked < n
    /\ \/ /\ Goto("fork", IF forked + 1 = n THEN "clear" ELSE "fork")
          /\ forked' = forked + 1
          /\ consumer' = [consumer EXCEPT ![forked + 1] = "poll"]
       \/ Goto("fork", "failed") /\ UNCHANGED <<forked, consumer>>
    /\ UNCHANGED <<M0, M1, i, c, num_items, count, item>>

Clear ==
    /\ Goto("clear", "poll") /\ M0' = Nobody
    /\ UNCHANGED <<M1, i, c, forked, num_items, theirs>>

\* Mutant: the producer does not wait for M0 to become 0.
Notify_AtOnce ==
    /\ i < t
    /\ Goto("poll", "item")
    /\ i' = i + 1
    /\ \E k \in Consumers : c' = k /\ M0' = k
    /\ UNCHANGED <<M1, forked, num_items, theirs>>

\* One turn of the loop up to the store of M[0].
Notify ==
    /\ i < t /\ M0 = Nobody
    /\ Goto("poll", "item")
    /\ i' = i + 1
    /\ \E k \in Consumers : c' = k /\ M0' = k
    /\ UNCHANGED <<M1, forked, num_items, theirs>>

StoreItem ==
    /\ Goto("item", "poll")
    /\ M1' = i /\ num_items' = [num_items EXCEPT ![c] = @ + 1]
    /\ UNCHANGED <<M0, i, c, forked, theirs>>

Announce ==
    /\ i = t /\ M0 = Nobody
    /\ Goto("poll", "wait") /\ M0' = Stop
    /\ UNCHANGED <<M1, i, c, forked, num_items, theirs>>

WaitAll ==
    /\ Goto("wait", "over") /\ \A k \in Consumers : consumer[k] = "over"
    /\ UNCHANGED <<M0, M1, i, c, forked, num_items, theirs>>

-----------------------------------------------------------------------------

Move(k, from, to) == consumer[k] = from /\ consumer' = [consumer EXCEPT ![k] = to]

\* M[0] is looked at, and looked at again, until it is i or -1.
Notice(k) ==
    /\ M0 \in {k, Stop}
    /\ Move(k, "poll", IF M0 = k THEN "read" ELSE "over")
    /\ UNCHANGED <<M0, M1, mine, count, item>>

Read(k) ==
    /\ Move(k, "read", "answer")
    /\ item' = [item EXCEPT ![k] = M1] /\ count' = [count EXCEPT ![k] = @ + 1]
    /\ UNCHANGED <<M0, M1, mine>>

\* No item is -1, so that the second look at M[1] (line 65) finds nothing.
Answer(k) ==
    /\ Move(k, "answer", "poll") /\ M0' = Nobody
    /\ UNCHANGED <<M1, mine, count, item>>

-----------------------------------------------------------------------------

Producer == Fork \/ Clear \/ Notify \/ StoreItem \/ Announce \/ WaitAll
Consumer(k) == Notice(k) \/ Read(k) \/ Answer(k)

Next == Producer \/ \E k \in Consumers : Consumer(k)

Spec == Init /\ [][Next]_vars

-----------------------------------------------------------------------------
(* Properties                                                              *)

TypeOK ==
    /\ M0 \in 0..n + 1 /\ M1 \in 0..t
    /\ producer \in {"fork", "clear", "poll", "item", "wait", "over", "failed"}
    /\ i \in 0..t /\ c \in 0..n /\ forked \in 0..n
    /\ num_items \in [Consumers -> 0..t]
    /\ consumer \in [Consumers -> {"unborn", "poll", "read", "answer", "over"}]
    /\ count \in [Consumers -> 0..t] /\ item \in [Consumers -> 0..t]

\* A consumer that has an item in hand has that one or the one produced before
\* (when it was faster than the store of M[1]), never an older or a newer one;
\* it is the only one; and those that have stopped have read as often as they
\* were told to, though their checksums may differ.
CountsRight ==
    /\ TypeOK
    /\ \A k \in Consumers :
          /\ consumer[k] = "answer" => item[k] \in {i - 1, i}
          /\ consumer[k] \in {"read", "answer"} => M0 = k
          /\ consumer[k] = "over" => count[k] = num_items[k] /\ i = t

\* Unless a fork fails everybody comes to an end.
Ended == producer \in {"over", "failed"}

=============================================================================
